-------------------------- MODULE MCEmtaskSession --------------------------
(***************************************************************************)
(* Small instances of EmtaskSession for TLC.                               *)
(***************************************************************************)
EXTENDS EmtaskSession
=============================================================================
