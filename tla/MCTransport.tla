----------------------------- MODULE MCTransport -----------------------------
(* The transport session on small instances, for TLC. *)
EXTENDS Transport
=============================================================================
