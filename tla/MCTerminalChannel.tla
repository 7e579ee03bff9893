-------------------------- MODULE MCTerminalChannel --------------------------
(* Instances of TerminalChannel for TLC.                                   *)
EXTENDS TerminalChannel
=============================================================================
