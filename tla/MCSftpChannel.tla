---------------------------- MODULE MCSftpChannel ----------------------------
(* Instances of SftpChannel for TLC. *)
EXTENDS SftpChannel
=============================================================================
