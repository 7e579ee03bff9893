---------------------------- MODULE MCSftpServer ----------------------------
(* Instances of SftpServer for TLC.                                        *)
EXTENDS SftpServer, TLC

\* Reading, updating or creating, creating exclusively with APPEND, and truncating;
\* and one that open_pflags_are_valid refuses.
MCOpenModes ==
    {{"READ"}, {"READ", "WRITE", "CREAT"}, {"WRITE", "CREAT", "EXCL", "APPEND"},
     {"WRITE", "TRUNC"}, {"READ", "TRUNC"}}
Symmetric == Permutations(Names) \cup Permutations(Tags)
=============================================================================
