------------------------------ MODULE MCSession ------------------------------
(* Instances of Session for TLC.                                           *)
EXTENDS Session

\* One view is longer than the C string it is read as.
MCCString == [v \in Views |-> IF v = "root+" THEN Root ELSE v]

\* The configurations: every session function with the platform it needs, the
\* automatic one also without a terminal or a file system; three root policies;
\* an account of each kind.
Accounts == [passwd |-> [u \in Users |-> IF u = Root THEN "mark" ELSE "hash"],
             shadow |-> [u \in Users |-> IF u = Root THEN "hash" ELSE "absent"]]
Base == [run |-> "auto", fs |-> TRUE, term |-> TRUE, root |-> "prohibit-password",
         allow |-> Views, password |-> TRUE, publickey |-> TRUE,
         passwd |-> Accounts.passwd, shadow |-> Accounts.shadow]
MCConfigs ==
    {Base,
     [Base EXCEPT !.root = "yes", !.fs = FALSE],
     [Base EXCEPT !.root = "no", !.term = FALSE, !.allow = Views \ {"alice"}],
     [Base EXCEPT !.run = "sftp", !.password = FALSE],
     [Base EXCEPT !.run = "sftp", !.fs = FALSE, !.publickey = FALSE],
     [Base EXCEPT !.run = "terminal", !.shadow[Root] = "mark", !.root = "yes"],
     [Base EXCEPT !.run = "terminal", !.term = FALSE]}
=============================================================================
