--------------------------- MODULE MCEmtaskPanel ---------------------------
EXTENDS EmtaskPanel

\* A task a of the database that may be changed as it is or to the port of b, and
\* a task b of the configuration file with two addresses, the first of which
\* another program may hold.
A(port) == [name |-> "a", port |-> port, addrs |-> <<"x">>]
B(port) == [name |-> "b", port |-> port, addrs |-> <<"x", "y">>]
MCConfigs == {A(1), A(2), B(2)}
MCStored == {A(1)}
MCStaticB == {B(2)}
MCContested == {<<2, "x">>}
=============================================================================
