------------------------------ MODULE MCScreen ------------------------------
(* Three rows of two columns, each cell with a text of its own.            *)
EXTENDS Screen

MCSizes == {<<2, 3>>, <<3, 2>>}
MCFirst == <<2, 3>>
MCText == [i \in 0..2 |-> [j \in 0..1 |->
              (<<"a", "b", "c", "d", "e", "f">>)[2 * i + j + 1]]]

\* An int of four bits, in which numbers wrap around.
MCOverflowed(n) == ((n + 8) % 16) - 8
=============================================================================
