------------------------------- MODULE Stream -------------------------------
(***************************************************************************)
(* What a channel promises about the bytes it carries in one direction: a  *)
(* writer produces them, the reader grants credit, the channel delivers    *)
(* them in order within that credit, and nothing is delivered once the     *)
(* channel has been closed.  Bytes are positions: delivered = k says that  *)
(* exactly the first k bytes have been handed over.                        *)
(***************************************************************************)
EXTENDS Integers

VARIABLES produced, delivered, granted, closed

streamVars == <<produced, delivered, granted, closed>>

Init == produced = 0 /\ delivered = 0 /\ granted \in Nat /\ closed = FALSE

Produce ==
    /\ produced' \in Nat /\ produced' > produced
    /\ UNCHANGED <<delivered, granted, closed>>

Grant ==
    /\ granted' \in Nat /\ granted' > granted
    /\ UNCHANGED <<produced, delivered, closed>>

Deliver ==
    /\ ~closed
    /\ delivered' > delivered
    /\ delivered' <= produced /\ delivered' <= granted
    /\ UNCHANGED <<produced, granted, closed>>

Close == ~closed /\ closed' = TRUE /\ UNCHANGED <<produced, delivered, granted>>

Next == Produce \/ Grant \/ Deliver \/ Close
Spec == Init /\ [][Next]_streamVars
=============================================================================
