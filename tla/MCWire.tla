------------------------------- MODULE MCWire -------------------------------
(***************************************************************************)
(* The two layers below the protocols on small instances: packets cut out  *)
(* of the byte stream (PacketStream), and the messages in them (Wire), of  *)
(* bytes of eight values and words of two bytes.  A packet is handed on    *)
(* whole and the layers share no state, so that a behaviour moves one of   *)
(* them only.                                                              *)
(***************************************************************************)
EXTENDS Wire, PacketStream

VARIABLE layer  \* the one that moves, "packets" or "messages"

\* Names 2, 3 and 4 separated by commas (1).
MCOffers == {<< >>, <<2>>, <<2, 1, 3>>, <<3, 1, 2>>}
MCTexts == {<< >>, <<5>>}
MCServerLists == << <<2, 1, 3>>, << >>, << >> >>

LayersInit ==
    /\ layer \in {"packets", "messages"}
    /\ Init /\ (layer = "messages" => stage = "setup")
    /\ WireInit /\ (layer = "packets" => format = CHOOSE f \in DOMAIN Formats : TRUE)

MovePackets == layer = "packets" /\ Next /\ UNCHANGED <<layer, wireVars>>
MoveMessages == layer = "messages" /\ WireNext /\ UNCHANGED <<layer, vars>>

\* A message that was refused, or does not fit, is the last.
MessagesEnd == layer = "messages" /\ UNCHANGED <<layer, vars, wireVars>>

LayersSpec ==
    /\ LayersInit /\ [][MovePackets \/ MoveMessages \/ MessagesEnd]_<<layer, vars, wireVars>>
    /\ WF_vars(Read) /\ WF_vars(Deliver)
=============================================================================
