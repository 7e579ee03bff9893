---------------------------- MODULE PacketStream ----------------------------
(***************************************************************************)
(* How the server cuts packets out of the byte stream of a connection:     *)
(* net_read_exact, and the two reads receive_plain_packet and              *)
(* ssh_transport_receive_protected_payload make of it, one for the length  *)
(* and one for the rest (src/src/core/ssh_transport.c), under a network    *)
(* that delivers bytes in pieces and a read that times out between them.   *)
(*                                                                         *)
(* A packet is its number of bytes.  The first Block bytes hold the length *)
(* (the cipher block, or the 4 bytes of a plain header); what is read for  *)
(* them anywhere but at the start of a packet is garbage.                  *)
(***************************************************************************)
EXTENDS Integers, Sequences

CONSTANTS
    Block,           \* bytes of the first read
    PacketLens,      \* lengths of a packet on the wire
    TimeoutIsZero,   \* net->read returns 0, not EMSSH_NET_IO_TIMEOUT, on a timeout
    MaxPackets       \* bound: packets the client sends

ASSUME ConstantsAssumption ==
    /\ Block \in Nat \ {0} /\ MaxPackets \in Nat /\ TimeoutIsZero \in BOOLEAN
    /\ PacketLens \subseteq {l \in Nat : l > Block} /\ PacketLens # {}

VARIABLES
    stage,       \* "setup": the caller gives up on SSH_ERR_NOT_FOUND; "channel": it calls again
    phase,       \* "length", "rest": the read the server is in; "ended"
    status,
    want, done,  \* len and done of net_read_exact
    pos,         \* bytes taken from the stream
    sequence,    \* packets decoded
    ends,        \* auxiliary: where each packet the client wrote ends
    arrived,     \* bytes the network has delivered
    closed,      \* the client has closed the connection
    split        \* auxiliary: a read for the rest of a packet has timed out

vars == <<stage, phase, status, want, done, pos, sequence, ends, arrived, closed, split>>

Written == IF ends = <<>> THEN 0 ELSE ends[Len(ends)]

\* Where packet i starts.  The keystream and the sequence number are those of the
\* packet after the ones decoded: only that one, read from its start, makes sense.
StartOf(i) == IF i = 1 THEN 0 ELSE ends[i - 1]
Genuine(start) == sequence + 1 \in DOMAIN ends /\ StartOf(sequence + 1) = start

Init ==
    /\ stage \in {"setup", "channel"} /\ phase = "length" /\ status = "RUNNING"
    /\ want = Block /\ done = 0 /\ pos = 0 /\ sequence = 0
    /\ ends = <<>> /\ arrived = 0 /\ closed = FALSE /\ split = FALSE

-----------------------------------------------------------------------------
(* The server.                                                             *)

End(s) == phase' = "ended" /\ status' = s
Starts(p, n) == phase' = p /\ want' = n /\ done' = 0 /\ UNCHANGED status

\* net->read gives part of what is asked for, and net_read_exact goes on.
\* Faulty variant: it keeps only the last count.
ReadPartForgets ==
    /\ phase # "ended"
    /\ \E n \in 1..(want - done - 1) :
          /\ pos + n <= arrived
          /\ done' = n /\ pos' = pos + n
    /\ UNCHANGED <<stage, phase, status, want, sequence, ends, arrived, closed, split>>
ReadPart ==
    /\ phase # "ended"
    /\ \E n \in 1..(want - done - 1) :
          /\ pos + n <= arrived
          /\ done' = done + n /\ pos' = pos + n
    /\ UNCHANGED <<stage, phase, status, want, sequence, ends, arrived, closed, split>>

\* What is left to read of a packet of l bytes, its MAC included.
\* Faulty variant: one byte less.
RestLenShort(l) == l - Block - 1
RestLen(l) == l - Block

\* The last bytes of the first read: the length is known, and checked.
ReadLength ==
    /\ phase = "length" /\ pos + (want - done) <= arrived
    /\ pos' = pos + (want - done)
    /\ IF Genuine(pos' - Block)
       THEN Starts("rest", RestLen(ends[sequence + 1] - StartOf(sequence + 1)))
       ELSE \/ End("MALFORMED") /\ UNCHANGED <<want, done>>
            \/ \E l \in PacketLens : Starts("rest", RestLen(l))
    /\ UNCHANGED <<stage, sequence, ends, arrived, closed, split>>

\* The last bytes of the second read: the packet is decoded, or its check fails.
ReadRest ==
    /\ phase = "rest" /\ pos + (want - done) <= arrived
    /\ pos' = pos + (want - done)
    /\ IF Genuine(pos' - want - Block) /\ ends[sequence + 1] = pos'
       THEN Starts("length", Block) /\ sequence' = sequence + 1
       ELSE End("SECURITY") /\ UNCHANGED <<want, done, sequence>>
    /\ UNCHANGED <<stage, ends, arrived, closed, split>>

\* What net_read_exact makes of a timeout: it waits on once it has a byte, and has
\* the caller call again, or give up, when it has none.
\* Faulty variant: it always returns.
TimeoutAlwaysReturns ==
    IF stage = "channel" THEN Starts("length", Block)
    ELSE End("NOT_FOUND") /\ UNCHANGED <<want, done>>
TimeoutReturns ==
    IF done # 0 THEN UNCHANGED <<phase, status, want, done>>
    ELSE IF stage = "channel" THEN Starts("length", Block)
    ELSE End("NOT_FOUND") /\ UNCHANGED <<want, done>>

ReadTimeout ==
    /\ phase # "ended" /\ pos = arrived /\ ~closed
    /\ IF TimeoutIsZero THEN End("CLOSED") /\ UNCHANGED <<want, done>> ELSE TimeoutReturns
    /\ split' = (split \/ (phase = "rest" /\ done = 0))
    /\ UNCHANGED <<stage, pos, sequence, ends, arrived, closed>>

\* net->read returns 0 at the end of the stream, or it fails.
ReadClosed ==
    /\ phase # "ended" /\ pos = arrived /\ closed
    /\ End("CLOSED")
    /\ UNCHANGED <<stage, want, done, pos, sequence, ends, arrived, closed, split>>

ReadError ==
    /\ phase # "ended" /\ End("PLATFORM")
    /\ UNCHANGED <<stage, want, done, pos, sequence, ends, arrived, closed, split>>

Read == ReadPart \/ ReadLength \/ ReadRest \/ ReadClosed

-----------------------------------------------------------------------------
(* The client and the network, which the code does not contain.            *)

ClientWrite ==
    /\ phase # "ended" /\ ~closed /\ Len(ends) < MaxPackets
    /\ \E l \in PacketLens : ends' = Append(ends, Written + l)
    /\ UNCHANGED <<stage, phase, status, want, done, pos, sequence, arrived, closed, split>>

Deliver ==
    /\ \E n \in (arrived + 1)..Written : arrived' = n
    /\ UNCHANGED <<stage, phase, status, want, done, pos, sequence, ends, closed, split>>

\* The end of the stream comes after all that was written.
ClientClose ==
    /\ ~closed /\ arrived = Written /\ closed' = TRUE
    /\ UNCHANGED <<stage, phase, status, want, done, pos, sequence, ends, arrived, split>>

Finished == phase = "ended" /\ UNCHANGED vars

Next ==
    \/ Read \/ ReadTimeout \/ ReadError
    \/ ClientWrite \/ Deliver \/ ClientClose \/ Finished
Spec == Init /\ [][Next]_vars

\* A read that has bytes returns them; the network delivers what was written.
FairSpec == Spec /\ WF_vars(Read) /\ WF_vars(Deliver)

-----------------------------------------------------------------------------
(* Properties.                                                             *)

\* Every variable keeps its type, and a read never takes more than it was asked for.
TypeOK ==
    /\ stage \in {"setup", "channel"} /\ phase \in {"length", "rest", "ended"}
    /\ status \in {"RUNNING", "CLOSED", "NOT_FOUND", "MALFORMED", "SECURITY", "PLATFORM"}
    /\ want \in Nat \ {0} /\ done \in 0..(want - 1)
    /\ sequence \in 0..Len(ends) /\ ends \in Seq(Nat)
    /\ pos \in 0..arrived /\ arrived \in 0..Written
    /\ closed \in BOOLEAN /\ split \in BOOLEAN

\* Short reads and timeouts never lose the place in the stream: unless a timeout came
\* right between the two reads of a packet, the packet being read is the one after
\* those decoded, and its bytes are the ones counted (net_read_exact).
InFrame ==
    (phase # "ended" /\ ~split) =>
        pos = StartOf(sequence + 1) + done + (IF phase = "rest" THEN Block ELSE 0)

\* No packet of a client is taken for another one: the session is not cut off for a
\* bad length or a failed check unless a timeout came between the two reads.
NoFalseAlarm == status \in {"MALFORMED", "SECURITY"} => split

\* A whole packet that has arrived is decoded, unless the session ends or a timeout
\* came between the two reads, however the bytes were cut into pieces.
ArrivedDecoded ==
    \A k \in 1..MaxPackets :
        (k \in DOMAIN ends /\ arrived >= ends[k]) ~> (sequence >= k \/ phase = "ended" \/ split)
=============================================================================
