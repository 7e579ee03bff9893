------------------------- MODULE SftpChannel_proofs -------------------------
(***************************************************************************)
(* Proofs about SftpChannel, for every value of its constants: the type    *)
(* invariant and the three safety properties that speak of both ends, by   *)
(* one inductive invariant.  The invariant ties each end's count to the    *)
(* other's through the messages in flight: the at fields of a queue form a *)
(* chain from what the receiver has taken to what the sender has sent, and *)
(* its lim fields form a chain from the credit the one end knows of to the *)
(* credit the other has given.                                             *)
(***************************************************************************)
EXTENDS SftpChannel, TLAPS

Carried(m) == IF m.type = "data" THEN m.n ELSE 0
Credit(m) == IF m.type = "adjust" THEN m.n ELSE 0

\* Stream positions: base is what the receiver has taken from the stream.
AtChain(q, base) ==
    \A i \in 1..Len(q) :
        q[i].at = (IF i = 1 THEN base ELSE q[i - 1].at) + Carried(q[i])
LastAt(q, base) == IF q = <<>> THEN base ELSE q[Len(q)].at

\* Credit: base is the limit the receiver of q knows of, top the one the sender
\* of q grants.
LimChain(q, base, top) ==
    /\ base <= top
    /\ \A i \in 1..Len(q) :
        /\ (IF i = 1 THEN base ELSE q[i - 1].lim) + Credit(q[i]) <= q[i].lim
        /\ q[i].lim <= top

(***************************************************************************)
(* The inductive invariant.  What is said of a running session is given up *)
(* when it ends, where a send may be cut off half way.                     *)
(***************************************************************************)
ResponseShape ==
    /\ sftp_tx_pending.from <= sftp_tx_pending.to
    /\ Pending => sftp_tx_pending.to = produced
    /\ pc \in {"parse", "send"} => ~Pending
    /\ pc = "send" =>
        /\ response.first <= response.from /\ response.from <= response.to
        /\ response.to = produced
        /\ response.to - response.first <= peer_window_size

RequestStream ==
    /\ AtChain(to_server, Received)
    /\ sent = LastAt(to_server, Received)
    /\ \A i \in 1..Len(to_server) : to_server[i].at <= sent
    /\ Received <= sent /\ sent <= Written

PeerCredit == LimChain(to_server, PeerLimit, recv_limit)
ServerCredit == LimChain(to_client, send_limit, ServerLimit)

Trust ==
    /\ \A i \in 1..Len(to_server) : ~to_server[i].mine => rogue
    /\ ~rogue => sent <= send_limit

Running ==
    /\ ResponseShape /\ RequestStream /\ PeerCredit /\ ServerCredit /\ Trust
    /\ SentPos = LastAt(to_client, got)

IInv ==
    /\ TypeOK
    /\ AtChain(to_client, got)
    /\ PeerWindowRespected
    /\ ConformingClientAccepted
    /\ pc # "ended" => Running
-----------------------------------------------------------------------------
(* The chains.                                                             *)

\* A queue is empty exactly when it has no messages.
LEMMA EmptyQueue ==
    \A q \in Seq(Message) : q = <<>> <=> Len(q) = 0
OBVIOUS

\* A message appended with the next position extends the chain of positions.
LEMMA AtChainAppend ==
    ASSUME NEW q \in Seq(Message), NEW base \in Nat, NEW m \in Message,
           AtChain(q, base), m.at = LastAt(q, base) + Carried(m)
    PROVE  /\ AtChain(Append(q, m), base)
           /\ LastAt(Append(q, m), base) = m.at
<1> DEFINE r == Append(q, m)
<1>1. /\ r \in Seq(Message) /\ Len(r) = Len(q) + 1
      /\ \A i \in 1..Len(q) : r[i] = q[i]
      /\ r[Len(q) + 1] = m /\ Len(q) \in Nat /\ r # <<>>
  OBVIOUS
<1>2. q = <<>> <=> Len(q) = 0
  OBVIOUS
<1>3. ASSUME NEW i \in 1..Len(r)
      PROVE  r[i].at = (IF i = 1 THEN base ELSE r[i - 1].at) + Carried(r[i])
  <2>1. CASE i \in 1..Len(q)
    BY <1>1, <2>1 DEF AtChain
  <2>2. CASE i = Len(q) + 1
    BY <1>1, <1>2, <2>2 DEF LastAt
  <2> QED BY <1>1, <2>1, <2>2
<1>4. LastAt(r, base) = m.at
  BY <1>1 DEF LastAt
<1> QED BY <1>3, <1>4 DEF AtChain

\* Taking the head off leaves a chain from the head's position.
LEMMA AtChainTail ==
    ASSUME NEW q \in Seq(Message), q # <<>>, NEW base \in Nat, AtChain(q, base)
    PROVE  /\ Head(q).at = base + Carried(Head(q))
           /\ AtChain(Tail(q), Head(q).at)
           /\ LastAt(Tail(q), Head(q).at) = LastAt(q, base)
<1> DEFINE r == Tail(q)
<1>1. /\ r \in Seq(Message) /\ Len(r) = Len(q) - 1
      /\ \A i \in 1..Len(r) : r[i] = q[i + 1]
      /\ Head(q) = q[1] /\ Len(q) \in Nat /\ Len(q) >= 1
  OBVIOUS
<1>2. r = <<>> <=> Len(r) = 0
  BY <1>1, EmptyQueue
<1>3. Head(q).at = base + Carried(Head(q))
  BY <1>1 DEF AtChain
<1>4. ASSUME NEW i \in 1..Len(r)
      PROVE  r[i].at = (IF i = 1 THEN Head(q).at ELSE r[i - 1].at) + Carried(r[i])
  BY <1>1 DEF AtChain
<1>5. LastAt(r, Head(q).at) = LastAt(q, base)
  BY <1>1, <1>2 DEF LastAt
<1> QED BY <1>3, <1>4, <1>5 DEF AtChain

\* A message that grants its credit on top of the limit extends the chain of limits.
LEMMA LimChainAppend ==
    ASSUME NEW q \in Seq(Message), NEW base \in Nat, NEW top \in Nat,
           NEW m \in Message, NEW up \in Nat,
           LimChain(q, base, top), top + Credit(m) <= m.lim, m.lim <= up
    PROVE  LimChain(Append(q, m), base, up)
<1> DEFINE r == Append(q, m)
<1>1. /\ r \in Seq(Message) /\ Len(r) = Len(q) + 1
      /\ \A i \in 1..Len(q) : r[i] = q[i] /\ q[i] \in Message
      /\ r[Len(q) + 1] = m /\ Len(q) \in Nat
  OBVIOUS
<1>2. m.lim \in Nat /\ Credit(m) \in Nat
  BY DEF Message, Credit
<1>3. base <= up
  BY <1>2 DEF LimChain
<1>4. ASSUME NEW i \in 1..Len(r)
      PROVE  /\ (IF i = 1 THEN base ELSE r[i - 1].lim) + Credit(r[i]) <= r[i].lim
             /\ r[i].lim <= up
  <2>1. CASE i \in 1..Len(q)
    <3>1. q[i].lim \in Nat
      BY <1>1, <2>1 DEF Message
    <3> QED BY <1>1, <1>2, <2>1, <3>1 DEF LimChain
  <2>2. CASE i = Len(q) + 1
    <3>1. CASE Len(q) = 0
      BY <1>1, <1>2, <2>2, <3>1 DEF LimChain
    <3>2. CASE Len(q) # 0
      <4>1. q[Len(q)].lim \in Nat /\ q[Len(q)].lim <= top /\ r[i - 1] = q[Len(q)]
        BY <1>1, <2>2, <3>2 DEF LimChain, Message
      <4> QED BY <1>1, <1>2, <2>2, <3>2, <4>1
    <3> QED BY <3>1, <3>2
  <2> QED BY <1>1, <2>1, <2>2
<1> QED BY <1>3, <1>4 DEF LimChain

\* Taking the head off leaves a chain from the head's limit.
LEMMA LimChainTail ==
    ASSUME NEW q \in Seq(Message), q # <<>>, NEW base \in Nat, NEW top \in Nat,
           LimChain(q, base, top)
    PROVE  /\ base + Credit(Head(q)) <= Head(q).lim
           /\ LimChain(Tail(q), Head(q).lim, top)
<1> DEFINE r == Tail(q)
<1>1. /\ r \in Seq(Message) /\ Len(r) = Len(q) - 1
      /\ \A i \in 1..Len(r) : r[i] = q[i + 1]
      /\ Head(q) = q[1] /\ Len(q) \in Nat /\ Len(q) >= 1
  OBVIOUS
<1>2. base + Credit(Head(q)) <= Head(q).lim /\ Head(q).lim <= top
  BY <1>1 DEF LimChain
<1>3. ASSUME NEW i \in 1..Len(r)
      PROVE  /\ (IF i = 1 THEN Head(q).lim ELSE r[i - 1].lim) + Credit(r[i]) <= r[i].lim
             /\ r[i].lim <= top
  BY <1>1 DEF LimChain
<1> QED BY <1>2, <1>3 DEF LimChain

\* The limits of a chain may move apart.
LEMMA LimChainWiden ==
    ASSUME NEW q \in Seq(Message), NEW base \in Nat, NEW top \in Nat,
           NEW down \in Nat, NEW up \in Nat,
           LimChain(q, base, top), down <= base, top <= up
    PROVE  LimChain(q, down, up)
<1>1. ASSUME NEW i \in 1..Len(q)
      PROVE  /\ (IF i = 1 THEN down ELSE q[i - 1].lim) + Credit(q[i]) <= q[i].lim
             /\ q[i].lim <= up
  <2>1. q[i] \in Message
    OBVIOUS
  <2>2. q[i].lim \in Nat /\ Credit(q[i]) \in Nat
    BY <2>1 DEF Message, Credit
  <2> QED BY <2>2 DEF LimChain
<1> QED BY <1>1 DEF LimChain
-----------------------------------------------------------------------------
(* Types.                                                                  *)

\* The derived positions are numbers.
LEMMA Positions ==
    ASSUME TypeOK
    PROVE  /\ Taken \in Nat /\ Received \in Nat /\ Written \in Nat
           /\ SentPos \in Nat /\ PeerLimit \in Nat /\ ServerLimit \in Nat
<1>1. /\ sftp_rx_len \in Nat /\ window_size \in Nat /\ peer_window_size \in Nat
      /\ handled \in 0..Len(requests) /\ requests \in Seq(Nat) /\ Len(requests) \in Nat
  BY ConstantsAssumption DEF TypeOK
<1>2. Taken \in Nat
  BY <1>1 DEF Taken
<1>3. Received \in Nat
  BY <1>1, <1>2 DEF Received
<1>4. Written \in Nat
  <2>1. requests # <<>> => Len(requests) \in 1..Len(requests)
    BY <1>1
  <2> QED BY <1>1, <2>1 DEF Written
<1>5. SentPos \in Nat
  BY DEF SentPos, TypeOK, Pieces
<1>6. PeerLimit \in Nat
  BY <1>1, <1>5 DEF PeerLimit, TypeOK, Pieces
<1>7. ServerLimit \in Nat
  BY <1>1, <1>3 DEF ServerLimit
<1> QED BY <1>2, <1>3, <1>4, <1>5, <1>6, <1>7

\* So they are after a step that keeps the types.
LEMMA PositionsNext == TypeOK' => (Received \in Nat /\ PeerLimit \in Nat)'
<1>1. TypeOK => Received \in Nat /\ PeerLimit \in Nat
  BY Positions
<1> QED BY <1>1, PTL

\* A message made by Msg has its type.
LEMMA MsgType ==
    ASSUME NEW type \in Types, NEW n \in Nat, NEW at \in Nat, NEW lim \in Nat
    PROVE  /\ Msg(type, n, at, lim) \in Message
           /\ Msg(type, n, at, lim).type = type
           /\ Msg(type, n, at, lim).n = n
           /\ Msg(type, n, at, lim).at = at
           /\ Msg(type, n, at, lim).lim = lim
           /\ Msg(type, n, at, lim).mine = TRUE
BY DEF Msg, Message

\* A channel request to this or to another channel has the type of a message.
LEMMA RequestMsgType ==
    ASSUME NEW at \in Nat, NEW lim \in Nat, NEW b \in BOOLEAN
    PROVE  /\ [Msg("request", 0, at, lim) EXCEPT !.reply = b] \in Message
           /\ [Msg("request", 0, at, lim) EXCEPT !.mine = b] \in Message
BY DEF Msg, Message, Types

\* What is waiting to be taken from sftp_rx belongs to a request the client has
\* written: with the length field in, the parser reads a length that is there.
LEMMA HeadIsWritten ==
    ASSUME TypeOK, RequestStream, sftp_rx_len >= Hdr
    PROVE  handled + 1 \in 1..Len(requests)
<1>1. /\ sftp_rx_len \in Nat /\ Hdr \in Nat /\ Hdr > 0 /\ sent \in Nat
      /\ handled \in 0..Len(requests) /\ requests \in Seq(Nat) /\ Len(requests) \in Nat
  BY ConstantsAssumption DEF TypeOK
<1>2. Taken \in Nat /\ Written \in Nat
  BY Positions
<1>3. Taken < Written
  BY <1>1, <1>2 DEF RequestStream, Received
<1>4. handled # Len(requests)
  <2>1. CASE requests = <<>>
    BY <1>3, <2>1, <1>1 DEF Taken, Written
  <2>2. CASE requests # <<>>
    BY <1>1, <1>3, <2>2 DEF Taken, Written
  <2> QED BY <2>1, <2>2
<1> QED BY <1>1, <1>4

\* Every step keeps the types.  The window arithmetic needs the invariant: a
\* response in "send" fits the peer's window, and what sftp_rx holds is a request.
LEMMA TypesKept ==
    ASSUME TypeOK, pc # "ended" => Running, [Next]_vars
    PROVE  TypeOK'
<1> USE DEF PCs, Statuses, vars, serverVars, clientVars
<1>1. /\ WindowMax \in Nat \ {0} /\ U32Max \in Nat /\ RxCap \in Nat /\ Hdr \in Nat \ {0}
      /\ PeerMaxPacket \in Nat /\ RespLens \subseteq Nat \ {0} /\ ReqLens \subseteq Nat \ {0}
      /\ InitWindow \in Nat /\ ExtraCredit \in Nat
  BY ConstantsAssumption
<1>2. /\ Taken \in Nat /\ Received \in Nat /\ Written \in Nat
      /\ SentPos \in Nat /\ PeerLimit \in Nat /\ ServerLimit \in Nat
  BY Positions
<1>3. /\ to_server # <<>> => /\ Head(to_server) \in Message
                             /\ Tail(to_server) \in Seq(Message)
      /\ to_client # <<>> => /\ Head(to_client) \in Message
                             /\ Tail(to_client) \in Seq(Message)
      /\ \A m \in Message : /\ Append(to_server, m) \in Seq(Message)
                            /\ Append(to_client, m) \in Seq(Message)
  BY DEF TypeOK
<1>4. \A type \in Types, n \in Nat, at \in Nat, lim \in Nat :
          /\ Msg(type, n, at, lim) \in Message
          /\ ToClient(type, n, at, lim) \in Seq(Message)
  BY <1>3, MsgType DEF ToClient
<1>5. \A n \in Nat : LimitToPacket(n) \in 0..n
  BY <1>1 DEF LimitToPacket, Min2
<1> HIDE <1>1
<1>6. CASE ReceiveForeign
  BY <1>3, <1>6 DEF ReceiveForeign, End, TypeOK
<1>7. CASE ReceiveWindowAdjust
  <2>1. AddSaturating(peer_window_size, Head(to_server).n) \in 0..U32Max
    <3>1. Head(to_server) \in Message
      BY <1>3, <1>7 DEF ReceiveWindowAdjust, Arrives
    <3>2. Head(to_server).n \in Nat /\ peer_window_size \in Nat
      BY <3>1, <1>1 DEF TypeOK, Message
    <3> QED BY <1>1, <3>2 DEF AddSaturating, Min2
  <2> QED BY <1>3, <1>7, <2>1 DEF ReceiveWindowAdjust, Arrives, AfterAdjust, TypeOK
<1>8. CASE ReceiveChannelRequest
  BY <1>2, <1>3, <1>4, <1>8 DEF ReceiveChannelRequest, Arrives, TypeOK, Types
<1>9. CASE ReceiveEof
  <2>1. to_client' \in Seq(Message)
    <3>1. ToClient("eof", 0, SentPos, ServerLimit) \in Seq(Message)
      BY <1>2, <1>4 DEF Types
    <3>2. Msg("close", 0, SentPos, ServerLimit) \in Message
      BY <1>2, <1>4 DEF Types
    <3> QED BY <1>9, <3>1, <3>2 DEF ReceiveEof, TypeOK
  <2> QED BY <1>3, <1>9, <2>1 DEF ReceiveEof, Arrives, TypeOK
<1>10. CASE ReceiveClose
  BY <1>2, <1>3, <1>4, <1>10 DEF ReceiveClose, Arrives, End, TypeOK, Types
<1>11. CASE ReceiveExcessData
  BY <1>3, <1>11 DEF ReceiveExcessData, Arrives, End, TypeOK
<1>12. CASE ReceiveData
  <2> DEFINE n == Head(to_server).n
             left == window_size - n
  <2>1. n \in Nat /\ left \in 0..WindowMax
    <3>1. Head(to_server) \in Message /\ n <= window_size
      BY <1>3, <1>12 DEF ReceiveData, Arrives
    <3>2. n \in Nat /\ window_size \in 0..WindowMax
      BY <3>1 DEF TypeOK, Message
    <3> QED BY <1>1, <3>1, <3>2
  <2>2. Replenished(left) \in 0..WindowMax /\ BytesToAdd(left) \in Nat
    BY <1>1, <2>1 DEF Replenished, BytesToAdd
  <2>3. window_size' \in 0..WindowMax
    BY <1>12, <2>2 DEF ReceiveData
  <2>4. to_client' \in Seq(Message)
    <3>1. Received + n + Replenished(left) \in Nat
      BY <1>2, <2>1, <2>2
    <3>2. ToClient("adjust", BytesToAdd(left), SentPos,
                   Received + n + Replenished(left)) \in Seq(Message)
      BY <1>2, <1>4, <2>2, <3>1 DEF Types
    <3> QED BY <1>12, <3>2 DEF ReceiveData, TypeOK
  <2>5. /\ sftp_rx_len' \in 0..RxCap /\ pc' \in PCs /\ status' \in Statuses
        /\ (pc' = "ended") <=> (status' # "RUNNING")
    <3>1. sftp_rx_len \in 0..RxCap /\ pc = "receive" /\ status = "RUNNING"
      BY <1>12 DEF ReceiveData, Arrives, TypeOK
    <3>2. CASE n > RxRoom /\ End("BUFFER_TOO_SMALL") /\ UNCHANGED sftp_rx_len
      BY <3>1, <3>2 DEF End
    <3>3. CASE /\ n <= RxRoom /\ sftp_rx_len' = sftp_rx_len + n
               /\ pc' = "flush" /\ UNCHANGED status
      <4>1. sftp_rx_len' \in 0..RxCap
        BY <1>1, <2>1, <3>1, <3>3 DEF RxRoom
      <4> QED BY <3>1, <3>3, <4>1
    <3> QED BY <1>12, <3>2, <3>3 DEF ReceiveData
  <2> QED BY <1>3, <1>12, <2>3, <2>4, <2>5 DEF ReceiveData, Arrives, TypeOK
<1>13. CASE ReceiveTimeout
  BY <1>13 DEF ReceiveTimeout, End, TypeOK
<1>14. CASE FlushChunk
  <2> DEFINE n == FlushLen(sftp_tx_pending.to - sftp_tx_pending.from)
  <2>1. /\ sftp_tx_pending.from \in Nat /\ sftp_tx_pending.to \in Nat
        /\ sftp_tx_pending.from <= sftp_tx_pending.to
    BY <1>14 DEF FlushChunk, Running, ResponseShape, TypeOK, Pieces
  <2>2. n \in 0..peer_window_size
    <3> DEFINE left == sftp_tx_pending.to - sftp_tx_pending.from
    <3>1. left \in Nat /\ peer_window_size \in Nat
      BY <2>1 DEF TypeOK
    <3>2. Min2(left, peer_window_size) \in 0..peer_window_size
      BY <3>1 DEF Min2
    <3> QED BY <1>5, <3>1, <3>2 DEF FlushLen
  <2>3. peer_window_size' \in 0..U32Max
    <3>1. peer_window_size' = peer_window_size - n /\ peer_window_size \in 0..U32Max
      BY <1>14 DEF FlushChunk, TypeOK
    <3> HIDE DEF n
    <3> QED BY <1>1, <2>2, <3>1
  <2>4. sftp_tx_pending' \in Pieces
    <3>1. sftp_tx_pending' = [sftp_tx_pending EXCEPT !.from = @ + n]
      BY <1>14 DEF FlushChunk
    <3>2. sftp_tx_pending.from + n \in Nat
      <4> HIDE DEF n
      <4> QED BY <2>1, <2>2 DEF TypeOK
    <3> HIDE DEF n
    <3> QED BY <3>1, <3>2 DEF TypeOK, Pieces
  <2>5. to_client' \in Seq(Message)
    <3>1. sftp_tx_pending.from + n \in Nat /\ n \in Nat
      BY <2>1, <2>2
    <3> QED BY <1>2, <1>4, <1>14, <3>1 DEF FlushChunk, Types
  <2> QED BY <1>14, <2>3, <2>4, <2>5 DEF FlushChunk, TypeOK
<1>15. CASE FlushEnd
  BY <1>15 DEF FlushEnd, AfterFlush, TypeOK
<1>16. CASE ParseBreak
  BY <1>16 DEF ParseBreak, TypeOK
<1>17. CASE ParseMalformed
  BY <1>17 DEF ParseMalformed, End, TypeOK
<1>18. CASE HandleError
  BY <1>18 DEF HandleError, End, TypeOK
<1>19. ASSUME NEW l \in RespLens, HandlePacket(l)
       PROVE  TypeOK'
  <2>1. pc = "parse" /\ sftp_rx_len >= Hdr /\ ~BadLength(HeadLen) /\ ~(sftp_rx_len < HeadLen)
    BY <1>19 DEF HandlePacket, Complete, Incomplete
  <2>2. handled + 1 \in 1..Len(requests)
    BY <2>1, HeadIsWritten DEF Running
  <2>3. HeadLen \in Int
    BY <1>2, <2>2 DEF HeadLen, TypeOK
  <2>4. sftp_rx_len' \in 0..RxCap
    BY <1>1, <1>19, <2>1, <2>3 DEF HandlePacket, BadLength, TypeOK
  <2>5. l \in Nat /\ produced \in Nat /\ produced + l \in Nat
    BY <1>1 DEF TypeOK
  <2>6. /\ sftp_tx_pending' \in Pieces /\ response' \in Pieces
        /\ pc' \in PCs \ {"ended"} /\ produced' \in Nat
    <3> DEFINE piece == [first |-> produced, from |-> produced, to |-> produced + l]
    <3>1. piece \in Pieces
      BY <2>5 DEF Pieces
    <3>2. /\ produced' = produced + l
          /\ \/ sftp_tx_pending' = piece /\ pc' = "flush" /\ UNCHANGED response
             \/ response' = piece /\ pc' = "send" /\ UNCHANGED sftp_tx_pending
      BY <1>19 DEF HandlePacket
    <3> HIDE DEF piece
    <3> QED BY <2>5, <3>1, <3>2 DEF TypeOK
  <2>7. handled' \in 0..Len(requests)
    BY <1>19, <2>2 DEF HandlePacket, TypeOK
  <2> QED BY <1>19, <2>1, <2>4, <2>6, <2>7 DEF HandlePacket, TypeOK
<1>20. CASE SendChunk
  <2> DEFINE n == LimitToPacket(response.to - response.from)
  <2>1. /\ response.first \in Nat /\ response.from \in Nat /\ response.to \in Nat
        /\ response.first <= response.from /\ response.from <= response.to
        /\ response.to - response.first <= peer_window_size
    BY <1>20 DEF SendChunk, Running, ResponseShape, TypeOK, Pieces
  <2>2. n \in Nat
    BY <1>5, <2>1
  <2>3. peer_window_size' \in 0..U32Max
    <3>1. \/ peer_window_size' = peer_window_size
          \/ peer_window_size' = peer_window_size - (response.to - response.first)
      BY <1>20 DEF SendChunk
    <3>2. peer_window_size \in 0..U32Max
      BY DEF TypeOK
    <3> QED BY <1>1, <2>1, <3>1, <3>2
  <2>4. response' \in Pieces
    <3>1. response' = [response EXCEPT !.from = @ + n]
      BY <1>20 DEF SendChunk
    <3>2. response.from + n \in Nat
      BY <2>1, <2>2
    <3> HIDE DEF n
    <3> QED BY <3>1, <3>2 DEF TypeOK, Pieces
  <2>5. to_client' \in Seq(Message)
    <3>1. response.from + n \in Nat
      BY <2>1, <2>2
    <3> QED BY <1>2, <1>4, <1>20, <2>2, <3>1 DEF SendChunk, Types
  <2> QED BY <1>20, <2>3, <2>4, <2>5 DEF SendChunk, TypeOK
<1>21. CASE TransportError
  BY <1>21 DEF TransportError, End, TypeOK
<1>22. ASSUME NEW l \in ReqLens, ClientWrite(l)
       PROVE  TypeOK'
  <2>1. /\ Append(requests, Written + l) \in Seq(Nat)
        /\ Len(Append(requests, Written + l)) = Len(requests) + 1
    BY <1>1, <1>2 DEF TypeOK
  <2> QED BY <1>22, <2>1 DEF ClientWrite, TypeOK
<1>23. ASSUME NEW n \in 1..Written, ClientSendData(n)
       PROVE  TypeOK'
  <2>1. n \in Nat /\ sent + n \in Nat /\ recv_limit \in Nat
    BY <1>2 DEF TypeOK
  <2>2. to_server' \in Seq(Message)
    BY <1>3, <1>4, <1>23, <2>1 DEF ClientSendData, ToServer, Types
  <2> QED BY <1>23, <2>1, <2>2 DEF ClientSendData, TypeOK
<1>24. ASSUME NEW n \in 1..(InitWindow + ExtraCredit), ClientGrant(n)
       PROVE  TypeOK'
  <2>1. n \in Nat /\ recv_limit + n \in Nat /\ sent \in Nat
    BY <1>1 DEF TypeOK
  <2>2. to_server' \in Seq(Message)
    BY <1>3, <1>4, <1>24, <2>1 DEF ClientGrant, ToServer, Types
  <2> QED BY <1>24, <2>1, <2>2 DEF ClientGrant, TypeOK
<1>25. ASSUME NEW reply \in BOOLEAN, ClientRequest(reply)
       PROVE  TypeOK'
  <2>1. [Msg("request", 0, sent, recv_limit) EXCEPT !.reply = reply] \in Message
    BY RequestMsgType DEF TypeOK
  <2>2. to_server' \in Seq(Message)
    BY <1>3, <1>25, <2>1 DEF ClientRequest, ToServer
  <2> QED BY <1>25, <2>2 DEF ClientRequest, TypeOK
<1>26. CASE ClientEof
  <2>1. to_server' \in Seq(Message)
    BY <1>3, <1>4, <1>26 DEF ClientEof, ToServer, Types, TypeOK
  <2> QED BY <1>26, <2>1 DEF ClientEof, TypeOK
<1>27. CASE ClientClose
  <2>1. to_server' \in Seq(Message)
    BY <1>3, <1>4, <1>27 DEF ClientClose, ToServer, Types, TypeOK
  <2> QED BY <1>27, <2>1 DEF ClientClose, TypeOK
<1>28. CASE ClientMisbehave
  <2>1. to_server' \in Seq(Message) /\ sent' \in Nat
    <3>1. Running
      BY <1>28 DEF ClientMisbehave, ToServer
    <3>2. Written - sent \in Nat /\ sent \in Nat /\ recv_limit \in Nat
      BY <1>2, <3>1 DEF Running, RequestStream, TypeOK
    <3>3. CASE /\ sent' = Written
               /\ ToServer(Msg("data", Written - sent, Written, recv_limit))
      BY <1>2, <1>3, <1>4, <3>2, <3>3 DEF ToServer, Types
    <3>4. CASE /\ ToServer([Msg("request", 0, sent, recv_limit) EXCEPT !.mine = FALSE])
               /\ UNCHANGED sent
      BY <1>3, <3>2, <3>4, RequestMsgType DEF ToServer
    <3> QED BY <1>28, <3>3, <3>4 DEF ClientMisbehave
  <2> QED BY <1>28, <2>1 DEF ClientMisbehave, TypeOK
<1>29. CASE ClientReceive
  <2>1. Head(to_client) \in Message /\ Tail(to_client) \in Seq(Message)
    BY <1>3, <1>29 DEF ClientReceive
  <2>2. /\ Head(to_client).at \in Nat /\ Head(to_client).n \in Nat
    BY <2>1 DEF Message
  <2>3. to_server' \in Seq(Message)
    <3>1. Append(to_server, Msg("close", 0, sent, recv_limit)) \in Seq(Message)
      BY <1>3, <1>4 DEF Types, TypeOK
    <3> QED BY <1>29, <3>1 DEF ClientReceive, TypeOK
  <2>4. got' \in Nat /\ send_limit' \in Nat
    BY <1>29, <2>2 DEF ClientReceive, TypeOK
  <2> QED BY <1>29, <2>1, <2>3, <2>4 DEF ClientReceive, TypeOK
<1>30. CASE Finished \/ UNCHANGED vars
  BY <1>30 DEF Finished, TypeOK
<1> QED
  BY <1>6, <1>7, <1>8, <1>9, <1>10, <1>11, <1>12, <1>13, <1>14, <1>15, <1>16, <1>17,
     <1>18, <1>19, <1>20, <1>21, <1>22, <1>23, <1>24, <1>25, <1>26, <1>27, <1>28,
     <1>29, <1>30
  DEF Next, Server, Receive, Process, Client, ClientSend, ClientOpen

-----------------------------------------------------------------------------
(* What a step does to the stream and the credit in each direction.  Every *)
(* action is one of a few cases, so the chains are argued about once.      *)

\* Towards the server: nothing, the server takes the head, or the client sends.
InQuiet ==
    /\ to_server' = to_server /\ sent' = sent /\ recv_limit' = recv_limit
    /\ Received' = Received /\ PeerLimit' = PeerLimit
InTaken ==
    /\ to_server # <<>> /\ to_server' = Tail(to_server)
    /\ sent' = sent /\ recv_limit' = recv_limit
    /\ Received' = Received + Carried(Head(to_server))
    /\ PeerLimit' <= PeerLimit + Credit(Head(to_server))
InSent(m) ==
    /\ to_server' = Append(to_server, m)
    /\ sent' = sent + Carried(m) /\ m.at = sent'
    /\ recv_limit' = recv_limit + Credit(m) /\ m.lim = recv_limit'
    /\ Received' = Received /\ PeerLimit' = PeerLimit
    /\ ~m.mine => rogue'

\* Towards the client: nothing, the client takes the head, or the server sends.
OutQuiet ==
    /\ to_client' = to_client /\ got' = got /\ send_limit' = send_limit
    /\ pc' # "ended" => SentPos' = SentPos /\ ServerLimit' = ServerLimit
OutTaken ==
    /\ to_client # <<>> /\ to_client' = Tail(to_client)
    /\ got' = got + Carried(Head(to_client))
    /\ send_limit' = send_limit + Credit(Head(to_client))
    /\ pc' # "ended" => SentPos' = SentPos /\ ServerLimit' = ServerLimit
OutSent(m) ==
    /\ to_client' = Append(to_client, m) /\ got' = got /\ send_limit' = send_limit
    /\ m.at = SentPos + Carried(m)
    /\ m.type = "data" => m.at <= PeerLimit
    /\ pc' # "ended" => /\ SentPos' = m.at /\ ServerLimit' = m.lim
                        /\ ServerLimit + Credit(m) <= m.lim

\* The positions depend on these variables only.
LEMMA Frames ==
    /\ UNCHANGED <<handled, requests, sftp_rx_len>> => Received' = Received
    /\ UNCHANGED <<handled, requests, sftp_rx_len, window_size>>
           => ServerLimit' = ServerLimit
    /\ (UNCHANGED <<response, sftp_tx_pending, produced>> /\ pc # "send" /\ pc' # "send")
           => SentPos' = SentPos
    /\ (UNCHANGED <<response, sftp_tx_pending, produced, peer_window_size>>
           /\ pc # "send" /\ pc' # "send") => PeerLimit' = PeerLimit
    /\ UNCHANGED <<response, sftp_tx_pending, produced, pc>> => SentPos' = SentPos
    /\ UNCHANGED <<response, sftp_tx_pending, produced, pc, peer_window_size>>
           => PeerLimit' = PeerLimit
BY DEF Received, Taken, ServerLimit, SentPos, PeerLimit, Pending

\* A request that leaves sftp_rx is counted as taken: the position received stays.
LEMMA HandlePacketPositions ==
    ASSUME TypeOK, Running, NEW l \in RespLens, HandlePacket(l)
    PROVE  /\ Received' = Received /\ ServerLimit' = ServerLimit
           /\ SentPos' = SentPos /\ PeerLimit' = PeerLimit
           /\ ResponseShape'
<1>1. /\ pc = "parse" /\ sftp_rx_len >= Hdr /\ handled' = handled + 1
      /\ sftp_rx_len' = sftp_rx_len - HeadLen /\ requests' = requests
      /\ window_size' = window_size /\ peer_window_size' = peer_window_size
      /\ produced' = produced + l
  BY DEF HandlePacket, Complete, clientVars
<1>2. handled + 1 \in 1..Len(requests) /\ handled \in Nat /\ requests \in Seq(Nat)
  BY <1>1, HeadIsWritten DEF Running, TypeOK
<1>3. Taken \in Nat /\ sftp_rx_len \in Nat /\ requests[handled + 1] \in Nat
  BY <1>2, Positions, ConstantsAssumption DEF TypeOK
<1>4. Taken' = requests[handled + 1]
  BY <1>1, <1>2 DEF Taken
<1>5. Received' = Received
  BY <1>1, <1>3, <1>4 DEF Received, HeadLen
<1>6. ServerLimit' = ServerLimit
  BY <1>1, <1>5 DEF ServerLimit
<1>7. ~Pending /\ SentPos = produced
  BY <1>1 DEF Running, ResponseShape, SentPos
<1>8. l \in Nat /\ l > 0 /\ produced \in Nat /\ peer_window_size \in Nat
  BY ConstantsAssumption DEF TypeOK
<1> DEFINE piece == [first |-> produced, from |-> produced, to |-> produced + l]
<1>9. CASE /\ l > peer_window_size
           /\ sftp_tx_pending' = piece /\ pc' = "flush" /\ UNCHANGED response
  <2>1. SentPos' = SentPos /\ PeerLimit' = PeerLimit
    BY <1>1, <1>7, <1>8, <1>9 DEF SentPos, PeerLimit, Pending
  <2>2. ResponseShape'
    BY <1>1, <1>8, <1>9 DEF ResponseShape, Pending
  <2> QED BY <1>5, <1>6, <2>1, <2>2
<1>10. CASE /\ l <= peer_window_size
            /\ response' = piece /\ pc' = "send" /\ UNCHANGED sftp_tx_pending
  <2>1. SentPos' = SentPos /\ PeerLimit' = PeerLimit
    BY <1>1, <1>7, <1>8, <1>10 DEF SentPos, PeerLimit
  <2>2. ResponseShape'
    BY <1>1, <1>7, <1>8, <1>10 DEF ResponseShape, Pending, Running
  <2> QED BY <1>5, <1>6, <2>1, <2>2
<1> QED BY <1>9, <1>10 DEF HandlePacket

\* A chunk of the cached response moves the position sent by its length and
\* leaves the limit, whether or not it is the last one.
LEMMA FlushChunkPositions ==
    ASSUME TypeOK, Running, FlushChunk
    PROVE  \E n \in Nat :
               /\ to_client' = ToClient("data", n, SentPos + n, ServerLimit)
               /\ SentPos + n <= PeerLimit
               /\ SentPos' = SentPos + n /\ PeerLimit' = PeerLimit
               /\ ResponseShape'
<1> DEFINE n == FlushLen(sftp_tx_pending.to - sftp_tx_pending.from)
<1>1. /\ pc = "flush" /\ pc' = "flush" /\ Pending /\ produced' = produced
      /\ sftp_tx_pending' = [sftp_tx_pending EXCEPT !.from = @ + n]
      /\ peer_window_size' = peer_window_size - n
      /\ to_client' = ToClient("data", n, sftp_tx_pending.from + n, ServerLimit)
  BY DEF FlushChunk
<1>2. /\ sftp_tx_pending.from \in Nat /\ sftp_tx_pending.to \in Nat
      /\ sftp_tx_pending.from <= sftp_tx_pending.to
      /\ sftp_tx_pending.to = produced /\ peer_window_size \in Nat
      /\ sftp_tx_pending \in Pieces
  BY <1>1, ConstantsAssumption DEF Running, ResponseShape, TypeOK, Pieces
<1>3. /\ n \in Nat /\ n <= peer_window_size
      /\ n <= sftp_tx_pending.to - sftp_tx_pending.from
  BY <1>2, ConstantsAssumption DEF FlushLen, LimitToPacket, Min2
<1>4. SentPos = sftp_tx_pending.from /\ PeerLimit = peer_window_size + SentPos
  BY <1>1 DEF SentPos, PeerLimit
<1> HIDE DEF n
<1>5. /\ sftp_tx_pending'.from = sftp_tx_pending.from + n
      /\ sftp_tx_pending'.to = sftp_tx_pending.to
  BY <1>1, <1>2 DEF Pieces
<1>6. SentPos' = SentPos + n
  BY <1>1, <1>2, <1>3, <1>4, <1>5 DEF SentPos, Pending
<1>7. PeerLimit' = PeerLimit
  BY <1>1, <1>2, <1>3, <1>4, <1>6 DEF PeerLimit
<1>8. ResponseShape'
  BY <1>1, <1>2, <1>3, <1>5 DEF ResponseShape, Pending
<1>9. SentPos + n <= PeerLimit
  BY <1>2, <1>3, <1>4
<1> QED BY <1>1, <1>3, <1>4, <1>6, <1>7, <1>8, <1>9

\* The same for a chunk of a response that fits the window, although
\* peer_window_size is charged only after the last one.
LEMMA SendChunkPositions ==
    ASSUME TypeOK, Running, SendChunk
    PROVE  \E n \in Nat :
               /\ to_client' = ToClient("data", n, SentPos + n, ServerLimit)
               /\ SentPos + n <= PeerLimit
               /\ SentPos' = SentPos + n /\ PeerLimit' = PeerLimit
               /\ ResponseShape'
<1> DEFINE n == LimitToPacket(response.to - response.from)
<1>1. /\ pc = "send" /\ produced' = produced /\ sftp_tx_pending' = sftp_tx_pending
      /\ response' = [response EXCEPT !.from = @ + n]
      /\ to_client' = ToClient("data", n, response.from + n, ServerLimit)
      /\ \/ /\ response.from + n = response.to /\ pc' = "parse"
            /\ peer_window_size' = peer_window_size - (response.to - response.first)
         \/ /\ response.from + n # response.to /\ pc' = "send"
            /\ peer_window_size' = peer_window_size
  BY DEF SendChunk
<1>2. /\ response.first \in Nat /\ response.from \in Nat /\ response.to \in Nat
      /\ response.first <= response.from /\ response.from <= response.to
      /\ response.to = produced /\ peer_window_size \in Nat
      /\ response.to - response.first <= peer_window_size
      /\ response \in Pieces /\ ~Pending
      /\ sftp_tx_pending.from <= sftp_tx_pending.to
  BY <1>1, ConstantsAssumption DEF Running, ResponseShape, TypeOK, Pieces
<1>3. n \in Nat /\ n <= response.to - response.from
  BY <1>2, ConstantsAssumption DEF LimitToPacket, Min2
<1>4. SentPos = response.from /\ PeerLimit = peer_window_size + response.first
  BY <1>1 DEF SentPos, PeerLimit
<1> HIDE DEF n
<1>5. /\ response'.from = response.from + n /\ response'.to = response.to
      /\ response'.first = response.first
  BY <1>1, <1>2 DEF Pieces
<1>6. ~Pending'
  BY <1>1, <1>2 DEF Pending
<1>7. SentPos' = SentPos + n
  BY <1>1, <1>2, <1>3, <1>4, <1>5, <1>6 DEF SentPos
<1>8. PeerLimit' = PeerLimit
  BY <1>1, <1>2, <1>3, <1>4, <1>5, <1>7 DEF PeerLimit
<1>9. ResponseShape'
  BY <1>1, <1>2, <1>3, <1>5, <1>6 DEF ResponseShape
<1>10. SentPos + n <= PeerLimit
  BY <1>2, <1>3, <1>4
<1> QED BY <1>1, <1>3, <1>4, <1>7, <1>8, <1>9, <1>10

\* A step of a running session that does not end it is one of the cases towards
\* the server, and keeps the shape of the responses.
LEMMA InCases ==
    ASSUME TypeOK, Running, pc # "ended", pc' # "ended", [Next]_vars
    PROVE  /\ InQuiet \/ InTaken \/ \E m \in Message : InSent(m)
           /\ ResponseShape'
<1> USE DEF vars, serverVars, clientVars
<1>1. /\ Received \in Nat /\ SentPos \in Nat /\ PeerLimit \in Nat /\ Written \in Nat
  BY Positions
<1>2. /\ sent \in Nat /\ recv_limit \in Nat /\ peer_window_size \in Nat
      /\ to_server \in Seq(Message)
      /\ to_server # <<>> => Head(to_server).n \in Nat
  <2>1. to_server # <<>> => Head(to_server) \in Message
    BY DEF TypeOK
  <2> QED BY <2>1, ConstantsAssumption DEF TypeOK, Message
<1>3. ResponseShape
  BY DEF Running
<1>4. (UNCHANGED <<response, sftp_tx_pending, produced, pc, peer_window_size>>)
          => ResponseShape'
  BY <1>3 DEF ResponseShape, Pending
<1>5. (UNCHANGED <<response, sftp_tx_pending, produced, peer_window_size>>
          /\ pc' \in {"receive", "flush"}) => ResponseShape'
  BY <1>3 DEF ResponseShape, Pending
<1>6. CASE ReceiveForeign \/ ReceiveClose \/ ReceiveExcessData \/ ParseMalformed
           \/ HandleError \/ TransportError
  BY <1>6 DEF ReceiveForeign, ReceiveClose, ReceiveExcessData, ParseMalformed,
              HandleError, TransportError, End
<1>7. CASE ReceiveWindowAdjust
  <2>1. /\ pc = "receive" /\ pc' \in {"receive", "flush"} /\ to_server # <<>>
        /\ Head(to_server).type = "adjust" /\ to_server' = Tail(to_server)
        /\ UNCHANGED <<sent, recv_limit, handled, requests, sftp_rx_len, response,
                       sftp_tx_pending, produced>>
        /\ peer_window_size' = AddSaturating(peer_window_size, Head(to_server).n)
    BY <1>7 DEF ReceiveWindowAdjust, Arrives, AfterAdjust
  <2>2. SentPos' = SentPos /\ Received' = Received
    BY <2>1, Frames
  <2>3. /\ peer_window_size' \in Int
        /\ peer_window_size' <= peer_window_size + Head(to_server).n
    BY <1>2, <2>1, ConstantsAssumption DEF AddSaturating, Min2
  <2>4. PeerLimit' <= PeerLimit + Head(to_server).n
    BY <1>1, <1>2, <2>1, <2>2, <2>3 DEF PeerLimit
  <2>5. ResponseShape'
    BY <1>3, <2>1 DEF ResponseShape, Pending
  <2>6. InTaken
    BY <1>1, <2>1, <2>2, <2>4 DEF InTaken, Carried, Credit
  <2> QED BY <2>5, <2>6
<1>8. CASE ReceiveChannelRequest \/ ReceiveEof
  <2>1. /\ to_server # <<>> /\ to_server' = Tail(to_server)
        /\ Head(to_server).type \in {"request", "eof"}
        /\ UNCHANGED <<sent, recv_limit, handled, requests, sftp_rx_len, response,
                       sftp_tx_pending, produced, pc, peer_window_size>>
    BY <1>8 DEF ReceiveChannelRequest, ReceiveEof, Arrives
  <2>2. PeerLimit' = PeerLimit /\ Received' = Received
    BY <2>1, Frames
  <2>3. InTaken
    BY <1>1, <2>1, <2>2 DEF InTaken, Carried, Credit
  <2> QED BY <1>4, <2>1, <2>3
<1>9. CASE ReceiveData
  <2>1. /\ pc = "receive" /\ pc' = "flush" /\ to_server # <<>>
        /\ Head(to_server).type = "data" /\ to_server' = Tail(to_server)
        /\ UNCHANGED <<sent, recv_limit, handled, requests, response,
                       sftp_tx_pending, produced, peer_window_size>>
        /\ sftp_rx_len' = sftp_rx_len + Head(to_server).n
    BY <1>9 DEF ReceiveData, Arrives, End
  <2>2. PeerLimit' = PeerLimit
    BY <2>1, Frames
  <2>3. Taken \in Nat /\ sftp_rx_len \in Nat /\ Taken' = Taken
    BY <2>1, Positions, ConstantsAssumption DEF Taken, TypeOK
  <2>4. Received' = Received + Head(to_server).n
    BY <1>2, <2>1, <2>3 DEF Received
  <2>5. InTaken
    BY <1>1, <2>1, <2>2, <2>4 DEF InTaken, Carried, Credit
  <2> QED BY <1>5, <2>1, <2>5
<1>10. CASE ReceiveTimeout
  <2>1. /\ pc = "receive" /\ pc' = "flush"
        /\ UNCHANGED <<to_server, sent, recv_limit, handled, requests, sftp_rx_len,
                       response, sftp_tx_pending, produced, peer_window_size>>
    BY <1>10 DEF ReceiveTimeout, End
  <2> QED BY <1>5, <2>1, Frames DEF InQuiet
<1>11. CASE FlushChunk
  <2>1. UNCHANGED <<to_server, sent, recv_limit, handled, requests, sftp_rx_len>>
    BY <1>11 DEF FlushChunk
  <2> QED BY <1>11, <2>1, Frames, FlushChunkPositions DEF InQuiet
<1>12. CASE FlushEnd
  <2>1. /\ pc = "flush" /\ pc' = AfterFlush
        /\ UNCHANGED <<to_server, sent, recv_limit, handled, requests, sftp_rx_len,
                       response, sftp_tx_pending, produced, peer_window_size>>
    BY <1>12 DEF FlushEnd
  <2>2. InQuiet
    BY <2>1, Frames DEF InQuiet, AfterFlush
  <2>3. ResponseShape'
    BY <1>3, <2>1 DEF ResponseShape, Pending, AfterFlush
  <2> QED BY <2>2, <2>3
<1>13. CASE ParseBreak
  <2>1. /\ pc = "parse" /\ pc' = "receive"
        /\ UNCHANGED <<to_server, sent, recv_limit, handled, requests, sftp_rx_len,
                       response, sftp_tx_pending, produced, peer_window_size>>
    BY <1>13 DEF ParseBreak
  <2> QED BY <1>5, <2>1, Frames DEF InQuiet
<1>14. ASSUME NEW l \in RespLens, HandlePacket(l)
       PROVE  InQuiet /\ ResponseShape'
  <2>1. UNCHANGED <<to_server, sent, recv_limit>>
    BY <1>14 DEF HandlePacket
  <2> QED BY <1>14, <2>1, HandlePacketPositions DEF InQuiet
<1>15. CASE SendChunk
  <2>1. UNCHANGED <<to_server, sent, recv_limit, handled, requests, sftp_rx_len>>
    BY <1>15 DEF SendChunk
  <2> QED BY <1>15, <2>1, Frames, SendChunkPositions DEF InQuiet
<1>16. CASE Client \/ Finished \/ UNCHANGED vars
  <2>1. UNCHANGED <<handled, sftp_rx_len, response, sftp_tx_pending, produced, pc,
                    peer_window_size>>
    BY <1>16 DEF Client, ClientSend, ClientOpen, ClientWrite, ClientSendData, ClientGrant,
                 ClientRequest, ClientEof, ClientClose, ClientMisbehave, ClientReceive,
                 Finished
  <2>2. ResponseShape' /\ PeerLimit' = PeerLimit
    BY <1>4, <2>1, Frames
  <2>3. requests' = requests => Received' = Received
    BY <2>1, Frames
  <2>4. ASSUME NEW l \in ReqLens, ClientWrite(l)
        PROVE  InQuiet
    <3>1. Taken' = Taken
      BY <1>1, <2>1, <2>4, ConstantsAssumption DEF ClientWrite, Taken, TypeOK
    <3>2. Received' = Received
      BY <2>1, <3>1 DEF Received
    <3> QED BY <2>2, <2>4, <3>2 DEF ClientWrite, InQuiet
  <2>5. ASSUME NEW type \in Types, NEW n \in Nat, NEW at \in Nat, NEW lim \in Nat,
               to_server' = Append(to_server, Msg(type, n, at, lim)),
               at = sent', sent' = sent + (IF type = "data" THEN n ELSE 0),
               lim = recv_limit',
               recv_limit' = recv_limit + (IF type = "adjust" THEN n ELSE 0),
               requests' = requests
        PROVE  \E m \in Message : InSent(m)
    <3> DEFINE m == Msg(type, n, at, lim)
    <3>1. /\ m \in Message /\ m.type = type /\ m.n = n /\ m.at = at /\ m.lim = lim
          /\ m.mine = TRUE
      BY DEF Msg, Message
    <3>2. to_server' = Append(to_server, m)
      BY <2>5
    <3> HIDE DEF m
    <3>3. /\ Carried(m) = IF type = "data" THEN n ELSE 0
          /\ Credit(m) = IF type = "adjust" THEN n ELSE 0
      BY <3>1 DEF Carried, Credit
    <3>4. sent' = sent + Carried(m) /\ recv_limit' = recv_limit + Credit(m)
      BY <2>5, <3>3, Zenon
    <3>5. m.at = sent' /\ m.lim = recv_limit' /\ Received' = Received
      BY <2>3, <2>5, <3>1
    <3>6. InSent(m)
      BY <2>2, <3>1, <3>2, <3>4, <3>5 DEF InSent
    <3> QED BY <3>1, <3>6
  <2>6. ASSUME NEW n \in 1..Written, ClientSendData(n)
        PROVE  \E m \in Message : InSent(m)
    <3>1. /\ n \in Nat /\ sent + n \in Nat /\ sent' = sent + n
          /\ recv_limit' = recv_limit /\ requests' = requests
          /\ to_server' = Append(to_server, Msg("data", n, sent + n, recv_limit))
      BY <1>1, <1>2, <2>6 DEF ClientSendData, ToServer
    <3> QED BY <1>2, <2>5, <3>1 DEF Types
  <2>7. ASSUME NEW n \in 1..(InitWindow + ExtraCredit), ClientGrant(n)
        PROVE  \E m \in Message : InSent(m)
    <3>1. /\ n \in Nat /\ recv_limit + n \in Nat /\ recv_limit' = recv_limit + n
          /\ sent' = sent /\ requests' = requests
          /\ to_server' = Append(to_server, Msg("adjust", n, sent, recv_limit + n))
      BY <1>2, <2>7, ConstantsAssumption DEF ClientGrant, ToServer
    <3> QED BY <1>2, <2>5, <3>1 DEF Types
  <2>8. ASSUME NEW reply \in BOOLEAN, ClientRequest(reply)
        PROVE  \E m \in Message : InSent(m)
    <3> DEFINE m == [Msg("request", 0, sent, recv_limit) EXCEPT !.reply = reply]
    <3>1. m \in Message
      BY <1>2, RequestMsgType
    <3>2. m.type = "request" /\ m.at = sent /\ m.lim = recv_limit /\ m.mine = TRUE
      BY Zenon DEF Msg
    <3>3. /\ to_server' = Append(to_server, m)
          /\ sent' = sent /\ recv_limit' = recv_limit /\ requests' = requests
      BY <2>8 DEF ClientRequest, ToServer
    <3> HIDE DEF m
    <3>4. InSent(m)
      BY <1>2, <2>2, <2>3, <3>2, <3>3 DEF InSent, Carried, Credit
    <3> QED BY <3>1, <3>4
  <2>9. ASSUME NEW type \in {"eof", "close"}, sent' = sent, recv_limit' = recv_limit,
               requests' = requests,
               to_server' = Append(to_server, Msg(type, 0, sent, recv_limit))
        PROVE  \E m \in Message : InSent(m)
    <3>1. type \in Types /\ type # "data" /\ type # "adjust"
      BY DEF Types
    <3> QED BY <1>2, <2>5, <2>9, <3>1
  <2>10. CASE ClientEof
    BY <2>2, <2>9, <2>10 DEF ClientEof, ToServer
  <2>11. CASE ClientClose
    BY <2>2, <2>9, <2>11 DEF ClientClose, ToServer
  <2>12. CASE ClientMisbehave
    <3>1. rogue' = TRUE /\ recv_limit' = recv_limit /\ requests' = requests
      BY <2>12 DEF ClientMisbehave
    <3>2. CASE /\ sent' = Written
               /\ ToServer(Msg("data", Written - sent, Written, recv_limit))
      <4>1. Written - sent \in Nat /\ Written = sent + (Written - sent)
        BY <1>1, <1>2 DEF Running, RequestStream
      <4>2. to_server' = Append(to_server, Msg("data", Written - sent, Written, recv_limit))
        BY <3>2 DEF ToServer
      <4>3. \E m \in Message : InSent(m)
        BY <1>1, <1>2, <2>5, <3>1, <3>2, <4>1, <4>2 DEF Types
      <4> QED BY <2>2, <4>3
    <3>3. CASE /\ ToServer([Msg("request", 0, sent, recv_limit) EXCEPT !.mine = FALSE])
               /\ UNCHANGED sent
      <4> DEFINE m == [Msg("request", 0, sent, recv_limit) EXCEPT !.mine = FALSE]
      <4>1. m \in Message
        BY <1>2, RequestMsgType
      <4>2. m.type = "request" /\ m.at = sent /\ m.lim = recv_limit
        BY Zenon DEF Msg
      <4>3. to_server' = Append(to_server, m) /\ sent' = sent
        BY <3>3 DEF ToServer
      <4> HIDE DEF m
      <4>4. InSent(m)
        BY <1>2, <2>2, <2>3, <3>1, <4>2, <4>3 DEF InSent, Carried, Credit
      <4> QED BY <2>2, <4>1, <4>4
    <3> QED BY <2>12, <3>2, <3>3 DEF ClientMisbehave
  <2>13. CASE ClientReceive
    <3>1. sent' = sent /\ recv_limit' = recv_limit /\ requests' = requests
      BY <2>13 DEF ClientReceive
    <3>2. \/ to_server' = to_server
          \/ to_server' = Append(to_server, Msg("close", 0, sent, recv_limit))
      BY <2>13 DEF ClientReceive
    <3> QED BY <2>2, <2>3, <2>9, <3>1, <3>2 DEF InQuiet
  <2>14. CASE Finished \/ UNCHANGED vars
    BY <2>2, <2>3, <2>14 DEF Finished, InQuiet
  <2> QED
    BY <1>16, <2>2, <2>4, <2>6, <2>7, <2>8, <2>10, <2>11, <2>12, <2>13, <2>14
    DEF Client, ClientSend, ClientOpen
<1> QED
  BY <1>6, <1>7, <1>8, <1>9, <1>10, <1>11, <1>12, <1>13, <1>14, <1>15, <1>16
  DEF Next, Server, Receive, Process

\* A session that has ended stays so.
LEMMA EndedStays ==
    ASSUME [Next]_vars, pc = "ended"
    PROVE  pc' = "ended" /\ status' = status
BY DEF vars, serverVars, Next, Server, Receive, Process, Client, ClientSend, ClientOpen,
       Arrives, ReceiveForeign, ReceiveWindowAdjust, ReceiveChannelRequest, ReceiveEof,
       ReceiveClose, ReceiveExcessData, ReceiveData, ReceiveTimeout, FlushChunk, FlushEnd,
       ParseBreak, ParseMalformed, HandleError, HandlePacket, SendChunk, TransportError,
       ClientWrite, ClientSendData, ClientGrant, ClientRequest, ClientEof, ClientClose,
       ClientMisbehave, ClientReceive, Finished, ToServer

\* A step is one of the cases towards the client, or sends EOF and CLOSE.
LEMMA OutCases ==
    ASSUME TypeOK, pc # "ended" => Running, AtChain(to_client, got), [Next]_vars
    PROVE  \/ OutQuiet \/ OutTaken
           \/ pc # "ended" /\ \E m \in Message : OutSent(m)
           \/ ReceiveEof
<1> USE DEF vars, serverVars, clientVars
<1>1. /\ Received \in Nat /\ SentPos \in Nat /\ PeerLimit \in Nat /\ ServerLimit \in Nat
      /\ window_size \in Nat /\ sftp_rx_len \in Nat /\ got \in Nat /\ send_limit \in Nat
  BY Positions, ConstantsAssumption DEF TypeOK
<1>2. ASSUME NEW type \in {"failure", "close"}, pc # "ended",
             UNCHANGED <<got, send_limit>>,
             to_client' = ToClient(type, 0, SentPos, ServerLimit),
             pc' # "ended" => SentPos' = SentPos /\ ServerLimit' = ServerLimit
      PROVE  pc # "ended" /\ \E m \in Message : OutSent(m)
  <2> DEFINE m == Msg(type, 0, SentPos, ServerLimit)
  <2>1. /\ m \in Message /\ m.type = type /\ m.at = SentPos /\ m.lim = ServerLimit
    BY <1>1 DEF Msg, Message, Types
  <2>2. to_client' = Append(to_client, m)
    BY <1>2 DEF ToClient
  <2> HIDE DEF m
  <2>3. Carried(m) = 0 /\ Credit(m) = 0 /\ m.type # "data"
    BY <2>1 DEF Carried, Credit
  <2>4. OutSent(m)
    BY <1>1, <1>2, <2>1, <2>2, <2>3 DEF OutSent
  <2> QED BY <1>2, <2>1, <2>4
<1>3. ASSUME NEW n \in Nat, pc # "ended", UNCHANGED <<got, send_limit>>,
             to_client' = ToClient("data", n, SentPos + n, ServerLimit),
             SentPos + n <= PeerLimit, SentPos' = SentPos + n, ServerLimit' = ServerLimit
      PROVE  pc # "ended" /\ \E m \in Message : OutSent(m)
  <2> DEFINE m == Msg("data", n, SentPos + n, ServerLimit)
  <2>1. /\ m \in Message /\ m.type = "data" /\ m.at = SentPos + n /\ m.lim = ServerLimit
        /\ m.n = n
    BY <1>1 DEF Msg, Message, Types
  <2>2. to_client' = Append(to_client, m)
    BY <1>3 DEF ToClient
  <2> HIDE DEF m
  <2>3. Carried(m) = n /\ Credit(m) = 0
    BY <2>1 DEF Carried, Credit
  <2>4. OutSent(m)
    BY <1>1, <1>3, <2>1, <2>2, <2>3 DEF OutSent
  <2> QED BY <1>3, <2>1, <2>4
<1>4. CASE ReceiveForeign \/ ReceiveExcessData \/ ParseMalformed \/ HandleError
           \/ TransportError
  BY <1>4 DEF ReceiveForeign, ReceiveExcessData, ParseMalformed, HandleError,
              TransportError, End, OutQuiet
<1>5. CASE ReceiveWindowAdjust
  <2>1. /\ pc = "receive" /\ pc' \in {"receive", "flush"}
        /\ UNCHANGED <<to_client, got, send_limit, handled, requests, sftp_rx_len,
                       window_size, response, sftp_tx_pending, produced>>
    BY <1>5 DEF ReceiveWindowAdjust, Arrives, AfterAdjust
  <2> QED BY <2>1, Frames DEF OutQuiet
<1>6. CASE ReceiveChannelRequest
  <2>1. /\ pc = "receive"
        /\ UNCHANGED <<got, send_limit, handled, requests, sftp_rx_len, window_size,
                       response, sftp_tx_pending, produced, pc>>
        /\ \/ to_client' = to_client
           \/ to_client' = ToClient("failure", 0, SentPos, ServerLimit)
    BY <1>6 DEF ReceiveChannelRequest, Arrives
  <2>2. SentPos' = SentPos /\ ServerLimit' = ServerLimit
    BY <2>1, Frames
  <2> QED BY <1>2, <2>1, <2>2 DEF OutQuiet
<1>7. CASE ReceiveClose
  <2>1. /\ pc = "receive" /\ pc' = "ended" /\ UNCHANGED <<got, send_limit>>
        /\ \/ to_client' = to_client
           \/ to_client' = ToClient("close", 0, SentPos, ServerLimit)
    BY <1>7 DEF ReceiveClose, Arrives, End
  <2> QED BY <1>2, <2>1 DEF OutQuiet
<1>8. CASE ReceiveData
  <2> DEFINE n == Head(to_server).n
             left == window_size - n
             r == Replenished(left)
             m == Msg("adjust", r - left, SentPos, Received + n + r)
  <2>1. /\ pc = "receive" /\ to_server # <<>> /\ n <= window_size
        /\ UNCHANGED <<got, send_limit, handled, requests, response, sftp_tx_pending,
                       produced>>
        /\ window_size' = r
        /\ pc' # "ended" => pc' = "flush" /\ sftp_rx_len' = sftp_rx_len + n
    BY <1>8 DEF ReceiveData, Arrives, End
  <2>2. to_client' = IF r = left THEN to_client ELSE Append(to_client, m)
    BY <1>8 DEF ReceiveData, ToClient, BytesToAdd
  <2>3. Head(to_server) \in Message
    BY <2>1 DEF TypeOK
  <2>4. n \in Nat
    BY <2>3 DEF Message
  <2>5. left \in Nat /\ left <= WindowMax
    BY <1>1, <2>1, <2>4, ConstantsAssumption DEF TypeOK
  <2>6. r \in Nat /\ left <= r
    BY <2>5, ConstantsAssumption DEF Replenished
  <2>7. pc' # "ended" => SentPos' = SentPos
    BY <2>1, Frames
  <2>8. pc' # "ended" => ServerLimit' = Received + n + r
    <3>1. SUFFICES ASSUME pc' # "ended" PROVE ServerLimit' = Received + n + r
      OBVIOUS
    <3>2. Taken' = Taken /\ Taken \in Nat
      BY <2>1, Positions DEF Taken
    <3>3. Received' = Received + n
      BY <1>1, <2>1, <2>4, <3>1, <3>2 DEF Received
    <3> QED BY <2>1, <3>3 DEF ServerLimit
  <2>9. ServerLimit = Received + n + left
    BY <1>1, <2>4 DEF ServerLimit
  <2>10. CASE r = left
    BY <2>1, <2>2, <2>7, <2>8, <2>9, <2>10 DEF OutQuiet
  <2>11. CASE r # left
    <3>1. r - left \in Nat /\ Received + n + r \in Nat
      BY <1>1, <2>4, <2>5, <2>6
    <3> HIDE DEF r, left, n
    <3>2. /\ m \in Message /\ m.type = "adjust" /\ m.at = SentPos
          /\ m.lim = Received + n + r /\ m.n = r - left
      BY <1>1, <3>1 DEF Msg, Message, Types
    <3> HIDE DEF m
    <3>3. Carried(m) = 0 /\ Credit(m) = r - left
      BY <3>2 DEF Carried, Credit
    <3>4. ServerLimit + Credit(m) <= m.lim
      BY <1>1, <2>4, <2>5, <2>6, <2>9, <3>2, <3>3
    <3>5. OutSent(m)
      BY <1>1, <2>1, <2>2, <2>7, <2>8, <2>11, <3>2, <3>3, <3>4 DEF OutSent
    <3> QED BY <2>1, <3>2, <3>5
  <2> QED BY <2>10, <2>11
<1>9. CASE ReceiveTimeout \/ FlushEnd \/ ParseBreak
  <2>1. /\ pc # "send" /\ pc' # "send"
        /\ UNCHANGED <<to_client, got, send_limit, handled, requests, sftp_rx_len,
                       window_size, response, sftp_tx_pending, produced>>
    BY <1>9 DEF ReceiveTimeout, FlushEnd, ParseBreak, AfterFlush, End
  <2> QED BY <2>1, Frames DEF OutQuiet
<1>10. CASE FlushChunk
  <2>1. /\ pc # "ended"
        /\ UNCHANGED <<got, send_limit, handled, requests, sftp_rx_len, window_size>>
    BY <1>10 DEF FlushChunk
  <2> QED BY <1>3, <1>10, <2>1, FlushChunkPositions, Frames
<1>11. CASE SendChunk
  <2>1. /\ pc # "ended"
        /\ UNCHANGED <<got, send_limit, handled, requests, sftp_rx_len, window_size>>
    BY <1>11 DEF SendChunk
  <2> QED BY <1>3, <1>11, <2>1, SendChunkPositions, Frames
<1>12. ASSUME NEW l \in RespLens, HandlePacket(l)
       PROVE  OutQuiet
  <2>1. pc # "ended" /\ UNCHANGED <<to_client, got, send_limit>>
    BY <1>12 DEF HandlePacket
  <2> QED BY <1>12, <2>1, HandlePacketPositions DEF OutQuiet
<1>13. ASSUME NEW l \in ReqLens, ClientWrite(l)
       PROVE  OutQuiet
  <2>1. UNCHANGED <<to_client, got, send_limit, handled, sftp_rx_len, window_size,
                    response, sftp_tx_pending, produced, pc>>
    BY <1>13 DEF ClientWrite
  <2>2. Taken' = Taken
    BY <1>13, <2>1, Positions, ConstantsAssumption DEF ClientWrite, Taken, TypeOK
  <2>3. ServerLimit' = ServerLimit
    BY <2>1, <2>2 DEF ServerLimit, Received
  <2> QED BY <2>1, <2>3, Frames DEF OutQuiet
<1>14. CASE ClientSend \/ ClientOpen \/ (\E reply \in BOOLEAN : ClientRequest(reply))
            \/ ClientEof \/ ClientClose \/ ClientMisbehave \/ Finished \/ UNCHANGED vars
  <2>1. UNCHANGED <<to_client, got, send_limit, handled, requests, sftp_rx_len,
                    window_size, response, sftp_tx_pending, produced, pc>>
    BY <1>14 DEF ClientSend, ClientOpen, ClientSendData, ClientGrant, ClientRequest,
                 ClientEof, ClientClose, ClientMisbehave, Finished
  <2> QED BY <2>1, Frames DEF OutQuiet
<1>15. CASE ClientReceive
  <2>1. /\ to_client # <<>> /\ to_client' = Tail(to_client)
        /\ got' = IF Head(to_client).type = "data" THEN Head(to_client).at ELSE got
        /\ send_limit' = IF Head(to_client).type = "adjust"
                         THEN send_limit + Head(to_client).n ELSE send_limit
        /\ UNCHANGED <<handled, requests, sftp_rx_len,
                       window_size, response, sftp_tx_pending, produced, pc>>
    BY <1>15 DEF ClientReceive
  <2>2. Head(to_client).at = got + Carried(Head(to_client))
    BY <1>1, <2>1, AtChainTail DEF TypeOK
  <2>3. got' = got + Carried(Head(to_client))
    BY <1>1, <2>1, <2>2 DEF Carried
  <2>4. send_limit' = send_limit + Credit(Head(to_client))
    BY <1>1, <2>1 DEF Credit
  <2> QED BY <2>1, <2>3, <2>4, Frames DEF OutTaken
<1> QED
  BY <1>4, <1>5, <1>6, <1>7, <1>8, <1>9, <1>10, <1>11, <1>12, <1>13, <1>14, <1>15
  DEF Next, Server, Receive, Process, Client

-----------------------------------------------------------------------------
(* The invariant is kept.                                                  *)

\* What holds of the messages on their way to the client, while the session runs.
OutGood(q) ==
    /\ q \in Seq(Message)
    /\ AtChain(q, got) /\ LastAt(q, got) = SentPos
    /\ LimChain(q, send_limit, ServerLimit)
    /\ \A i \in 1..Len(q) : q[i].type = "data" => q[i].at <= recv_limit

\* A message without payload or credit may be appended at any time.
LEMMA OutGoodAppend ==
    ASSUME TypeOK, NEW q, OutGood(q), NEW type \in {"eof", "close"}
    PROVE  OutGood(Append(q, Msg(type, 0, SentPos, ServerLimit)))
<1> DEFINE m == Msg(type, 0, SentPos, ServerLimit)
<1>1. SentPos \in Nat /\ ServerLimit \in Nat /\ got \in Nat /\ send_limit \in Nat
  BY Positions DEF TypeOK
<1>2. m \in Message /\ m.type = type /\ m.at = SentPos /\ m.lim = ServerLimit
  BY <1>1 DEF Msg, Message, Types
<1> HIDE DEF m
<1>3. Carried(m) = 0 /\ Credit(m) = 0 /\ m.type # "data"
  BY <1>2 DEF Carried, Credit
<1>4. q \in Seq(Message) /\ Append(q, m) \in Seq(Message)
  BY <1>2 DEF OutGood
<1>5. AtChain(Append(q, m), got) /\ LastAt(Append(q, m), got) = SentPos
  BY <1>1, <1>2, <1>3, <1>4, AtChainAppend DEF OutGood
<1>6. LimChain(Append(q, m), send_limit, ServerLimit)
  BY <1>1, <1>2, <1>3, <1>4, LimChainAppend DEF OutGood
<1>7. \A i \in 1..Len(Append(q, m)) :
          Append(q, m)[i].type = "data" => Append(q, m)[i].at <= recv_limit
  BY <1>2, <1>3, <1>4 DEF OutGood
<1> QED BY <1>4, <1>5, <1>6, <1>7 DEF OutGood, m

\* The client's limits never fall.
LEMMA LimitsGrow ==
    ASSUME TypeOK, [Next]_vars
    PROVE  /\ recv_limit' >= recv_limit /\ send_limit' >= send_limit
           /\ rogue => rogue'
<1> USE DEF vars, serverVars, clientVars
<1>1. recv_limit \in Nat /\ send_limit \in Nat /\ Written \in Nat
  BY Positions DEF TypeOK
<1>2. CASE Server \/ Finished \/ UNCHANGED vars
  BY <1>1, <1>2 DEF Server, Receive, Process, ReceiveForeign, ReceiveWindowAdjust,
       ReceiveChannelRequest, ReceiveEof, ReceiveClose, ReceiveExcessData, ReceiveData,
       ReceiveTimeout, FlushChunk, FlushEnd, ParseBreak, ParseMalformed, HandleError,
       HandlePacket, SendChunk, TransportError, Finished
<1>3. ASSUME NEW n \in 1..(InitWindow + ExtraCredit), ClientGrant(n)
      PROVE  /\ recv_limit' >= recv_limit /\ send_limit' >= send_limit
             /\ rogue => rogue'
  BY <1>1, <1>3, ConstantsAssumption DEF ClientGrant
<1>4. CASE ClientReceive
  <2>1. Head(to_client) \in Message
    BY <1>4 DEF ClientReceive, TypeOK
  <2>2. Head(to_client).n \in Nat
    BY <2>1 DEF Message
  <2> QED BY <1>1, <1>4, <2>2 DEF ClientReceive
<1>5. CASE (\E l \in ReqLens : ClientWrite(l)) \/ ClientSend \/ ClientEof \/ ClientClose
           \/ (\E reply \in BOOLEAN : ClientRequest(reply)) \/ ClientMisbehave
  <2>1. recv_limit' = recv_limit /\ send_limit' = send_limit
    BY <1>5 DEF ClientWrite, ClientSend, ClientSendData, ClientEof, ClientClose,
                ClientRequest, ClientMisbehave
  <2>2. rogue' = rogue \/ rogue' = TRUE
    BY <1>5 DEF ClientWrite, ClientSend, ClientSendData, ClientEof, ClientClose,
                ClientRequest, ClientMisbehave
  <2>3. rogue => rogue'
    BY <2>2
  <2> QED BY <1>1, <2>1, <2>3
<1> QED BY <1>2, <1>3, <1>4, <1>5 DEF Next, Client, ClientOpen

\* Positions and credit towards the client survive a step: the client's stream
\* keeps its order, and no data leaves the window.
LEMMA OutKept ==
    ASSUME IInv, [Next]_vars
    PROVE  /\ AtChain(to_client, got)'
           /\ PeerWindowRespected'
           /\ pc' # "ended" => /\ SentPos' = LastAt(to_client, got)'
                               /\ ServerCredit'
<1>1. /\ got \in Nat /\ send_limit \in Nat /\ recv_limit \in Nat /\ recv_limit' \in Nat
      /\ SentPos \in Nat /\ ServerLimit \in Nat /\ PeerLimit \in Nat
      /\ to_client \in Seq(Message) /\ got' \in Nat /\ send_limit' \in Nat
      /\ TypeOK /\ TypeOK' /\ AtChain(to_client, got)
  BY Positions, TypesKept DEF IInv, TypeOK
<1>2. recv_limit' >= recv_limit
  BY <1>1, LimitsGrow
<1>3. pc' # "ended" => pc # "ended"
  BY EndedStays
<1>4. \A i \in 1..Len(to_client) :
          to_client[i].type = "data" => to_client[i].at <= recv_limit /\ to_client[i].at \in Nat
  <2>1. \A i \in 1..Len(to_client) : to_client[i] \in Message
    BY <1>1
  <2> QED BY <2>1 DEF IInv, PeerWindowRespected, Message
<1>5. pc # "ended" => /\ SentPos = LastAt(to_client, got)
                      /\ LimChain(to_client, send_limit, ServerLimit)
                      /\ PeerLimit <= recv_limit
  BY DEF IInv, Running, ServerCredit, PeerCredit, LimChain
<1>6. CASE OutQuiet
  <2>1. /\ to_client' = to_client /\ got' = got /\ send_limit' = send_limit
        /\ pc' # "ended" => SentPos' = SentPos /\ ServerLimit' = ServerLimit
    BY <1>6 DEF OutQuiet
  <2>2. PeerWindowRespected'
    BY <1>1, <1>2, <1>4, <2>1 DEF PeerWindowRespected
  <2> QED BY <1>1, <1>3, <1>5, <2>1, <2>2 DEF ServerCredit
<1>7. CASE OutTaken
  <2>1. /\ to_client # <<>> /\ to_client' = Tail(to_client)
        /\ got' = got + Carried(Head(to_client))
        /\ send_limit' = send_limit + Credit(Head(to_client))
        /\ pc' # "ended" => SentPos' = SentPos /\ ServerLimit' = ServerLimit
    BY <1>7 DEF OutTaken
  <2>2. /\ Head(to_client).at = got'
        /\ AtChain(to_client', got') /\ LastAt(to_client', got') = LastAt(to_client, got)
    BY <1>1, <2>1, AtChainTail
  <2>3. PeerWindowRespected'
    <3>1. \A i \in 1..Len(to_client') : i + 1 \in 1..Len(to_client)
                                        /\ to_client'[i] = to_client[i + 1]
      BY <1>1, <2>1
    <3> QED BY <1>1, <1>2, <1>4, <3>1 DEF PeerWindowRespected
  <2>4. ASSUME pc' # "ended" PROVE ServerCredit'
    <3>1. /\ send_limit' <= Head(to_client).lim
          /\ LimChain(to_client', Head(to_client).lim, ServerLimit)
      BY <1>1, <1>3, <1>5, <2>1, <2>4, LimChainTail
    <3>2. Head(to_client) \in Message
      BY <1>1, <2>1
    <3>3. Head(to_client).lim \in Nat /\ to_client' \in Seq(Message)
      BY <1>1, <2>1, <3>2 DEF Message
    <3>4. LimChain(to_client', send_limit', ServerLimit)
      BY <1>1, <3>1, <3>3, LimChainWiden
    <3> QED BY <2>1, <2>4, <3>4 DEF ServerCredit
  <2> QED BY <1>3, <1>5, <2>1, <2>2, <2>3, <2>4
<1>8. ASSUME pc # "ended", NEW m \in Message, OutSent(m)
      PROVE  /\ AtChain(to_client, got)'
             /\ PeerWindowRespected'
             /\ pc' # "ended" => /\ SentPos' = LastAt(to_client, got)'
                                 /\ ServerCredit'
  <2>1. /\ to_client' = Append(to_client, m) /\ got' = got /\ send_limit' = send_limit
        /\ m.at = SentPos + Carried(m)
        /\ m.type = "data" => m.at <= PeerLimit
        /\ pc' # "ended" => /\ SentPos' = m.at /\ ServerLimit' = m.lim
                            /\ ServerLimit + Credit(m) <= m.lim
    BY <1>8 DEF OutSent
  <2>2. m.at \in Nat /\ m.lim \in Nat
    BY DEF Message
  <2>3. AtChain(to_client', got') /\ LastAt(to_client', got') = m.at
    BY <1>1, <1>5, <1>8, <2>1, AtChainAppend
  <2>4. PeerWindowRespected'
    <3>1. m.type = "data" => m.at <= recv_limit'
      BY <1>1, <1>2, <1>5, <1>8, <2>1, <2>2
    <3>2. \A i \in 1..Len(to_client') :
              \/ i \in 1..Len(to_client) /\ to_client'[i] = to_client[i]
              \/ to_client'[i] = m
      BY <1>1, <2>1
    <3> QED BY <1>1, <1>2, <1>4, <3>1, <3>2 DEF PeerWindowRespected
  <2>5. ASSUME pc' # "ended" PROVE ServerCredit'
    <3>1. LimChain(Append(to_client, m), send_limit, m.lim)
      BY <1>1, <1>5, <1>8, <2>1, <2>2, <2>5, LimChainAppend
    <3> QED BY <2>1, <2>5, <3>1 DEF ServerCredit
  <2> QED BY <2>1, <2>3, <2>4, <2>5
<1>9. CASE ReceiveEof
  <2> DEFINE out == IF eof_sent THEN to_client ELSE ToClient("eof", 0, SentPos, ServerLimit)
  <2>1. /\ pc = "receive" /\ UNCHANGED <<got, send_limit, recv_limit, handled, requests,
             sftp_rx_len, window_size, response, sftp_tx_pending, produced, pc>>
        /\ to_client' = IF close_sent THEN out
                        ELSE Append(out, Msg("close", 0, SentPos, ServerLimit))
    BY <1>9 DEF ReceiveEof, Arrives, clientVars
  <2>2. SentPos' = SentPos /\ ServerLimit' = ServerLimit
    BY <2>1, Frames
  <2>3. OutGood(to_client)
    BY <1>1, <1>4, <1>5, <2>1 DEF OutGood
  <2>4. OutGood(ToClient("eof", 0, SentPos, ServerLimit))
    BY <1>1, <2>3, OutGoodAppend DEF ToClient
  <2>5. OutGood(out)
    BY <2>3, <2>4
  <2>6. OutGood(Append(out, Msg("close", 0, SentPos, ServerLimit)))
    BY <1>1, <2>5, OutGoodAppend
  <2>7. OutGood(to_client')
    BY <2>1, <2>5, <2>6
  <2> HIDE DEF out
  <2> QED BY <2>1, <2>2, <2>7 DEF OutGood, PeerWindowRespected, ServerCredit
<1> QED BY <1>1, <1>6, <1>7, <1>8, <1>9, OutCases DEF IInv

\* Positions and credit towards the server survive a step.
LEMMA InKept ==
    ASSUME IInv, [Next]_vars, pc' # "ended"
    PROVE  ResponseShape' /\ RequestStream' /\ PeerCredit' /\ Trust'
<1>1. pc # "ended"
  BY EndedStays
<1>2. TypeOK /\ TypeOK' /\ Running
  BY <1>1, TypesKept DEF IInv
<1>3. /\ Received \in Nat /\ PeerLimit \in Nat /\ Received' \in Nat /\ PeerLimit' \in Nat
      /\ Written \in Nat /\ sent \in Nat /\ sent' \in Nat /\ recv_limit \in Nat
      /\ recv_limit' \in Nat /\ send_limit \in Nat /\ send_limit' \in Nat
      /\ to_server \in Seq(Message) /\ to_server' \in Seq(Message)
  <2>1. Received' \in Nat /\ PeerLimit' \in Nat
    BY <1>2, PositionsNext
  <2> QED BY <1>2, <2>1, Positions DEF TypeOK
<1>4. /\ AtChain(to_server, Received) /\ sent = LastAt(to_server, Received)
      /\ \A i \in 1..Len(to_server) : to_server[i].at <= sent
      /\ Received <= sent /\ sent <= Written
      /\ LimChain(to_server, PeerLimit, recv_limit)
      /\ \A i \in 1..Len(to_server) : ~to_server[i].mine => rogue
      /\ ~rogue => sent <= send_limit
  BY <1>2 DEF Running, RequestStream, PeerCredit, Trust
<1>5. send_limit' >= send_limit /\ (rogue => rogue')
  BY <1>2, LimitsGrow
<1>6. \A i \in 1..Len(to_server) : to_server[i].at \in Nat
  <2>1. \A i \in 1..Len(to_server) : to_server[i] \in Message
    BY <1>3
  <2> QED BY <2>1 DEF Message
<1>7. sent' <= Written' /\ (~rogue' => sent' <= send_limit')
  <2>1. CASE Server \/ Finished \/ UNCHANGED vars
    <3>1. UNCHANGED clientVars
      BY <2>1 DEF Server, Receive, Process, ReceiveForeign, ReceiveWindowAdjust,
        ReceiveChannelRequest, ReceiveEof, ReceiveClose, ReceiveExcessData, ReceiveData,
        ReceiveTimeout, FlushChunk, FlushEnd, ParseBreak, ParseMalformed, HandleError,
        HandlePacket, SendChunk, TransportError, Finished, vars
    <3> QED BY <1>4, <3>1 DEF clientVars, Written
  <2>2. ASSUME NEW l \in ReqLens, ClientWrite(l)
        PROVE  sent' <= Written' /\ (~rogue' => sent' <= send_limit')
    <3>1. l \in Nat /\ requests \in Seq(Nat)
      BY <1>2, ConstantsAssumption DEF TypeOK
    <3> DEFINE w == Written + l
    <3>2. w \in Nat /\ requests' = Append(requests, w)
      BY <1>3, <2>2, <3>1 DEF ClientWrite
    <3> HIDE DEF w
    <3>3. requests' # <<>> /\ requests'[Len(requests')] = w
      BY <3>1, <3>2
    <3>4. Written' = Written + l
      BY <3>3 DEF Written, w
    <3> QED BY <1>3, <1>4, <2>2, <3>1, <3>4 DEF ClientWrite
  <2>3. ASSUME NEW n \in 1..Written, ClientSendData(n)
        PROVE  sent' <= Written' /\ (~rogue' => sent' <= send_limit')
    BY <2>3 DEF ClientSendData, Written
  <2>4. CASE ClientMisbehave
    BY <1>3, <1>4, <2>4 DEF ClientMisbehave, Written
  <2>5. CASE ClientOpen \/ (\E reply \in BOOLEAN : ClientRequest(reply)) \/ ClientEof
             \/ ClientClose \/ ClientReceive
    <3>1. UNCHANGED <<requests, sent, rogue>>
      BY <2>5 DEF ClientOpen, ClientGrant, ClientRequest, ClientEof, ClientClose,
                  ClientReceive, clientVars
    <3>2. Written' = Written
      BY <3>1 DEF Written
    <3> QED BY <1>3, <1>4, <1>5, <3>1, <3>2
  <2> QED BY <2>1, <2>2, <2>3, <2>4, <2>5 DEF Next, Client, ClientSend
<1>8. ASSUME InQuiet
      PROVE  RequestStream' /\ PeerCredit' /\ Trust'
  BY <1>3, <1>4, <1>5, <1>7, <1>8 DEF InQuiet, RequestStream, PeerCredit, Trust
<1>9. ASSUME InTaken
      PROVE  RequestStream' /\ PeerCredit' /\ Trust'
  <2> DEFINE h == Head(to_server)
  <2>1. /\ to_server # <<>> /\ to_server' = Tail(to_server)
        /\ sent' = sent /\ recv_limit' = recv_limit
        /\ Received' = Received + Carried(h) /\ PeerLimit' <= PeerLimit + Credit(h)
    BY <1>9 DEF InTaken
  <2>2. /\ h \in Message /\ h = to_server[1] /\ 1 \in 1..Len(to_server)
        /\ \A i \in 1..Len(to_server') :
               i + 1 \in 1..Len(to_server) /\ to_server'[i] = to_server[i + 1]
    BY <1>3, <2>1
  <2>3. h.lim \in Nat /\ Credit(h) \in Nat
    BY <2>2 DEF Message, Credit
  <2>4. /\ h.at = Received' /\ AtChain(to_server', Received')
        /\ LastAt(to_server', Received') = sent
    BY <1>3, <1>4, <2>1, AtChainTail
  <2>5. Received' <= sent
    BY <1>4, <2>2, <2>4
  <2>6. PeerLimit + Credit(h) <= h.lim /\ LimChain(to_server', h.lim, recv_limit)
    BY <1>3, <1>4, <2>1, LimChainTail
  <2> HIDE DEF h
  <2>7. PeerLimit' <= h.lim
    BY <1>3, <2>1, <2>3, <2>6
  <2>8. PeerCredit'
    <3>1. LimChain(to_server', PeerLimit', recv_limit)
      BY <1>3, <2>3, <2>6, <2>7, LimChainWiden
    <3> QED BY <2>1, <3>1 DEF PeerCredit
  <2>9. RequestStream'
    BY <1>4, <1>7, <2>1, <2>2, <2>4, <2>5 DEF RequestStream
  <2>10. Trust'
    BY <1>4, <1>5, <1>7, <2>2 DEF Trust
  <2> QED BY <2>8, <2>9, <2>10
<1>10. ASSUME NEW m \in Message, InSent(m)
       PROVE  RequestStream' /\ PeerCredit' /\ Trust'
  <2>1. /\ to_server' = Append(to_server, m)
        /\ sent' = sent + Carried(m) /\ m.at = sent'
        /\ recv_limit' = recv_limit + Credit(m) /\ m.lim = recv_limit'
        /\ Received' = Received /\ PeerLimit' = PeerLimit
        /\ ~m.mine => rogue'
    BY <1>10 DEF InSent
  <2>2. Carried(m) \in Nat /\ Credit(m) \in Nat
    BY DEF Message, Carried, Credit
  <2>3. /\ AtChain(to_server', Received) /\ LastAt(to_server', Received) = sent'
    BY <1>3, <1>4, <2>1, AtChainAppend
  <2>4. LimChain(to_server', PeerLimit, recv_limit')
    BY <1>3, <1>4, <2>1, LimChainAppend
  <2>5. \A i \in 1..Len(to_server') :
            \/ i \in 1..Len(to_server) /\ to_server'[i] = to_server[i]
            \/ to_server'[i] = m
    BY <1>3, <2>1
  <2>6. sent <= sent'
    BY <1>3, <2>1, <2>2
  <2>7. \A i \in 1..Len(to_server') : to_server'[i].at <= sent'
    BY <1>3, <1>4, <1>6, <2>1, <2>5, <2>6
  <2>8. RequestStream'
    BY <1>3, <1>4, <1>7, <2>1, <2>3, <2>6, <2>7 DEF RequestStream
  <2>9. PeerCredit'
    BY <2>1, <2>4 DEF PeerCredit
  <2>10. Trust'
    BY <1>4, <1>5, <1>7, <2>1, <2>5 DEF Trust
  <2> QED BY <2>8, <2>9, <2>10
<1> QED BY <1>1, <1>2, <1>8, <1>9, <1>10, InCases

\* A session ends with SSH_ERR_SECURITY only on a rogue client.
LEMMA ConformingKept ==
    ASSUME IInv, [Next]_vars
    PROVE  ConformingClientAccepted'
<1> USE DEF vars, serverVars, clientVars
<1>1. TypeOK /\ (status = "SECURITY" => rogue) /\ (rogue => rogue')
  BY LimitsGrow DEF IInv, ConformingClientAccepted
<1>2. CASE ReceiveForeign
  <2>1. /\ pc = "receive" /\ to_server # <<>> /\ ~Head(to_server).mine /\ rogue' = rogue
    BY <1>2 DEF ReceiveForeign
  <2>2. Head(to_server) = to_server[1] /\ 1 \in 1..Len(to_server)
    BY <1>1, <2>1 DEF TypeOK
  <2>3. rogue
    BY <2>1, <2>2 DEF IInv, Running, Trust
  <2> QED BY <2>1, <2>3 DEF ConformingClientAccepted
<1>3. CASE ReceiveExcessData
  <2> DEFINE h == Head(to_server)
  <2>1. /\ pc = "receive" /\ to_server # <<>> /\ h.type = "data" /\ h.n > window_size
        /\ rogue' = rogue
    BY <1>3 DEF ReceiveExcessData, Arrives
  <2>2. h = to_server[1] /\ 1 \in 1..Len(to_server) /\ h \in Message
    BY <1>1, <2>1 DEF TypeOK
  <2>3. /\ h.n \in Nat /\ h.at \in Nat /\ window_size \in Nat /\ Received \in Nat
        /\ sent \in Nat /\ send_limit \in Nat /\ ServerLimit \in Nat
    <3>1. h.n \in Nat /\ h.at \in Nat
      BY <2>2 DEF Message
    <3> QED BY <1>1, <3>1, Positions, ConstantsAssumption DEF TypeOK
  <2>4. Running
    BY <2>1 DEF IInv
  <2>5. h.at = Received + Carried(h) /\ h.at <= sent
    BY <1>1, <2>1, <2>2, <2>3, <2>4, AtChainTail DEF Running, RequestStream, TypeOK
  <2>6. h.at = Received + h.n
    BY <2>1, <2>5 DEF Carried
  <2>7. send_limit <= Received + window_size
    BY <2>4 DEF Running, ServerCredit, LimChain, ServerLimit
  <2> HIDE DEF h
  <2>8. ~(sent <= send_limit)
    BY <2>1, <2>3, <2>5, <2>6, <2>7
  <2>9. rogue
    BY <2>4, <2>8 DEF Running, Trust
  <2> QED BY <2>1, <2>9 DEF ConformingClientAccepted
<1>4. CASE ~ReceiveForeign /\ ~ReceiveExcessData
  <2>1. status' = status \/ status' # "SECURITY"
    BY <1>4 DEF Next, Server, Receive, Process, Client, ClientSend, ClientOpen,
      ReceiveWindowAdjust, ReceiveChannelRequest, ReceiveEof, ReceiveClose, ReceiveData,
      ReceiveTimeout, FlushChunk, FlushEnd, ParseBreak, ParseMalformed, HandleError,
      HandlePacket, SendChunk, TransportError, End, ClientWrite, ClientSendData,
      ClientGrant, ClientRequest, ClientEof, ClientClose, ClientMisbehave, ClientReceive,
      Finished
  <2> QED BY <1>1, <2>1 DEF ConformingClientAccepted
<1> QED BY <1>2, <1>3, <1>4

\* The initial state satisfies the invariant.
LEMMA InitInvariant == Init => IInv
<1> SUFFICES ASSUME Init PROVE IInv
  OBVIOUS
<1>1. TypeOK
  <2>1. None \in Pieces
    BY DEF None, Pieces
  <2>2. /\ WindowMax \in 0..WindowMax /\ InitWindow \in 0..U32Max /\ 0 \in 0..RxCap
        /\ WindowMax \in Nat /\ InitWindow \in Nat
    BY ConstantsAssumption
  <2>3. /\ to_server \in Seq(Message) /\ to_client \in Seq(Message)
        /\ requests \in Seq(Nat) /\ handled \in 0..Len(requests)
    BY DEF Init
  <2>4. /\ pc \in PCs /\ status \in Statuses /\ ((pc = "ended") <=> (status # "RUNNING"))
    BY DEF Init, PCs, Statuses
  <2>5. /\ sftp_tx_pending \in Pieces /\ response \in Pieces
        /\ window_size \in 0..WindowMax /\ peer_window_size \in 0..U32Max
        /\ sftp_rx_len \in 0..RxCap /\ produced \in Nat
        /\ sent \in Nat /\ send_limit \in Nat /\ got \in Nat /\ recv_limit \in Nat
    BY <2>1, <2>2 DEF Init
  <2>6. /\ eof_sent \in BOOLEAN /\ close_sent \in BOOLEAN /\ client_eof \in BOOLEAN
        /\ client_closed \in BOOLEAN /\ rogue \in BOOLEAN
    BY DEF Init
  <2> QED BY <2>3, <2>4, <2>5, <2>6 DEF TypeOK
<1>2. Received = 0 /\ Written = 0 /\ SentPos = 0
  BY DEF Init, Received, Taken, Written, SentPos, Pending, None
<1>3. PeerLimit = InitWindow /\ ServerLimit = WindowMax
  BY <1>2, ConstantsAssumption DEF Init, PeerLimit, ServerLimit
<1>4. to_server = <<>> /\ to_client = <<>> /\ got = 0 /\ sent = 0
  BY DEF Init
<1>5. AtChain(to_client, got) /\ LastAt(to_client, got) = 0
  BY <1>4 DEF AtChain, LastAt
<1>6. RequestStream
  BY <1>2, <1>4 DEF RequestStream, AtChain, LastAt
<1>7. PeerCredit /\ ServerCredit
  BY <1>3, <1>4, ConstantsAssumption DEF Init, PeerCredit, ServerCredit, LimChain
<1>8. ResponseShape
  BY DEF Init, ResponseShape, Pending, None
<1>9. Trust
  BY <1>4, ConstantsAssumption DEF Init, Trust
<1>10. PeerWindowRespected /\ ConformingClientAccepted
  BY <1>4 DEF Init, PeerWindowRespected, ConformingClientAccepted
<1> QED BY <1>1, <1>2, <1>5, <1>6, <1>7, <1>8, <1>9, <1>10 DEF IInv, Running

\* The invariant is inductive.
LEMMA NextInvariant ==
    ASSUME IInv, [Next]_vars
    PROVE  IInv'
<1>1. TypeOK'
  BY TypesKept DEF IInv
<1>2. AtChain(to_client, got)' /\ PeerWindowRespected'
  BY OutKept
<1>3. ConformingClientAccepted'
  BY ConformingKept
<1>4. ASSUME pc' # "ended" PROVE Running'
  BY <1>4, InKept, OutKept DEF Running
<1> QED BY <1>1, <1>2, <1>3, <1>4 DEF IInv
-----------------------------------------------------------------------------
(* The theorems.                                                           *)

\* IInv holds in every reachable state of the channel loop, whatever the window
\* sizes, packet sizes, request and response lengths.
THEOREM Invariance == Spec => []IInv
<1>1. Init => IInv
  BY InitInvariant
<1>2. IInv /\ [Next]_vars => IInv'
  BY NextInvariant
<1> QED BY <1>1, <1>2, PTL DEF Spec

\* Type correctness: window_size, peer_window_size and sftp_rx_len stay within
\* the ranges of the C fields and buffers, so the unsigned subtractions in
\* ssh_server_process_sftp_channel_data never wrap and sftp_rx never overflows.
THEOREM TypeCorrect == Spec => []TypeOK
<1>1. IInv => TypeOK
  BY DEF IInv
<1> QED BY <1>1, Invariance, PTL

\* Response data never leaves the window the client has opened.
THEOREM PeerWindowSafe == Spec => []PeerWindowRespected
<1>1. IInv => PeerWindowRespected
  BY DEF IInv
<1> QED BY <1>1, Invariance, PTL

\* A client that keeps to the announced window and to its channel is never
\* thrown out with SSH_ERR_SECURITY.
THEOREM ConformingClientSafe == Spec => []ConformingClientAccepted
<1>1. IInv => ConformingClientAccepted
  BY DEF IInv
<1> QED BY <1>1, Invariance, PTL

\* The client receives the response stream in order, without gap or repetition.
THEOREM ResponseOrder == Spec => []ResponsesInOrder
<1>1. ASSUME IInv PROVE ResponsesInOrder
  <2> SUFFICES ASSUME to_client # <<>>, Head(to_client).type = "data"
               PROVE  Head(to_client).at - Head(to_client).n = got
    BY DEF ResponsesInOrder
  <2>1. Head(to_client) \in Message /\ got \in Nat /\ to_client \in Seq(Message)
    BY <1>1 DEF IInv, TypeOK
  <2>2. Head(to_client).n \in Nat /\ Head(to_client).at \in Nat
    BY <2>1 DEF Message
  <2>3. Head(to_client).at = got + Carried(Head(to_client))
    BY <1>1, <2>1, AtChainTail DEF IInv
  <2> QED BY <2>1, <2>2, <2>3 DEF Carried
<1> QED BY <1>1, Invariance, PTL
=============================================================================
