----------------------- MODULE TerminalChannel_proofs -----------------------
(***************************************************************************)
(* Proofs about TerminalChannel, for every value of its constants: a       *)
(* client that keeps to its window is never thrown out, the exit status is *)
(* reported, and the output implements the flow-controlled Stream.  The    *)
(* inductive invariant follows the credit of each direction through the    *)
(* messages in flight.                                                     *)
(***************************************************************************)
EXTENDS TerminalChannel, TLAPS

Types == {"data", "adjust", "request", "eof", "close", "exit-status",
          "success", "failure"}
Message == [type : Types, n : Nat, at : Nat, req : Requests,
            reply : BOOLEAN, mine : BOOLEAN]

TypeInv ==
    /\ pc \in {"pump", "exit", "receive", "closing", "ended"}
    /\ after \in {"receive", "loop"}
    /\ status \in {"RUNNING", "OK", "PLATFORM", "SECURITY"}
    /\ window_size \in 0..WindowMax /\ peer_window_size \in 0..U32Max
    /\ exit_status_sent \in BOOLEAN /\ eof_sent \in BOOLEAN /\ close_sent \in BOOLEAN
    /\ out_pos \in Nat
    /\ child \in {"running", "deaf", "exited", "reaped"}
    /\ produced \in Nat /\ unread \in 0..TermCap /\ is_pty \in BOOLEAN
    /\ up \in BOOLEAN
    /\ to_server \in Seq(Message) /\ to_client \in Seq(Message)
    /\ sent \in 0..MaxInput /\ send_limit \in Nat
    /\ got \in Nat /\ recv_limit \in Nat
    /\ client_closed \in BOOLEAN /\ extras \in Nat /\ rogue \in BOOLEAN

(***************************************************************************)
(* Credit along a queue.  Fits(q, type, low, high) says that whoever       *)
(* starts at low and adds the amounts of the messages of this type in q,   *)
(* one after the other, ends at high or below.  The sums are the values of *)
(* a function on the places between messages.                              *)
(***************************************************************************)
Amount(m, type) == IF m.type = type THEN m.n ELSE 0

Path(f, q, type, low, high) ==
    /\ low <= f[1] /\ f[Len(q) + 1] <= high
    /\ \A i \in 1..Len(q) : f[i] + Amount(q[i], type) <= f[i + 1]
    /\ \A i, j \in 1..(Len(q) + 1) : i <= j => f[i] <= f[j]

Fits(q, type, low, high) ==
    \E f \in [1..(Len(q) + 1) -> Nat] : Path(f, q, type, low, high)

(***************************************************************************)
(* The inductive invariant.  While the session listens, what the client    *)
(* has sent fits the window the server keeps (received is what the server  *)
(* has taken of it), and what the server may still send fits what the      *)
(* client has granted.                                                     *)
(***************************************************************************)
InputCredit ==
    /\ \E received \in Nat :
          /\ Fits(to_server, "data", received, sent)
          /\ Fits(to_client, "adjust", send_limit, received + window_size)
    /\ ~rogue => sent <= send_limit

OutputCredit ==
    Fits(to_server, "adjust", out_pos + peer_window_size, recv_limit)

\* What a message in flight tells of its sender.
Sent(m) ==
    /\ ~m.mine => rogue
    /\ m.mine /\ m.type = "data" => sent > 0
    /\ m.type = "close" => client_closed
AllSent == \A i \in 1..Len(to_server) : Sent(to_server[i])

Running == InputCredit /\ OutputCredit /\ ~close_sent

IInv ==
    /\ TypeInv /\ AllSent
    /\ HonestNotRejected /\ ExitReported
    /\ Listening => Running
-----------------------------------------------------------------------------
(* Credit.                                                                 *)

\* An amount is a number.
LEMMA AmountNat ==
    ASSUME NEW m \in Message, NEW type PROVE Amount(m, type) \in Nat
BY DEF Amount, Message

\* Without messages the credit is what it is.
LEMMA FitsEmpty ==
    ASSUME NEW type, NEW low \in Nat, NEW high \in Nat, low <= high
    PROVE  Fits(<<>>, type, low, high)
<1> DEFINE f == [i \in 1..1 |-> low]
<1>1. Len(<<>>) = 0
  OBVIOUS
<1>2. f \in [1..(Len(<<>>) + 1) -> Nat]
  BY <1>1
<1>3. Path(f, <<>>, type, low, high)
  BY <1>1 DEF Path
<1> QED BY <1>2, <1>3 DEF Fits

\* The limits may move apart.
LEMMA FitsWiden ==
    ASSUME NEW q \in Seq(Message), NEW type, NEW low \in Nat, NEW high \in Nat,
           NEW low2 \in Nat, NEW high2 \in Nat,
           Fits(q, type, low, high), low2 <= low, high <= high2
    PROVE  Fits(q, type, low2, high2)
<1>1. PICK f \in [1..(Len(q) + 1) -> Nat] : Path(f, q, type, low, high)
  BY DEF Fits
<1>2. Len(q) \in Nat /\ f[1] \in Nat /\ f[Len(q) + 1] \in Nat
  OBVIOUS
<1>3. Path(f, q, type, low2, high2)
  BY <1>1, <1>2 DEF Path
<1> QED BY <1>3 DEF Fits

\* The credit at the end is at least that at the start.
LEMMA FitsBounds ==
    ASSUME NEW q \in Seq(Message), NEW type, NEW low \in Nat, NEW high \in Nat,
           Fits(q, type, low, high)
    PROVE  low <= high
<1>1. PICK f \in [1..(Len(q) + 1) -> Nat] : Path(f, q, type, low, high)
  BY DEF Fits
<1>2. Len(q) \in Nat /\ f[1] \in Nat /\ f[Len(q) + 1] \in Nat
  OBVIOUS
<1>3. f[1] <= f[Len(q) + 1]
  BY <1>1, <1>2 DEF Path
<1> QED BY <1>1, <1>2, <1>3 DEF Path

\* A message appended adds its amount at the end.
LEMMA FitsAppend ==
    ASSUME NEW q \in Seq(Message), NEW m \in Message, NEW type,
           NEW low \in Nat, NEW high \in Nat, NEW high2 \in Nat,
           Fits(q, type, low, high), high + Amount(m, type) <= high2
    PROVE  Fits(Append(q, m), type, low, high2)
<1> DEFINE r == Append(q, m)
           L == Len(q)
<1>1. PICK f \in [1..(L + 1) -> Nat] : Path(f, q, type, low, high)
  BY DEF Fits
<1>2. /\ L \in Nat /\ Len(r) = L + 1 /\ r[L + 1] = m
      /\ \A i \in 1..L : r[i] = q[i]
  OBVIOUS
<1> HIDE DEF L, r
<1>3. Amount(m, type) \in Nat
  BY AmountNat
<1>4. /\ low <= f[1] /\ f[L + 1] <= high
      /\ \A i \in 1..L : f[i] + Amount(q[i], type) <= f[i + 1]
      /\ \A i, j \in 1..(L + 1) : i <= j => f[i] <= f[j]
      /\ \A i \in 1..(L + 1) : f[i] \in Nat
  BY <1>1 DEF Path, L
<1> DEFINE g == [i \in 1..(L + 2) |-> IF i = L + 2 THEN high2 ELSE f[i]]
<1>5. /\ g \in [1..(L + 2) -> Nat]
      /\ g[L + 2] = high2 /\ \A i \in 1..(L + 1) : g[i] = f[i]
  BY <1>2, <1>4
<1> HIDE DEF g
<1>6. low <= g[1] /\ g[L + 2] <= high2
  BY <1>2, <1>4, <1>5
<1>7. ASSUME NEW i \in 1..(L + 1)
      PROVE  g[i] + Amount(r[i], type) <= g[i + 1]
  <2>1. CASE i \in 1..L
    BY <1>2, <1>4, <1>5, <2>1
  <2>2. CASE i = L + 1
    BY <1>2, <1>3, <1>4, <1>5, <2>2
  <2> QED BY <1>2, <2>1, <2>2
<1>8. ASSUME NEW i \in 1..(L + 2), NEW j \in 1..(L + 2), i <= j
      PROVE  g[i] <= g[j]
  <2>1. \A k \in 1..(L + 1) : f[k] <= high2
    <3>1. \A k \in 1..(L + 1) : f[k] <= f[L + 1]
      BY <1>2, <1>4
    <3> QED BY <1>2, <1>3, <1>4, <3>1
  <2>2. CASE j = L + 2
    <3>1. g[j] = high2
      BY <1>5, <2>2
    <3>2. CASE i = L + 2
      BY <1>5, <3>1, <3>2
    <3>3. CASE i \in 1..(L + 1)
      BY <1>5, <2>1, <3>1, <3>3
    <3> QED BY <1>2, <3>2, <3>3
  <2>3. CASE j # L + 2
    <3>1. i \in 1..(L + 1) /\ j \in 1..(L + 1)
      BY <1>2, <1>8, <2>3
    <3> QED BY <1>4, <1>5, <1>8, <3>1
  <2> QED BY <2>2, <2>3
<1>9. Path(g, r, type, low, high2) /\ g \in [1..(Len(r) + 1) -> Nat]
  <2>1. Len(r) + 1 = L + 2
    BY <1>2
  <2> QED BY <1>2, <1>5, <1>6, <1>7, <1>8, <2>1 DEF Path
<1> QED BY <1>9 DEF Fits, r

\* The first message taken off adds its amount at the start.
LEMMA FitsTail ==
    ASSUME NEW q \in Seq(Message), q # <<>>, NEW type,
           NEW low \in Nat, NEW high \in Nat, Fits(q, type, low, high)
    PROVE  Fits(Tail(q), type, low + Amount(Head(q), type), high)
<1> DEFINE r == Tail(q)
           L == Len(q)
<1>1. PICK f \in [1..(L + 1) -> Nat] : Path(f, q, type, low, high)
  BY DEF Fits
<1>2. /\ L \in Nat /\ L >= 1 /\ Len(r) = L - 1 /\ Head(q) = q[1]
      /\ Head(q) \in Message /\ \A i \in 1..(L - 1) : r[i] = q[i + 1]
  OBVIOUS
<1>3. Amount(Head(q), type) \in Nat
  BY <1>2, AmountNat
<1> HIDE DEF L, r
<1>4. /\ low <= f[1] /\ f[L + 1] <= high
      /\ \A i \in 1..L : f[i] + Amount(q[i], type) <= f[i + 1]
      /\ \A i, j \in 1..(L + 1) : i <= j => f[i] <= f[j]
      /\ \A i \in 1..(L + 1) : f[i] \in Nat
  BY <1>1 DEF Path, L
<1> DEFINE g == [i \in 1..L |-> f[i + 1]]
<1>5. /\ g \in [1..L -> Nat] /\ \A i \in 1..L : g[i] = f[i + 1]
  BY <1>2, <1>4
<1> HIDE DEF g
<1>6. low + Amount(Head(q), type) <= g[1] /\ g[L] <= high
  BY <1>2, <1>3, <1>4, <1>5
<1>7. \A i \in 1..(L - 1) : g[i] + Amount(r[i], type) <= g[i + 1]
  BY <1>2, <1>4, <1>5
<1>8. \A i, j \in 1..L : i <= j => g[i] <= g[j]
  BY <1>2, <1>4, <1>5
<1>9. Path(g, r, type, low + Amount(Head(q), type), high)
      /\ g \in [1..(Len(r) + 1) -> Nat]
  <2>1. Len(r) + 1 = L
    BY <1>2
  <2> QED BY <1>2, <1>5, <1>6, <1>7, <1>8, <2>1 DEF Path
<1> QED BY <1>9 DEF Fits, r

-----------------------------------------------------------------------------
(* Types.                                                                  *)

\* A message made by Msg has its type and its fields.
LEMMA MsgType ==
    ASSUME NEW type \in Types, NEW n \in Nat, NEW at \in Nat
    PROVE  /\ Msg(type, n, at) \in Message
           /\ Msg(type, n, at).type = type /\ Msg(type, n, at).n = n
           /\ Msg(type, n, at).mine = TRUE
BY DEF Msg, Message, Requests

\* So has a channel request, and a message for another channel.
LEMMA ExtraType ==
    ASSUME NEW at \in Nat, NEW r \in Requests, NEW w \in BOOLEAN
    PROVE  /\ [Msg("request", 0, at) EXCEPT !.req = r, !.reply = w] \in Message
           /\ [Msg("request", 0, at) EXCEPT !.req = r, !.reply = w].type = "request"
           /\ [Msg("request", 0, at) EXCEPT !.req = r, !.reply = w].mine = TRUE
           /\ [Msg("data", 0, at) EXCEPT !.mine = FALSE] \in Message
           /\ [Msg("data", 0, at) EXCEPT !.mine = FALSE].type = "data"
           /\ [Msg("data", 0, at) EXCEPT !.mine = FALSE].n = 0
           /\ [Msg("data", 0, at) EXCEPT !.mine = FALSE].mine = FALSE
BY DEF Msg, Message, Requests, Types

\* The constants are numbers.
LEMMA Constants ==
    /\ WindowMax \in Nat /\ WindowMax > 0 /\ PeerWindow \in Nat /\ PeerWindow > 0
    /\ PeerMaxPacket \in Nat /\ OutBuf \in Nat /\ U32Max \in Nat
    /\ PeerWindow <= U32Max /\ TermCap \in Nat /\ MaxInput \in Nat
BY ConstantsAssumption

\* A turn of the pump sends no more than the window of the peer allows.
LEMMA MaxSendBound ==
    ASSUME peer_window_size \in Nat
    PROVE  MaxSend \in Nat /\ MaxSend <= peer_window_size
BY Constants DEF MaxSend, Min2

\* The queues stay queues of messages.
LEMMA Queues ==
    ASSUME TypeInv
    PROVE  /\ to_server # <<>> => /\ Head(to_server) \in Message
                                  /\ Tail(to_server) \in Seq(Message)
           /\ to_client # <<>> => /\ Head(to_client) \in Message
                                  /\ Tail(to_client) \in Seq(Message)
           /\ \A m \in Message : /\ Append(to_server, m) \in Seq(Message)
                                 /\ Append(to_client, m) \in Seq(Message)
                                 /\ to_client \o <<m>> = Append(to_client, m)
                                 /\ to_client \o <<m>> \in Seq(Message)
           /\ \A m, k \in Message : to_client \o <<m, k>> \in Seq(Message)
           /\ \A m, k, l \in Message : to_client \o <<m, k, l>> \in Seq(Message)
           /\ to_client \o <<>> = to_client
BY DEF TypeInv

\* The window and what is given back of it stay within the window's size.
LEMMA WindowBounds ==
    ASSUME NEW w \in 0..WindowMax
    PROVE  /\ Replenished(w) \in 0..WindowMax /\ BytesToAdd(w) \in Nat
           /\ Replenished(w) = w + BytesToAdd(w)
BY Constants DEF Replenished, BytesToAdd

\* Every step keeps the types.
LEMMA TypesKept ==
    ASSUME TypeInv, [Next]_vars
    PROVE  TypeInv'
<1> USE DEF vars, serverVars, childVars, clientVars
<1>0. \A type \in Types : Msg(type, 0, out_pos) \in Message
  BY MsgType DEF TypeInv
<1>a. to_server # <<>> => Head(to_server) \in Message /\ Tail(to_server) \in Seq(Message)
  BY Queues
<1>b. to_client # <<>> => Head(to_client) \in Message /\ Tail(to_client) \in Seq(Message)
  BY Queues
<1>c. \A m \in Message : Append(to_server, m) \in Seq(Message)
  BY Queues
<1>d. \A m \in Message : to_client \o <<m>> \in Seq(Message)
  BY Queues
<1>1. CASE PumpSend
  <2>1. PICK n \in 1..Min2(MaxSend, produced - out_pos) :
          \/ /\ up /\ Deliver(<<Msg("data", n, out_pos + n)>>)
             /\ out_pos' = out_pos + n /\ peer_window_size' = peer_window_size - n
             /\ UNCHANGED <<pc, after, status>>
          \/ Fails /\ UNCHANGED <<out_pos, peer_window_size>>
    BY <1>1 DEF PumpSend
  <2>2. n \in Nat /\ out_pos + n \in Nat /\ peer_window_size - n \in 0..U32Max
    <3>1. MaxSend \in Nat /\ MaxSend <= peer_window_size /\ peer_window_size \in Nat
      BY MaxSendBound DEF TypeInv
    <3> QED BY <2>1, <3>1, Constants DEF Min2, TypeInv
  <2>3. Msg("data", n, out_pos + n) \in Message
    BY <2>2, MsgType DEF Types
  <2> QED BY <1>1, <1>d, <2>1, <2>2, <2>3 DEF PumpSend, Fails, End, Deliver, TypeInv
<1>2. CASE PumpReset \/ PumpEnd \/ ExitNotYet
  <2>1. CASE PumpReset
    BY <2>1 DEF PumpReset, End, TypeInv
  <2>2. CASE PumpEnd
    BY <2>2 DEF PumpEnd, TypeInv
  <2>3. CASE ExitNotYet
    BY <2>3 DEF ExitNotYet, TypeInv
  <2> QED BY <1>2, <2>1, <2>2, <2>3
<1>3. CASE ExitAndClose
  <2>1. to_client' \in Seq(Message)
    <3>1. to_client \o <<Msg("exit-status", 0, out_pos), Msg("eof", 0, out_pos),
                         Msg("close", 0, out_pos)>> \in Seq(Message)
      BY <1>0, Queues DEF Types
    <3> QED BY <1>3, <3>1 DEF ExitAndClose, CloseWithStatus, Deliver, Fails, TypeInv
  <2> QED BY <1>3, <2>1 DEF ExitAndClose, CloseWithStatus, Fails, End, TypeInv
<1>4. CASE ReceiveTimeout \/ ReceiveLost \/ ReceiveForeign
  <2>1. CASE ReceiveTimeout
    BY <2>1 DEF ReceiveTimeout, PumpAgain, TypeInv
  <2>2. CASE ReceiveLost
    BY <2>2 DEF ReceiveLost, End, TypeInv
  <2>3. CASE ReceiveForeign
    BY <1>a, <2>3 DEF ReceiveForeign, End, TypeInv
  <2> QED BY <1>4, <2>1, <2>2, <2>3
<1>5. CASE ReceiveWindowAdjust
  <2>1. AddSaturating(peer_window_size, Head(to_server).n) \in 0..U32Max
    <3>1. Head(to_server).n \in Nat /\ peer_window_size \in Nat
      BY <1>5, <1>a, Constants DEF ReceiveWindowAdjust, Arrives, Message, TypeInv
    <3> QED BY <3>1, Constants DEF AddSaturating, Min2
  <2> QED BY <1>5, <1>a, <2>1 DEF ReceiveWindowAdjust, Arrives, PumpAgain, TypeInv
<1>6. CASE ReceiveRequest
  <2>1. to_client' \in Seq(Message)
    <3>1. /\ to_client \o <<Msg("success", 0, out_pos)>> \in Seq(Message)
          /\ to_client \o <<Msg("failure", 0, out_pos)>> \in Seq(Message)
      BY <1>0, <1>d DEF Types
    <3> QED BY <1>6, <3>1 DEF ReceiveRequest, Deliver, Fails, TypeInv
  <2>2. pc' \in {"pump", "closing"} /\ after' \in {"receive", "loop"}
        /\ status' \in {status, "PLATFORM"}
    BY <1>6 DEF ReceiveRequest, PumpAgain, Fails, End, TypeInv
  <2>3. child' \in {child, "exited"}
    BY <1>6 DEF ReceiveRequest
  <2> QED BY <1>6, <1>a, <2>1, <2>2, <2>3 DEF ReceiveRequest, Arrives, TypeInv
<1>7. CASE ReceiveEof
  BY <1>7, <1>a DEF ReceiveEof, Arrives, PumpAgain, TypeInv
<1>8. CASE ReceiveClose
  BY <1>0, <1>a, <1>d, <1>8 DEF ReceiveClose, Arrives, Deliver, Fails, End, Types, TypeInv
<1>9. CASE ReceiveExcessData
  BY <1>9, <1>a DEF ReceiveExcessData, Arrives, End, TypeInv
<1>10. CASE ReceiveData
  <2> DEFINE n == Head(to_server).n
             left == window_size - n
             add == BytesToAdd(left)
  <2>1. n \in Nat /\ left \in 0..WindowMax
    BY <1>10, <1>a, Constants DEF ReceiveData, Arrives, Message, TypeInv
  <2>2. /\ Replenished(left) \in 0..WindowMax /\ add \in Nat
        /\ Msg("adjust", add, out_pos) \in Message
    BY <2>1, WindowBounds, MsgType DEF Types, TypeInv
  <2>3. to_client' \in Seq(Message) /\ window_size' \in 0..WindowMax
    <3>1. /\ to_client \o <<>> \in Seq(Message)
          /\ to_client \o <<Msg("adjust", add, out_pos)>> \in Seq(Message)
      BY <1>d, <2>2, Queues DEF TypeInv
    <3> QED BY <1>10, <2>1, <2>2, <3>1 DEF ReceiveData, Deliver, Fails, TypeInv
  <2>4. unread' \in 0..TermCap
    <3>1. unread + Taken(n) \in 0..TermCap
      BY <2>1, Constants DEF Taken, Min2, TypeInv
    <3> QED BY <1>10, <3>1 DEF ReceiveData, PumpAgain, TypeInv
  <2>5. /\ pc' \in {"pump", "closing"} /\ after' \in {"receive", "loop"}
        /\ status' \in {status, "PLATFORM", "OK"}
    BY <1>10 DEF ReceiveData, PumpAgain, Fails, End, TypeInv
  <2> QED BY <1>10, <1>a, <2>3, <2>4, <2>5 DEF ReceiveData, Arrives, TypeInv
<1>11. CASE Kill \/ WaitClosed
  BY <1>11 DEF Kill, WaitClosed, TypeInv
<1>12. CASE ChildWrites \/ ChildReads \/ ChildExits \/ ConnectionLost
  <2>1. CASE ChildWrites
    BY <2>1 DEF ChildWrites, TypeInv
  <2>2. CASE ChildReads
    BY <2>2, Constants DEF ChildReads, TypeInv
  <2>3. CASE ChildExits
    BY <2>3 DEF ChildExits, TypeInv
  <2>4. CASE ConnectionLost
    <3>1. up' \in BOOLEAN
      BY <2>4 DEF ConnectionLost
    <3>2. UNCHANGED <<serverVars, childVars, to_server, to_client, clientVars>>
      BY <2>4 DEF ConnectionLost
    <3> QED BY <3>1, <3>2 DEF TypeInv
  <2> QED BY <1>12, <2>1, <2>2, <2>3, <2>4
<1>13. CASE ClientSendsData
  <2>1. PICK n \in 1..(MaxInput - sent) :
           /\ ClientPuts(Msg("data", n, sent + n)) /\ sent' = sent + n
           /\ rogue' = (rogue \/ sent + n > send_limit)
    BY <1>13 DEF ClientSendsData
  <2>2. n \in Nat /\ sent + n \in 0..MaxInput /\ sent + n \in Nat
    BY Constants DEF TypeInv
  <2>3. Msg("data", n, sent + n) \in Message
    BY <2>2, MsgType DEF Types
  <2>4. rogue' \in BOOLEAN
    BY <2>1
  <2>5. to_server' \in Seq(Message)
    BY <1>c, <2>1, <2>3 DEF ClientPuts
  <2>6. UNCHANGED <<serverVars, childVars, up, to_client, send_limit, got,
                     recv_limit, client_closed, extras>>
    BY <1>13 DEF ClientSendsData
  <2>7. sent' \in 0..MaxInput
    BY <2>1, <2>2
  <2> QED BY <2>4, <2>5, <2>6, <2>7 DEF TypeInv
<1>14. CASE ClientSendsExtra
  <2>1. sent \in Nat
    BY Constants DEF TypeInv
  <2>2. to_server' \in Seq(Message)
    <3>1. \A m : ClientPuts(m) /\ m \in Message => to_server' \in Seq(Message)
      BY <1>c DEF ClientPuts
    <3>2. Msg("eof", 0, sent) \in Message
      BY <2>1, MsgType DEF Types
    <3>3. CASE \E r \in Requests, w \in BOOLEAN :
                 ClientPuts([Msg("request", 0, sent) EXCEPT !.req = r, !.reply = w])
      BY <2>1, <3>1, <3>3, ExtraType
    <3>4. CASE ClientPuts([Msg("data", 0, sent) EXCEPT !.mine = FALSE])
      BY <2>1, <3>1, <3>4, ExtraType DEF Requests
    <3> QED BY <1>14, <3>1, <3>2, <3>3, <3>4 DEF ClientSendsExtra
  <2>3. extras' \in Nat
    <3>1. extras' = extras + 1
      BY <1>14 DEF ClientSendsExtra
    <3> QED BY <3>1 DEF TypeInv
  <2>4. rogue' \in BOOLEAN
    <3>1. UNCHANGED rogue \/ rogue' = TRUE
      BY <1>14, Zenon DEF ClientSendsExtra
    <3> QED BY <3>1 DEF TypeInv
  <2>5. UNCHANGED <<serverVars, childVars, up, to_client, sent, send_limit, got,
                     recv_limit, client_closed>>
    BY <1>14 DEF ClientSendsExtra
  <2> QED BY <2>2, <2>3, <2>4, <2>5 DEF TypeInv
<1>15. CASE ClientAdjusts
  <2> DEFINE n == got + PeerWindow - recv_limit
  <2>1. n \in Nat /\ recv_limit + n \in Nat /\ sent \in Nat
    BY <1>15, Constants DEF ClientAdjusts, TypeInv
  <2>2. Msg("adjust", n, sent) \in Message
    BY <2>1, MsgType DEF Types
  <2> QED BY <1>15, <1>c, <2>1, <2>2 DEF ClientAdjusts, ClientPuts, TypeInv
<1>16. CASE ClientCloses
  <2>1. Msg("close", 0, sent) \in Message
    <3>1. sent \in Nat
      BY Constants DEF TypeInv
    <3> QED BY <3>1, MsgType DEF Types
  <2> QED BY <1>16, <1>c, <2>1 DEF ClientCloses, ClientPuts, TypeInv
<1>17. CASE ClientReceives
  <2>1. Head(to_client).at \in Nat /\ Head(to_client).n \in Nat
    BY <1>17, <1>b DEF ClientReceives, Message
  <2> QED BY <1>17, <1>b, <2>1 DEF ClientReceives, TypeInv
<1>18. CASE ClientBegins \/ UNCHANGED vars
  <2>1. UNCHANGED <<serverVars, childVars, up, to_server, to_client, sent, send_limit,
                    got, recv_limit, client_closed, extras, rogue>>
    BY <1>18 DEF ClientBegins
  <2> QED BY <2>1 DEF TypeInv
<1> QED BY <1>1, <1>2, <1>3, <1>4, <1>5, <1>6, <1>7, <1>8, <1>9, <1>10, <1>11, <1>12,
           <1>13, <1>14, <1>15, <1>16, <1>17, <1>18 DEF Next, Server, Environment
-----------------------------------------------------------------------------
(* Credit along the steps.                                                 *)

\* The client puts a message on the stream and counts what it carries.
LEMMA PutKeeps ==
    ASSUME TypeInv, TypeInv', Running, NEW m \in Message,
           to_server' = Append(to_server, m),
           sent' = sent + Amount(m, "data"),
           recv_limit' = recv_limit + Amount(m, "adjust"),
           UNCHANGED <<to_client, send_limit, window_size, out_pos,
                       peer_window_size, close_sent>>,
           ~rogue' => ~rogue /\ sent' <= send_limit
    PROVE  Running'
<1>1. /\ sent \in Nat /\ sent' \in Nat /\ recv_limit \in Nat /\ recv_limit' \in Nat
      /\ out_pos + peer_window_size \in Nat /\ to_server \in Seq(Message)
  BY Constants DEF TypeInv
<1>2. PICK received \in Nat :
          /\ Fits(to_server, "data", received, sent)
          /\ Fits(to_client, "adjust", send_limit, received + window_size)
  BY DEF Running, InputCredit
<1>3. Fits(to_server', "data", received, sent')
  <2>1. sent + Amount(m, "data") <= sent'
    BY <1>1
  <2> QED BY <1>1, <1>2, <2>1, FitsAppend
<1>4. Fits(to_client, "adjust", send_limit, received + window_size)'
  BY <1>2
<1>5. InputCredit'
  BY <1>3, <1>4 DEF InputCredit
<1>6. OutputCredit'
  <2>1. Fits(to_server', "adjust", out_pos + peer_window_size, recv_limit')
    <3>1. recv_limit + Amount(m, "adjust") <= recv_limit'
      BY <1>1
    <3> QED BY <1>1, <3>1, FitsAppend DEF Running, OutputCredit
  <2> QED BY <2>1 DEF OutputCredit
<1> QED BY <1>5, <1>6 DEF Running

\* The server takes a message with n bytes of input and k bytes of credit, and
\* gives back some of its window or nothing; of the credit it counts k at most.
Takes(n, k, given) ==
    /\ to_server # <<>> /\ to_server' = Tail(to_server)
    /\ n = Amount(Head(to_server), "data") /\ k = Amount(Head(to_server), "adjust")
    /\ window_size' = window_size - n + given
    /\ peer_window_size' <= peer_window_size + k
    /\ \/ to_client' = to_client /\ given = 0
       \/ \E m \in Message : /\ to_client' = Append(to_client, m)
                             /\ Amount(m, "adjust") = given
    /\ UNCHANGED <<sent, recv_limit, send_limit, rogue, close_sent, out_pos>>

\* Such a step keeps the credit of both directions.
LEMMA TakeKeeps ==
    ASSUME TypeInv, TypeInv', Running,
           NEW n \in Nat, NEW k \in Nat, NEW given \in Nat, Takes(n, k, given)
    PROVE  Running'
<1>1. /\ sent \in Nat /\ recv_limit \in Nat /\ send_limit \in Nat /\ out_pos \in Nat
      /\ peer_window_size \in Nat /\ peer_window_size' \in Nat
      /\ window_size \in Nat /\ window_size' \in Nat
  BY Constants DEF TypeInv
<1>2. /\ to_server \in Seq(Message) /\ to_client \in Seq(Message)
      /\ to_server # <<>> /\ Tail(to_server) \in Seq(Message)
  BY Queues DEF TypeInv, Takes
<1>3. PICK received \in Nat :
          /\ Fits(to_server, "data", received, sent)
          /\ Fits(to_client, "adjust", send_limit, received + window_size)
  BY DEF Running, InputCredit
<1>4. received + n \in Nat /\ received + window_size \in Nat
  BY <1>1
<1>5. Fits(to_server', "data", received + n, sent')
  <2>1. Fits(Tail(to_server), "data", received + Amount(Head(to_server), "data"), sent)
    BY <1>1, <1>2, <1>3, FitsTail
  <2> QED BY <2>1 DEF Takes
<1>6. Fits(to_client', "adjust", send_limit', received + n + window_size')
  <2>1. received + n + window_size' = received + window_size + given
    <3>1. window_size' = window_size - n + given
      BY DEF Takes
    <3> QED BY <1>1, <3>1
  <2>2. received + window_size + given \in Nat
    BY <1>4
  <2>3. CASE to_client' = to_client /\ given = 0
    <3>1. received + n + window_size' = received + window_size
      BY <1>4, <2>1, <2>3
    <3>2. send_limit' = send_limit
      BY DEF Takes
    <3> QED BY <1>3, <2>3, <3>1, <3>2
  <2>4. CASE \E m \in Message : /\ to_client' = Append(to_client, m)
                                /\ Amount(m, "adjust") = given
    <3>1. PICK m \in Message : /\ to_client' = Append(to_client, m)
                               /\ Amount(m, "adjust") = given
      BY <2>4
    <3>2. Fits(Append(to_client, m), "adjust", send_limit, received + window_size + given)
      <4>1. received + window_size + Amount(m, "adjust") <= received + window_size + given
        BY <2>2, <3>1
      <4> QED BY <1>1, <1>2, <1>3, <1>4, <2>2, <4>1, FitsAppend
    <3>3. send_limit' = send_limit
      BY DEF Takes
    <3> QED BY <2>1, <3>1, <3>2, <3>3
  <2> QED BY <2>3, <2>4 DEF Takes
<1>7. InputCredit'
  <2>1. ~rogue' => sent' <= send_limit'
    BY DEF Running, InputCredit, Takes
  <2> QED BY <1>4, <1>5, <1>6, <2>1 DEF InputCredit
<1>8. OutputCredit'
  <2>1. out_pos' = out_pos /\ peer_window_size' <= peer_window_size + k
    BY DEF Takes
  <2>2. PICK pw \in Nat : pw = peer_window_size'
    BY <1>1
  <2>3. /\ out_pos + peer_window_size \in Nat /\ out_pos + pw \in Nat
        /\ out_pos + peer_window_size + k \in Nat
    BY <1>1
  <2>4. out_pos + pw <= out_pos + peer_window_size + k
    <3>1. pw <= peer_window_size + k
      BY <2>1, <2>2
    <3> QED BY <1>1, <3>1
  <2>5. Fits(to_server, "adjust", out_pos + peer_window_size, recv_limit)
    BY DEF Running, OutputCredit
  <2>6. Fits(Tail(to_server), "adjust", out_pos + peer_window_size + k, recv_limit)
    <3>1. k = Amount(Head(to_server), "adjust")
      BY DEF Takes
    <3> QED BY <1>1, <1>2, <2>3, <2>5, <3>1, FitsTail
  <2>7. Fits(Tail(to_server), "adjust", out_pos + pw, recv_limit)
    <3>1. PICK low \in Nat : low = out_pos + peer_window_size + k
      BY <2>3
    <3>2. PICK low2 \in Nat : low2 = out_pos + pw
      BY <2>3
    <3>3. recv_limit \in Nat /\ low2 <= low /\ recv_limit <= recv_limit
      BY <1>1, <2>4, <3>1, <3>2
    <3>4. Fits(Tail(to_server), "adjust", low, recv_limit)
      BY <2>6, <3>1
    <3>5. Fits(Tail(to_server), "adjust", low2, recv_limit)
      BY <1>2, <3>3, <3>4, FitsWiden
    <3> QED BY <3>2, <3>5
  <2>8. to_server' = Tail(to_server) /\ recv_limit' = recv_limit
    BY DEF Takes
  <2>9. Fits(to_server', "adjust", out_pos' + peer_window_size', recv_limit')
    BY <2>1, <2>2, <2>7, <2>8
  <2> QED BY <2>9 DEF OutputCredit
<1>9. ~close_sent'
  BY DEF Running, Takes
<1> QED BY <1>7, <1>8, <1>9 DEF Running

\* A message that carries more than the window allows comes from a client that
\* has broken the protocol.
LEMMA ExcessIsRogue ==
    ASSUME TypeInv, Running, to_server # <<>>, Head(to_server).type = "data",
           Head(to_server).n > window_size
    PROVE  rogue
<1>1. /\ sent \in Nat /\ send_limit \in Nat /\ window_size \in Nat
      /\ to_server \in Seq(Message) /\ to_client \in Seq(Message)
      /\ Head(to_server) \in Message /\ Tail(to_server) \in Seq(Message)
  BY Constants, Queues DEF TypeInv
<1>2. PICK received \in Nat :
          /\ Fits(to_server, "data", received, sent)
          /\ Fits(to_client, "adjust", send_limit, received + window_size)
  BY DEF Running, InputCredit
<1>3. Head(to_server).n \in Nat /\ Amount(Head(to_server), "data") = Head(to_server).n
  BY <1>1 DEF Amount, Message
<1>4. received + Head(to_server).n <= sent
  <2>1. Fits(Tail(to_server), "data", received + Head(to_server).n, sent)
    BY <1>1, <1>2, <1>3, FitsTail
  <2>2. received + Head(to_server).n \in Nat
    BY <1>3
  <2> QED BY <1>1, <2>1, <2>2, FitsBounds
<1>5. send_limit <= received + window_size
  BY <1>1, <1>2, FitsBounds
<1>6. ~rogue => sent <= send_limit
  BY DEF Running, InputCredit
<1> QED BY <1>1, <1>3, <1>4, <1>5, <1>6

\* A turn of the pump moves credit from the window to what has been sent.
LEMMA PumpKeeps ==
    ASSUME TypeInv, TypeInv', Running, PumpSend, Listening'
    PROVE  Running'
<1> USE DEF vars, serverVars, childVars, clientVars
<1>1. PICK n \in 1..Min2(MaxSend, produced - out_pos) :
          /\ Deliver(<<Msg("data", n, out_pos + n)>>)
          /\ out_pos' = out_pos + n /\ peer_window_size' = peer_window_size - n
  BY DEF PumpSend, Fails, End, Listening
<1>2. /\ out_pos \in Nat /\ peer_window_size \in Nat /\ send_limit \in Nat
      /\ window_size \in Nat /\ to_client \in Seq(Message)
  BY Constants DEF TypeInv
<1>3. n \in Nat /\ out_pos + n \in Nat
  <2>1. MaxSend \in Nat /\ produced \in Nat
    BY <1>2, MaxSendBound DEF TypeInv
  <2> QED BY <1>2, <2>1 DEF Min2
<1>4. UNCHANGED <<window_size, close_sent, to_server, sent, send_limit, recv_limit, rogue>>
  BY DEF PumpSend
<1>5. PICK m \in Message : to_client' = Append(to_client, m) /\ m.type = "data"
  <2>1. Msg("data", n, out_pos + n) \in Message
    BY <1>3, MsgType DEF Types
  <2>2. to_client' = Append(to_client, Msg("data", n, out_pos + n))
    <3>1. \A m \in Message : to_client \o <<m>> = Append(to_client, m)
      BY Queues
    <3> QED BY <1>1, <2>1, <3>1 DEF Deliver
  <2>3. Msg("data", n, out_pos + n).type = "data"
    BY DEF Msg
  <2> QED BY <2>1, <2>2, <2>3, Zenon
<1>6. PICK received \in Nat :
          /\ Fits(to_server, "data", received, sent)
          /\ Fits(to_client, "adjust", send_limit, received + window_size)
  BY DEF Running, InputCredit
<1>7. Fits(to_client', "adjust", send_limit, received + window_size)
  <2>1. received + window_size \in Nat
    BY <1>2
  <2>2. received + window_size + Amount(m, "adjust") <= received + window_size
    BY <1>5, <2>1 DEF Amount
  <2>3. Fits(Append(to_client, m), "adjust", send_limit, received + window_size)
    BY <1>2, <1>6, <2>1, <2>2, FitsAppend
  <2> QED BY <1>5, <2>3
<1>8. InputCredit'
  <2>1. ~rogue' => sent' <= send_limit'
    BY <1>4 DEF Running, InputCredit
  <2>2. /\ Fits(to_server', "data", received, sent')
        /\ Fits(to_client', "adjust", send_limit', received + window_size')
    BY <1>4, <1>6, <1>7
  <2> QED BY <2>1, <2>2 DEF InputCredit
<1>9. OutputCredit'
  <2>1. out_pos' + peer_window_size' = out_pos + peer_window_size
    BY <1>1, <1>2, <1>3
  <2>2. Fits(to_server', "adjust", out_pos' + peer_window_size', recv_limit')
    BY <1>4, <2>1 DEF Running, OutputCredit
  <2> QED BY <2>2 DEF OutputCredit
<1> QED BY <1>4, <1>8, <1>9 DEF Running

\* The client takes a message: what it adjusts is credit for the client's input.
LEMMA ClientTakes ==
    ASSUME TypeInv, TypeInv', Running, ClientReceives
    PROVE  Running'
<1>1. /\ send_limit \in Nat /\ window_size \in Nat /\ to_client \in Seq(Message)
      /\ to_client # <<>> /\ Head(to_client) \in Message /\ sent \in Nat
  BY Queues, Constants DEF TypeInv, ClientReceives
<1>2. UNCHANGED <<window_size, close_sent, to_server, sent, recv_limit, rogue,
                   out_pos, peer_window_size>>
  BY DEF ClientReceives, serverVars
<1>3. /\ to_client' = Tail(to_client)
      /\ send_limit' = send_limit + Amount(Head(to_client), "adjust")
  BY <1>1 DEF ClientReceives, Amount
<1>4. PICK received \in Nat :
          /\ Fits(to_server, "data", received, sent)
          /\ Fits(to_client, "adjust", send_limit, received + window_size)
  BY DEF Running, InputCredit
<1>5. Fits(Tail(to_client), "adjust", send_limit + Amount(Head(to_client), "adjust"),
           received + window_size)
  BY <1>1, <1>4, FitsTail
<1>6. InputCredit'
  <2>1. ~rogue' => sent' <= send_limit'
    <3>1. Amount(Head(to_client), "adjust") \in Nat
      BY <1>1, AmountNat
    <3>2. ~rogue => sent <= send_limit
      BY DEF Running, InputCredit
    <3>3. ~rogue => sent <= send_limit + Amount(Head(to_client), "adjust")
      BY <1>1, <3>1, <3>2
    <3> QED BY <1>2, <1>3, <3>3
  <2>2. /\ Fits(to_server', "data", received, sent')
        /\ Fits(to_client', "adjust", send_limit', received + window_size')
    BY <1>2, <1>3, <1>4, <1>5
  <2> QED BY <2>1, <2>2 DEF InputCredit
<1>7. OutputCredit' /\ ~close_sent'
  BY <1>2 DEF Running, OutputCredit
<1> QED BY <1>6, <1>7 DEF Running

\* A step that touches neither the queues nor the counters.
LEMMA FrameKeeps ==
    ASSUME Running,
           UNCHANGED <<to_server, to_client, sent, send_limit, window_size, rogue,
                       out_pos, peer_window_size, recv_limit, close_sent>>
    PROVE  Running'
BY DEF Running, InputCredit, OutputCredit

\* While the session listens, every step keeps the credit of both directions.
LEMMA RunningKept ==
    ASSUME TypeInv, TypeInv', Running, [Next]_vars, Listening'
    PROVE  Running'
<1> USE DEF vars, serverVars, childVars, clientVars
<1>1. CASE PumpSend
  BY <1>1, PumpKeeps
<1>2. CASE PumpEnd \/ ExitNotYet \/ ReceiveTimeout
  <2>1. UNCHANGED <<to_server, to_client, sent, send_limit, window_size, rogue,
                     out_pos, peer_window_size, recv_limit, close_sent>>
    BY <1>2 DEF PumpEnd, ExitNotYet, ReceiveTimeout
  <2> QED BY <2>1, FrameKeeps
<1>3. CASE PumpReset \/ ExitAndClose \/ ReceiveLost \/ ReceiveForeign
  BY <1>3 DEF PumpReset, ExitAndClose, ReceiveLost, ReceiveForeign, Fails, End, Listening
<1>4. CASE ReceiveClose \/ ReceiveExcessData \/ Kill \/ WaitClosed
  BY <1>4 DEF ReceiveClose, ReceiveExcessData, Kill, WaitClosed, Fails, End, Listening
<1>5. CASE ReceiveWindowAdjust
  <2>1. /\ Head(to_server) \in Message /\ Head(to_server).n \in Nat
        /\ to_server # <<>> /\ Head(to_server).type = "adjust"
    BY <1>5, Queues DEF ReceiveWindowAdjust, Arrives, Message
  <2>2. /\ Amount(Head(to_server), "data") = 0
        /\ Amount(Head(to_server), "adjust") = Head(to_server).n
    BY <2>1 DEF Amount
  <2>3. peer_window_size' <= peer_window_size + Head(to_server).n
    <3>1. peer_window_size \in Nat
      BY Constants DEF TypeInv
    <3>2. AddSaturating(peer_window_size, Head(to_server).n)
              <= peer_window_size + Head(to_server).n
      BY <2>1, <3>1, Constants DEF AddSaturating, Min2
    <3> QED BY <1>5, <3>2 DEF ReceiveWindowAdjust
  <2>4. /\ to_server' = Tail(to_server)
        /\ UNCHANGED <<to_client, window_size, sent, recv_limit, send_limit,
                       rogue, close_sent, out_pos>>
    BY <1>5 DEF ReceiveWindowAdjust, Arrives
  <2>5. window_size' = window_size - 0 + 0
    BY <2>4 DEF TypeInv
  <2>6. Takes(0, Head(to_server).n, 0)
    BY <2>1, <2>2, <2>3, <2>4, <2>5 DEF Takes
  <2> QED BY <2>1, <2>6, TakeKeeps
<1>6. CASE ReceiveRequest
  <2>1. /\ Head(to_server) \in Message /\ to_server # <<>>
        /\ Head(to_server).type = "request" /\ to_server' = Tail(to_server)
    BY <1>6, Queues DEF ReceiveRequest, Arrives
  <2>2. /\ Amount(Head(to_server), "data") = 0 /\ Amount(Head(to_server), "adjust") = 0
    BY <2>1 DEF Amount
  <2>3. UNCHANGED <<window_size, peer_window_size, sent, recv_limit, send_limit,
                     rogue, close_sent, out_pos>>
    BY <1>6 DEF ReceiveRequest
  <2>4. window_size' = window_size - 0 + 0 /\ peer_window_size' <= peer_window_size + 0
    BY <2>3, Constants DEF TypeInv
  <2>5. \/ to_client' = to_client
        \/ \E m \in Message : to_client' = Append(to_client, m) /\ Amount(m, "adjust") = 0
    <3>1. /\ Msg("success", 0, out_pos) \in Message
          /\ Amount(Msg("success", 0, out_pos), "adjust") = 0
          /\ Msg("failure", 0, out_pos) \in Message
          /\ Amount(Msg("failure", 0, out_pos), "adjust") = 0
      BY MsgType DEF Types, Amount, TypeInv
    <3>2. \A m \in Message : to_client \o <<m>> = Append(to_client, m)
      BY Queues
    <3>3. \/ to_client' = to_client
          \/ to_client' = to_client \o <<Msg("success", 0, out_pos)>>
          \/ to_client' = to_client \o <<Msg("failure", 0, out_pos)>>
      BY <1>6 DEF ReceiveRequest, Deliver, Fails
    <3> QED BY <3>1, <3>2, <3>3
  <2>6. Takes(0, 0, 0)
    BY <2>1, <2>2, <2>3, <2>4, <2>5 DEF Takes
  <2> QED BY <2>6, TakeKeeps
<1>7. CASE ReceiveEof
  <2>1. /\ Head(to_server).type = "eof" /\ to_server # <<>> /\ to_server' = Tail(to_server)
        /\ UNCHANGED <<window_size, peer_window_size, sent, recv_limit, send_limit,
                       rogue, close_sent, out_pos, to_client>>
    BY <1>7 DEF ReceiveEof, Arrives
  <2>2. window_size' = window_size - 0 + 0 /\ peer_window_size' <= peer_window_size + 0
    BY <2>1, Constants DEF TypeInv
  <2>3. Takes(0, 0, 0)
    BY <2>1, <2>2 DEF Takes, Amount
  <2> QED BY <2>3, TakeKeeps
<1>8. CASE ReceiveData
  <2> DEFINE n == Head(to_server).n
             left == window_size - n
             add == BytesToAdd(left)
  <2>1. /\ Head(to_server) \in Message /\ to_server # <<>> /\ n <= window_size
        /\ Head(to_server).type = "data" /\ to_server' = Tail(to_server)
    BY <1>8, Queues DEF ReceiveData, Arrives
  <2>2. n \in Nat /\ left \in 0..WindowMax
    <3>1. n \in Nat
      BY <2>1 DEF Message
    <3>2. n <= window_size
      BY <2>1
    <3>3. window_size \in 0..WindowMax /\ WindowMax \in Nat
      BY Constants DEF TypeInv
    <3> HIDE DEF n
    <3> QED BY <3>1, <3>2, <3>3
  <2>3. /\ add \in Nat /\ Replenished(left) = left + add
    BY <2>2, WindowBounds
  <2>4. /\ Amount(Head(to_server), "data") = n /\ Amount(Head(to_server), "adjust") = 0
    BY <2>1 DEF Amount
  <2>5. UNCHANGED <<peer_window_size, sent, recv_limit, send_limit,
                     rogue, close_sent, out_pos>>
    BY <1>8 DEF ReceiveData
  <2>6. /\ Deliver(IF add = 0 THEN <<>> ELSE <<Msg("adjust", add, out_pos)>>)
        /\ window_size' = Replenished(left)
    BY <1>8 DEF ReceiveData, Fails, End, Listening
  <2>7. window_size' = window_size - n + add /\ peer_window_size' <= peer_window_size + 0
    <3>1. window_size' = left + add
      BY <2>3, <2>6
    <3>2. peer_window_size' <= peer_window_size + 0
      BY <2>5, Constants DEF TypeInv
    <3> QED BY <3>1, <3>2
  <2>8. \/ to_client' = to_client /\ add = 0
        \/ \E m \in Message : to_client' = Append(to_client, m) /\ Amount(m, "adjust") = add
    <3>1. Msg("adjust", add, out_pos) \in Message
      BY <2>3, MsgType DEF Types, TypeInv
    <3>3. Amount(Msg("adjust", add, out_pos), "adjust") = add
      BY DEF Msg, Amount
    <3>2. /\ \A m \in Message : to_client \o <<m>> = Append(to_client, m)
          /\ to_client \o <<>> = to_client
      BY Queues
    <3> QED BY <2>6, <3>1, <3>2, <3>3 DEF Deliver
  <2> HIDE DEF n, left, add
  <2>9. Takes(n, 0, add)
    BY <2>1, <2>4, <2>5, <2>7, <2>8 DEF Takes
  <2> QED BY <2>2, <2>3, <2>9, TakeKeeps
<1>9. CASE ChildWrites \/ ChildReads \/ ChildExits \/ ConnectionLost
  <2>1. UNCHANGED <<to_server, to_client, sent, send_limit, window_size, rogue,
                     out_pos, peer_window_size, recv_limit, close_sent>>
    BY <1>9 DEF ChildWrites, ChildReads, ChildExits, ConnectionLost
  <2> QED BY <2>1, FrameKeeps
<1>10. CASE ClientSendsData
  <2>1. PICK n \in 1..(MaxInput - sent) :
           /\ ClientPuts(Msg("data", n, sent + n)) /\ sent' = sent + n
           /\ rogue' = (rogue \/ sent + n > send_limit)
    BY <1>10 DEF ClientSendsData
  <2>2. n \in Nat /\ sent \in Nat /\ sent + n \in Nat
        /\ recv_limit \in Nat /\ send_limit \in Nat
    BY Constants DEF TypeInv
  <2>3. /\ Msg("data", n, sent + n) \in Message
        /\ Amount(Msg("data", n, sent + n), "data") = n
        /\ Amount(Msg("data", n, sent + n), "adjust") = 0
    <3>1. Msg("data", n, sent + n) \in Message
      BY <2>2, MsgType DEF Types
    <3>2. /\ Amount(Msg("data", n, sent + n), "data") = n
          /\ Amount(Msg("data", n, sent + n), "adjust") = 0
      BY DEF Msg, Amount
    <3> QED BY <3>1, <3>2
  <2>4. UNCHANGED <<to_client, send_limit, window_size, out_pos, peer_window_size,
                     close_sent, recv_limit>>
    BY <1>10 DEF ClientSendsData
  <2>5. ~rogue' => ~rogue /\ sent' <= send_limit
    <3>1. ~rogue' => ~rogue /\ ~(sent + n > send_limit)
      BY <2>1
    <3> QED BY <2>1, <2>2, <3>1
  <2>6. /\ to_server' = Append(to_server, Msg("data", n, sent + n))
        /\ sent' = sent + Amount(Msg("data", n, sent + n), "data")
        /\ recv_limit' = recv_limit + Amount(Msg("data", n, sent + n), "adjust")
    BY <2>1, <2>2, <2>3, <2>4 DEF ClientPuts
  <2> QED BY <2>3, <2>4, <2>5, <2>6, PutKeeps
<1>11. CASE ClientSendsExtra
  <2>1. UNCHANGED <<to_client, send_limit, window_size, out_pos, peer_window_size,
                     close_sent, recv_limit, sent>>
    BY <1>11 DEF ClientSendsExtra
  <2>2. sent \in Nat /\ recv_limit \in Nat
    BY Constants DEF TypeInv
  <2>3. PICK m \in Message : /\ to_server' = Append(to_server, m)
                             /\ Amount(m, "data") = 0 /\ Amount(m, "adjust") = 0
    <3>1. CASE \E r \in Requests, w \in BOOLEAN :
                 ClientPuts([Msg("request", 0, sent) EXCEPT !.req = r, !.reply = w])
      <4>1. PICK r \in Requests, w \in BOOLEAN :
                 ClientPuts([Msg("request", 0, sent) EXCEPT !.req = r, !.reply = w])
        BY <3>1
      <4> DEFINE m == [Msg("request", 0, sent) EXCEPT !.req = r, !.reply = w]
      <4>2. m \in Message /\ m.type = "request"
        <5>1. m \in Message
          BY <2>2, ExtraType
        <5>2. m.type = "request"
          BY DEF Msg
        <5> QED BY <5>1, <5>2
      <4> HIDE DEF m
      <4>3. Amount(m, "data") = 0 /\ Amount(m, "adjust") = 0
        BY <4>2 DEF Amount
      <4> QED BY <4>1, <4>2, <4>3 DEF ClientPuts, m
    <3>2. CASE ClientPuts(Msg("eof", 0, sent))
      <4>1. Msg("eof", 0, sent) \in Message
        BY <2>2, MsgType DEF Types
      <4>2. /\ Amount(Msg("eof", 0, sent), "data") = 0
            /\ Amount(Msg("eof", 0, sent), "adjust") = 0
        BY DEF Msg, Amount
      <4> QED BY <3>2, <4>1, <4>2 DEF ClientPuts
    <3>3. CASE ClientPuts([Msg("data", 0, sent) EXCEPT !.mine = FALSE])
      <4> DEFINE m == [Msg("data", 0, sent) EXCEPT !.mine = FALSE]
      <4>1. "env" \in Requests
        BY DEF Requests
      <4>2. m \in Message /\ m.type = "data" /\ m.n = 0
        BY <2>2, <4>1, ExtraType
      <4> HIDE DEF m
      <4>3. Amount(m, "data") = 0 /\ Amount(m, "adjust") = 0
        BY <4>2 DEF Amount
      <4> QED BY <3>3, <4>2, <4>3 DEF ClientPuts, m
    <3> QED BY <1>11, <3>1, <3>2, <3>3 DEF ClientSendsExtra
  <2>4. ~rogue' => ~rogue /\ sent' <= send_limit
    <3>1. UNCHANGED rogue \/ rogue' = TRUE
      BY <1>11, Zenon DEF ClientSendsExtra
    <3>2. ~rogue => sent <= send_limit
      BY DEF Running, InputCredit
    <3> QED BY <2>1, <3>1, <3>2
  <2>5. /\ sent' = sent + Amount(m, "data")
        /\ recv_limit' = recv_limit + Amount(m, "adjust")
    BY <2>1, <2>2, <2>3
  <2> QED BY <2>1, <2>3, <2>4, <2>5, PutKeeps
<1>12. CASE ClientAdjusts
  <2> DEFINE n == got + PeerWindow - recv_limit
             m == Msg("adjust", n, sent)
  <2>1. n \in Nat /\ sent \in Nat /\ recv_limit \in Nat
    BY <1>12, Constants DEF ClientAdjusts, TypeInv
  <2>2. m \in Message /\ m.type = "adjust" /\ m.n = n
    <3>1. m \in Message
      BY <2>1, MsgType DEF Types
    <3>2. m.type = "adjust" /\ m.n = n
      BY DEF Msg
    <3> QED BY <3>1, <3>2
  <2>3. /\ to_server' = Append(to_server, m) /\ recv_limit' = recv_limit + n
        /\ UNCHANGED <<to_client, send_limit, window_size, out_pos, peer_window_size,
                       close_sent, sent, rogue>>
    BY <1>12 DEF ClientAdjusts, ClientPuts
  <2> HIDE DEF n, m
  <2>4. Amount(m, "adjust") = n /\ Amount(m, "data") = 0
    BY <2>2 DEF Amount
  <2>5. /\ sent' = sent + Amount(m, "data")
        /\ recv_limit' = recv_limit + Amount(m, "adjust")
    BY <2>1, <2>3, <2>4
  <2>6. ~rogue' => ~rogue /\ sent' <= send_limit
    BY <2>3 DEF Running, InputCredit
  <2> QED BY <2>2, <2>3, <2>5, <2>6, PutKeeps
<1>13. CASE ClientCloses
  <2> DEFINE m == Msg("close", 0, sent)
  <2>1. sent \in Nat /\ recv_limit \in Nat
    BY Constants DEF TypeInv
  <2>2. m \in Message /\ m.type = "close"
    <3>1. m \in Message
      BY <2>1, MsgType DEF Types
    <3>2. m.type = "close"
      BY DEF Msg
    <3> QED BY <3>1, <3>2
  <2>3. /\ to_server' = Append(to_server, m)
        /\ UNCHANGED <<to_client, send_limit, window_size, out_pos, peer_window_size,
                       close_sent, sent, rogue, recv_limit>>
    BY <1>13 DEF ClientCloses, ClientPuts
  <2> HIDE DEF m
  <2>4. Amount(m, "adjust") = 0 /\ Amount(m, "data") = 0
    BY <2>2 DEF Amount
  <2>5. /\ sent' = sent + Amount(m, "data")
        /\ recv_limit' = recv_limit + Amount(m, "adjust")
    BY <2>1, <2>3, <2>4
  <2>6. ~rogue' => ~rogue /\ sent' <= send_limit
    BY <2>3 DEF Running, InputCredit
  <2> QED BY <2>2, <2>3, <2>5, <2>6, PutKeeps
<1>14. CASE ClientReceives
  BY <1>14, ClientTakes
<1>15. CASE ClientBegins \/ UNCHANGED vars
  <2>1. UNCHANGED <<to_server, to_client, sent, send_limit, window_size, rogue,
                     out_pos, peer_window_size, recv_limit, close_sent>>
    BY <1>15 DEF ClientBegins
  <2> QED BY <2>1, FrameKeeps
<1> QED BY <1>1, <1>2, <1>3, <1>4, <1>5, <1>6, <1>7, <1>8, <1>9, <1>10, <1>11, <1>12,
           <1>13, <1>14, <1>15 DEF Next, Server, Environment
-----------------------------------------------------------------------------
(* The rest of the invariant, and the theorems.                            *)

\* The client's marks are never taken back.
LEMMA ClientMarks ==
    ASSUME TypeInv, [Next]_vars
    PROVE  /\ rogue => rogue'
           /\ client_closed => client_closed'
           /\ sent > 0 => sent' > 0
           /\ up' => up
           /\ exit_status_sent => exit_status_sent'
           /\ is_pty' = is_pty
<1> USE DEF vars, serverVars, childVars, clientVars
<1>1. CASE Server
  <2>1. UNCHANGED clientVars /\ up' = up /\ is_pty' = is_pty
    BY <1>1 DEF Server, PumpSend, PumpReset, PumpEnd, ExitNotYet, ExitAndClose,
         ReceiveTimeout, ReceiveLost, ReceiveForeign, ReceiveWindowAdjust, ReceiveRequest,
         ReceiveEof, ReceiveClose, ReceiveExcessData, ReceiveData, Kill, WaitClosed
  <2>2. exit_status_sent => exit_status_sent'
    BY <1>1 DEF Server, PumpSend, PumpReset, PumpEnd, ExitNotYet, ExitAndClose, CloseWithStatus,
         ReceiveTimeout, ReceiveLost, ReceiveForeign, ReceiveWindowAdjust, ReceiveRequest,
         ReceiveEof, ReceiveClose, ReceiveExcessData, ReceiveData, Kill, WaitClosed
  <2> QED BY <2>1, <2>2
<1>2. CASE ClientSendsData
  <2>1. PICK n \in 1..(MaxInput - sent) :
           sent' = sent + n /\ rogue' = (rogue \/ sent + n > send_limit)
    BY <1>2 DEF ClientSendsData
  <2>2. rogue => rogue'
    BY <2>1
  <2>3. sent > 0 => sent' > 0
    BY <2>1, Constants DEF TypeInv
  <2>4. UNCHANGED <<serverVars, childVars, up, client_closed>>
    BY <1>2 DEF ClientSendsData
  <2> QED BY <2>2, <2>3, <2>4
<1>3. CASE ClientSendsExtra
  <2>1. UNCHANGED rogue \/ rogue' = TRUE
    BY <1>3, Zenon DEF ClientSendsExtra
  <2>2. UNCHANGED <<serverVars, childVars, up, sent, client_closed>>
    BY <1>3 DEF ClientSendsExtra
  <2> QED BY <2>1, <2>2
<1>4. CASE ClientCloses
  <2>1. UNCHANGED <<serverVars, childVars, up, sent, rogue>> /\ client_closed' = TRUE
    BY <1>4 DEF ClientCloses
  <2> QED BY <2>1
<1>5. CASE ConnectionLost
  <2>1. UNCHANGED <<serverVars, childVars, clientVars>> /\ up' = FALSE
    BY <1>5 DEF ConnectionLost
  <2> QED BY <2>1
<1>6. CASE ChildWrites \/ ChildReads \/ ChildExits \/ ClientAdjusts \/ ClientReceives
            \/ ClientBegins \/ UNCHANGED vars
  <2>1. UNCHANGED <<serverVars, is_pty, sent, rogue, client_closed, up>>
    BY <1>6 DEF ChildWrites, ChildReads, ChildExits, ClientAdjusts, ClientReceives,
         ClientBegins
  <2> QED BY <2>1
<1> QED BY <1>1, <1>2, <1>3, <1>4, <1>5, <1>6 DEF Next, Environment

\* What is appended to the client's stream tells of the client.
LEMMA AppendSent ==
    ASSUME TypeInv, TypeInv', AllSent, [Next]_vars, NEW m \in Message,
           to_server' = Append(to_server, m), Sent(m)'
    PROVE  AllSent'
<1>1. to_server \in Seq(Message)
  BY DEF TypeInv
<1>2. \A k \in 1..Len(to_server') :
         \/ k \in 1..Len(to_server) /\ to_server'[k] = to_server[k]
         \/ to_server'[k] = m
  BY <1>1
<1>3. \A x : Sent(x) => Sent(x)'
  BY ClientMarks DEF Sent
<1>4. ASSUME NEW k \in 1..Len(to_server') PROVE Sent(to_server[k])'
  <2>1. CASE k \in 1..Len(to_server) /\ to_server'[k] = to_server[k]
    <3>1. PICK x : x = to_server[k] /\ Sent(x)
      BY <2>1 DEF AllSent
    <3>2. Sent(x)'
      BY <1>3, <3>1
    <3> QED BY <2>1, <3>1, <3>2
  <2>2. CASE to_server'[k] = m
    BY <2>2
  <2> QED BY <1>2, <2>1, <2>2
<1> QED BY <1>4 DEF AllSent

\* What is in flight tells of the client after every step.
LEMMA AllSentKept ==
    ASSUME TypeInv, TypeInv', AllSent, [Next]_vars
    PROVE  AllSent'
<1> USE DEF vars, serverVars, childVars, clientVars
<1>1. \A x : Sent(x) => Sent(x)'
  BY ClientMarks DEF Sent
<1>2. CASE to_server' = to_server
  BY <1>1, <1>2 DEF AllSent
<1>3. CASE to_server # <<>> /\ to_server' = Tail(to_server)
  <2>1. to_server \in Seq(Message)
    BY DEF TypeInv
  <2>2. \A k \in 1..Len(to_server') :
           k + 1 \in 1..Len(to_server) /\ to_server'[k] = to_server[k + 1]
    BY <1>3, <2>1
  <2> QED BY <1>1, <2>2 DEF AllSent
<1>4. sent \in Nat
  BY Constants DEF TypeInv
<1>5. CASE ClientSendsData
  <2>1. PICK n \in 1..(MaxInput - sent) :
           ClientPuts(Msg("data", n, sent + n)) /\ sent' = sent + n
    BY <1>5 DEF ClientSendsData
  <2>2. n \in Nat /\ sent + n \in Nat /\ sent' > 0
    BY <1>4, <2>1, Constants
  <2>3. Msg("data", n, sent + n) \in Message
    BY <2>2, MsgType DEF Types
  <2>4. PICK k \in Message : k = Msg("data", n, sent + n)
    BY <2>3
  <2>5. k.type = "data" /\ k.mine = TRUE
    BY <2>4 DEF Msg
  <2>6. Sent(k)'
    BY <2>2, <2>5 DEF Sent
  <2>7. to_server' = Append(to_server, k)
    BY <2>1, <2>4 DEF ClientPuts
  <2> QED BY <2>6, <2>7, AppendSent
<1>6. CASE ClientSendsExtra
  <2>1. CASE \E r \in Requests, w \in BOOLEAN :
               ClientPuts([Msg("request", 0, sent) EXCEPT !.req = r, !.reply = w])
    <3>1. PICK r \in Requests, w \in BOOLEAN :
               ClientPuts([Msg("request", 0, sent) EXCEPT !.req = r, !.reply = w])
      BY <2>1
    <3> DEFINE m == [Msg("request", 0, sent) EXCEPT !.req = r, !.reply = w]
    <3>2. m \in Message
      BY <1>4, ExtraType
    <3>3. m.type = "request" /\ m.mine = TRUE
      BY DEF Msg
    <3>4. to_server' = Append(to_server, m)
      BY <3>1 DEF ClientPuts
    <3>5. PICK k \in Message : k = m
      BY <3>2
    <3>6. Sent(k)'
      BY <3>3, <3>5 DEF Sent
    <3> QED BY <3>4, <3>5, <3>6, AppendSent
  <2>2. CASE ClientPuts(Msg("eof", 0, sent))
    <3>1. Msg("eof", 0, sent) \in Message
      BY <1>4, MsgType DEF Types
    <3>2. PICK k \in Message : k = Msg("eof", 0, sent)
      BY <3>1
    <3>3. Sent(k)'
      BY <3>2 DEF Sent, Msg
    <3>4. to_server' = Append(to_server, k)
      BY <2>2, <3>2 DEF ClientPuts
    <3> QED BY <3>3, <3>4, AppendSent
  <2>3. CASE ClientPuts([Msg("data", 0, sent) EXCEPT !.mine = FALSE]) /\ rogue' = TRUE
    <3>1. "env" \in Requests
      BY DEF Requests
    <3>2. [Msg("data", 0, sent) EXCEPT !.mine = FALSE] \in Message
      BY <1>4, <3>1, ExtraType
    <3>3. PICK k \in Message : k = [Msg("data", 0, sent) EXCEPT !.mine = FALSE]
      BY <3>2
    <3>4. k.mine = FALSE /\ k.type = "data"
      BY <3>3 DEF Msg
    <3>5. Sent(k)'
      BY <2>3, <3>4 DEF Sent
    <3>6. to_server' = Append(to_server, k)
      BY <2>3, <3>3 DEF ClientPuts
    <3> QED BY <3>5, <3>6, AppendSent
  <2> QED BY <1>6, <2>1, <2>2, <2>3 DEF ClientSendsExtra
<1>7. CASE ClientAdjusts
  <2> DEFINE n == got + PeerWindow - recv_limit
  <2>1. n \in Nat
    BY <1>7, Constants DEF ClientAdjusts, TypeInv
  <2>2. Msg("adjust", n, sent) \in Message
    BY <1>4, <2>1, MsgType DEF Types
  <2>3. PICK k \in Message : k = Msg("adjust", n, sent)
    BY <2>2
  <2>4. k.type = "adjust" /\ k.mine = TRUE
    BY <2>3 DEF Msg
  <2>5. Sent(k)'
    BY <2>4 DEF Sent
  <2>6. to_server' = Append(to_server, k)
    BY <1>7, <2>3 DEF ClientAdjusts, ClientPuts
  <2> QED BY <2>5, <2>6, AppendSent
<1>8. CASE ClientCloses
  <2>1. Msg("close", 0, sent) \in Message
    BY <1>4, MsgType DEF Types
  <2>2. PICK k \in Message : k = Msg("close", 0, sent)
    BY <2>1
  <2>3. k.type = "close" /\ k.mine = TRUE
    BY <2>2 DEF Msg
  <2>4. Sent(k)'
    BY <1>8, <2>3 DEF Sent, ClientCloses
  <2>5. to_server' = Append(to_server, k)
    BY <1>8, <2>2 DEF ClientCloses, ClientPuts
  <2> QED BY <2>4, <2>5, AppendSent
<1>9. CASE PumpSend \/ PumpReset \/ PumpEnd \/ ExitNotYet \/ ExitAndClose \/ ReceiveTimeout
            \/ ReceiveLost \/ Kill \/ WaitClosed \/ ChildWrites \/ ChildReads \/ ChildExits
            \/ ClientBegins \/ ClientReceives \/ ConnectionLost \/ UNCHANGED vars
  <2>1. to_server' = to_server
    BY <1>9 DEF PumpSend, PumpReset, PumpEnd, ExitNotYet, ExitAndClose, ReceiveTimeout,
         ReceiveLost, Kill, WaitClosed, ChildWrites, ChildReads, ChildExits, ClientReceives,
         ClientBegins, ConnectionLost
  <2> QED BY <1>2, <2>1
<1>10. CASE ReceiveForeign \/ ReceiveWindowAdjust \/ ReceiveRequest \/ ReceiveEof
             \/ ReceiveClose \/ ReceiveExcessData \/ ReceiveData
  <2>1. to_server # <<>> /\ to_server' = Tail(to_server)
    BY <1>10 DEF ReceiveForeign, ReceiveWindowAdjust, ReceiveRequest, ReceiveEof,
         ReceiveClose, ReceiveExcessData, ReceiveData, Arrives
  <2> QED BY <1>3, <2>1
<1> QED BY <1>5, <1>6, <1>7, <1>8, <1>9, <1>10 DEF Next, Server, Environment

\* A session is ended for a breach only when the client is to blame.
LEMMA HonestKept ==
    ASSUME IInv, [Next]_vars
    PROVE  HonestNotRejected'
<1> USE DEF vars, serverVars, childVars, clientVars
<1>1. rogue => rogue'
  BY ClientMarks DEF IInv
<1>2. CASE status' = status \/ status' # "SECURITY"
  BY <1>1, <1>2 DEF IInv, HonestNotRejected
<1>3. CASE ReceiveForeign
  <2>1. rogue
    <3>1. to_server # <<>> /\ ~Head(to_server).mine /\ to_server \in Seq(Message)
      BY <1>3 DEF ReceiveForeign, IInv, TypeInv
    <3>2. 1 \in 1..Len(to_server) /\ Head(to_server) = to_server[1]
      BY <3>1
    <3>3. Sent(to_server[1])
      BY <3>2 DEF IInv, AllSent
    <3> QED BY <3>1, <3>2, <3>3 DEF Sent
  <2> QED BY <1>1, <2>1 DEF HonestNotRejected
<1>4. CASE ReceiveExcessData
  <2>1. /\ to_server # <<>> /\ Head(to_server).type = "data"
        /\ Head(to_server).n > window_size /\ Listening
    BY <1>4 DEF ReceiveExcessData, Arrives, Listening
  <2>2. rogue
    BY <2>1, ExcessIsRogue DEF IInv
  <2> QED BY <1>1, <2>2 DEF HonestNotRejected
<1>5. CASE PumpSend \/ PumpReset \/ PumpEnd \/ ExitNotYet \/ ExitAndClose \/ ReceiveTimeout
            \/ ReceiveLost \/ ReceiveWindowAdjust
  <2>1. status' = status \/ status' # "SECURITY"
    BY <1>5 DEF PumpSend, PumpReset, PumpEnd, ExitNotYet, ExitAndClose, ReceiveTimeout,
         ReceiveLost, ReceiveWindowAdjust, Fails, End, PumpAgain
  <2> QED BY <1>2, <2>1
<1>6. CASE ReceiveRequest \/ ReceiveEof \/ ReceiveClose \/ ReceiveData \/ Kill \/ WaitClosed
  <2>1. status' = status \/ status' # "SECURITY"
    BY <1>6 DEF ReceiveRequest, ReceiveEof, ReceiveClose, ReceiveData, Kill, WaitClosed,
         Fails, End, PumpAgain
  <2> QED BY <1>2, <2>1
<1>7. CASE Environment \/ UNCHANGED vars
  <2>1. status' = status
    BY <1>7 DEF Environment, ChildWrites, ChildReads, ChildExits, ClientSendsData,
         ClientSendsExtra, ClientAdjusts, ClientCloses, ClientBegins, ClientReceives,
         ConnectionLost
  <2> QED BY <1>2, <2>1
<1> QED BY <1>3, <1>4, <1>5, <1>6, <1>7 DEF Next, Server

\* A write finds the other end closed only where a child on a socket is gone, and
\* a child that is gone stays so.
LEMMA ClosedKept ==
    ASSUME IInv, [Next]_vars
    PROVE  /\ (write_closed => ~is_pty /\ Gone)'
           /\ write_closed => write_closed'
<1> USE DEF vars, serverVars, childVars, clientVars
<1>1. is_pty' = is_pty /\ (write_closed => ~is_pty /\ Gone)
  BY ClientMarks DEF IInv, ExitReported
<1>2. CASE ReceiveData
  <2>1. child' = child /\ (write_closed' = write_closed \/ (Gone /\ write_closed' = ~is_pty))
    BY <1>2 DEF ReceiveData
  <2>2. Gone' = Gone
    BY <2>1 DEF Gone
  <2>3. CASE write_closed' = write_closed
    BY <1>1, <2>2, <2>3
  <2>4. CASE Gone /\ write_closed' = ~is_pty
    BY <1>1, <2>2, <2>4, Zenon
  <2> QED BY <2>1, <2>3, <2>4
<1>3. CASE write_closed' = write_closed /\ (Gone => Gone')
  BY <1>1, <1>3
<1>4. CASE PumpSend \/ PumpReset \/ PumpEnd \/ ExitNotYet \/ ExitAndClose \/ ReceiveTimeout
            \/ ReceiveLost \/ ReceiveForeign \/ ReceiveWindowAdjust \/ ReceiveRequest
            \/ ReceiveEof \/ ReceiveClose \/ ReceiveExcessData \/ Kill \/ WaitClosed
  <2>1. write_closed' = write_closed
    BY <1>4 DEF PumpSend, PumpReset, PumpEnd, ExitNotYet, ExitAndClose, ReceiveTimeout,
         ReceiveLost, ReceiveForeign, ReceiveWindowAdjust, ReceiveRequest, ReceiveEof,
         ReceiveClose, ReceiveExcessData, Kill, WaitClosed
  <2>2. Gone => Gone'
    BY <1>4 DEF PumpSend, PumpReset, PumpEnd, ExitNotYet, ExitAndClose, ReceiveTimeout,
         ReceiveLost, ReceiveForeign, ReceiveWindowAdjust, ReceiveRequest, ReceiveEof,
         ReceiveClose, ReceiveExcessData, Kill, WaitClosed, Gone
  <2> QED BY <1>3, <2>1, <2>2
<1>5. CASE Environment \/ UNCHANGED vars
  <2>1. write_closed' = write_closed
    BY <1>5 DEF Environment, ChildWrites, ChildReads, ChildExits, ClientSendsData,
         ClientSendsExtra, ClientAdjusts, ClientCloses, ClientBegins, ClientReceives,
         ConnectionLost
  <2>2. Gone => Gone'
    BY <1>5 DEF Environment, ChildWrites, ChildReads, ChildExits, ClientSendsData,
         ClientSendsExtra, ClientAdjusts, ClientCloses, ClientBegins, ClientReceives,
         ConnectionLost, Gone
  <2> QED BY <1>3, <2>1, <2>2
<1> QED BY <1>2, <1>4, <1>5 DEF Next, Server

\* A normal end has its reason.
LEMMA ExitKept ==
    ASSUME IInv, [Next]_vars
    PROVE  ExitReported'
<1> USE DEF vars, serverVars, childVars, clientVars
<1> DEFINE Reason == up /\ ~client_closed => exit_status_sent \/ write_closed
<1>0. /\ client_closed => client_closed'
      /\ up' => up
      /\ exit_status_sent => exit_status_sent'
      /\ is_pty' = is_pty
  BY ClientMarks DEF IInv
<1>a. /\ (write_closed => ~is_pty /\ Gone)'
      /\ write_closed => write_closed'
  BY ClosedKept
<1>1. (status' = "OK" => Reason) => ExitReported'
  BY <1>0, <1>a DEF ExitReported
<1>2. CASE status' = status \/ status' # "OK"
  BY <1>1, <1>2 DEF ExitReported, IInv
<1>3. /\ to_server \in Seq(Message)
      /\ to_server # <<>> => Sent(Head(to_server))
  <2>1. to_server \in Seq(Message)
    BY DEF IInv, TypeInv
  <2>2. ASSUME to_server # <<>> PROVE Sent(Head(to_server))
    <3>1. 1 \in 1..Len(to_server) /\ Head(to_server) = to_server[1]
      BY <2>1, <2>2
    <3> QED BY <3>1 DEF IInv, AllSent
  <2> QED BY <2>1, <2>2
<1>4. CASE ExitAndClose
  <2>1. exit_status_sent' \/ status' # "OK"
    BY <1>4 DEF ExitAndClose, CloseWithStatus, Fails, End
  <2> QED BY <1>a, <2>1 DEF ExitReported
<1>5. CASE ReceiveLost
  <2>1. ~up
    BY <1>5 DEF ReceiveLost
  <2> QED BY <1>1, <2>1
<1>6. CASE ReceiveClose
  <2>1. to_server # <<>> /\ Head(to_server).type = "close"
    BY <1>6 DEF ReceiveClose, Arrives
  <2>2. client_closed
    BY <1>3, <2>1 DEF Sent
  <2> QED BY <1>1, <2>2
<1>7. CASE ReceiveData
  <2>1. status' = "OK" => write_closed' \/ status = "OK"
    BY <1>7 DEF ReceiveData, Fails, End, PumpAgain
  <2>2. CASE write_closed'
    BY <1>a, <2>2 DEF ExitReported
  <2>3. CASE status' # "OK" \/ status = "OK"
    <3>1. status' # "OK" \/ Reason
      BY <2>3 DEF IInv, ExitReported
    <3> QED BY <1>1, <3>1
  <2> QED BY <2>1, <2>2, <2>3
<1>8. CASE PumpSend \/ PumpReset \/ PumpEnd \/ ExitNotYet \/ ReceiveTimeout
            \/ ReceiveForeign \/ ReceiveWindowAdjust \/ ReceiveExcessData
  <2>1. status' = status \/ status' # "OK"
    BY <1>8 DEF PumpSend, PumpReset, PumpEnd, ExitNotYet, ReceiveTimeout, ReceiveForeign,
         ReceiveWindowAdjust, ReceiveExcessData, Fails, End, PumpAgain
  <2> QED BY <1>2, <2>1
<1>9. CASE ReceiveRequest \/ ReceiveEof \/ Kill \/ WaitClosed
  <2>1. status' = status \/ status' # "OK"
    BY <1>9 DEF ReceiveRequest, ReceiveEof, Kill, WaitClosed, Fails, End, PumpAgain
  <2> QED BY <1>2, <2>1
<1>10. CASE Environment \/ UNCHANGED vars
  <2>1. status' = status
    BY <1>10 DEF Environment, ChildWrites, ChildReads, ChildExits, ClientSendsData,
         ClientSendsExtra, ClientAdjusts, ClientCloses, ClientBegins, ClientReceives,
         ConnectionLost
  <2> QED BY <1>2, <2>1
<1> QED BY <1>4, <1>5, <1>6, <1>7, <1>8, <1>9, <1>10 DEF Next, Server

\* A session that has left the run loop does not come back to it.
LEMMA ListeningKept ==
    ASSUME TypeInv, [Next]_vars, Listening'
    PROVE  Listening
<1> USE DEF vars, serverVars, childVars, clientVars
<1>1. CASE Server
  BY <1>1 DEF Server, PumpSend, PumpReset, PumpEnd, ExitNotYet, ExitAndClose,
       ReceiveTimeout, ReceiveLost, ReceiveForeign, ReceiveWindowAdjust, ReceiveRequest,
       ReceiveEof, ReceiveClose, ReceiveExcessData, ReceiveData, Kill, WaitClosed,
       Arrives, Listening
<1>2. CASE Environment \/ UNCHANGED vars
  <2>1. pc' = pc
    BY <1>2 DEF Environment, ChildWrites, ChildReads, ChildExits, ClientSendsData,
         ClientSendsExtra, ClientAdjusts, ClientCloses, ClientBegins, ClientReceives,
         ConnectionLost
  <2> QED BY <2>1 DEF Listening
<1> QED BY <1>1, <1>2 DEF Next

\* The invariant holds when the shell has just been started.
LEMMA InitHolds == Init => IInv
<1> SUFFICES ASSUME Init PROVE IInv
  OBVIOUS
<1>1. TypeInv
  <2>1. peer_window_size \in 0..U32Max
    BY Constants DEF Init
  <2>2. <<>> \in Seq(Message)
    OBVIOUS
  <2>3. /\ exit_status_sent \in BOOLEAN /\ eof_sent \in BOOLEAN /\ close_sent \in BOOLEAN
        /\ is_pty \in BOOLEAN /\ up \in BOOLEAN /\ client_closed \in BOOLEAN
        /\ rogue \in BOOLEAN
    BY DEF Init, Spawned
  <2>4. /\ window_size \in 0..WindowMax /\ unread \in 0..TermCap /\ sent \in 0..MaxInput
        /\ send_limit \in Nat /\ recv_limit \in Nat /\ out_pos = 0 /\ produced = 0
        /\ got = 0 /\ extras = 0
    BY Constants DEF Init, Spawned
  <2>5. /\ to_server \in Seq(Message) /\ to_client \in Seq(Message)
    BY <2>2 DEF Init
  <2>6. /\ pc = "pump" /\ after = "receive" /\ status = "RUNNING" /\ child = "running"
    BY DEF Init, Spawned
  <2> QED BY <2>1, <2>3, <2>4, <2>5, <2>6 DEF TypeInv
<1>2. AllSent /\ HonestNotRejected /\ ExitReported
  BY DEF Init, Spawned, AllSent, HonestNotRejected, ExitReported
<1>3. InputCredit
  <2>1. /\ Fits(<<>>, "data", 0, 0) /\ Fits(<<>>, "adjust", WindowMax, 0 + WindowMax)
    BY FitsEmpty, Constants
  <2> QED BY <2>1, Constants DEF Init, InputCredit
<1>4. OutputCredit
  <2>1. out_pos + peer_window_size \in Nat /\ out_pos + peer_window_size <= PeerWindow
    BY Constants DEF Init
  <2>2. Fits(<<>>, "adjust", out_pos + peer_window_size, PeerWindow)
    BY <2>1, FitsEmpty, Constants
  <2> QED BY <2>2 DEF Init, OutputCredit
<1> QED BY <1>1, <1>2, <1>3, <1>4 DEF IInv, Running, Init

\* Every step keeps the invariant.
LEMMA StepHolds == IInv /\ [Next]_vars => IInv'
<1> SUFFICES ASSUME IInv, [Next]_vars PROVE IInv'
  OBVIOUS
<1>1. TypeInv /\ TypeInv' /\ AllSent
  BY TypesKept DEF IInv
<1>2. AllSent'
  BY <1>1, AllSentKept
<1>3. HonestNotRejected' /\ ExitReported'
  BY HonestKept, ExitKept
<1>4. ASSUME Listening' PROVE Running'
  <2>1. Running
    BY <1>1, <1>4, ListeningKept DEF IInv
  <2> QED BY <1>1, <1>4, <2>1, RunningKept
<1> QED BY <1>1, <1>2, <1>3, <1>4 DEF IInv

\* The inductive invariant: types, the credit of the messages in flight in both
\* directions while ssh_server_run_terminal_session loops, and what each
\* message of the client tells of it.
THEOREM Invariance == Spec => []IInv
BY InitHolds, StepHolds, PTL DEF Spec

\* ssh_server_process_terminal_channel_data ends a session with
\* SSH_ERR_SECURITY only for a client that overran the window announced to it or
\* named another channel: window_size and the WINDOW_ADJUST messages in flight
\* stay in step through every replenishment.
THEOREM HonestSafe == Spec => []HonestNotRejected
<1>1. IInv => HonestNotRejected
  BY DEF IInv
<1> QED BY <1>1, Invariance, PTL

\* A session that ends with SSH_OK, neither closed by the client nor cut off,
\* has sent the exit status in maybe_send_terminal_exit_and_close, unless its
\* posix_term_write found the socket of a child that was gone.
THEOREM ExitReportSafe == Spec => []ExitReported
<1>1. IInv => ExitReported
  BY DEF IInv
<1> QED BY <1>1, Invariance, PTL

\* Every step of the session is a step of the stream its output implements, or
\* leaves that stream alone.
LEMMA StreamStep ==
    ASSUME IInv, IInv', [Next]_vars
    PROVE  [Output!Next]_(Output!streamVars)
<1> USE DEF vars, serverVars, childVars, clientVars
<1>0. /\ out_pos \in Nat /\ produced \in Nat /\ recv_limit \in Nat /\ recv_limit' \in Nat
      /\ produced' \in Nat /\ peer_window_size \in Nat /\ close_sent \in BOOLEAN
  BY Constants DEF IInv, TypeInv
<1>1. CASE PumpSend
  <2>1. UNCHANGED <<produced, recv_limit, close_sent>>
    BY <1>1 DEF PumpSend
  <2>2. CASE UNCHANGED out_pos
    BY <2>1, <2>2 DEF Output!streamVars
  <2>3. CASE ~UNCHANGED out_pos
    <3>1. PICK n \in 1..Min2(MaxSend, produced - out_pos) : out_pos' = out_pos + n
      BY <1>1, <2>3 DEF PumpSend
    <3>2. n \in Nat /\ n > 0 /\ n <= produced - out_pos /\ n <= peer_window_size
      <4>1. MaxSend \in Nat /\ MaxSend <= peer_window_size
        BY <1>0, MaxSendBound
      <4> QED BY <1>0, <4>1 DEF Min2
    <3>3. Running
      BY <1>1 DEF PumpSend, IInv, Listening
    <3>4. out_pos + peer_window_size <= recv_limit
      <4>1. Fits(to_server, "adjust", out_pos + peer_window_size, recv_limit)
        BY <3>3 DEF Running, OutputCredit
      <4>2. out_pos + peer_window_size \in Nat /\ to_server \in Seq(Message)
        BY <1>0 DEF IInv, TypeInv
      <4> QED BY <1>0, <4>1, <4>2, FitsBounds
    <3>5. out_pos + n > out_pos /\ out_pos + n <= produced /\ out_pos + n <= recv_limit
      BY <1>0, <3>2, <3>4
    <3>6. ~close_sent
      BY <3>3 DEF Running
    <3> QED BY <2>1, <3>1, <3>5, <3>6 DEF Output!Next, Output!Deliver
  <2> QED BY <2>2, <2>3
<1>2. CASE ExitAndClose
  <2>1. UNCHANGED <<produced, recv_limit, out_pos>>
    BY <1>2 DEF ExitAndClose
  <2>2. close_sent' = TRUE \/ UNCHANGED close_sent
    BY <1>2 DEF ExitAndClose, CloseWithStatus
  <2>3. ~close_sent
    BY <1>2 DEF ExitAndClose, IInv, Listening, Running
  <2> QED BY <2>1, <2>2, <2>3 DEF Output!Next, Output!Close, Output!streamVars
<1>3. CASE ReceiveClose
  <2>1. UNCHANGED <<produced, recv_limit, out_pos>>
    BY <1>3 DEF ReceiveClose
  <2>2. close_sent' = TRUE \/ UNCHANGED close_sent
    BY <1>3 DEF ReceiveClose
  <2>3. ~close_sent
    BY <1>3 DEF ReceiveClose, Arrives, IInv, Listening, Running
  <2> QED BY <2>1, <2>2, <2>3 DEF Output!Next, Output!Close, Output!streamVars
<1>4. CASE ChildWrites
  <2>1. produced' = produced + 1 /\ UNCHANGED <<out_pos, recv_limit, close_sent>>
    BY <1>4 DEF ChildWrites
  <2>2. produced + 1 > produced /\ produced + 1 \in Nat
    BY <1>0
  <2> QED BY <2>1, <2>2 DEF Output!Next, Output!Produce
<1>5. CASE ClientAdjusts
  <2>1. /\ recv_limit < got + PeerWindow
        /\ recv_limit' = recv_limit + (got + PeerWindow - recv_limit)
        /\ UNCHANGED <<out_pos, produced, close_sent>>
    BY <1>5 DEF ClientAdjusts
  <2>2. recv_limit' > recv_limit
    BY <1>0, <2>1, Constants DEF IInv, TypeInv
  <2> QED BY <1>0, <2>1, <2>2 DEF Output!Next, Output!Grant
<1>6. CASE PumpReset \/ PumpEnd \/ ExitNotYet \/ ReceiveTimeout \/ ReceiveLost
            \/ ReceiveForeign \/ ReceiveWindowAdjust \/ ReceiveRequest \/ ReceiveEof
            \/ ReceiveExcessData \/ ReceiveData \/ Kill \/ WaitClosed
  <2>1. UNCHANGED <<produced, out_pos, recv_limit, close_sent>>
    BY <1>6 DEF PumpReset, PumpEnd, ExitNotYet, ReceiveTimeout, ReceiveLost, ReceiveForeign,
         ReceiveWindowAdjust, ReceiveRequest, ReceiveEof, ReceiveExcessData, ReceiveData,
         Kill, WaitClosed
  <2> QED BY <2>1 DEF Output!streamVars
<1>7. CASE ChildReads \/ ChildExits \/ ClientSendsData \/ ClientSendsExtra \/ ClientCloses
            \/ ClientBegins \/ ClientReceives \/ ConnectionLost \/ UNCHANGED vars
  <2>1. UNCHANGED <<produced, out_pos, recv_limit, close_sent>>
    BY <1>7 DEF ChildReads, ChildExits, ClientSendsData, ClientSendsExtra, ClientCloses,
         ClientBegins, ClientReceives, ConnectionLost
  <2> QED BY <2>1 DEF Output!streamVars
<1> QED BY <1>1, <1>2, <1>3, <1>4, <1>5, <1>6, <1>7 DEF Next, Server, Environment

\* The output of the child, as maybe_pump_terminal_output passes it on, is a
\* stream with flow control: nothing beyond what the child wrote or the client
\* granted, nothing after SSH_MSG_CHANNEL_CLOSE.
THEOREM OutputImplementsStream == Spec => OutputIsStream
<1>1. Init => Output!Init
  BY Constants DEF Init, Spawned, Output!Init
<1>2. IInv /\ IInv' /\ [Next]_vars => [Output!Next]_(Output!streamVars)
  BY StreamStep
<1> QED BY <1>1, <1>2, Invariance, PTL DEF Spec, OutputIsStream, Output!Spec
=============================================================================
