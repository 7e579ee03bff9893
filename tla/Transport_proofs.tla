-------------------------- MODULE Transport_proofs --------------------------
(***************************************************************************)
(* The two ends of a transport session stay in step: for every number of   *)
(* key exchanges, every modulus of the sequence numbers, every length of   *)
(* the streams between them, and with re-exchanges given up on a timeout.  *)
(*                                                                         *)
(* KeysInStep is far from inductive: whether the next packet decodes       *)
(* depends on every packet in flight.  The invariant below says where the  *)
(* two ends can be in a key exchange and which of its messages are then    *)
(* under way (Table), which exchange the names on both sides stand for     *)
(* (Names, SameSession), and that every packet was protected with what its *)
(* receiver will use by the time it is read (Links).                       *)
(***************************************************************************)
EXTENDS Transport, TLAPS

(***************************************************************************)
(* The parts of the invariant.                                             *)
(***************************************************************************)
Packets == [type : Types, kid : Nat, epoch : Nat, seq : Nat]
Protection == [epoch : Nat, seq : Nat, count : Nat]
ClientSteps == {"start", "none", "sent", "init", "newkeys"}
Calls == Stages \cup RecvSteps \cup
         {"send_ident", "send_kexinit", "send_reply", "send_newkeys", "send_ext_info",
          "ended"}

TypeInv ==
    /\ pc \in Calls /\ ret \in Stages
    /\ inbound \in Protection /\ outbound \in Protection
    /\ c_in \in Protection /\ c_out \in Protection
    /\ rekey_in_progress \in BOOLEAN /\ abandoned \in BOOLEAN
    /\ client_kexinit \in Nat /\ exchange_hash \in Nat /\ session_id \in Nat
    /\ c_kex \in ClientSteps /\ c_kid \in Nat /\ c_session_id \in Nat
    /\ to_server \in Seq(Packets) /\ to_client \in Seq(Packets)

\* The key exchange messages of a stream: none, one, or one before the other.
Has(q, type) == \E i \in 1..Len(q) : q[i].type = type
None(q) == \A i \in 1..Len(q) : q[i].type \notin KexTypes
Only(q, a) ==
    \E k \in 1..Len(q) :
        /\ q[k].type = a
        /\ \A i \in 1..Len(q) : i # k => q[i].type \notin KexTypes
Both(q, a, b) ==
    \E k, l \in 1..Len(q) :
        /\ k < l /\ q[k].type = a /\ q[l].type = b
        /\ \A i \in 1..Len(q) : i # k /\ i # l => q[i].type \notin KexTypes

\* Where the server is: before its first KEXINIT, at its KEXINIT of a re-exchange, on
\* the protected transport, there after a re-exchange was given up, or about to take
\* the client's NEWKEYS.
Early ==
    \/ pc \in {"send_ident", "recv_ident"}
    \/ pc = "send_kexinit" /\ ~rekey_in_progress
Resend == pc = "send_kexinit" /\ rekey_in_progress
Idle == pc \in Stages /\ ~abandoned
Stuck == pc \in Stages /\ abandoned
Final == pc \in {"send_ext_info", "recv_newkeys"}

\* Where the client can be then, and what is under way between the two.
EarlyRows ==
    \/ c_kex \in {"start", "none"} /\ None(to_server) /\ None(to_client)
    \/ c_kex = "sent" /\ Only(to_server, "kexinit") /\ None(to_client)
WaitRows ==
    \/ c_kex = "none" /\ None(to_server) /\ Only(to_client, "kexinit")
    \/ c_kex = "sent" /\ Only(to_server, "kexinit") /\ Only(to_client, "kexinit")
    \/ c_kex = "init" /\ Both(to_server, "kexinit", "ecdh_init") /\ None(to_client)
IdleRows ==
    \/ c_kex \in {"none", "sent"} /\ None(to_server) /\ None(to_client)
    \/ c_kex = "sent" /\ Only(to_server, "kexinit") /\ None(to_client)
    \/ c_kex = "newkeys" /\ None(to_server) /\ Only(to_client, "newkeys")
ResendRows == c_kex = "sent" /\ None(to_server) /\ None(to_client)
EcdhRows ==
    \/ c_kex = "sent" /\ None(to_server) /\ Only(to_client, "kexinit")
    \/ c_kex = "init" /\ Only(to_server, "ecdh_init") /\ None(to_client)
ReplyRows == c_kex = "init" /\ None(to_server) /\ None(to_client)
NewkeysRows ==
    \/ c_kex = "init" /\ None(to_server) /\ Only(to_client, "reply")
    \/ c_kex = "newkeys" /\ Only(to_server, "newkeys") /\ None(to_client)
FinalRows ==
    \/ c_kex = "init" /\ None(to_server) /\ Both(to_client, "reply", "newkeys")
    \/ c_kex = "newkeys" /\ Only(to_server, "newkeys") /\ Only(to_client, "newkeys")
    \/ c_kex = "none" /\ Only(to_server, "newkeys") /\ None(to_client)
    \/ c_kex = "sent" /\ Both(to_server, "newkeys", "kexinit") /\ None(to_client)
EndedRows ==
    \/ None(to_client)
    \/ c_kex \in {"none", "sent"} /\ Only(to_client, "kexinit")
    \/ c_kex = "init" /\ Only(to_client, "reply")
    \/ c_kex = "init" /\ Both(to_client, "reply", "newkeys")
    \/ c_kex = "newkeys" /\ Only(to_client, "newkeys")

Table ==
    /\ Early => EarlyRows
    /\ pc = "recv_kexinit" => WaitRows
    /\ Idle => IdleRows
    /\ Resend => ResendRows
    /\ pc = "recv_ecdh_init" => EcdhRows
    /\ pc = "send_reply" => ReplyRows
    /\ pc = "send_newkeys" => NewkeysRows
    /\ Final => FinalRows
    /\ Stuck => EcdhRows \/ FinalRows
    /\ pc = "ended" => EndedRows

\* What the calls of the server say of its keys.  A re-exchange that was given up leaves
\* the server in the channel stage, from which it does not come back into step.
Control ==
    /\ abandoned => pc \in {"channel", "ended"}
    /\ rekey_in_progress =>
          pc \in {"send_kexinit", "recv_ecdh_init", "send_reply", "send_newkeys",
                  "recv_newkeys", "ended"}
    /\ (pc \in Stages \/ (rekey_in_progress /\ pc # "ended")) =>
          inbound.epoch # 0 /\ outbound.epoch # 0
    /\ Idle => inbound.epoch = exchange_hash /\ outbound.epoch = exchange_hash
    /\ Final => outbound.epoch = exchange_hash /\ exchange_hash # 0
    /\ pc \in {"send_ident", "recv_ident"} => inbound.epoch = 0 /\ ~damaged

\* The names of exchanges: the client's current one (c_kid) is the one the server is
\* in, and the exchange a NEWKEYS under way switches to.
NamedBy(q, type, kid) == \A i \in 1..Len(q) : q[i].type = type => q[i].kid = kid
Names ==
    /\ c_kex \in {"sent", "init", "newkeys"} => c_kid # 0
    /\ (Resend \/ pc \in {"recv_ecdh_init", "send_reply"}) => client_kexinit = c_kid
    /\ (pc = "send_newkeys" \/ (Final /\ c_kex \in {"init", "newkeys"})) =>
          exchange_hash = c_kid
    /\ (pc # "ended" /\ ~abandoned /\ Has(to_server, "newkeys")) =>
          c_out.epoch = exchange_hash
    /\ pc # "ended" => NamedBy(to_server, "kexinit", c_kid)
    /\ NamedBy(to_client, "reply", c_kid)
    /\ Has(to_client, "newkeys") => outbound.epoch = c_kid

\* The client will have the server's session identifier once it has read the reply.
SameSession ==
    /\ Has(to_client, "reply") =>
          session_id = IF c_session_id = 0 THEN c_kid ELSE c_session_id
    /\ ~Has(to_client, "reply") => session_id = c_session_id

\* Lines are read as lines: the client's come before all its packets.
LineTypes == {"line", "ident"}
AllLines(q) == \A i \in 1..Len(q) : q[i].type = "line"
NoLines(q) == \A i \in 1..Len(q) : q[i].type \notin LineTypes
IdentAhead(q) ==
    \E k \in 1..Len(q) :
        /\ q[k].type = "ident"
        /\ \A i \in 1..Len(q) : i < k => q[i].type = "line"
        /\ \A i \in 1..Len(q) : i > k => q[i].type \notin LineTypes
NoLine(q) == \A i \in 1..Len(q) : q[i].type # "line"
Lines ==
    /\ NoLine(to_client)
    /\ (c_kex = "start" /\ pc # "ended") =>
          pc \in {"send_ident", "recv_ident"} /\ AllLines(to_server)
    /\ (c_kex # "start" /\ pc \in {"send_ident", "recv_ident"}) => IdentAhead(to_server)
    /\ pc \notin {"send_ident", "recv_ident", "ended"} => NoLines(to_server)

\* The packets of a stream: the first fits the receiver's state r, each fits the state
\* its predecessor leaves behind, the last leaves the sender's state s.
Succ(s) == (s + 1) % SeqMod
EpochAfter(p, e) == IF p.type = "newkeys" THEN e ELSE p.epoch
SeqAfter(p) == IF p.type \in LineTypes THEN p.seq ELSE Succ(p.seq)
Linked(q, r, s) ==
    /\ q = <<>> => r.epoch = s.epoch /\ r.seq = s.seq
    /\ q # <<>> => q[1].epoch = r.epoch /\ q[1].seq = r.seq
    /\ q # <<>> => s.epoch = EpochAfter(q[Len(q)], s.epoch) /\ s.seq = SeqAfter(q[Len(q)])
    /\ \A i, j \in 1..Len(q) :
          j = i + 1 => q[j].epoch = EpochAfter(q[i], s.epoch) /\ q[j].seq = SeqAfter(q[i])
Links ==
    /\ Linked(to_client, c_in, outbound)
    /\ (pc # "ended" /\ ~damaged) => Linked(to_server, inbound, c_out)

\* No end has met a packet that fails the check.
Alarm == (status = "MAC" => damaged) /\ ~c_error

IInv ==
    /\ TypeInv /\ Control /\ Table /\ Names /\ SameSession /\ Lines /\ Links
    /\ Alarm /\ QuietDuringExchange

(***************************************************************************)
(* Streams: what one packet more, or one less, does to their shape.        *)
(***************************************************************************)

\* The elements of a stream with one packet more at its end.
LEMMA AppendIs ==
    ASSUME NEW q \in Seq(Packets), NEW p \in Packets
    PROVE  /\ Append(q, p) \in Seq(Packets) /\ Len(q) \in Nat
           /\ Len(Append(q, p)) = Len(q) + 1 /\ Append(q, p)[Len(q) + 1] = p
           /\ \A i \in 1..Len(q) : Append(q, p)[i] = q[i]
  OBVIOUS

\* The elements of a stream without its head.
LEMMA TailIs ==
    ASSUME NEW q \in Seq(Packets), q # <<>>
    PROVE  /\ Tail(q) \in Seq(Packets) /\ Len(q) \in Nat \ {0}
           /\ Len(Tail(q)) = Len(q) - 1 /\ Head(q) = q[1] /\ q[1] \in Packets
           /\ \A i \in 1..(Len(q) - 1) : Tail(q)[i] = q[i + 1]
  OBVIOUS

\* A stream is empty if it has no elements.
LEMMA EmptyIs == \A q \in Seq(Packets) : q = <<>> <=> Len(q) = 0
  OBVIOUS

\* Which key exchange messages a stream of a given shape holds.
LEMMA Shapes ==
    ASSUME NEW q \in Seq(Packets)
    PROVE  /\ None(q) => \A t \in KexTypes : ~Has(q, t)
           /\ \A a, t : Only(q, a) /\ Has(q, t) /\ t \in KexTypes => t = a
           /\ \A a, b, t : Both(q, a, b) /\ Has(q, t) /\ t \in KexTypes => t \in {a, b}
           /\ \A a : Only(q, a) => Has(q, a)
           /\ \A a, b : Both(q, a, b) => Has(q, a) /\ Has(q, b)
  BY DEF None, Only, Both, Has

\* A packet outside the key exchange leaves the shape as it is.
LEMMA AppendPlain ==
    ASSUME NEW q \in Seq(Packets), NEW p \in Packets, p.type \notin KexTypes
    PROVE  /\ None(q) => None(Append(q, p))
           /\ \A a : Only(q, a) => Only(Append(q, p), a)
           /\ \A a, b : Both(q, a, b) => Both(Append(q, p), a, b)
           /\ \A t \in KexTypes : Has(Append(q, p), t) <=> Has(q, t)
           /\ \A t \in KexTypes : \A k : NamedBy(q, t, k) => NamedBy(Append(q, p), t, k)
  <1> DEFINE r == Append(q, p)
             L == Len(q)
  <1>1. /\ L \in Nat /\ Len(r) = L + 1 /\ r[L + 1] = p
        /\ \A i \in 1..L : r[i] = q[i]
    BY AppendIs
  <1> HIDE DEF r, L
  <1>2. \A i \in 1..(L + 1) : i \in 1..L \/ i = L + 1
    BY <1>1
  <1>3. \A i \in 1..L : i \in 1..(L + 1)
    BY <1>1
  <1>4. None(q) => None(r)
    BY <1>1, <1>2 DEF None, L
  <1>5. ASSUME NEW a, Only(q, a) PROVE Only(r, a)
    BY <1>1, <1>2, <1>3, <1>5 DEF Only, L
  <1>6. ASSUME NEW a, NEW b, Both(q, a, b) PROVE Both(r, a, b)
    BY <1>1, <1>2, <1>3, <1>6 DEF Both, L
  <1>7. ASSUME NEW t \in KexTypes PROVE Has(r, t) <=> Has(q, t)
    BY <1>1, <1>2, <1>3 DEF Has, L
  <1>8. ASSUME NEW t \in KexTypes, NEW k, NamedBy(q, t, k) PROVE NamedBy(r, t, k)
    BY <1>1, <1>2, <1>3, <1>8 DEF NamedBy, L
  <1> QED BY <1>4, <1>5, <1>6, <1>7, <1>8 DEF r

\* A key exchange message comes last.
LEMMA AppendKex ==
    ASSUME NEW q \in Seq(Packets), NEW p \in Packets, p.type \in KexTypes
    PROVE  /\ None(q) => Only(Append(q, p), p.type)
           /\ \A a : Only(q, a) => Both(Append(q, p), a, p.type)
           /\ \A t \in KexTypes : Has(Append(q, p), t) <=> Has(q, t) \/ t = p.type
           /\ \A t \in KexTypes : \A k : NamedBy(q, t, k) /\ (p.type = t => p.kid = k)
                                        => NamedBy(Append(q, p), t, k)
  <1> DEFINE r == Append(q, p)
             L == Len(q)
  <1>1. /\ L \in Nat /\ Len(r) = L + 1 /\ r[L + 1] = p
        /\ \A i \in 1..L : r[i] = q[i]
    BY AppendIs
  <1> HIDE DEF r, L
  <1>2. \A i \in 1..(L + 1) : i \in 1..L \/ i = L + 1
    BY <1>1
  <1>3. \A i \in 1..L : i \in 1..(L + 1) /\ i < L + 1
    BY <1>1
  <1>4. L + 1 \in 1..(L + 1)
    BY <1>1
  <1>5. ASSUME None(q) PROVE Only(r, p.type)
    BY <1>1, <1>2, <1>4, <1>5 DEF None, Only, L
  <1>6. ASSUME NEW a, Only(q, a) PROVE Both(r, a, p.type)
    <2>1. PICK k \in 1..L : q[k].type = a /\ \A i \in 1..L : i # k => q[i].type \notin KexTypes
      BY <1>6 DEF Only, L
    <2>2. k < L + 1 /\ r[k].type = a /\ r[L + 1].type = p.type
      BY <1>1, <1>3, <2>1
    <2>3. \A i \in 1..(L + 1) : i # k /\ i # L + 1 => r[i].type \notin KexTypes
      BY <1>1, <1>2, <2>1
    <2> QED BY <1>1, <1>3, <1>4, <2>1, <2>2, <2>3 DEF Both
  <1>7. ASSUME NEW t \in KexTypes PROVE Has(r, t) <=> Has(q, t) \/ t = p.type
    BY <1>1, <1>2, <1>3, <1>4 DEF Has, L
  <1>8. ASSUME NEW t \in KexTypes, NEW k, NamedBy(q, t, k), p.type = t => p.kid = k
        PROVE  NamedBy(r, t, k)
    BY <1>1, <1>2, <1>3, <1>8 DEF NamedBy, L
  <1> QED BY <1>5, <1>6, <1>7, <1>8 DEF r

\* Taking a packet outside the key exchange leaves the shape as it is.
LEMMA TailPlain ==
    ASSUME NEW q \in Seq(Packets), q # <<>>, Head(q).type \notin KexTypes
    PROVE  /\ None(q) => None(Tail(q))
           /\ \A a \in KexTypes : Only(q, a) => Only(Tail(q), a)
           /\ \A a, b \in KexTypes : Both(q, a, b) => Both(Tail(q), a, b)
           /\ \A t \in KexTypes : Has(Tail(q), t) <=> Has(q, t)
           /\ \A t, k : NamedBy(q, t, k) => NamedBy(Tail(q), t, k)
  <1> DEFINE r == Tail(q)
             M == Len(r)
  <1>1. /\ M \in Nat /\ Len(q) = M + 1 /\ q[1].type \notin KexTypes
        /\ \A i \in 1..M : r[i] = q[i + 1]
    BY TailIs
  <1> HIDE DEF r, M
  <1>2. \A i \in 1..(M + 1) : i = 1 \/ (i - 1 \in 1..M /\ r[i - 1] = q[i])
    BY <1>1
  <1>3. \A i \in 1..M : i + 1 \in 1..(M + 1) /\ i + 1 # 1
    BY <1>1
  <1>4. None(q) => None(r)
    BY <1>1, <1>3 DEF None, M
  <1>5. ASSUME NEW a \in KexTypes, Only(q, a) PROVE Only(r, a)
    <2>1. PICK k \in 1..(M + 1) :
             q[k].type = a /\ \A i \in 1..(M + 1) : i # k => q[i].type \notin KexTypes
      BY <1>1, <1>5 DEF Only
    <2>2. k - 1 \in 1..M /\ r[k - 1].type = a
      BY <1>1, <1>2, <2>1
    <2>3. \A i \in 1..M : i # k - 1 => i + 1 # k
      BY <2>1, <1>1
    <2>4. \A i \in 1..M : i # k - 1 => r[i].type \notin KexTypes
      BY <1>1, <1>3, <2>1, <2>3
    <2> QED BY <2>2, <2>4 DEF Only, M
  <1>6. ASSUME NEW a \in KexTypes, NEW b \in KexTypes, Both(q, a, b) PROVE Both(r, a, b)
    <2>1. PICK k, l \in 1..(M + 1) :
             /\ k < l /\ q[k].type = a /\ q[l].type = b
             /\ \A i \in 1..(M + 1) : i # k /\ i # l => q[i].type \notin KexTypes
      BY <1>1, <1>6 DEF Both
    <2>2. k - 1 \in 1..M /\ r[k - 1].type = a /\ l - 1 \in 1..M /\ r[l - 1].type = b
      BY <1>1, <1>2, <2>1
    <2>3. \A i \in 1..M : i # k - 1 /\ i # l - 1 => i + 1 # k /\ i + 1 # l
      BY <2>1, <1>1
    <2>4. \A i \in 1..M : i # k - 1 /\ i # l - 1 => r[i].type \notin KexTypes
      BY <1>1, <1>3, <2>1, <2>3
    <2>5. k - 1 < l - 1
      BY <2>1, <1>1
    <2> QED BY <2>2, <2>4, <2>5 DEF Both, M
  <1>7. ASSUME NEW t \in KexTypes PROVE Has(r, t) <=> Has(q, t)
    <2>1. ASSUME Has(r, t) PROVE Has(q, t)
      BY <1>1, <1>3, <2>1 DEF Has, M
    <2>2. ASSUME Has(q, t) PROVE Has(r, t)
      BY <1>1, <1>2, <2>2 DEF Has, M
    <2> QED BY <2>1, <2>2
  <1>8. ASSUME NEW t, NEW k, NamedBy(q, t, k) PROVE NamedBy(r, t, k)
    BY <1>1, <1>3, <1>8 DEF NamedBy, M
  <1> QED BY <1>4, <1>5, <1>6, <1>7, <1>8 DEF r

\* A key exchange message is taken: it was the first of them.
LEMMA TailKex ==
    ASSUME NEW q \in Seq(Packets), q # <<>>, Head(q).type \in KexTypes
    PROVE  /\ ~None(q) /\ Has(q, Head(q).type)
           /\ \A a : Only(q, a) => a = Head(q).type /\ None(Tail(q))
           /\ \A a, b \in KexTypes : Both(q, a, b) => a = Head(q).type /\ Only(Tail(q), b)
           /\ \A t : Has(Tail(q), t) => Has(q, t)
           /\ \A t, k : NamedBy(q, t, k) => NamedBy(Tail(q), t, k)
  <1> DEFINE r == Tail(q)
             M == Len(r)
             h == Head(q)
  <1>1. /\ M \in Nat /\ Len(q) = M + 1 /\ q[1].type \in KexTypes /\ h = q[1]
        /\ \A i \in 1..M : r[i] = q[i + 1]
    BY TailIs
  <1> HIDE DEF r, M, h
  <1>2. \A i \in 1..(M + 1) : i = 1 \/ (i - 1 \in 1..M /\ r[i - 1] = q[i])
    BY <1>1
  <1>3. /\ \A i \in 1..M : i + 1 \in 1..(M + 1) /\ i + 1 # 1
        /\ 1 \in 1..(M + 1)
    BY <1>1
  <1>4. ~None(q) /\ Has(q, h.type)
    BY <1>1, <1>3 DEF None, Has
  <1>5. ASSUME NEW a, Only(q, a) PROVE a = h.type /\ None(r)
    BY <1>1, <1>3, <1>5 DEF Only, None, M
  <1>6. ASSUME NEW a \in KexTypes, NEW b \in KexTypes, Both(q, a, b)
        PROVE  a = h.type /\ Only(r, b)
    <2>1. PICK k, l \in 1..(M + 1) :
             /\ k < l /\ q[k].type = a /\ q[l].type = b
             /\ \A i \in 1..(M + 1) : i # k /\ i # l => q[i].type \notin KexTypes
      BY <1>1, <1>6 DEF Both
    <2>2. k = 1 /\ l # 1 /\ a = h.type
      BY <1>1, <1>3, <2>1
    <2>3. l - 1 \in 1..M /\ r[l - 1].type = b
      BY <1>1, <1>2, <2>1, <2>2
    <2>4. \A i \in 1..M : i # l - 1 => i + 1 # l
      BY <2>1, <1>1
    <2>5. \A i \in 1..M : i # l - 1 => r[i].type \notin KexTypes
      BY <1>1, <1>3, <2>1, <2>2, <2>4
    <2> QED BY <2>2, <2>3, <2>5 DEF Only, M
  <1>7. ASSUME NEW t, Has(r, t) PROVE Has(q, t)
    BY <1>1, <1>3, <1>7 DEF Has, M
  <1>8. ASSUME NEW t, NEW k, NamedBy(q, t, k) PROVE NamedBy(r, t, k)
    BY <1>1, <1>3, <1>8 DEF NamedBy, M
  <1> QED BY <1>4, <1>5, <1>6, <1>7, <1>8 DEF r, h

\* One line or packet more from the client, or one packet more from the server.
LEMMA LinesAppend ==
    ASSUME NEW q \in Seq(Packets), NEW p \in Packets
    PROVE  /\ AllLines(q) /\ p.type = "line" => AllLines(Append(q, p))
           /\ AllLines(q) /\ p.type = "ident" => IdentAhead(Append(q, p))
           /\ IdentAhead(q) /\ p.type \notin LineTypes => IdentAhead(Append(q, p))
           /\ NoLines(q) /\ p.type \notin LineTypes => NoLines(Append(q, p))
           /\ NoLine(q) /\ p.type # "line" => NoLine(Append(q, p))
  <1> DEFINE r == Append(q, p)
             L == Len(q)
  <1>1. /\ L \in Nat /\ Len(r) = L + 1 /\ r[L + 1] = p
        /\ \A i \in 1..L : r[i] = q[i]
    BY AppendIs
  <1> HIDE DEF r, L
  <1>2. \A i \in 1..(L + 1) : i \in 1..L \/ i = L + 1
    BY <1>1
  <1>3. /\ \A i \in 1..L : i \in 1..(L + 1) /\ i < L + 1
        /\ L + 1 \in 1..(L + 1) /\ ~(L + 1 < L + 1)
    BY <1>1
  <1>4. AllLines(q) /\ p.type = "line" => AllLines(r)
    BY <1>1, <1>2 DEF AllLines, L
  <1>5. ASSUME AllLines(q), p.type = "ident" PROVE IdentAhead(r)
    <2>1. \A i \in 1..(L + 1) : i < L + 1 => r[i].type = "line"
      BY <1>1, <1>2, <1>3, <1>5 DEF AllLines, L
    <2>2. \A i \in 1..(L + 1) : ~(i > L + 1)
      BY <1>1
    <2> QED BY <1>1, <1>3, <1>5, <2>1, <2>2 DEF IdentAhead
  <1>6. ASSUME IdentAhead(q), p.type \notin LineTypes PROVE IdentAhead(r)
    <2>1. PICK k \in 1..L :
             /\ q[k].type = "ident"
             /\ \A i \in 1..L : i < k => q[i].type = "line"
             /\ \A i \in 1..L : i > k => q[i].type \notin LineTypes
      BY <1>6 DEF IdentAhead, L
    <2>2. k \in 1..(L + 1) /\ r[k].type = "ident" /\ ~(L + 1 < k)
      BY <1>1, <1>3, <2>1
    <2>3. \A i \in 1..(L + 1) : i < k => r[i].type = "line"
      BY <1>1, <1>2, <2>1, <2>2
    <2>4. \A i \in 1..(L + 1) : i > k => r[i].type \notin LineTypes
      BY <1>1, <1>2, <1>6, <2>1
    <2> QED BY <1>1, <2>2, <2>3, <2>4 DEF IdentAhead
  <1>7. NoLines(q) /\ p.type \notin LineTypes => NoLines(r)
    BY <1>1, <1>2 DEF NoLines, L
  <1>8. NoLine(q) /\ p.type # "line" => NoLine(r)
    BY <1>1, <1>2 DEF NoLine, L
  <1> QED BY <1>4, <1>5, <1>6, <1>7, <1>8 DEF r

\* A line or packet less.
LEMMA LinesTail ==
    ASSUME NEW q \in Seq(Packets), q # <<>>
    PROVE  /\ AllLines(q) => Head(q).type = "line" /\ AllLines(Tail(q))
           /\ IdentAhead(q) /\ Head(q).type = "ident" => NoLines(Tail(q))
           /\ IdentAhead(q) /\ Head(q).type # "ident" =>
                 Head(q).type = "line" /\ IdentAhead(Tail(q))
           /\ NoLines(q) => Head(q).type \notin LineTypes /\ NoLines(Tail(q))
           /\ NoLine(q) => Head(q).type # "line" /\ NoLine(Tail(q))
  <1> DEFINE r == Tail(q)
             M == Len(r)
             h == Head(q)
  <1>1. /\ M \in Nat /\ Len(q) = M + 1 /\ h = q[1]
        /\ \A i \in 1..M : r[i] = q[i + 1]
    BY TailIs
  <1> HIDE DEF r, M, h
  <1>3. /\ \A i \in 1..M : i + 1 \in 1..(M + 1) /\ i + 1 > 1
        /\ 1 \in 1..(M + 1)
    BY <1>1
  <1>4. AllLines(q) => h.type = "line" /\ AllLines(r)
    BY <1>1, <1>3 DEF AllLines, M
  <1>5. ASSUME IdentAhead(q)
        PROVE  /\ h.type = "ident" => NoLines(r)
               /\ h.type # "ident" => h.type = "line" /\ IdentAhead(r)
    <2>1. PICK k \in 1..(M + 1) :
             /\ q[k].type = "ident"
             /\ \A i \in 1..(M + 1) : i < k => q[i].type = "line"
             /\ \A i \in 1..(M + 1) : i > k => q[i].type \notin LineTypes
      BY <1>1, <1>5 DEF IdentAhead
    <2>2. k = 1 \/ k > 1
      BY <1>1, <2>1
    <2>3. CASE k = 1
      BY <1>1, <1>3, <2>1, <2>3 DEF NoLines, M
    <2>4. CASE k > 1
      <3>1. h.type = "line" /\ k - 1 \in 1..M /\ (k - 1) + 1 = k
        BY <1>1, <1>3, <2>1, <2>4
      <3>2. r[k - 1].type = "ident"
        BY <1>1, <2>1, <3>1
      <3>3. \A i \in 1..M : (i < k - 1 => i + 1 < k) /\ (i > k - 1 => i + 1 > k)
        BY <1>1, <2>1
      <3>4. \A i \in 1..M : i < k - 1 => r[i].type = "line"
        BY <1>1, <1>3, <2>1, <3>3
      <3>5. \A i \in 1..M : i > k - 1 => r[i].type \notin LineTypes
        BY <1>1, <1>3, <2>1, <3>3
      <3>6. IdentAhead(r)
        BY <3>1, <3>2, <3>4, <3>5 DEF IdentAhead, M
      <3> QED BY <3>1, <3>6
    <2> QED BY <2>2, <2>3, <2>4
  <1>6. NoLines(q) => h.type \notin LineTypes /\ NoLines(r)
    BY <1>1, <1>3 DEF NoLines, M
  <1>7. NoLine(q) => h.type # "line" /\ NoLine(r)
    BY <1>1, <1>3 DEF NoLine, M
  <1> QED BY <1>4, <1>5, <1>6, <1>7 DEF r, h

\* The first packet of a stream is one the receiver accepts.
LEMMA LinkHead ==
    ASSUME NEW q \in Seq(Packets), q # <<>>, NEW r, NEW s, Linked(q, r, s)
    PROVE  Decodes(r, Head(q)) /\ Head(q).epoch = r.epoch /\ Head(q).seq = r.seq
  BY TailIs DEF Linked, Decodes

\* A packet protected with the sender's state s, which leaves state t behind.
LEMMA LinkAppend ==
    ASSUME NEW q \in Seq(Packets), NEW p \in Packets, NEW r, NEW s, NEW t, Linked(q, r, s),
           p.epoch = s.epoch, p.seq = s.seq,
           t.epoch = EpochAfter(p, t.epoch), t.seq = SeqAfter(p),
           t.epoch = s.epoch \/ ~Has(q, "newkeys")
    PROVE  Linked(Append(q, p), r, t)
  <1> DEFINE z == Append(q, p)
             L == Len(q)
  <1>1. /\ L \in Nat /\ Len(z) = L + 1 /\ z[L + 1] = p /\ z # <<>>
        /\ \A i \in 1..L : z[i] = q[i]
        /\ q = <<>> <=> L = 0
    BY AppendIs
  <1> HIDE DEF z, L
  <1>2. z[1].epoch = r.epoch /\ z[1].seq = r.seq
    <2>1. CASE L = 0
      BY <1>1, <2>1 DEF Linked
    <2>2. CASE L # 0
      <3>1. 1 \in 1..L
        BY <1>1, <2>2
      <3> QED BY <1>1, <2>2, <3>1 DEF Linked
    <2> QED BY <2>1, <2>2
  <1>3. \A i \in 1..L : EpochAfter(q[i], t.epoch) = EpochAfter(q[i], s.epoch)
    BY DEF EpochAfter, Has, L
  <1>4. ASSUME NEW i \in 1..(L + 1), NEW j \in 1..(L + 1), j = i + 1
        PROVE  z[j].epoch = EpochAfter(z[i], t.epoch) /\ z[j].seq = SeqAfter(z[i])
    <2>1. i \in 1..L /\ z[i] = q[i] /\ L # 0
      BY <1>1, <1>4
    <2>2. CASE j = L + 1
      <3>1. i = L
        BY <1>1, <1>4, <2>2
      <3>2. s.epoch = EpochAfter(q[i], s.epoch) /\ s.seq = SeqAfter(q[i])
        BY <1>1, <2>1, <3>1 DEF Linked, L
      <3> QED BY <1>1, <1>3, <2>1, <2>2, <3>2
    <2>3. CASE j # L + 1
      <3>1. j \in 1..L /\ z[j] = q[j]
        BY <1>1, <1>4, <2>3
      <3>2. q[j].epoch = EpochAfter(q[i], s.epoch) /\ q[j].seq = SeqAfter(q[i])
        BY <1>4, <2>1, <3>1 DEF Linked, L
      <3> QED BY <1>3, <2>1, <3>1, <3>2
    <2> QED BY <2>2, <2>3
  <1>5. Linked(z, r, t)
    BY <1>1, <1>2, <1>4 DEF Linked
  <1> QED BY <1>5 DEF z

\* The receiver has taken the first packet and is in the state it leaves behind.
LEMMA LinkTail ==
    ASSUME NEW q \in Seq(Packets), q # <<>>, NEW r, NEW s, NEW t, Linked(q, r, s),
           t.epoch = EpochAfter(Head(q), s.epoch), t.seq = SeqAfter(Head(q))
    PROVE  Linked(Tail(q), t, s)
  <1> DEFINE z == Tail(q)
             M == Len(z)
             h == Head(q)
  <1>0. z = <<>> <=> M = 0
    BY TailIs, EmptyIs
  <1>1. /\ M \in Nat /\ Len(q) = M + 1 /\ h = q[1] /\ (z = <<>> <=> M = 0)
        /\ \A i \in 1..M : z[i] = q[i + 1]
    BY <1>0, TailIs
  <1>2. t.epoch = EpochAfter(h, s.epoch) /\ t.seq = SeqAfter(h)
    OBVIOUS
  <1> HIDE DEF z, M, h
  <1>3. CASE M = 0
    <2>1. s.epoch = EpochAfter(h, s.epoch) /\ s.seq = SeqAfter(h)
      BY <1>1, <1>3 DEF Linked
    <2>2. Linked(z, t, s)
      BY <1>1, <1>2, <1>3, <2>1 DEF Linked, M
    <2> QED BY <2>2 DEF z
  <1>4. CASE M # 0
    <2>1. 1 \in 1..(M + 1) /\ 2 \in 1..(M + 1) /\ z[1] = q[2] /\ z[M] = q[M + 1]
      BY <1>1, <1>4
    <2>2. z[1].epoch = t.epoch /\ z[1].seq = t.seq
      BY <1>1, <1>2, <2>1 DEF Linked
    <2>3. s.epoch = EpochAfter(z[M], s.epoch) /\ s.seq = SeqAfter(z[M])
      BY <1>1, <2>1 DEF Linked
    <2>4. ASSUME NEW i \in 1..M, NEW j \in 1..M, j = i + 1
          PROVE  z[j].epoch = EpochAfter(z[i], s.epoch) /\ z[j].seq = SeqAfter(z[i])
      <3>1. i + 1 \in 1..(M + 1) /\ j + 1 \in 1..(M + 1) /\ j + 1 = (i + 1) + 1
        BY <1>1, <2>4
      <3>2. q[j + 1].epoch = EpochAfter(q[i + 1], s.epoch) /\ q[j + 1].seq = SeqAfter(q[i + 1])
        BY <1>1, <3>1 DEF Linked
      <3> QED BY <1>1, <3>2
    <2>5. Linked(z, t, s)
      BY <1>1, <1>4, <2>2, <2>3, <2>4 DEF Linked, M
    <2> QED BY <2>5 DEF z
  <1> QED BY <1>3, <1>4

\* Between the server's KEXINIT and NEWKEYS of one stream: what QuietDuringExchange
\* says of to_client.
Hushed(q) ==
    \A i, j \in 1..Len(q) :
        (i < j /\ q[i].type = "kexinit" /\ q[j].type \notin KexTypes)
        => \E k \in i..j : q[k].type = "newkeys"

\* The server adds a key exchange message, or anything where no KEXINIT is under way.
LEMMA HushedAppend ==
    ASSUME NEW q \in Seq(Packets), NEW p \in Packets, Hushed(q),
           p.type \in KexTypes \/ ~Has(q, "kexinit")
    PROVE  Hushed(Append(q, p))
  <1> DEFINE z == Append(q, p)
             L == Len(q)
  <1>1. /\ L \in Nat /\ Len(z) = L + 1 /\ z[L + 1] = p
        /\ \A i \in 1..L : z[i] = q[i]
    BY AppendIs
  <1> HIDE DEF z, L
  <1>2. ASSUME NEW i \in 1..(L + 1), NEW j \in 1..(L + 1),
               i < j, z[i].type = "kexinit", z[j].type \notin KexTypes
        PROVE  \E k \in i..j : z[k].type = "newkeys"
    <2>1. i \in 1..L /\ q[i].type = "kexinit"
      BY <1>1, <1>2
    <2>2. Has(q, "kexinit")
      BY <2>1 DEF Has, L
    <2>3. j \in 1..L /\ z[j] = q[j]
      BY <1>1, <1>2, <2>2
    <2>4. PICK k \in i..j : q[k].type = "newkeys"
      BY <1>2, <2>1, <2>3 DEF Hushed, L
    <2>5. k \in 1..L
      BY <1>1, <2>1, <2>3
    <2> QED BY <1>1, <2>4, <2>5
  <1> QED BY <1>1, <1>2 DEF Hushed, z

\* The client takes one packet.
LEMMA HushedTail ==
    ASSUME NEW q \in Seq(Packets), q # <<>>, Hushed(q)
    PROVE  Hushed(Tail(q))
  <1> DEFINE z == Tail(q)
             M == Len(z)
  <1>1. /\ M \in Nat /\ Len(q) = M + 1
        /\ \A i \in 1..M : z[i] = q[i + 1]
    BY TailIs
  <1> HIDE DEF z, M
  <1>2. ASSUME NEW i \in 1..M, NEW j \in 1..M,
               i < j, z[i].type = "kexinit", z[j].type \notin KexTypes
        PROVE  \E k \in i..j : z[k].type = "newkeys"
    <2>1. /\ i + 1 \in 1..(M + 1) /\ j + 1 \in 1..(M + 1) /\ i + 1 < j + 1
          /\ q[i + 1].type = "kexinit" /\ q[j + 1].type \notin KexTypes
      BY <1>1, <1>2
    <2>2. PICK k \in (i + 1)..(j + 1) : q[k].type = "newkeys"
      BY <1>1, <2>1 DEF Hushed
    <2>3. k - 1 \in i..j /\ k - 1 \in 1..M /\ (k - 1) + 1 = k
      BY <1>1, <2>2
    <2> QED BY <1>1, <2>2, <2>3
  <1>3. Hushed(z)
    BY <1>2 DEF Hushed, M
  <1> QED BY <1>3 DEF z

(***************************************************************************)
(* Packet protection.                                                      *)
(***************************************************************************)

\* Sequence numbers stay numbers.
LEMMA SuccNat == \A s \in Nat : Succ(s) \in Nat
  BY ConstantsAssumption DEF Succ

\* What a packet does to the state it passes under.
LEMMA AdvanceIs ==
    ASSUME NEW p \in Protection
    PROVE  /\ Advance(p) \in Protection
           /\ Advance(p).epoch = p.epoch /\ Advance(p).seq = Succ(p.seq)
  <1>1. (p.seq + 1) % SeqMod \in Nat
    BY SuccNat DEF Succ, Protection
  <1>2. (IF p.epoch = 0 THEN p.count ELSE AddSaturating(p.count)) \in Nat
    BY ConstantsAssumption DEF AddSaturating, Protection
  <1> QED BY <1>1, <1>2 DEF Advance, Protection, Succ

\* New keys, and the sequence number goes on.
LEMMA ActivateIs ==
    ASSUME NEW p \in Protection, NEW e \in Nat
    PROVE  /\ Activate(p, e) \in Protection
           /\ Activate(p, e).epoch = e /\ Activate(p, e).seq = p.seq
  BY DEF Activate, Protection

\* The same for the client, whose NEWKEYS switches its own direction.
LEMMA ClientNextIs ==
    ASSUME NEW p \in Protection
    PROVE  /\ ClientNext(p) \in Protection
           /\ ClientNext(p).epoch = p.epoch /\ ClientNext(p).seq = Succ(p.seq)
           /\ \A e \in Nat : /\ [ClientNext(p) EXCEPT !.epoch = e] \in Protection
                             /\ [ClientNext(p) EXCEPT !.epoch = e].epoch = e
                             /\ [ClientNext(p) EXCEPT !.epoch = e].seq = Succ(p.seq)
  <1>1. (p.seq + 1) % SeqMod \in Nat
    BY SuccNat DEF Succ, Protection
  <1> QED BY <1>1 DEF ClientNext, Protection, Succ

\* The packets of both ends.
LEMMA PacketsIs ==
    ASSUME TypeInv, NEW type \in Types, NEW kid \in Nat
    PROVE  /\ Outgoing(type, kid) \in Packets
           /\ Outgoing(type, kid).type = type /\ Outgoing(type, kid).kid = kid
           /\ Outgoing(type, kid).epoch = outbound.epoch
           /\ Outgoing(type, kid).seq = outbound.seq
           /\ ClientPacket(type, kid) \in Packets
           /\ ClientPacket(type, kid).type = type /\ ClientPacket(type, kid).kid = kid
           /\ ClientPacket(type, kid).epoch = c_out.epoch
           /\ ClientPacket(type, kid).seq = c_out.seq
  BY DEF TypeInv, Outgoing, ClientPacket, Packets, Protection

(***************************************************************************)
(* The steps, by what they do to the streams and the place of the server.  *)
(***************************************************************************)
PlainTypes == {"ext_info", "accept", "success", "pk_ok", "failure", "msg"}
Gives(type) ==
    to_client' = Append(to_client, Outgoing(type, 0)) /\ outbound' = Advance(outbound)
GivesNothing == to_client' = to_client /\ outbound' = outbound
TakesOne ==
    to_server # <<>> /\ to_server' = Tail(to_server) /\ inbound' = Advance(inbound)
TakesNothing == to_server' = to_server /\ inbound' = inbound

\* The session ends; only a packet that fails the check makes it end with MAC.
Ending ==
    /\ pc # "ended" /\ pc' = "ended"
    /\ status' = "MAC" => /\ pc \notin {"send_ident", "recv_ident"}
                          /\ to_server # <<>> /\ ~Decodes(inbound, Head(to_server))
    /\ to_server' = to_server \/ (to_server # <<>> /\ to_server' = Tail(to_server))
    /\ inbound' \in Protection
    /\ GivesNothing \/ (pc \in Stages /\ \E t \in PlainTypes : Gives(t))
    /\ client_kexinit' \in Nat /\ exchange_hash' = exchange_hash /\ session_id' = session_id
    /\ ret' = ret /\ rekey_in_progress' \in BOOLEAN /\ abandoned' \in BOOLEAN
    /\ abandoned => abandoned'
    /\ UNCHANGED clientVars

\* A stage goes on to itself or to the next one; a key exchange message is passed over
\* only where a channel request is awaited.
Staying ==
    /\ pc \in Stages /\ pc' \in Stages /\ status' = status
    /\ pc = "channel" => pc' = "channel"
    /\ TakesNothing \/ TakesOne
    /\ (TakesOne /\ Head(to_server).type \in KexTypes) => pc = "request"
    /\ GivesNothing \/ \E t \in PlainTypes : Gives(t)
    /\ client_kexinit' \in Nat /\ exchange_hash' = exchange_hash /\ session_id' = session_id
    /\ ret' = ret /\ ~rekey_in_progress' /\ rekey_in_progress' \in BOOLEAN
    /\ abandoned' = abandoned
    /\ UNCHANGED clientVars

\* The client's KEXINIT interrupts a stage.
Interrupting ==
    /\ pc \in Stages /\ pc' = "send_kexinit" /\ status' = status
    /\ TakesOne /\ GivesNothing
    /\ Head(to_server).type = "kexinit" /\ client_kexinit' = Head(to_server).kid
    /\ exchange_hash' = exchange_hash /\ session_id' = session_id
    /\ ret' = pc /\ rekey_in_progress' /\ rekey_in_progress' \in BOOLEAN
    /\ abandoned' = abandoned
    /\ UNCHANGED clientVars

\* A re-exchange is given up.
GivingUp ==
    /\ rekey_in_progress /\ pc \in {"recv_ecdh_init", "recv_newkeys"}
    /\ pc' = "channel" /\ status' = status /\ TakesNothing /\ GivesNothing
    /\ client_kexinit' = client_kexinit
    /\ exchange_hash' = exchange_hash /\ session_id' = session_id
    /\ ret' = ret /\ ~rekey_in_progress' /\ abandoned' /\ abandoned' \in BOOLEAN
    /\ rekey_in_progress' \in BOOLEAN
    /\ UNCHANGED clientVars

\* The steps of an exchange that succeed, by the call the server is in before.
Exchanging ==
    /\ pc' # "ended" /\ status' = status /\ ret' = ret /\ abandoned' = abandoned
    /\ rekey_in_progress' \in BOOLEAN
    /\ pc # "recv_newkeys" => rekey_in_progress' = rekey_in_progress
    /\ pc # "send_reply" => exchange_hash' = exchange_hash /\ session_id' = session_id
    /\ pc # "recv_kexinit" => client_kexinit' = client_kexinit
    /\ UNCHANGED clientVars
    /\ \/ /\ pc = "send_ident" /\ pc' = "recv_ident" /\ TakesNothing
          /\ to_client' = Append(to_client, Outgoing("ident", 0)) /\ outbound' = outbound
       \/ /\ pc = "recv_ident" /\ GivesNothing
          /\ to_server # <<>> /\ to_server' = Tail(to_server) /\ inbound' = inbound
          /\ Head(to_server).type = "ident" => pc' = "send_kexinit"
          /\ Head(to_server).type # "ident" => pc' = "recv_ident"
       \/ /\ pc = "send_kexinit" /\ Gives("kexinit") /\ TakesNothing
          /\ pc' = IF rekey_in_progress THEN "recv_ecdh_init" ELSE "recv_kexinit"
       \/ /\ pc = "recv_kexinit" /\ pc' = "recv_ecdh_init" /\ TakesOne /\ GivesNothing
          /\ Head(to_server).type = "kexinit" /\ client_kexinit' = Head(to_server).kid
       \/ /\ pc = "recv_ecdh_init" /\ pc' = "send_reply" /\ TakesOne /\ GivesNothing
          /\ Head(to_server).type = "ecdh_init"
       \/ /\ pc = "send_reply" /\ pc' = "send_newkeys" /\ TakesNothing
          /\ to_client' = Append(to_client, Outgoing("reply", client_kexinit))
          /\ outbound' = Advance(outbound)
          /\ exchange_hash' = client_kexinit /\ session_id' = SessionId(client_kexinit)
       \/ /\ pc = "send_newkeys" /\ TakesNothing
          /\ pc' = IF rekey_in_progress THEN "recv_newkeys" ELSE "send_ext_info"
          /\ to_client' = Append(to_client, Outgoing("newkeys", 0))
          /\ outbound' = Activate(Advance(outbound), exchange_hash)
       \/ /\ pc = "send_ext_info" /\ pc' = "recv_newkeys" /\ TakesNothing
          /\ GivesNothing \/ Gives("ext_info")
       \/ /\ pc = "recv_newkeys" /\ pc' \in Stages /\ GivesNothing
          /\ to_server # <<>> /\ to_server' = Tail(to_server)
          /\ Head(to_server).type = "newkeys"
          /\ inbound' = Activate(Advance(inbound), exchange_hash)
          /\ ~rekey_in_progress'

\* What a server step leaves alone, in the form the steps below need it.
SameSide ==
    /\ exchange_hash' = exchange_hash /\ session_id' = session_id
    /\ ret' = ret /\ abandoned' = abandoned
    /\ UNCHANGED clientVars

\* The packet at the head is one of the stream's.
LEMMA HeadIs ==
    ASSUME TypeInv, to_server # <<>>
    PROVE  Head(to_server) \in Packets /\ Head(to_server).kid \in Nat
  BY TailIs DEF TypeInv, Packets

\* A packet taken or answered in a stage.
LEMMA StageTakes ==
    ASSUME TypeInv, pc \in Stages, ~rekey_in_progress, to_server # <<>>,
           Takes \/ \E t \in PlainTypes : Answers(t),
           SameSide, rekey_in_progress' = rekey_in_progress, client_kexinit' \in Nat
    PROVE  /\ \A s : s # "MAC" /\ End(s) => Ending
           /\ \A p : /\ Goto(p) /\ p \in Stages /\ (pc = "channel" => p = "channel")
                     /\ Head(to_server).type \in KexTypes => pc = "request"
                     => Staying
  <1>1. TakesOne
    BY DEF Takes, Answers, TakesOne
  <1>2. GivesNothing \/ \E t \in PlainTypes : Gives(t)
    BY DEF Takes, Answers, Emits, GivesNothing, Gives
  <1>3. inbound' \in Protection
    BY <1>1, AdvanceIs DEF TakesOne, TypeInv
  <1>4. pc # "ended"
    BY DEF Stages
  <1>5. ASSUME NEW s, s # "MAC", End(s) PROVE Ending
    <2>1. pc' = "ended" /\ status' # "MAC"
      BY <1>5 DEF End
    <2>2. rekey_in_progress' \in BOOLEAN /\ abandoned' \in BOOLEAN /\ (abandoned => abandoned')
      BY DEF TypeInv, SameSide
    <2> QED BY <1>1, <1>2, <1>3, <1>4, <2>1, <2>2 DEF Ending, SameSide, TakesOne
  <1>6. ASSUME NEW p, Goto(p), p \in Stages, pc = "channel" => p = "channel",
               Head(to_server).type \in KexTypes => pc = "request"
        PROVE  Staying
    <2>1. pc' = p /\ status' = status
      BY <1>6 DEF Goto
    <2>2. rekey_in_progress' \in BOOLEAN
      BY DEF TypeInv
    <2> QED BY <1>1, <1>2, <1>6, <2>1, <2>2 DEF Staying, SameSide
  <1> QED BY <1>5, <1>6

\* A request refused.
LEMMA RefuseMoves ==
    ASSUME TypeInv, pc \in Stages, ~rekey_in_progress, to_server # <<>>, RefuseUnsupported,
           SameSide, rekey_in_progress' = rekey_in_progress, client_kexinit' \in Nat
    PROVE  Ending \/ Staying
  <1>1. CASE Takes /\ End("UNSUPPORTED") /\ UNCHANGED skipped
    BY <1>1, StageTakes
  <1>2. CASE pc = "request" /\ Takes /\ Enter(pc)
    BY <1>2, StageTakes DEF Enter
  <1>3. CASE pc = "request" /\ Answers("failure") /\ Enter(pc)
    BY <1>3, StageTakes DEF Enter, PlainTypes
  <1> QED BY <1>1, <1>2, <1>3 DEF RefuseUnsupported

\* The steps of the key exchange.
LEMMA ExchangeMoves ==
    ASSUME TypeInv, Control, Exchange
    PROVE  Exchanging \/ Ending
  <1>0. /\ rekey_in_progress \in BOOLEAN /\ abandoned \in BOOLEAN
        /\ inbound \in Protection /\ client_kexinit \in Nat
        /\ Advance(inbound) \in Protection
    BY AdvanceIs DEF TypeInv
  <1>1. CASE SendIdentification
    <2>1. ~rekey_in_progress /\ pc = "send_ident" /\ pc' = "recv_ident"
      BY <1>1 DEF SendIdentification, Goto, NextStep, SetupOrder, Control
    <2> QED BY <1>0, <1>1, <2>1 DEF SendIdentification, Goto, Emits, Exchanging, TakesNothing, kexVars
  <1>2. CASE ReceiveIdentification
    <2>1. ~rekey_in_progress /\ pc = "recv_ident" /\ NextStep(pc) = "send_kexinit"
      BY <1>2 DEF ReceiveIdentification, NextStep, SetupOrder, Control
    <2>2. /\ GivesNothing /\ inbound' = inbound /\ to_server # <<>>
          /\ to_server' = Tail(to_server) /\ SameSide
          /\ rekey_in_progress' = rekey_in_progress /\ client_kexinit' = client_kexinit
      BY <1>2 DEF ReceiveIdentification, GivesNothing, SameSide, kexVars
    <2>3. \/ pc' = "ended" /\ status' # "MAC"
          \/ Head(to_server).type = "ident" /\ pc' = "send_kexinit" /\ status' = status
          \/ Head(to_server).type # "ident" /\ pc' = "recv_ident" /\ status' = status
      BY <1>2, <2>1 DEF ReceiveIdentification, Enter, End, Goto
    <2>4. CASE pc' = "ended" /\ status' # "MAC"
      BY <1>0, <2>1, <2>2, <2>4 DEF Ending, SameSide
    <2>5. CASE Head(to_server).type = "ident" /\ pc' = "send_kexinit" /\ status' = status
      BY <1>0, <2>1, <2>2, <2>5 DEF Exchanging, SameSide
    <2>6. CASE Head(to_server).type # "ident" /\ pc' = "recv_ident" /\ status' = status
      BY <1>0, <2>1, <2>2, <2>6 DEF Exchanging, SameSide
    <2> QED BY <2>3, <2>4, <2>5, <2>6
  <1>3. CASE SendKexinit
    <2>1. pc = "send_kexinit"
          /\ pc' = IF rekey_in_progress THEN "recv_ecdh_init" ELSE "recv_kexinit"
      BY <1>3 DEF SendKexinit, Goto, NextStep, SetupOrder, RekeyOrder
    <2> QED BY <1>0, <1>3, <2>1 DEF SendKexinit, Goto, Sends, Emits, Exchanging, TakesNothing,
                                    Gives, kexVars
  <1>4. CASE ReceiveKexinit
    <2>1. ~rekey_in_progress /\ pc = "recv_kexinit" /\ NextStep(pc) = "recv_ecdh_init"
      BY <1>4 DEF ReceiveKexinit, NextStep, SetupOrder, Control
    <2>2. /\ GivesNothing /\ TakesOne /\ SameSide /\ Head(to_server).type = "kexinit"
          /\ rekey_in_progress' = rekey_in_progress
          /\ client_kexinit' = Head(to_server).kid /\ client_kexinit' \in Nat
      BY <1>4, HeadIs DEF ReceiveKexinit, GivesNothing, TakesOne, Takes, Arrived, SameSide, kexVars
    <2>3. \/ pc' = "ended" /\ status' # "MAC"
          \/ pc' = "recv_ecdh_init" /\ status' = status
      BY <1>4, <2>1 DEF ReceiveKexinit, End, Goto
    <2>4. CASE pc' = "ended" /\ status' # "MAC"
      BY <1>0, <2>1, <2>2, <2>4 DEF Ending, SameSide, TakesOne
    <2>5. CASE pc' = "recv_ecdh_init" /\ status' = status
      BY <1>0, <2>1, <2>2, <2>5 DEF Exchanging, SameSide
    <2> QED BY <2>3, <2>4, <2>5
  <1>5. CASE ReceiveEcdhInit
    <2>1. pc = "recv_ecdh_init" /\ pc' = "send_reply" /\ status' = status
      BY <1>5 DEF ReceiveEcdhInit, Goto, NextStep, SetupOrder, RekeyOrder
    <2>2. /\ GivesNothing /\ TakesOne /\ SameSide /\ Head(to_server).type = "ecdh_init"
          /\ rekey_in_progress' = rekey_in_progress /\ client_kexinit' = client_kexinit
      BY <1>5 DEF ReceiveEcdhInit, GivesNothing, TakesOne, Takes, Arrived, SameSide, kexVars
    <2> QED BY <1>0, <2>1, <2>2 DEF Exchanging, SameSide
  <1>6. CASE ReceiveOtherThanKex
    <2>1. /\ pc # "ended" /\ pc' = "ended" /\ status' # "MAC" /\ rekey_in_progress' = FALSE
          /\ GivesNothing /\ TakesOne /\ SameSide /\ client_kexinit' = client_kexinit
      BY <1>6 DEF ReceiveOtherThanKex, Expected, End, Takes, Arrived, GivesNothing, TakesOne,
                  SameSide, kexVars
    <2> QED BY <1>0, <2>1 DEF Ending, SameSide, TakesOne
  <1>7. CASE SendKexEcdhReply
    <2>1. pc = "send_reply" /\ pc' = "send_newkeys" /\ status' = status
      BY <1>7 DEF SendKexEcdhReply, Goto, NextStep, SetupOrder, RekeyOrder
    <2> QED BY <1>0, <1>7, <2>1 DEF SendKexEcdhReply, Sends, Emits, Exchanging, TakesNothing
  <1>8. CASE SendNewkeys
    <2>1. pc = "send_newkeys" /\ status' = status
          /\ pc' = IF rekey_in_progress THEN "recv_newkeys" ELSE "send_ext_info"
      BY <1>8 DEF SendNewkeys, Goto, NextStep, SetupOrder, RekeyOrder
    <2> QED BY <1>0, <1>8, <2>1 DEF SendNewkeys, Emits, Exchanging, TakesNothing, kexVars
  <1>9. CASE SendExtInfo
    <2>1. pc = "send_ext_info" /\ status' = status /\ pc' = "recv_newkeys"
      BY <1>9 DEF SendExtInfo, Goto, NextStep, SetupOrder, Control
    <2>2. TakesNothing /\ (GivesNothing \/ Gives("ext_info"))
      BY <1>9 DEF SendExtInfo, Sends, Emits, TakesNothing, GivesNothing, Gives
    <2> QED BY <1>0, <1>9, <2>1, <2>2 DEF SendExtInfo, Exchanging, kexVars
  <1>10. CASE ReceiveNewkeys
    <2>1. /\ pc = "recv_newkeys" /\ GivesNothing /\ to_server # <<>>
          /\ to_server' = Tail(to_server) /\ Head(to_server).type = "newkeys"
          /\ inbound' = Activate(Advance(inbound), exchange_hash)
          /\ rekey_in_progress' = FALSE /\ SameSide /\ client_kexinit' = client_kexinit
      BY <1>10 DEF ReceiveNewkeys, Arrived, GivesNothing, SameSide, kexVars
    <2>2. \/ pc' = "ended" /\ status' # "MAC"
          \/ pc' \in Stages /\ status' = status
      <3>1. ret \in Stages
        BY DEF TypeInv
      <3> QED BY <1>10, <3>1 DEF ReceiveNewkeys, SkipsIn, End, Goto, Enter, Stages
    <2>3. inbound' \in Protection
      BY <1>0, <2>1, ActivateIs DEF TypeInv
    <2>4. CASE pc' = "ended" /\ status' # "MAC"
      BY <1>0, <2>1, <2>3, <2>4 DEF Ending, SameSide
    <2>5. CASE pc' \in Stages /\ status' = status
      <3>1. pc' # "ended"
        BY <2>5 DEF Stages
      <3> QED BY <1>0, <2>1, <2>5, <3>1 DEF Exchanging, SameSide
    <2> QED BY <2>2, <2>4, <2>5
  <1> QED BY <1>1, <1>2, <1>3, <1>4, <1>5, <1>6, <1>7, <1>8, <1>9, <1>10 DEF Exchange

\* The steps of the stages.
LEMMA ReceiveMoves ==
    ASSUME TypeInv, Control, Receive
    PROVE  Staying \/ Ending \/ Interrupting
  <1>0. /\ rekey_in_progress \in BOOLEAN /\ abandoned \in BOOLEAN /\ client_kexinit \in Nat
        /\ inbound \in Protection
        /\ pc \in Stages => ~rekey_in_progress
    BY DEF TypeInv, Control, Stages
  <1>a. SameSide /\ client_kexinit' = client_kexinit <=> 
           UNCHANGED <<ret, kexVars, abandoned, clientVars>>
    BY DEF SameSide, kexVars
  <1>1. CASE SkipIgnorable
    <2>1. /\ pc \in Stages /\ to_server # <<>> /\ Head(to_server).type = "ignore" /\ Takes
          /\ SameSide /\ rekey_in_progress' = rekey_in_progress /\ client_kexinit' = client_kexinit
      BY <1>1, <1>a DEF SkipIgnorable, Arrived
    <2>2. End("MALFORMED") \/ Goto(pc)
      BY <1>1 DEF SkipIgnorable, SkipsIn
    <2> QED BY <1>0, <2>1, <2>2, StageTakes DEF KexTypes
  <1>2. CASE ReceiveDisconnect
    <2>1. /\ pc \in Stages /\ to_server # <<>> /\ Takes
          /\ SameSide /\ rekey_in_progress' = rekey_in_progress /\ client_kexinit' = client_kexinit
      BY <1>2, <1>a DEF ReceiveDisconnect, Arrived
    <2>2. End("OK") \/ End("CLOSED")
      BY <1>2 DEF ReceiveDisconnect
    <2> QED BY <1>0, <2>1, <2>2, StageTakes
  <1>3. CASE ReceivePeerKexinit
    <2>1. /\ pc \in Stages /\ to_server # <<>> /\ Head(to_server).type = "kexinit"
          /\ client_kexinit' = Head(to_server).kid /\ client_kexinit' \in Nat
          /\ exchange_hash' = exchange_hash /\ session_id' = session_id
          /\ abandoned' = abandoned /\ UNCHANGED clientVars
      BY <1>3, HeadIs DEF ReceivePeerKexinit, Arrived
    <2>2. CASE Takes /\ Goto("send_kexinit") /\ ret' = pc /\ rekey_in_progress' = TRUE
      BY <2>1, <2>2 DEF Takes, Goto, Interrupting, TakesOne, GivesNothing
    <2>3. CASE RefuseUnsupported /\ UNCHANGED <<ret, rekey_in_progress>>
      BY <1>0, <2>1, <2>3, RefuseMoves DEF SameSide
    <2> QED BY <1>3, <2>2, <2>3 DEF ReceivePeerKexinit
  <1>4. CASE ReceiveService
    <2>1. /\ pc = "service" /\ to_server # <<>> /\ Head(to_server).type = "service"
          /\ SameSide /\ rekey_in_progress' = rekey_in_progress /\ client_kexinit' = client_kexinit
      BY <1>4, <1>a DEF ReceiveService, Arrived
    <2>2. \/ Answers("accept") /\ Goto("userauth")
          \/ Takes /\ End("UNSUPPORTED")
      BY <1>4 DEF ReceiveService, Enter
    <2> QED BY <1>0, <2>1, <2>2, StageTakes DEF KexTypes, Stages, PlainTypes
  <1>5. CASE ReceiveUserauth
    <2>1. /\ pc = "userauth" /\ to_server # <<>> /\ Head(to_server).type = "auth"
          /\ SameSide /\ rekey_in_progress' = rekey_in_progress /\ client_kexinit' = client_kexinit
      BY <1>5, <1>a DEF ReceiveUserauth, Arrived
    <2>2. \/ Answers("success") /\ Goto("open")
          \/ Answers("pk_ok") /\ Goto("userauth")
          \/ Answers("failure") /\ End("SECURITY")
          \/ Answers("failure") /\ Goto("userauth")
      BY <1>5 DEF ReceiveUserauth, Enter
    <2> QED BY <1>0, <2>1, <2>2, StageTakes DEF KexTypes, Stages, PlainTypes
  <1>6. CASE ReceiveMessage
    <2>1. /\ pc \in {"open", "request", "channel"} /\ to_server # <<>>
          /\ Head(to_server).type = "msg"
          /\ SameSide /\ rekey_in_progress' = rekey_in_progress /\ client_kexinit' = client_kexinit
      BY <1>6, <1>a DEF ReceiveMessage, Arrived
    <2>2. Takes \/ Answers("msg")
      BY <1>6 DEF ReceiveMessage
    <2>3. \/ Goto(pc)
          \/ pc = "open" /\ Goto("request")
          \/ pc = "request" /\ Goto("channel")
          \/ End("UNSUPPORTED") \/ End("CLOSED") \/ End("OK")
      BY <1>6, <2>1 DEF ReceiveMessage, Enter, EndStatus
    <2>4. Takes \/ \E t \in PlainTypes : Answers(t)
      BY <2>2 DEF PlainTypes
    <2> HIDE DEF Takes
    <2> QED BY <1>0, <2>1, <2>3, <2>4, StageTakes DEF KexTypes, Stages
  <1>7. CASE ReceiveUnexpected
    <2>1. /\ pc \in Stages /\ to_server # <<>>
          /\ SameSide /\ rekey_in_progress' = rekey_in_progress /\ client_kexinit' = client_kexinit
      BY <1>7, <1>a DEF ReceiveUnexpected, Arrived
    <2>2. RefuseUnsupported \/ (Takes /\ End("MALFORMED"))
      BY <1>7 DEF ReceiveUnexpected
    <2> QED BY <1>0, <2>1, <2>2, StageTakes, RefuseMoves
  <1>8. CASE ReceiveUndecodable
    <2>1. pc # "ended" /\ pc \notin {"send_ident", "recv_ident"}
      BY <1>8 DEF ReceiveUndecodable, Stages, RecvSteps
    <2>2. /\ to_server # <<>> /\ ~Decodes(inbound, Head(to_server))
          /\ to_server' = Tail(to_server) /\ pc' = "ended" /\ GivesNothing
          /\ inbound' = inbound /\ rekey_in_progress' = rekey_in_progress
          /\ SameSide /\ client_kexinit' = client_kexinit
      BY <1>8, <1>a DEF ReceiveUndecodable, End, GivesNothing
    <2> QED BY <1>0, <2>1, <2>2 DEF Ending, SameSide
  <1> QED BY <1>1, <1>2, <1>3, <1>4, <1>5, <1>6, <1>7, <1>8 DEF Receive

\* Every step is one of these.
LEMMA StepMoves ==
    ASSUME TypeInv, Control, [Next]_vars
    PROVE  \/ Exchanging \/ Ending \/ Staying \/ Interrupting \/ GivingUp
           \/ Client \/ Damage \/ UNCHANGED vars
  <1>0. /\ rekey_in_progress \in BOOLEAN /\ abandoned \in BOOLEAN /\ client_kexinit \in Nat
        /\ inbound \in Protection /\ pc \in Calls
        /\ pc \in Stages => ~rekey_in_progress
    BY DEF TypeInv, Control, Stages
  <1>1. CASE ServerOutput
    <2>1. /\ pc = "channel" /\ pc' = "channel" /\ status' = status
          /\ Gives("msg") /\ TakesNothing
      BY <1>1 DEF ServerOutput, Sends, Emits, Gives, TakesNothing, Goto
    <2>2. /\ ~rekey_in_progress' /\ rekey_in_progress' \in BOOLEAN /\ SameSide /\ client_kexinit' = client_kexinit
      BY <1>0, <1>1 DEF ServerOutput, SameSide, kexVars, Stages
    <2>3. ~TakesOne
      <3>1. ASSUME to_server # <<>> PROVE to_server # Tail(to_server)
        BY <3>1, TailIs DEF TypeInv
      <3> QED BY <2>1, <3>1 DEF TakesOne, TakesNothing
    <2> QED BY <1>0, <2>1, <2>2, <2>3 DEF Staying, SameSide, Stages, PlainTypes
  <1>2. CASE ReceiveTimeout
    <2>1. /\ TakesNothing /\ GivesNothing /\ ret' = ret /\ rekey_in_progress' = FALSE
          /\ abandoned' = (abandoned \/ rekey_in_progress)
          /\ exchange_hash' = exchange_hash /\ session_id' = session_id
          /\ client_kexinit' = client_kexinit /\ UNCHANGED clientVars
      BY <1>2 DEF ReceiveTimeout, TakesNothing, GivesNothing, kexVars
    <2>2. abandoned' \in BOOLEAN /\ (abandoned => abandoned')
      BY <1>0, <2>1
    <2>3. pc # "ended"
      BY <1>2 DEF ReceiveTimeout, Stages, RecvSteps
    <2>4. CASE pc = "channel"
      <3>1. pc' = "channel" /\ status' = status
        BY <1>2, <2>4 DEF ReceiveTimeout, Enter, Goto
      <3>2. abandoned' = abandoned
        BY <1>0, <2>1, <2>4, Zenon DEF Stages
      <3>3. ~TakesOne
        <4>1. ASSUME to_server # <<>> PROVE to_server # Tail(to_server)
          BY <4>1, TailIs DEF TypeInv
        <4> QED BY <2>1, <4>1 DEF TakesOne, TakesNothing
      <3> QED BY <1>0, <2>1, <2>4, <3>1, <3>2, <3>3 DEF Staying, Stages
    <2>5. CASE pc # "channel" /\ rekey_in_progress /\ ret = "channel"
      <3>1. pc' = "channel" /\ status' = status
        BY <1>2, <2>5 DEF ReceiveTimeout, Enter, Goto
      <3>2. pc \in {"recv_ecdh_init", "recv_newkeys"}
        BY <1>2, <2>5 DEF ReceiveTimeout, Control, Stages, RecvSteps
      <3>3. abandoned'
        BY <2>1, <2>5
      <3> QED BY <1>0, <2>1, <2>2, <2>5, <3>1, <3>2, <3>3 DEF GivingUp
    <2>6. CASE pc # "channel" /\ ~(rekey_in_progress /\ ret = "channel")
      <3>1. pc' = "ended" /\ status' # "MAC"
        BY <1>2, <2>6 DEF ReceiveTimeout, End
      <3> QED BY <1>0, <2>1, <2>2, <2>3, <3>1 DEF Ending, TakesNothing
    <2> QED BY <2>4, <2>5, <2>6
  <1>3. CASE PlatformError
    BY <1>0, <1>3 DEF PlatformError, End, Ending, GivesNothing, kexVars
  <1>4. CASE Exchange
    BY <1>4, ExchangeMoves
  <1>5. CASE Receive
    BY <1>5, ReceiveMoves
  <1>6. CASE Finished
    BY <1>6 DEF Finished
  <1> QED BY <1>1, <1>2, <1>3, <1>4, <1>5, <1>6 DEF Next

(***************************************************************************)
(* The client's reads: under the invariant it meets no error.              *)
(***************************************************************************)
Reads ==
    /\ to_client # <<>> /\ to_client' = Tail(to_client) /\ UNCHANGED serverVars
    /\ c_kid' = c_kid /\ damaged' = damaged /\ c_error' = c_error
    /\ Head(to_client).type # "reply" => c_session_id' = c_session_id
ReadsLine ==
    /\ Reads /\ Head(to_client).type = "ident"
    /\ UNCHANGED <<c_in, c_out, c_kex, to_server>>
ReadsPlain ==
    /\ Reads /\ Head(to_client).type \notin KexTypes \cup LineTypes
    /\ c_in' = ClientNext(c_in) /\ UNCHANGED <<c_out, c_kex, to_server>>
ReadsKexinit ==
    /\ Reads /\ Head(to_client).type = "kexinit" /\ c_kex = "sent" /\ c_kex' = "init"
    /\ to_server' = Append(to_server, ClientPacket("ecdh_init", 0))
    /\ c_in' = ClientNext(c_in) /\ c_out' = ClientNext(c_out)
ReadsReply ==
    /\ Reads /\ Head(to_client).type = "reply" /\ c_kex = "init" /\ c_kex' = "newkeys"
    /\ to_server' = Append(to_server, ClientPacket("newkeys", 0))
    /\ c_in' = ClientNext(c_in) /\ c_out' = [ClientNext(c_out) EXCEPT !.epoch = c_kid]
    /\ c_session_id' = IF c_session_id = 0 THEN c_kid ELSE c_session_id
ReadsNewkeys ==
    /\ Reads /\ Head(to_client).type = "newkeys" /\ c_kex = "newkeys" /\ c_kex' = "none"
    /\ c_in' = [ClientNext(c_in) EXCEPT !.epoch = c_kid]
    /\ UNCHANGED <<c_out, to_server>>

\* Where the client can be for each message of the key exchange it may read: the rows
\* of the table, whatever the server does meanwhile.
LEMMA AllRows ==
    ASSUME TypeInv, Control, Table
    PROVE  EndedRows
  <1>1. \/ Early \/ pc = "recv_kexinit" \/ Idle \/ Resend \/ pc = "recv_ecdh_init"
        \/ pc = "send_reply" \/ pc = "send_newkeys" \/ Final \/ Stuck \/ pc = "ended"
    BY DEF TypeInv, Calls, Stages, RecvSteps, Early, Idle, Resend, Final, Stuck
  <1> QED BY <1>1 DEF Table, EarlyRows, WaitRows, IdleRows, ResendRows, EcdhRows, ReplyRows,
                      NewkeysRows, FinalRows, EndedRows

\* What the client reads decodes and is what its step of the exchange awaits.
LEMMA ReadMoves ==
    ASSUME IInv, ClientReceive
    PROVE  ReadsLine \/ ReadsPlain \/ ReadsKexinit \/ ReadsReply \/ ReadsNewkeys
  <1> DEFINE q == Head(to_client)
             ok == q.type = "ident" \/ Decodes(c_in, q)
  <1>0. to_client # <<>> /\ to_client \in Seq(Packets) /\ q \in Packets
    BY TailIs DEF ClientReceive, IInv, TypeInv
  <1>1. ok
    BY <1>0, LinkHead DEF IInv, Links
  <1>2. q.type \in Types /\ q.type # "line"
    BY <1>0, LinesTail DEF IInv, Lines, Packets
  <1>3. q.type \in KexTypes =>
           /\ ~None(to_client)
           /\ \A a : Only(to_client, a) => q.type = a
           /\ \A a, b \in KexTypes : Both(to_client, a, b) => q.type = a
    BY <1>0, TailKex
  <1>4. EndedRows
    BY AllRows DEF IInv
  <1>5. q.type = "kexinit" => c_kex \in {"none", "sent"}
    BY <1>3, <1>4 DEF EndedRows, KexTypes
  <1>6. q.type = "reply" => c_kex = "init"
    BY <1>3, <1>4 DEF EndedRows, KexTypes
  <1>7. q.type = "newkeys" => c_kex = "newkeys"
    BY <1>3, <1>4 DEF EndedRows, KexTypes
  <1>8. q.type # "ecdh_init"
    BY <1>3, <1>4 DEF EndedRows, KexTypes
  <1>9. q.type = "reply" => q.kid = c_kid
    BY <1>0, TailIs DEF IInv, Names, NamedBy
  <1>10. q.type = "kexinit" => c_kex = "sent"
    BY <1>5 DEF ClientReceive
  <1>11. /\ to_client' = Tail(to_client) /\ UNCHANGED serverVars
         /\ c_kid' = c_kid /\ damaged' = damaged
    BY DEF ClientReceive
  <1>12. \/ q.type = "ident" \/ q.type = "kexinit" \/ q.type = "reply" \/ q.type = "newkeys"
         \/ q.type \notin KexTypes \cup LineTypes
    BY <1>2, <1>8 DEF KexTypes, LineTypes
  <1>20. CASE q.type = "ident"
    <2>1. UNCHANGED <<c_in, c_out, c_kex, c_session_id, c_error, to_server>>
      BY <1>1, <1>20 DEF ClientReceive, KexTypes
    <2> QED BY <1>0, <1>11, <1>20, <2>1 DEF ReadsLine, Reads
  <1>21. CASE q.type = "kexinit"
    <2>1. /\ to_server' = Append(to_server, ClientPacket("ecdh_init", 0))
          /\ c_out' = ClientNext(c_out) /\ c_in' = ClientNext(c_in)
          /\ c_kex' = "init" /\ UNCHANGED <<c_session_id, c_error>>
      BY <1>1, <1>10, <1>21 DEF ClientReceive, ClientWrites, KexTypes
    <2> QED BY <1>0, <1>10, <1>11, <1>21, <2>1 DEF ReadsKexinit, Reads
  <1>22. CASE q.type = "reply"
    <2>1. /\ to_server' = Append(to_server, ClientPacket("newkeys", 0))
          /\ c_out' = [ClientNext(c_out) EXCEPT !.epoch = c_kid] /\ c_in' = ClientNext(c_in)
          /\ c_session_id' = IF c_session_id = 0 THEN c_kid ELSE c_session_id
          /\ c_kex' = "newkeys" /\ UNCHANGED c_error
      BY <1>1, <1>6, <1>9, <1>22 DEF ClientReceive, ClientWrites, KexTypes
    <2> QED BY <1>0, <1>6, <1>11, <1>22, <2>1 DEF ReadsReply, Reads
  <1>23. CASE q.type = "newkeys"
    <2>1. /\ c_in' = [ClientNext(c_in) EXCEPT !.epoch = c_kid] /\ c_kex' = "none"
          /\ UNCHANGED <<c_out, c_session_id, c_error, to_server>>
      BY <1>1, <1>7, <1>23 DEF ClientReceive, KexTypes
    <2> QED BY <1>0, <1>7, <1>11, <1>23, <2>1 DEF ReadsNewkeys, Reads
  <1>24. CASE q.type \notin KexTypes \cup LineTypes
    <2>1. /\ c_in' = ClientNext(c_in)
          /\ UNCHANGED <<c_out, c_kex, c_session_id, c_error, to_server>>
      BY <1>1, <1>24 DEF ClientReceive, KexTypes, LineTypes
    <2> QED BY <1>0, <1>11, <1>24, <2>1 DEF ReadsPlain, Reads
  <1> QED BY <1>12, <1>20, <1>21, <1>22, <1>23, <1>24

(***************************************************************************)
(* The client's writes, and what a step of the client or the network       *)
(* leaves alone.                                                           *)
(***************************************************************************)
ServerSame ==
    /\ pc' = pc /\ ret' = ret /\ status' = status
    /\ inbound' = inbound /\ outbound' = outbound
    /\ rekey_in_progress' = rekey_in_progress /\ client_kexinit' = client_kexinit
    /\ exchange_hash' = exchange_hash /\ session_id' = session_id /\ abandoned' = abandoned
ClientSame ==
    /\ c_in' = c_in /\ c_out' = c_out /\ c_kex' = c_kex /\ c_kid' = c_kid
    /\ c_session_id' = c_session_id /\ c_error' = c_error /\ damaged' = damaged

\* What the UNCHANGED of the actions means for the variables the invariant is about.
LEMMA SameIs ==
    /\ UNCHANGED serverVars => ServerSame
    /\ UNCHANGED clientVars => ClientSame
    /\ UNCHANGED vars => ServerSame /\ ClientSame /\ to_server' = to_server /\ to_client' = to_client
  BY DEF serverVars, clientVars, vars, kexVars, ServerSame, ClientSame

Writes(type, kid) ==
    /\ pc # "ended" /\ to_server' = Append(to_server, ClientPacket(type, kid))
    /\ ServerSame /\ to_client' = to_client /\ c_in' = c_in
    /\ c_session_id' = c_session_id /\ c_error' = c_error /\ damaged' = damaged
WritesLine ==
    /\ Writes("line", 0) /\ c_kex = "start" /\ c_kex' = "start" /\ c_kid' = c_kid /\ c_out' = c_out
WritesIdent ==
    /\ Writes("ident", 0) /\ c_kex = "start" /\ c_kex' = "none" /\ c_kid' = c_kid /\ c_out' = c_out
WritesPlain ==
    /\ \E type \in ClientTypes : Writes(type, 0)
    /\ c_kex # "start" /\ c_kex' = c_kex /\ c_kid' = c_kid /\ c_out' = ClientNext(c_out)
WritesKexinit ==
    /\ Writes("kexinit", c_kid + 1) /\ c_kex = "none" /\ c_kex' = "sent" /\ c_kid' = c_kid + 1
    /\ c_out' = ClientNext(c_out)

\* The client's writes, by what they add to the stream.
LEMMA WriteMoves ==
    ASSUME ClientIdentify \/ ClientSend \/ ClientSendKexinit
    PROVE  WritesLine \/ WritesIdent \/ WritesPlain \/ WritesKexinit
  <1>1. CASE ClientIdentify
    <2>1. UNCHANGED serverVars
      BY <1>1 DEF ClientIdentify
    <2> QED BY <1>1, <2>1, SameIs DEF ClientIdentify, ClientWrites, Writes, WritesLine, WritesIdent
  <1>2. CASE ClientSend
    <2>1. UNCHANGED serverVars
      BY <1>2 DEF ClientSend
    <2> QED BY <1>2, <2>1, SameIs DEF ClientSend, ClientWrites, Writes, WritesPlain
  <1>3. CASE ClientSendKexinit
    <2>1. UNCHANGED serverVars
      BY <1>3 DEF ClientSendKexinit
    <2> QED BY <1>3, <2>1, SameIs DEF ClientSendKexinit, ClientWrites, Writes, WritesKexinit
  <1> QED BY <1>1, <1>2, <1>3

\* The network changes the first packet's sequence number and nothing else.
Damaging ==
    /\ pc # "ended" /\ ~damaged /\ damaged' /\ to_server # <<>> /\ Head(to_server).epoch # 0
    /\ to_server' \in Seq(Packets) /\ Len(to_server') = Len(to_server)
    /\ \A i \in 1..Len(to_server) : /\ to_server'[i].type = to_server[i].type
                                    /\ to_server'[i].kid = to_server[i].kid
    /\ ServerSame /\ to_client' = to_client /\ c_in' = c_in /\ c_out' = c_out
    /\ c_kex' = c_kex /\ c_kid' = c_kid /\ c_session_id' = c_session_id /\ c_error' = c_error

\* Damage is that.
LEMMA DamageMoves ==
    ASSUME TypeInv, Damage
    PROVE  Damaging
  <1> DEFINE q == to_server
             L == Len(q)
             p == [q[1] EXCEPT !.seq = (q[1].seq + 1) % SeqMod]
  <1>1. q \in Seq(Packets) /\ q # <<>> /\ L \in Nat /\ L # 0 /\ q[1] \in Packets
    BY TailIs, EmptyIs DEF TypeInv, Damage
  <1>2. q' = [q EXCEPT ![1] = p]
    BY DEF Damage
  <1>3. p \in Packets /\ p.type = q[1].type /\ p.kid = q[1].kid
    <2>1. (q[1].seq + 1) % SeqMod \in Nat
      BY <1>1, SuccNat DEF Succ, Packets
    <2> QED BY <1>1, <2>1 DEF Packets
  <1> HIDE DEF p
  <1>4. /\ q' \in Seq(Packets) /\ Len(q') = L
        /\ \A i \in 1..L : q'[i] = IF i = 1 THEN p ELSE q[i]
    BY <1>1, <1>2, <1>3
  <1>5. \A i \in 1..L : q'[i].type = q[i].type /\ q'[i].kid = q[i].kid
    BY <1>3, <1>4
  <1>6. UNCHANGED serverVars
    BY DEF Damage
  <1> QED BY <1>4, <1>5, <1>6, SameIs DEF Damage, Damaging

\* All the moves there are.
Moves ==
    \/ Exchanging \/ Ending \/ Staying \/ Interrupting \/ GivingUp
    \/ ReadsLine \/ ReadsPlain \/ ReadsKexinit \/ ReadsReply \/ ReadsNewkeys
    \/ WritesLine \/ WritesIdent \/ WritesPlain \/ WritesKexinit \/ Damaging
    \/ ServerSame /\ ClientSame /\ to_server' = to_server /\ to_client' = to_client

\* Every step of the specification is one of the moves.
LEMMA AllMoves ==
    ASSUME IInv, [Next]_vars
    PROVE  Moves
  <1>1. TypeInv /\ Control
    BY DEF IInv
  <1>2. CASE Client
    BY <1>2, ReadMoves, WriteMoves DEF Client, Moves
  <1>3. CASE Damage
    BY <1>1, <1>3, DamageMoves DEF Moves
  <1>4. CASE UNCHANGED vars
    BY <1>4, SameIs DEF Moves
  <1> QED BY <1>1, <1>2, <1>3, <1>4, StepMoves DEF Moves

(***************************************************************************)
(* Types.                                                                  *)
(***************************************************************************)
\* Every move keeps the types.
LEMMA TypeStep ==
    ASSUME IInv, Moves
    PROVE  TypeInv'
  <1>0. TypeInv
    BY DEF IInv
  <1>1. /\ Advance(inbound) \in Protection /\ Advance(outbound) \in Protection
        /\ ClientNext(c_in) \in Protection /\ ClientNext(c_out) \in Protection
        /\ [ClientNext(c_in) EXCEPT !.epoch = c_kid] \in Protection
        /\ [ClientNext(c_out) EXCEPT !.epoch = c_kid] \in Protection
    BY <1>0, AdvanceIs, ClientNextIs DEF TypeInv
  <1>2. /\ Activate(Advance(inbound), exchange_hash) \in Protection
        /\ Activate(Advance(outbound), exchange_hash) \in Protection
    BY <1>0, <1>1, ActivateIs DEF TypeInv
  <1>3. \A type \in Types, kid \in Nat :
           /\ Append(to_client, Outgoing(type, kid)) \in Seq(Packets)
           /\ Append(to_server, ClientPacket(type, kid)) \in Seq(Packets)
    <2> TAKE type \in Types, kid \in Nat
    <2> QED BY <1>0, PacketsIs, AppendIs DEF TypeInv
  <1>4. /\ to_server # <<>> => Tail(to_server) \in Seq(Packets) /\ Head(to_server).kid \in Nat
        /\ to_client # <<>> => Tail(to_client) \in Seq(Packets)
    BY <1>0, TailIs, HeadIs DEF TypeInv
  <1>5. /\ PlainTypes \subseteq Types /\ KexTypes \subseteq Types /\ ClientTypes \subseteq Types
        /\ "ident" \in Types /\ "line" \in Types
    BY DEF PlainTypes, Types, KexTypes, ClientTypes
  <1>7. /\ GivesNothing => to_client' \in Seq(Packets) /\ outbound' \in Protection
        /\ \A t \in PlainTypes : Gives(t) => to_client' \in Seq(Packets) /\ outbound' \in Protection
        /\ TakesNothing => to_server' \in Seq(Packets) /\ inbound' \in Protection
        /\ TakesOne => to_server' \in Seq(Packets) /\ inbound' \in Protection
    BY <1>0, <1>1, <1>3, <1>4, <1>5 DEF GivesNothing, Gives, TakesNothing, TakesOne, TypeInv
  <1>8. UNCHANGED clientVars =>
           /\ c_in' \in Protection /\ c_out' \in Protection /\ c_kex' \in ClientSteps
           /\ c_kid' \in Nat /\ c_session_id' \in Nat
    BY <1>0, SameIs DEF ClientSame, TypeInv
  <1>9. ServerSame =>
           /\ pc' \in Calls /\ ret' \in Stages
           /\ inbound' \in Protection /\ outbound' \in Protection
           /\ rekey_in_progress' \in BOOLEAN /\ abandoned' \in BOOLEAN
           /\ client_kexinit' \in Nat /\ exchange_hash' \in Nat /\ session_id' \in Nat
    BY <1>0 DEF ServerSame, TypeInv
  <1>10. CASE Ending
    <2>1. pc' \in Calls
      BY <1>10 DEF Ending, Calls
    <2>2. to_server' \in Seq(Packets)
      BY <1>0, <1>4, <1>10 DEF Ending, TypeInv
    <2>3. to_client' \in Seq(Packets) /\ outbound' \in Protection
      BY <1>7, <1>10 DEF Ending
    <2> QED BY <1>0, <1>8, <1>10, <2>1, <2>2, <2>3 DEF Ending, TypeInv
  <1>11. CASE Staying
    <2>1. pc' \in Calls /\ rekey_in_progress' \in BOOLEAN
      BY <1>11 DEF Staying, Calls
    <2>2. to_server' \in Seq(Packets) /\ inbound' \in Protection
      BY <1>7, <1>11 DEF Staying
    <2>3. to_client' \in Seq(Packets) /\ outbound' \in Protection
      BY <1>7, <1>11 DEF Staying
    <2> QED BY <1>0, <1>8, <1>11, <2>1, <2>2, <2>3 DEF Staying, TypeInv
  <1>12. CASE Interrupting
    <2>1. pc' \in Calls /\ client_kexinit' \in Nat
      BY <1>4, <1>12 DEF Interrupting, Calls, TakesOne
    <2> QED BY <1>0, <1>7, <1>8, <1>12, <2>1 DEF Interrupting, TypeInv
  <1>13. CASE GivingUp
    <2>1. pc' \in Calls
      BY <1>13 DEF GivingUp, Calls, Stages
    <2> QED BY <1>0, <1>7, <1>8, <1>13, <2>1 DEF GivingUp, TypeInv
  <1>14. CASE Exchanging
    <2>1. pc' \in Calls
      BY <1>14 DEF Exchanging, Calls, Stages, RecvSteps
    <2>2. to_server' \in Seq(Packets) /\ inbound' \in Protection
      BY <1>0, <1>2, <1>4, <1>7, <1>14 DEF Exchanging, TypeInv
    <2>3. to_client' \in Seq(Packets) /\ outbound' \in Protection
      BY <1>0, <1>1, <1>2, <1>3, <1>5, <1>7, <1>14 DEF Exchanging, TypeInv, Gives, KexTypes, PlainTypes
    <2>4. client_kexinit' \in Nat /\ exchange_hash' \in Nat /\ session_id' \in Nat
      BY <1>0, <1>4, <1>14 DEF Exchanging, TypeInv, TakesOne, SessionId
    <2> QED BY <1>0, <1>8, <1>14, <2>1, <2>2, <2>3, <2>4 DEF Exchanging, TypeInv
  <1>15. CASE ReadsLine \/ ReadsPlain \/ ReadsKexinit \/ ReadsReply \/ ReadsNewkeys
    <2>1. Reads
      BY <1>15 DEF ReadsLine, ReadsPlain, ReadsKexinit, ReadsReply, ReadsNewkeys
    <2>2. ServerSame /\ to_client' \in Seq(Packets) /\ c_kid' \in Nat
      BY <1>0, <1>4, <2>1, SameIs DEF Reads, TypeInv
    <2>3. c_in' \in Protection /\ c_out' \in Protection
      BY <1>0, <1>1, <1>15 DEF ReadsLine, ReadsPlain, ReadsKexinit, ReadsReply, ReadsNewkeys, TypeInv
    <2>4. c_kex' \in ClientSteps
      BY <1>0, <1>15 DEF ReadsLine, ReadsPlain, ReadsKexinit, ReadsReply, ReadsNewkeys, TypeInv, ClientSteps
    <2>5. c_session_id' \in {c_session_id, c_kid}
      <3>1. CASE ReadsReply
        BY <3>1 DEF ReadsReply
      <3>2. CASE ~ReadsReply
        BY <1>15, <2>1, <3>2 DEF ReadsLine, ReadsPlain, ReadsKexinit, ReadsNewkeys, Reads, KexTypes
      <3> QED BY <3>1, <3>2
    <2>6. to_server' \in Seq(Packets)
      <3>1. /\ Append(to_server, ClientPacket("newkeys", 0)) \in Seq(Packets)
            /\ Append(to_server, ClientPacket("ecdh_init", 0)) \in Seq(Packets)
        BY <1>3, <1>5 DEF KexTypes
      <3>2. \/ to_server' = to_server
            \/ to_server' = Append(to_server, ClientPacket("newkeys", 0))
            \/ to_server' = Append(to_server, ClientPacket("ecdh_init", 0))
        BY <1>15 DEF ReadsLine, ReadsPlain, ReadsKexinit, ReadsReply, ReadsNewkeys
      <3> QED BY <1>0, <3>1, <3>2 DEF TypeInv
    <2>7. c_session_id' \in Nat
      BY <1>0, <2>5 DEF TypeInv
    <2> QED BY <1>9, <2>2, <2>3, <2>4, <2>6, <2>7 DEF TypeInv
  <1>16. CASE WritesLine \/ WritesIdent \/ WritesPlain \/ WritesKexinit
    <2>1. PICK type \in Types, kid \in Nat : Writes(type, kid)
      BY <1>0, <1>5, <1>16 DEF WritesLine, WritesIdent, WritesPlain, WritesKexinit, KexTypes, TypeInv
    <2>2. /\ ServerSame /\ to_client' \in Seq(Packets) /\ to_server' \in Seq(Packets)
          /\ c_in' \in Protection /\ c_session_id' \in Nat
      BY <1>0, <1>3, <2>1 DEF Writes, TypeInv
    <2>3. c_out' \in Protection /\ c_kid' \in Nat /\ c_kex' \in ClientSteps
      BY <1>0, <1>1, <1>16 DEF WritesLine, WritesIdent, WritesPlain, WritesKexinit, TypeInv, ClientSteps
    <2> QED BY <1>9, <2>2, <2>3 DEF TypeInv
  <1>17. CASE Damaging
    BY <1>0, <1>9, <1>17 DEF Damaging, TypeInv
  <1>18. CASE ServerSame /\ ClientSame /\ to_server' = to_server /\ to_client' = to_client
    BY <1>0, <1>9, <1>18 DEF ClientSame, TypeInv
  <1> QED BY <1>10, <1>11, <1>12, <1>13, <1>14, <1>15, <1>16, <1>17, <1>18 DEF Moves

(***************************************************************************)
(* Where the server can be, and its keys there.                            *)
(***************************************************************************)

\* The fields of the states the steps lead to.
LEMMA Fields ==
    ASSUME TypeInv
    PROVE  /\ Advance(inbound).epoch = inbound.epoch /\ Advance(inbound).seq = Succ(inbound.seq)
           /\ Advance(outbound).epoch = outbound.epoch
           /\ Advance(outbound).seq = Succ(outbound.seq)
           /\ Activate(Advance(inbound), exchange_hash).epoch = exchange_hash
           /\ Activate(Advance(inbound), exchange_hash).seq = Succ(inbound.seq)
           /\ Activate(Advance(outbound), exchange_hash).epoch = exchange_hash
           /\ Activate(Advance(outbound), exchange_hash).seq = Succ(outbound.seq)
           /\ ClientNext(c_in).epoch = c_in.epoch /\ ClientNext(c_in).seq = Succ(c_in.seq)
           /\ ClientNext(c_out).epoch = c_out.epoch /\ ClientNext(c_out).seq = Succ(c_out.seq)
           /\ [ClientNext(c_in) EXCEPT !.epoch = c_kid].epoch = c_kid
           /\ [ClientNext(c_in) EXCEPT !.epoch = c_kid].seq = Succ(c_in.seq)
           /\ [ClientNext(c_out) EXCEPT !.epoch = c_kid].epoch = c_kid
           /\ [ClientNext(c_out) EXCEPT !.epoch = c_kid].seq = Succ(c_out.seq)
  <1>1. Advance(inbound) \in Protection /\ Advance(outbound) \in Protection
    BY AdvanceIs DEF TypeInv
  <1>2. /\ Advance(inbound).epoch = inbound.epoch /\ Advance(inbound).seq = Succ(inbound.seq)
        /\ Advance(outbound).epoch = outbound.epoch
        /\ Advance(outbound).seq = Succ(outbound.seq)
    BY AdvanceIs DEF TypeInv
  <1>3. /\ Activate(Advance(inbound), exchange_hash).epoch = exchange_hash
        /\ Activate(Advance(inbound), exchange_hash).seq = Succ(inbound.seq)
        /\ Activate(Advance(outbound), exchange_hash).epoch = exchange_hash
        /\ Activate(Advance(outbound), exchange_hash).seq = Succ(outbound.seq)
    BY <1>1, <1>2, ActivateIs DEF TypeInv
  <1>4. /\ ClientNext(c_in).epoch = c_in.epoch /\ ClientNext(c_in).seq = Succ(c_in.seq)
        /\ [ClientNext(c_in) EXCEPT !.epoch = c_kid].epoch = c_kid
        /\ [ClientNext(c_in) EXCEPT !.epoch = c_kid].seq = Succ(c_in.seq)
    BY ClientNextIs DEF TypeInv
  <1>5. /\ ClientNext(c_out).epoch = c_out.epoch /\ ClientNext(c_out).seq = Succ(c_out.seq)
        /\ [ClientNext(c_out) EXCEPT !.epoch = c_kid].epoch = c_kid
        /\ [ClientNext(c_out) EXCEPT !.epoch = c_kid].seq = Succ(c_out.seq)
    BY ClientNextIs DEF TypeInv
  <1> QED BY <1>2, <1>3, <1>4, <1>5

\* Every move leads where the server may be, with the keys it may have there: a stage
\* is entered only by taking the client's NEWKEYS after the server's own went out.
LEMMA ControlStep ==
    ASSUME IInv, Moves
    PROVE  Control'
  <1>0. TypeInv /\ Control /\ Table /\ Names /\ Links /\ rekey_in_progress \in BOOLEAN
    BY DEF IInv, TypeInv
  <1>1. CASE Ending
    BY <1>1 DEF Ending, Control, Idle, Final, Stages
  <1>2. CASE Staying
    <2>1. inbound'.epoch = inbound.epoch /\ outbound'.epoch = outbound.epoch
      BY <1>0, <1>2, Fields DEF Staying, TakesNothing, TakesOne, GivesNothing, Gives
    <2>2. inbound.epoch # 0 /\ outbound.epoch # 0
      BY <1>0, <1>2 DEF Staying, Control
    <2> QED BY <1>0, <1>2, <2>1, <2>2 DEF Staying, Control, Idle, Final, Stages
  <1>3. CASE Interrupting
    <2>1. inbound'.epoch = inbound.epoch /\ outbound'.epoch = outbound.epoch
      BY <1>0, <1>3, Fields DEF Interrupting, TakesOne, GivesNothing
    <2>2. inbound.epoch # 0 /\ outbound.epoch # 0
      BY <1>0, <1>3 DEF Interrupting, Control
    <2>3. ~abandoned
      <3>1. CASE abandoned
        <4>1. Stuck
          BY <1>3, <3>1 DEF Interrupting, Stuck
        <4>2. EcdhRows \/ FinalRows
          BY <1>0, <4>1 DEF Table
        <4>3. /\ to_server # <<>> /\ to_server \in Seq(Packets)
              /\ Head(to_server).type = "kexinit"
          BY <1>0, <1>3 DEF Interrupting, TakesOne, TypeInv
        <4>4. /\ ~None(to_server)
              /\ \A a : Only(to_server, a) => a = "kexinit"
              /\ \A a, b \in KexTypes : Both(to_server, a, b) => a = "kexinit"
          BY <4>3, TailKex DEF KexTypes
        <4> QED BY <4>2, <4>4 DEF EcdhRows, FinalRows, KexTypes
      <3> QED BY <3>1
    <2> QED BY <1>0, <1>3, <2>1, <2>2, <2>3 DEF Interrupting, Control, Idle, Final, Stages
  <1>4. CASE GivingUp
    <2>1. inbound.epoch # 0 /\ outbound.epoch # 0
      BY <1>0, <1>4 DEF GivingUp, Control
    <2> QED BY <1>0, <1>4, <2>1 DEF GivingUp, TakesNothing, GivesNothing, Control, Idle, Final, Stages
  <1>5. CASE Exchanging
    <2>0. damaged' = damaged /\ abandoned' = abandoned
      BY <1>5, SameIs DEF Exchanging, ClientSame
    <2>1. ~abandoned
      BY <1>0, <1>5 DEF Control, Exchanging
    <2>2. CASE pc = "send_ident"
      BY <1>0, <1>5, <2>0, <2>1, <2>2 DEF Exchanging, TakesNothing, Control, Idle, Final, Stages
    <2>3. CASE pc = "recv_ident"
      BY <1>0, <1>5, <2>0, <2>1, <2>3 DEF Exchanging, GivesNothing, Control, Idle, Final, Stages
    <2>4. CASE pc \in {"send_kexinit", "recv_kexinit", "recv_ecdh_init", "send_reply", "send_ext_info"}
      <3>1. inbound'.epoch = inbound.epoch /\ outbound'.epoch = outbound.epoch
        BY <1>0, <1>5, <2>4, Fields
           DEF Exchanging, TakesNothing, TakesOne, GivesNothing, Gives
      <3>2. /\ pc' \in {"recv_kexinit", "recv_ecdh_init", "send_reply", "send_newkeys", "recv_newkeys"}
            /\ pc' \in {"recv_kexinit", "recv_newkeys"} => ~rekey_in_progress
            /\ pc' = "recv_newkeys" => pc = "send_ext_info"
            /\ rekey_in_progress' = rekey_in_progress
            /\ pc = "send_ext_info" => exchange_hash' = exchange_hash
        BY <1>0, <1>5, <2>4 DEF Exchanging, Control
      <3> QED BY <1>0, <2>0, <2>1, <2>4, <3>1, <3>2 DEF Control, Idle, Final, Stages
    <2>5. CASE pc = "send_newkeys"
      <3>1. /\ inbound' = inbound /\ outbound'.epoch = exchange_hash
            /\ exchange_hash' = exchange_hash /\ rekey_in_progress' = rekey_in_progress
            /\ pc' = IF rekey_in_progress THEN "recv_newkeys" ELSE "send_ext_info"
        BY <1>0, <1>5, <2>5, Fields DEF Exchanging, TakesNothing
      <3>2. exchange_hash # 0
        BY <1>0, <2>5 DEF Names, Table, NewkeysRows
      <3> QED BY <1>0, <2>0, <2>1, <3>1, <3>2, <2>5 DEF Control, Idle, Final, Stages
    <2>6. CASE pc = "recv_newkeys"
      <3>1. /\ outbound' = outbound /\ inbound'.epoch = exchange_hash
            /\ exchange_hash' = exchange_hash /\ ~rekey_in_progress' /\ pc' \in Stages
        BY <1>0, <1>5, <2>6, Fields DEF Exchanging, GivesNothing
      <3>2. exchange_hash # 0 /\ outbound.epoch = exchange_hash
        BY <1>0, <2>6 DEF Control, Final
      <3> QED BY <2>0, <2>1, <3>1, <3>2 DEF Control, Idle, Final, Stages
    <2> QED BY <1>5, <2>2, <2>3, <2>4, <2>5, <2>6 DEF Exchanging
  <1>6. CASE ServerSame /\ damaged' = damaged
    BY <1>0, <1>6 DEF ServerSame, Control, Idle, Final
  <1>7. CASE ServerSame /\ Damaging
    <2>1. pc \notin {"send_ident", "recv_ident"}
      <3>1. Head(to_server).epoch = inbound.epoch
        BY <1>0, <1>7, LinkHead DEF Links, Damaging, TypeInv
      <3> QED BY <1>0, <1>7, <3>1 DEF Damaging, Control
    <2> QED BY <1>0, <1>7, <2>1 DEF ServerSame, Control, Idle, Final
  <1>8. CASE ReadsLine \/ ReadsPlain \/ ReadsKexinit \/ ReadsReply \/ ReadsNewkeys
    <2>1. Reads
      BY <1>8 DEF ReadsLine, ReadsPlain, ReadsKexinit, ReadsReply, ReadsNewkeys
    <2> QED BY <1>6, <2>1, SameIs DEF Reads
  <1>9. CASE WritesLine \/ WritesIdent \/ WritesPlain \/ WritesKexinit
    BY <1>6, <1>9 DEF WritesLine, WritesIdent, WritesPlain, WritesKexinit, Writes
  <1> QED BY <1>1, <1>2, <1>3, <1>4, <1>5, <1>6, <1>7, <1>8, <1>9 DEF Moves, Damaging, ClientSame

(***************************************************************************)
(* Lines and links.                                                        *)
(***************************************************************************)

\* A key exchange message passed over by a stage is the client's KEXINIT.
LEMMA StayTakes ==
    ASSUME IInv, Staying, TakesOne, Head(to_server).type \in KexTypes
    PROVE  /\ Idle /\ Head(to_server).type = "kexinit"
           /\ c_kex = "sent" /\ Only(to_server, "kexinit") /\ None(to_client)
  <1>1. pc = "request" /\ ~abandoned
    BY DEF Staying, IInv, Control
  <1>2. Idle /\ IdleRows
    BY <1>1 DEF Idle, IInv, Table, Stages
  <1>3. /\ to_server # <<>> /\ to_server \in Seq(Packets)
    BY DEF TakesOne, IInv, TypeInv
  <1>4. ~None(to_server) /\ \A a : Only(to_server, a) => a = Head(to_server).type
    BY <1>3, TailKex
  <1> QED BY <1>2, <1>4 DEF IdleRows

\* The client's identification stays the last line before its packets.
LEMMA LinesStep ==
    ASSUME IInv, Moves
    PROVE  Lines'
  <1>0. TypeInv /\ Control /\ Lines /\ to_server \in Seq(Packets) /\ to_client \in Seq(Packets)
    BY DEF IInv, TypeInv
  <1>1. /\ PlainTypes \subseteq Types /\ KexTypes \subseteq Types /\ ClientTypes \subseteq Types
        /\ LineTypes \subseteq Types /\ LineTypes = {"line", "ident"}
        /\ PlainTypes \cap LineTypes = {} /\ KexTypes \cap LineTypes = {}
        /\ ClientTypes \cap LineTypes = {}
    BY DEF PlainTypes, Types, KexTypes, ClientTypes, LineTypes
  <1>2. \A type \in Types, kid \in Nat :
           type # "line" => NoLine(Append(to_client, Outgoing(type, kid)))
    <2> TAKE type \in Types, kid \in Nat
    <2> QED BY <1>0, PacketsIs, LinesAppend DEF Lines
  <1>3. /\ GivesNothing => NoLine(to_client)'
        /\ \A t \in PlainTypes : Gives(t) => NoLine(to_client)'
    BY <1>0, <1>1, <1>2 DEF GivesNothing, Gives, Lines
  <1>4. UNCHANGED clientVars => c_kex' = c_kex
    BY SameIs DEF ClientSame
  <1>5. /\ TakesNothing /\ NoLines(to_server) => NoLines(to_server)'
        /\ TakesOne /\ NoLines(to_server) => NoLines(to_server)'
    BY <1>0, LinesTail DEF TakesNothing, TakesOne
  <1>6. \A type \in Types \ LineTypes, kid \in Nat :
           LET q == Append(to_server, ClientPacket(type, kid))
           IN  (IdentAhead(to_server) => IdentAhead(q)) /\ (NoLines(to_server) => NoLines(q))
    <2> TAKE type \in Types \ LineTypes, kid \in Nat
    <2> QED BY <1>0, PacketsIs, LinesAppend
  <1>7. to_client # <<>> => NoLine(Tail(to_client))
    BY <1>0, LinesTail DEF Lines
  <1>10. CASE Ending
    <2>1. NoLine(to_client)' /\ pc' = "ended"
      BY <1>3, <1>10 DEF Ending
    <2> QED BY <2>1 DEF Lines
  <1>11. CASE Staying \/ Interrupting \/ GivingUp
    <2>1. pc \notin {"send_ident", "recv_ident", "ended"}
      BY <1>11 DEF Staying, Interrupting, GivingUp, Stages
    <2>2. pc' \notin {"send_ident", "recv_ident", "ended"}
      BY <1>11 DEF Staying, Interrupting, GivingUp, Stages
    <2>3. NoLines(to_server) /\ c_kex # "start"
      BY <1>0, <2>1 DEF Lines
    <2>4. NoLines(to_server)'
      BY <1>5, <1>11, <2>3 DEF Staying, Interrupting, GivingUp
    <2>5. NoLine(to_client)' /\ c_kex' = c_kex
      BY <1>3, <1>4, <1>11 DEF Staying, Interrupting, GivingUp
    <2> QED BY <2>2, <2>3, <2>4, <2>5 DEF Lines
  <1>12. CASE Exchanging
    <2>1. c_kex' = c_kex
      BY <1>4, <1>12 DEF Exchanging
    <2>2. NoLine(to_client)'
      BY <1>0, <1>1, <1>2, <1>3, <1>12 DEF Exchanging, Gives, KexTypes, PlainTypes, TypeInv
    <2>3. CASE pc = "send_ident"
      BY <1>0, <1>12, <2>1, <2>2, <2>3 DEF Exchanging, TakesNothing, Lines
    <2>4. CASE pc = "recv_ident"
      <3>1. /\ to_server # <<>> /\ to_server' = Tail(to_server)
            /\ Head(to_server).type = "ident" => pc' = "send_kexinit"
            /\ Head(to_server).type # "ident" => pc' = "recv_ident"
        BY <1>12, <2>4 DEF Exchanging
      <3>2. /\ AllLines(to_server) => Head(to_server).type = "line" /\ AllLines(to_server)'
            /\ IdentAhead(to_server) /\ Head(to_server).type = "ident" => NoLines(to_server)'
            /\ IdentAhead(to_server) /\ Head(to_server).type # "ident" => IdentAhead(to_server)'
        BY <1>0, <3>1, LinesTail
      <3> QED BY <1>0, <2>1, <2>2, <2>4, <3>1, <3>2 DEF Lines
    <2>5. CASE pc \notin {"send_ident", "recv_ident"}
      <3>1. pc \notin {"send_ident", "recv_ident", "ended"}
        BY <1>12, <2>5 DEF Exchanging
      <3>2. pc' \notin {"send_ident", "recv_ident", "ended"}
        BY <1>12, <2>5 DEF Exchanging, Stages
      <3>3. NoLines(to_server) /\ c_kex # "start"
        BY <1>0, <3>1 DEF Lines
      <3>4. to_server' = to_server \/ (to_server # <<>> /\ to_server' = Tail(to_server))
        BY <1>12, <2>5 DEF Exchanging, TakesNothing, TakesOne
      <3>5. NoLines(to_server)'
        BY <1>0, <3>3, <3>4, LinesTail
      <3> QED BY <2>1, <2>2, <3>2, <3>3, <3>5 DEF Lines
    <2> QED BY <2>3, <2>4, <2>5
  <1>13. CASE ReadsLine \/ ReadsPlain \/ ReadsKexinit \/ ReadsReply \/ ReadsNewkeys
    <2>1. Reads
      BY <1>13 DEF ReadsLine, ReadsPlain, ReadsKexinit, ReadsReply, ReadsNewkeys
    <2>2. ServerSame /\ NoLine(to_client)'
      BY <1>7, <2>1, SameIs DEF Reads
    <2>3. CASE to_server' = to_server /\ c_kex' = c_kex
      BY <1>0, <2>2, <2>3 DEF Lines, ServerSame
    <2>4. CASE ReadsKexinit \/ ReadsReply \/ ReadsNewkeys
      <3>1. c_kex # "start" /\ c_kex' # "start"
        BY <2>4 DEF ReadsKexinit, ReadsReply, ReadsNewkeys
      <3>2. \/ to_server' = to_server
            \/ to_server' = Append(to_server, ClientPacket("newkeys", 0))
            \/ to_server' = Append(to_server, ClientPacket("ecdh_init", 0))
        BY <2>4 DEF ReadsKexinit, ReadsReply, ReadsNewkeys
      <3>3. /\ IdentAhead(to_server) => IdentAhead(to_server)'
            /\ NoLines(to_server) => NoLines(to_server)'
        <4>1. {"newkeys", "ecdh_init"} \subseteq Types \ LineTypes
          BY <1>1 DEF KexTypes
        <4> QED BY <1>6, <3>2, <4>1
      <3> QED BY <1>0, <2>2, <3>1, <3>3 DEF Lines, ServerSame
    <2> QED BY <1>13, <2>3, <2>4 DEF ReadsLine, ReadsPlain
  <1>14. CASE WritesLine \/ WritesIdent
    <2>1. ServerSame /\ to_client' = to_client /\ c_kex = "start" /\ pc # "ended"
      BY <1>14 DEF WritesLine, WritesIdent, Writes
    <2>2. pc \in {"send_ident", "recv_ident"} /\ AllLines(to_server)
      BY <1>0, <2>1 DEF Lines
    <2>3. CASE WritesLine
      <3>1. AllLines(to_server)' /\ c_kex' = "start"
        BY <1>0, <1>1, <2>2, <2>3, PacketsIs, LinesAppend DEF WritesLine, Writes
      <3> QED BY <1>0, <2>1, <2>2, <3>1 DEF Lines, ServerSame
    <2>4. CASE WritesIdent
      <3>1. IdentAhead(to_server)' /\ c_kex' = "none"
        BY <1>0, <1>1, <2>2, <2>4, PacketsIs, LinesAppend DEF WritesIdent, Writes
      <3> QED BY <1>0, <2>1, <2>2, <3>1 DEF Lines, ServerSame
    <2> QED BY <1>14, <2>3, <2>4
  <1>15. CASE WritesPlain \/ WritesKexinit
    <2>1. PICK type \in Types \ LineTypes, kid \in Nat : Writes(type, kid)
      BY <1>0, <1>1, <1>15 DEF WritesPlain, WritesKexinit, KexTypes, TypeInv
    <2>2. /\ ServerSame /\ to_client' = to_client
          /\ to_server' = Append(to_server, ClientPacket(type, kid))
      BY <2>1 DEF Writes
    <2>3. c_kex # "start" /\ c_kex' # "start"
      BY <1>15 DEF WritesPlain, WritesKexinit
    <2>4. /\ IdentAhead(to_server) => IdentAhead(to_server)'
          /\ NoLines(to_server) => NoLines(to_server)'
      BY <1>6, <2>2
    <2> QED BY <1>0, <2>2, <2>3, <2>4 DEF Lines, ServerSame
  <1>16. CASE Damaging
    <2>1. /\ AllLines(to_server) => AllLines(to_server)'
          /\ IdentAhead(to_server) => IdentAhead(to_server)'
          /\ NoLines(to_server) => NoLines(to_server)'
      BY <1>16 DEF Damaging, AllLines, IdentAhead, NoLines
    <2>2. ServerSame /\ to_client' = to_client /\ c_kex' = c_kex
      BY <1>16 DEF Damaging
    <2> QED BY <1>0, <2>1, <2>2 DEF Lines, ServerSame
  <1>17. CASE ServerSame /\ ClientSame /\ to_server' = to_server /\ to_client' = to_client
    BY <1>0, <1>17 DEF ClientSame, ServerSame, Lines
  <1> QED BY <1>10, <1>11, <1>12, <1>13, <1>14, <1>15, <1>16, <1>17 DEF Moves

\* The stream to the client stays linked.
LEMMA OutLinkStep ==
    ASSUME IInv, Moves
    PROVE  Linked(to_client, c_in, outbound)'
  <1>0. /\ TypeInv /\ Control /\ Table /\ Names /\ Lines /\ to_client \in Seq(Packets)
        /\ Linked(to_client, c_in, outbound) /\ client_kexinit \in Nat
    BY DEF IInv, TypeInv, Links
  <1>1. /\ \A t \in PlainTypes : t \in Types /\ t \notin KexTypes /\ t \notin LineTypes
        /\ \A t \in KexTypes : t \in Types
        /\ {"kexinit", "reply", "newkeys"} \subseteq KexTypes /\ "ident" \in Types
    BY DEF PlainTypes, KexTypes, LineTypes, ClientTypes, Types
  <1>2. ASSUME NEW type \in Types \ (LineTypes \cup {"newkeys"}), NEW kid \in Nat,
               to_client' = Append(to_client, Outgoing(type, kid)), outbound' = Advance(outbound),
               c_in' = c_in
        PROVE  Linked(to_client, c_in, outbound)'
    <2> DEFINE p == Outgoing(type, kid)
    <2>1. /\ p \in Packets /\ p.type = type /\ p.epoch = outbound.epoch /\ p.seq = outbound.seq
      BY <1>0, PacketsIs
    <2> HIDE DEF p
    <2>2. Advance(outbound).epoch = EpochAfter(p, Advance(outbound).epoch)
          /\ Advance(outbound).seq = SeqAfter(p) /\ Advance(outbound).epoch = outbound.epoch
      BY <1>0, <2>1, Fields DEF EpochAfter, SeqAfter
    <2>3. Linked(Append(to_client, p), c_in, Advance(outbound))
      BY <1>0, <2>1, <2>2, LinkAppend
    <2> QED BY <1>2, <2>3 DEF p
  <1>3. UNCHANGED clientVars => c_in' = c_in
    BY SameIs DEF ClientSame
  <1>4. /\ GivesNothing /\ c_in' = c_in => Linked(to_client, c_in, outbound)'
        /\ \A t \in PlainTypes : Gives(t) /\ c_in' = c_in => Linked(to_client, c_in, outbound)'
        /\ Gives("kexinit") /\ c_in' = c_in => Linked(to_client, c_in, outbound)'
    <2>1. GivesNothing /\ c_in' = c_in => Linked(to_client, c_in, outbound)'
      BY <1>0 DEF GivesNothing
    <2>2. \A t \in PlainTypes : t \in Types \ (LineTypes \cup {"newkeys"})
      BY <1>1
    <2>3. "kexinit" \in Types \ (LineTypes \cup {"newkeys"})
      BY <1>1 DEF LineTypes
    <2>4. ASSUME NEW t \in PlainTypes, Gives(t), c_in' = c_in PROVE Linked(to_client, c_in, outbound)'
      BY <1>2, <2>2, <2>4 DEF Gives
    <2>5. ASSUME Gives("kexinit"), c_in' = c_in PROVE Linked(to_client, c_in, outbound)'
      BY <1>2, <2>3, <2>5 DEF Gives
    <2> QED BY <2>1, <2>4, <2>5
  <1>5. CASE Ending \/ Staying \/ Interrupting \/ GivingUp
    <2>1. UNCHANGED clientVars /\ (GivesNothing \/ \E t \in PlainTypes : Gives(t))
      BY <1>5 DEF Ending, Staying, Interrupting, GivingUp
    <2> HIDE DEF GivesNothing
    <2>2. c_in' = c_in
      BY <1>3, <2>1
    <2> QED BY <1>4, <2>1, <2>2
  <1>6. CASE Exchanging
    <2>0. c_in' = c_in
      BY <1>3, <1>6 DEF Exchanging
    <2>1. CASE pc = "send_ident"
      <3> DEFINE p == Outgoing("ident", 0)
      <3>1. to_client' = Append(to_client, p) /\ outbound' = outbound
        BY <1>6, <2>1 DEF Exchanging
      <3>2. p \in Packets /\ p.type = "ident" /\ p.epoch = outbound.epoch /\ p.seq = outbound.seq
        BY <1>0, <1>1, PacketsIs
      <3> HIDE DEF p
      <3>3. outbound.epoch = EpochAfter(p, outbound.epoch) /\ outbound.seq = SeqAfter(p)
        BY <3>2 DEF EpochAfter, SeqAfter, LineTypes
      <3>4. Linked(Append(to_client, p), c_in, outbound)
        BY <1>0, <3>2, <3>3, LinkAppend
      <3> QED BY <2>0, <3>1, <3>4
    <2>2. CASE pc = "send_reply"
      BY <1>0, <1>1, <1>2, <1>6, <2>0, <2>2 DEF Exchanging, LineTypes
    <2>3. CASE pc = "send_newkeys"
      <3> DEFINE p == Outgoing("newkeys", 0)
                 o == Activate(Advance(outbound), exchange_hash)
      <3>1. to_client' = Append(to_client, p) /\ outbound' = o
        BY <1>6, <2>3 DEF Exchanging
      <3>2. p \in Packets /\ p.type = "newkeys" /\ p.epoch = outbound.epoch /\ p.seq = outbound.seq
        BY <1>0, <1>1, PacketsIs
      <3>3. o.epoch = exchange_hash /\ o.seq = Succ(outbound.seq)
        BY <1>0, Fields
      <3> HIDE DEF p, o
      <3>4. o.epoch = EpochAfter(p, o.epoch) /\ o.seq = SeqAfter(p)
        BY <3>2, <3>3 DEF EpochAfter, SeqAfter, LineTypes
      <3>5. ~Has(to_client, "newkeys")
        <4>1. NewkeysRows
          BY <1>0, <2>3 DEF Table
        <4> QED BY <1>0, <1>1, <4>1, Shapes DEF NewkeysRows
      <3>6. Linked(Append(to_client, p), c_in, o)
        BY <1>0, <3>2, <3>4, <3>5, LinkAppend
      <3> QED BY <2>0, <3>1, <3>6
    <2>4. CASE pc \notin {"send_ident", "send_reply", "send_newkeys"}
      <3>1. GivesNothing \/ Gives("kexinit") \/ Gives("ext_info")
        BY <1>6, <2>4 DEF Exchanging
      <3> QED BY <1>4, <2>0, <3>1 DEF PlainTypes
    <2> QED BY <2>1, <2>2, <2>3, <2>4
  <1>7. ASSUME Reads, c_in'.epoch = EpochAfter(Head(to_client), outbound.epoch),
               c_in'.seq = SeqAfter(Head(to_client))
        PROVE  Linked(to_client, c_in, outbound)'
    <2>1. PICK t : t = c_in'
      OBVIOUS
    <2>2. Linked(Tail(to_client), t, outbound)
      BY <1>0, <1>7, <2>1, LinkTail DEF Reads
    <2>3. to_client' = Tail(to_client) /\ outbound' = outbound
      BY <1>7, SameIs DEF Reads, ServerSame
    <2> QED BY <2>1, <2>2, <2>3
  <1>8. Reads => /\ Head(to_client).epoch = c_in.epoch /\ Head(to_client).seq = c_in.seq
                 /\ to_client # <<>>
    BY <1>0, LinkHead DEF Reads
  <1>9. CASE ReadsLine
    BY <1>7, <1>8, <1>9 DEF ReadsLine, EpochAfter, SeqAfter, LineTypes
  <1>10. CASE ReadsPlain
    BY <1>0, <1>7, <1>8, <1>10, Fields DEF ReadsPlain, EpochAfter, SeqAfter, LineTypes, KexTypes
  <1>11. CASE ReadsKexinit
    BY <1>0, <1>7, <1>8, <1>11, Fields DEF ReadsKexinit, EpochAfter, SeqAfter, LineTypes
  <1>12. CASE ReadsReply
    BY <1>0, <1>7, <1>8, <1>12, Fields DEF ReadsReply, EpochAfter, SeqAfter, LineTypes
  <1>13. CASE ReadsNewkeys
    <2>1. Has(to_client, "newkeys")
      BY <1>0, <1>1, <1>8, <1>13, TailKex DEF ReadsNewkeys
    <2>2. outbound.epoch = c_kid
      BY <1>0, <2>1 DEF Names
    <2> QED BY <1>0, <1>7, <1>8, <1>13, <2>2, Fields DEF ReadsNewkeys, EpochAfter, SeqAfter, LineTypes
  <1>14. CASE ServerSame /\ to_client' = to_client /\ c_in' = c_in
    BY <1>0, <1>14 DEF ServerSame
  <1>15. CASE WritesLine \/ WritesIdent \/ WritesPlain \/ WritesKexinit
    BY <1>14, <1>15 DEF WritesLine, WritesIdent, WritesPlain, WritesKexinit, Writes
  <1> QED BY <1>5, <1>6, <1>9, <1>10, <1>11, <1>12, <1>13, <1>14, <1>15
          DEF Moves, Damaging, ClientSame

\* The stream to the server stays linked until the session ends or a packet is damaged.
LEMMA InLinkStep ==
    ASSUME IInv, Moves, pc' # "ended", ~damaged'
    PROVE  Linked(to_server, inbound, c_out)'
  <1>0. /\ TypeInv /\ Control /\ Table /\ Names /\ Lines /\ to_server \in Seq(Packets)
        /\ c_kid \in Nat
    BY DEF IInv, TypeInv
  <1>1. /\ ClientTypes \cap KexTypes = {} /\ ClientTypes \cap LineTypes = {}
        /\ ClientTypes \subseteq Types /\ KexTypes \subseteq Types /\ LineTypes \subseteq Types
        /\ {"kexinit", "ecdh_init", "newkeys"} \subseteq KexTypes /\ LineTypes = {"line", "ident"}
        /\ KexTypes \cap LineTypes = {}
    BY DEF ClientTypes, KexTypes, LineTypes, Types
  <1>2. /\ UNCHANGED clientVars => c_out' = c_out /\ damaged' = damaged
        /\ ServerSame => pc' = pc /\ inbound' = inbound
    BY SameIs DEF ClientSame, ServerSame
  <1>3. ASSUME pc # "ended", ~damaged PROVE Linked(to_server, inbound, c_out)
    BY <1>3 DEF IInv, Links
  <1>4. ASSUME Linked(to_server, inbound, c_out), to_server # <<>>, to_server' = Tail(to_server),
               inbound'.epoch = EpochAfter(Head(to_server), c_out.epoch),
               inbound'.seq = SeqAfter(Head(to_server)), c_out' = c_out
        PROVE  Linked(to_server, inbound, c_out)'
    <2>1. PICK t : t = inbound'
      OBVIOUS
    <2>2. Linked(Tail(to_server), t, c_out)
      BY <1>0, <1>4, <2>1, LinkTail
    <2> QED BY <1>4, <2>1, <2>2
  <1>5. ASSUME Linked(to_server, inbound, c_out), to_server # <<>>
        PROVE  Head(to_server).epoch = inbound.epoch /\ Head(to_server).seq = inbound.seq
    BY <1>0, <1>5, LinkHead
  <1>6. ASSUME TakesOne, Linked(to_server, inbound, c_out), c_out' = c_out,
               Head(to_server).type \notin LineTypes \cup {"newkeys"}
        PROVE  Linked(to_server, inbound, c_out)'
    <2>1. Head(to_server).epoch = inbound.epoch /\ Head(to_server).seq = inbound.seq
      BY <1>5, <1>6 DEF TakesOne
    <2> QED BY <1>0, <1>4, <1>6, <2>1, Fields DEF TakesOne, EpochAfter, SeqAfter
  <1>7. ASSUME TakesNothing, Linked(to_server, inbound, c_out), c_out' = c_out
        PROVE  Linked(to_server, inbound, c_out)'
    BY <1>7 DEF TakesNothing
  <1>8. ASSUME to_server # <<>>, pc \notin {"send_ident", "recv_ident", "ended"}
        PROVE  Head(to_server).type \notin LineTypes
    BY <1>0, <1>8, LinesTail DEF Lines
  <1>9. CASE Staying
    <2>1. pc \notin {"send_ident", "recv_ident", "ended"} /\ ~damaged /\ c_out' = c_out
      BY <1>2, <1>9 DEF Staying, Stages
    <2>2. CASE TakesOne
      <3>1. Head(to_server).type # "newkeys"
        BY <1>1, <1>9, <2>2, StayTakes
      <3> QED BY <1>3, <1>6, <1>8, <2>1, <2>2, <3>1 DEF TakesOne
    <2> QED BY <1>3, <1>7, <1>9, <2>1, <2>2 DEF Staying
  <1>10. CASE Interrupting
    <2>1. pc # "ended" /\ ~damaged /\ c_out' = c_out
      BY <1>2, <1>10 DEF Interrupting, Stages
    <2> QED BY <1>1, <1>3, <1>6, <1>10, <2>1 DEF Interrupting
  <1>11. CASE GivingUp
    BY <1>2, <1>3, <1>7, <1>11 DEF GivingUp
  <1>12. CASE Exchanging
    <2>0. c_out' = c_out /\ ~damaged /\ pc # "ended"
      BY <1>2, <1>12 DEF Exchanging
    <2>1. Linked(to_server, inbound, c_out)
      BY <1>3, <2>0
    <2>2. CASE pc = "recv_ident"
      <3>1. to_server # <<>> /\ to_server' = Tail(to_server) /\ inbound' = inbound
        BY <1>12, <2>2 DEF Exchanging
      <3>2. Head(to_server).type \in LineTypes
        <4>1. AllLines(to_server) \/ IdentAhead(to_server)
          BY <1>0, <2>2 DEF Lines
        <4> QED BY <1>0, <1>1, <3>1, <4>1, LinesTail
      <3> QED BY <1>1, <1>4, <1>5, <2>0, <2>1, <3>1, <3>2 DEF EpochAfter, SeqAfter
    <2>3. CASE pc = "recv_newkeys"
      <3>1. /\ to_server # <<>> /\ to_server' = Tail(to_server)
            /\ Head(to_server).type = "newkeys"
            /\ inbound' = Activate(Advance(inbound), exchange_hash)
        BY <1>12, <2>3 DEF Exchanging
      <3>2. c_out.epoch = exchange_hash
        <4>1. Has(to_server, "newkeys")
          BY <1>0, <1>1, <3>1, TailKex
        <4> QED BY <1>0, <2>3, <4>1 DEF Names, Control
      <3> QED BY <1>0, <1>1, <1>4, <1>5, <2>0, <2>1, <3>1, <3>2, Fields DEF EpochAfter, SeqAfter
    <2>4. CASE pc \in {"recv_kexinit", "recv_ecdh_init"}
      <3>1. TakesOne /\ Head(to_server).type \in {"kexinit", "ecdh_init"}
        BY <1>12, <2>4 DEF Exchanging
      <3> QED BY <1>1, <1>6, <2>0, <2>1, <3>1
    <2>5. CASE pc \notin {"recv_ident", "recv_newkeys", "recv_kexinit", "recv_ecdh_init"}
      <3>1. TakesNothing
        BY <1>12, <2>5 DEF Exchanging
      <3> QED BY <1>7, <2>0, <2>1, <3>1
    <2> QED BY <2>2, <2>3, <2>4, <2>5
  <1>13. ASSUME NEW type \in Types, NEW kid \in Nat, pc # "ended", ~damaged, inbound' = inbound,
                to_server' = Append(to_server, ClientPacket(type, kid)),
                c_out'.epoch = IF type = "newkeys" THEN c_out'.epoch ELSE c_out.epoch,
                c_out'.seq = IF type \in LineTypes THEN c_out.seq ELSE Succ(c_out.seq),
                type = "newkeys" => ~Has(to_server, "newkeys")
         PROVE  Linked(to_server, inbound, c_out)'
    <2> DEFINE p == ClientPacket(type, kid)
    <2>1. p \in Packets /\ p.type = type /\ p.epoch = c_out.epoch /\ p.seq = c_out.seq
      BY <1>0, PacketsIs
    <2> HIDE DEF p
    <2>2. PICK t : t = c_out'
      OBVIOUS
    <2>3. t.epoch = EpochAfter(p, t.epoch) /\ t.seq = SeqAfter(p)
      BY <1>13, <2>1, <2>2 DEF EpochAfter, SeqAfter
    <2>4. t.epoch = c_out.epoch \/ ~Has(to_server, "newkeys")
      BY <1>13, <2>2
    <2>5. Linked(to_server, inbound, c_out)
      BY <1>3, <1>13
    <2>6. Linked(Append(to_server, p), inbound, t)
      BY <1>0, <2>1, <2>3, <2>4, <2>5, LinkAppend
    <2> QED BY <1>13, <2>2, <2>6 DEF p
  <1>14. CASE ReadsKexinit
    <2>1. pc # "ended" /\ ~damaged /\ inbound' = inbound
      BY <1>2, <1>14, SameIs DEF ReadsKexinit, Reads
    <2>2. "ecdh_init" \in Types /\ "ecdh_init" # "newkeys" /\ "ecdh_init" \notin LineTypes
      BY <1>1
    <2> QED BY <1>0, <1>13, <1>14, <2>1, <2>2, Fields DEF ReadsKexinit
  <1>15. CASE ReadsReply
    <2>1. pc # "ended" /\ ~damaged /\ inbound' = inbound
      BY <1>2, <1>15, SameIs DEF ReadsReply, Reads
    <2>2. "newkeys" \in Types /\ "newkeys" \notin LineTypes
      BY <1>1
    <2>3. ~Has(to_server, "newkeys")
      <3>1. /\ to_client \in Seq(Packets) /\ to_client # <<>> /\ Head(to_client).type = "reply"
            /\ c_kex = "init"
        BY <1>0, <1>15 DEF ReadsReply, Reads, TypeInv
      <3>2. ~None(to_client) /\ \A a : Only(to_client, a) => a = "reply"
        BY <3>1, TailKex DEF KexTypes
      <3>3. \/ Early \/ pc = "recv_kexinit" \/ Idle \/ Resend \/ pc = "recv_ecdh_init"
            \/ pc = "send_reply" \/ pc = "send_newkeys" \/ Final \/ Stuck
        BY <1>0, <2>1 DEF TypeInv, Calls, Stages, RecvSteps, Early, Idle, Resend, Final, Stuck
      <3>4. None(to_server)
        BY <1>0, <3>1, <3>2, <3>3
           DEF Table, EarlyRows, WaitRows, IdleRows, ResendRows, EcdhRows, ReplyRows,
               NewkeysRows, FinalRows
      <3> QED BY <1>0, <1>1, <3>4, Shapes
    <2> QED BY <1>0, <1>13, <1>15, <2>1, <2>2, <2>3, Fields DEF ReadsReply
  <1>16. CASE WritesLine \/ WritesIdent
    <2>1. PICK type \in LineTypes : Writes(type, 0) /\ c_out' = c_out
      BY <1>1, <1>16 DEF WritesLine, WritesIdent
    <2>2. /\ pc # "ended" /\ ~damaged /\ inbound' = inbound /\ type \in Types /\ type # "newkeys"
          /\ to_server' = Append(to_server, ClientPacket(type, 0))
      BY <1>1, <1>2, <2>1 DEF Writes
    <2> QED BY <1>13, <2>1, <2>2
  <1>17. CASE WritesPlain \/ WritesKexinit
    <2>1. PICK type \in Types \ (LineTypes \cup {"newkeys"}), kid \in Nat : Writes(type, kid)
      BY <1>0, <1>1, <1>17 DEF WritesPlain, WritesKexinit
    <2>2. /\ pc # "ended" /\ ~damaged /\ inbound' = inbound
          /\ to_server' = Append(to_server, ClientPacket(type, kid))
      BY <1>2, <2>1 DEF Writes
    <2>3. c_out' = ClientNext(c_out)
      BY <1>17 DEF WritesPlain, WritesKexinit
    <2> QED BY <1>0, <1>13, <2>1, <2>2, <2>3, Fields
  <1>18. CASE ServerSame /\ to_server' = to_server /\ c_out' = c_out /\ damaged' = damaged
    BY <1>2, <1>3, <1>18
  <1>19. CASE ReadsLine \/ ReadsPlain \/ ReadsNewkeys
    BY <1>18, <1>19, SameIs DEF ReadsLine, ReadsPlain, ReadsNewkeys, Reads
  <1> QED BY <1>9, <1>10, <1>11, <1>12, <1>14, <1>15, <1>16, <1>17, <1>18, <1>19
          DEF Moves, Damaging, ClientSame, Ending

\* No packet fails the check that was not damaged, and the client meets no error.
LEMMA AlarmStep ==
    ASSUME IInv, Moves
    PROVE  Alarm'
  <1>0. Alarm /\ Links /\ to_server \in Seq(Packets)
    BY DEF IInv, TypeInv
  <1>1. CASE Ending
    <2>1. status' = "MAC" => damaged
      <3>1. ASSUME status' = "MAC", ~damaged PROVE FALSE
        <4>1. Linked(to_server, inbound, c_out)
          BY <1>0, <1>1, <3>1 DEF Ending, Links
        <4> QED BY <1>0, <1>1, <3>1, <4>1, LinkHead DEF Ending
      <3> QED BY <3>1
    <2>2. c_error' = c_error /\ damaged' = damaged
      BY <1>1, SameIs DEF Ending, ClientSame
    <2> QED BY <1>0, <2>1, <2>2 DEF Alarm
  <1>2. CASE status' = status /\ c_error' = c_error /\ (damaged' = damaged \/ damaged')
    BY <1>0, <1>2 DEF Alarm
  <1>3. CASE Exchanging \/ Staying \/ Interrupting \/ GivingUp
    BY <1>2, <1>3, SameIs DEF Exchanging, Staying, Interrupting, GivingUp, ClientSame
  <1>4. CASE ReadsLine \/ ReadsPlain \/ ReadsKexinit \/ ReadsReply \/ ReadsNewkeys
    <2>1. Reads
      BY <1>4 DEF ReadsLine, ReadsPlain, ReadsKexinit, ReadsReply, ReadsNewkeys
    <2> QED BY <1>2, <2>1, SameIs DEF Reads, ServerSame
  <1>5. CASE WritesLine \/ WritesIdent \/ WritesPlain \/ WritesKexinit
    BY <1>2, <1>5 DEF WritesLine, WritesIdent, WritesPlain, WritesKexinit, Writes, ServerSame
  <1>6. CASE Damaging
    BY <1>2, <1>6 DEF Damaging, ServerSame
  <1> QED BY <1>1, <1>2, <1>3, <1>4, <1>5, <1>6 DEF Moves, ClientSame, ServerSame

(***************************************************************************)
(* The table of the key exchange.                                          *)
(***************************************************************************)

\* The same key exchange messages, in the same order, of the same exchanges.
SameShape(q, r) ==
    /\ None(q) => None(r)
    /\ \A a \in KexTypes : Only(q, a) => Only(r, a)
    /\ \A a, b \in KexTypes : Both(q, a, b) => Both(r, a, b)
    /\ \A t \in KexTypes : Has(r, t) <=> Has(q, t)
    /\ \A t \in KexTypes : \A k : NamedBy(q, t, k) => NamedBy(r, t, k)

\* A stream has its own shape.
LEMMA ShapeSame == \A q : SameShape(q, q)
  BY DEF SameShape

\* A packet outside the key exchange does not change the shape when it is added.
LEMMA ShapeAppend ==
    ASSUME NEW q \in Seq(Packets), NEW p \in Packets, p.type \notin KexTypes
    PROVE  SameShape(q, Append(q, p))
  BY AppendPlain DEF SameShape

\* Nor when it is taken.
LEMMA ShapeTail ==
    ASSUME NEW q \in Seq(Packets), q # <<>>, Head(q).type \notin KexTypes
    PROVE  SameShape(q, Tail(q))
  BY TailPlain DEF SameShape

\* Rows of the table survive a step that changes no shape.
LEMMA RowsKept ==
    ASSUME c_kex' = c_kex, SameShape(to_server, to_server'), SameShape(to_client, to_client')
    PROVE  /\ EarlyRows => EarlyRows'
           /\ WaitRows => WaitRows'
           /\ IdleRows => IdleRows'
           /\ ResendRows => ResendRows'
           /\ EcdhRows => EcdhRows'
           /\ ReplyRows => ReplyRows'
           /\ NewkeysRows => NewkeysRows'
           /\ FinalRows => FinalRows'
  <1>1. {"kexinit", "ecdh_init", "reply", "newkeys"} = KexTypes
    BY DEF KexTypes
  <1>2. /\ None(to_server) => None(to_server')
        /\ \A a \in KexTypes : Only(to_server, a) => Only(to_server', a)
        /\ \A a, b \in KexTypes : Both(to_server, a, b) => Both(to_server', a, b)
        /\ None(to_client) => None(to_client')
        /\ \A a \in KexTypes : Only(to_client, a) => Only(to_client', a)
        /\ \A a, b \in KexTypes : Both(to_client, a, b) => Both(to_client', a, b)
    BY DEF SameShape
  <1> QED BY <1>1, <1>2 DEF EarlyRows, WaitRows, IdleRows, ResendRows, EcdhRows, ReplyRows,
                            NewkeysRows, FinalRows

\* The same for what is under way to the client, once the session has ended.
LEMMA EndedRowsKept ==
    ASSUME c_kex' = c_kex, SameShape(to_client, to_client'), EndedRows
    PROVE  EndedRows'
  <1>1. {"kexinit", "ecdh_init", "reply", "newkeys"} = KexTypes
    BY DEF KexTypes
  <1> QED BY <1>1 DEF EndedRows, SameShape

\* The steps that change no shape.
LEMMA ShapesOf ==
    ASSUME TypeInv
    PROVE  /\ GivesNothing => SameShape(to_client, to_client')
           /\ \A t \in PlainTypes : Gives(t) => SameShape(to_client, to_client')
           /\ TakesNothing => SameShape(to_server, to_server')
           /\ TakesOne /\ Head(to_server).type \notin KexTypes => SameShape(to_server, to_server')
           /\ WritesLine \/ WritesIdent \/ WritesPlain \/ Damaging =>
                 SameShape(to_server, to_server') /\ to_client' = to_client
           /\ ReadsLine \/ ReadsPlain =>
                 SameShape(to_client, to_client') /\ to_server' = to_server
  <1>0. to_server \in Seq(Packets) /\ to_client \in Seq(Packets)
    BY DEF TypeInv
  <1>1. /\ PlainTypes \subseteq Types \ KexTypes /\ ClientTypes \subseteq Types \ KexTypes
        /\ LineTypes \subseteq Types \ KexTypes /\ LineTypes = {"line", "ident"}
    BY DEF PlainTypes, ClientTypes, LineTypes, Types, KexTypes
  <1>2. GivesNothing => SameShape(to_client, to_client')
    BY ShapeSame DEF GivesNothing
  <1>3. ASSUME NEW t \in PlainTypes, Gives(t) PROVE SameShape(to_client, to_client')
    BY <1>0, <1>1, <1>3, PacketsIs, ShapeAppend DEF Gives
  <1>4. TakesNothing => SameShape(to_server, to_server')
    BY ShapeSame DEF TakesNothing
  <1>5. TakesOne /\ Head(to_server).type \notin KexTypes => SameShape(to_server, to_server')
    BY <1>0, ShapeTail DEF TakesOne
  <1>6. ASSUME WritesLine \/ WritesIdent \/ WritesPlain
        PROVE  SameShape(to_server, to_server') /\ to_client' = to_client
    <2>1. PICK t \in Types \ KexTypes : Writes(t, 0)
      BY <1>1, <1>6 DEF WritesLine, WritesIdent, WritesPlain
    <2> QED BY <1>0, <2>1, PacketsIs, ShapeAppend DEF Writes
  <1>7. ASSUME Damaging PROVE SameShape(to_server, to_server') /\ to_client' = to_client
    <2>1. PICK q : q = to_server'
      OBVIOUS
    <2>2. /\ Len(q) = Len(to_server)
          /\ \A i \in 1..Len(to_server) : q[i].type = to_server[i].type /\ q[i].kid = to_server[i].kid
      BY <1>7, <2>1 DEF Damaging
    <2>3. None(to_server) => None(q)
      BY <2>2 DEF None
    <2>4. \A a : Only(to_server, a) => Only(q, a)
      BY <2>2 DEF Only
    <2>5. \A a, b : Both(to_server, a, b) => Both(q, a, b)
      BY <2>2 DEF Both
    <2>6. \A a : Has(q, a) <=> Has(to_server, a)
      BY <2>2 DEF Has
    <2>7. \A a, k : NamedBy(to_server, a, k) => NamedBy(q, a, k)
      BY <2>2 DEF NamedBy
    <2>8. SameShape(to_server, q)
      BY <2>3, <2>4, <2>5, <2>6, <2>7 DEF SameShape
    <2> QED BY <1>7, <2>1, <2>8 DEF Damaging
  <1>8. ASSUME ReadsLine \/ ReadsPlain PROVE SameShape(to_client, to_client') /\ to_server' = to_server
    <2>1. /\ to_client # <<>> /\ Head(to_client).type \notin KexTypes
          /\ to_client' = Tail(to_client) /\ to_server' = to_server
      BY <1>1, <1>8 DEF ReadsLine, ReadsPlain, Reads
    <2> QED BY <1>0, <2>1, ShapeTail
  <1> QED BY <1>2, <1>3, <1>4, <1>5, <1>6, <1>7, <1>8

\* A step of the client or the network that changes no shape.
PlainMove ==
    /\ ServerSame /\ c_kex' = c_kex
    /\ SameShape(to_server, to_server') /\ SameShape(to_client, to_client')

\* Which moves these are.
LEMMA PlainMoves ==
    ASSUME IInv,
           \/ WritesLine \/ WritesPlain \/ Damaging \/ ReadsLine \/ ReadsPlain
           \/ ServerSame /\ ClientSame /\ to_server' = to_server /\ to_client' = to_client
    PROVE  PlainMove /\ c_kid' = c_kid /\ c_session_id' = c_session_id
                     /\ c_out'.epoch = c_out.epoch
  <1>0. TypeInv
    BY DEF IInv
  <1>1. CASE WritesLine \/ WritesPlain
    BY <1>0, <1>1, ShapesOf, ShapeSame, Fields DEF WritesLine, WritesPlain, Writes, PlainMove
  <1>2. CASE Damaging
    BY <1>0, <1>2, ShapesOf, ShapeSame DEF Damaging, PlainMove
  <1>3. CASE ReadsLine
    BY <1>0, <1>3, ShapesOf, ShapeSame, SameIs DEF ReadsLine, Reads, PlainMove
  <1>4. CASE ReadsPlain
    <2>1. Head(to_client).type # "reply"
      BY <1>4 DEF ReadsPlain, KexTypes
    <2> QED BY <1>0, <1>4, <2>1, ShapesOf, ShapeSame, SameIs DEF ReadsPlain, Reads, PlainMove
  <1>5. CASE ServerSame /\ ClientSame /\ to_server' = to_server /\ to_client' = to_client
    BY <1>5, ShapeSame DEF ClientSame, PlainMove
  <1> QED BY <1>1, <1>2, <1>3, <1>4, <1>5

\* A re-exchange starts only where both ends are in step.
LEMMA InterruptIdle ==
    ASSUME IInv, Interrupting
    PROVE  /\ Idle /\ ~abandoned /\ c_kex = "sent" /\ None(to_client) /\ None(to_server)'
           /\ Head(to_server).kid = c_kid
  <1>0. TypeInv /\ Control /\ Table /\ Names
    BY DEF IInv
  <1>1. /\ to_server # <<>> /\ to_server \in Seq(Packets) /\ to_server' = Tail(to_server)
        /\ Head(to_server).type = "kexinit" /\ pc \in Stages
    BY <1>0 DEF Interrupting, TakesOne, TypeInv
  <1>2. /\ ~None(to_server)
        /\ \A a : Only(to_server, a) => a = "kexinit" /\ None(to_server)'
        /\ \A a, b \in KexTypes : Both(to_server, a, b) => a = "kexinit"
    BY <1>1, TailKex DEF KexTypes
  <1>3. ~Stuck
    BY <1>0, <1>2 DEF Table, EcdhRows, FinalRows, KexTypes
  <1>4. Idle /\ ~abandoned
    BY <1>1, <1>3 DEF Stuck, Idle
  <1>5. IdleRows
    BY <1>0, <1>4 DEF Table
  <1>6. NamedBy(to_server, "kexinit", c_kid)
    BY <1>0, <1>1 DEF Names, Stages
  <1>7. Head(to_server).kid = c_kid
    BY <1>1, <1>6, TailIs DEF NamedBy
  <1> QED BY <1>2, <1>4, <1>5, <1>7 DEF IdleRows

\* Where the server is, while it is somewhere.
LEMMA Places ==
    ASSUME TypeInv
    PROVE  \/ Early \/ pc = "recv_kexinit" \/ Idle \/ Resend \/ pc = "recv_ecdh_init"
           \/ pc = "send_reply" \/ pc = "send_newkeys" \/ Final \/ Stuck \/ pc = "ended"
  BY DEF TypeInv, Calls, Stages, RecvSteps, Early, Idle, Resend, Final, Stuck

\* What the client's reading a key exchange message says of the rows.
LEMMA ReadRows ==
    ASSUME IInv, Reads, Head(to_client).type \in KexTypes
    PROVE  /\ ~None(to_client) /\ Has(to_client, Head(to_client).type)
           /\ \A a : Only(to_client, a) => a = Head(to_client).type /\ None(to_client)'
           /\ \A a, b \in KexTypes :
                 Both(to_client, a, b) => a = Head(to_client).type /\ Only(to_client, b)'
           /\ \A t : Has(to_client, t)' => Has(to_client, t)
           /\ \A t, k : NamedBy(to_client, t, k) => NamedBy(to_client, t, k)'
  <1>1. to_client # <<>> /\ to_client \in Seq(Packets) /\ to_client' = Tail(to_client)
    BY DEF IInv, TypeInv, Reads
  <1> QED BY <1>1, TailKex

\* And of what its answer adds to the other stream.
LEMMA WriteRows ==
    ASSUME TypeInv, NEW type \in KexTypes, NEW kid \in Nat,
           to_server' = Append(to_server, ClientPacket(type, kid))
    PROVE  /\ None(to_server) => Only(to_server, type)'
           /\ \A a : Only(to_server, a) => Both(to_server, a, type)'
           /\ \A t \in KexTypes : Has(to_server, t)' <=> Has(to_server, t) \/ t = type
           /\ \A t \in KexTypes : \A k : NamedBy(to_server, t, k) /\ (type = t => kid = k)
                                        => NamedBy(to_server, t, k)'
  <1>1. /\ to_server \in Seq(Packets) /\ type \in Types
    BY DEF TypeInv, Types
  <1>2. /\ ClientPacket(type, kid) \in Packets
        /\ ClientPacket(type, kid).type = type /\ ClientPacket(type, kid).kid = kid
    BY <1>1, PacketsIs
  <1> QED BY <1>1, <1>2, AppendKex

\* The same of the server's messages.
LEMMA SendRows ==
    ASSUME TypeInv, NEW type \in KexTypes, NEW kid \in Nat,
           to_client' = Append(to_client, Outgoing(type, kid))
    PROVE  /\ None(to_client) => Only(to_client, type)'
           /\ \A a : Only(to_client, a) => Both(to_client, a, type)'
           /\ \A t \in KexTypes : Has(to_client, t)' <=> Has(to_client, t) \/ t = type
           /\ \A t \in KexTypes : \A k : NamedBy(to_client, t, k) /\ (type = t => kid = k)
                                        => NamedBy(to_client, t, k)'
  <1>1. /\ to_client \in Seq(Packets) /\ type \in Types
    BY DEF TypeInv, Types
  <1>2. /\ Outgoing(type, kid) \in Packets
        /\ Outgoing(type, kid).type = type /\ Outgoing(type, kid).kid = kid
    BY <1>1, PacketsIs
  <1> QED BY <1>1, <1>2, AppendKex

\* And of the server's taking a key exchange message.
LEMMA TakeRows ==
    ASSUME TypeInv, to_server # <<>>, to_server' = Tail(to_server),
           Head(to_server).type \in KexTypes
    PROVE  /\ ~None(to_server) /\ Has(to_server, Head(to_server).type)
           /\ \A a : Only(to_server, a) => a = Head(to_server).type /\ None(to_server)'
           /\ \A a, b \in KexTypes :
                 Both(to_server, a, b) => a = Head(to_server).type /\ Only(to_server, b)'
           /\ \A t : Has(to_server, t)' => Has(to_server, t)
           /\ \A t, k : NamedBy(to_server, t, k) => NamedBy(to_server, t, k)'
  <1>1. to_server \in Seq(Packets)
    BY DEF TypeInv
  <1> QED BY <1>1, TailKex

\* Every move leads from a row of the table to a row of the table.
LEMMA TableStep ==
    ASSUME IInv, Moves
    PROVE  Table'
  <1>0. TypeInv /\ Control /\ Table /\ EndedRows /\ rekey_in_progress \in BOOLEAN
    BY AllRows DEF IInv, TypeInv
  <1>a. {"kexinit", "ecdh_init", "reply", "newkeys"} = KexTypes
    BY DEF KexTypes
  <1>b. UNCHANGED clientVars => c_kex' = c_kex
    BY SameIs DEF ClientSame
  <1>c. ServerSame => /\ Early' = Early /\ Idle' = Idle /\ Resend' = Resend /\ Final' = Final
                      /\ Stuck' = Stuck /\ pc' = pc
    BY DEF ServerSame, Early, Idle, Resend, Final, Stuck
  <1>1. CASE Ending
    <2>1. c_kex' = c_kex /\ pc' = "ended"
      BY <1>b, <1>1 DEF Ending
    <2>2. SameShape(to_client, to_client')
      BY <1>0, <1>1, ShapesOf DEF Ending
    <2>3. EndedRows'
      BY <1>0, <2>1, <2>2, EndedRowsKept
    <2> QED BY <2>1, <2>3 DEF Table, Early, Idle, Resend, Final, Stuck, Stages
  <1>2. CASE Staying
    <2>1. c_kex' = c_kex /\ pc \in Stages /\ pc' \in Stages /\ abandoned' = abandoned
      BY <1>b, <1>2 DEF Staying
    <2>2. SameShape(to_client, to_client')
      BY <1>0, <1>2, ShapesOf DEF Staying
    <2>3. CASE TakesOne /\ Head(to_server).type \in KexTypes
      <3>1. Idle /\ c_kex = "sent" /\ Only(to_server, "kexinit") /\ None(to_client)
        BY <1>2, <2>3, StayTakes
      <3>2. None(to_server)'
        BY <1>0, <2>3, <3>1, TakeRows DEF TakesOne
      <3>3. None(to_client)'
        BY <2>2, <3>1 DEF SameShape
      <3>4. IdleRows'
        BY <2>1, <3>1, <3>2, <3>3 DEF IdleRows
      <3> QED BY <2>1, <3>1, <3>4 DEF Table, Early, Idle, Resend, Final, Stuck, Stages
    <2>4. CASE ~(TakesOne /\ Head(to_server).type \in KexTypes)
      <3>1. SameShape(to_server, to_server')
        BY <1>0, <1>2, <2>4, ShapesOf DEF Staying
      <3>2. /\ IdleRows => IdleRows'
            /\ EcdhRows => EcdhRows'
            /\ FinalRows => FinalRows'
        BY <2>1, <2>2, <3>1, RowsKept
      <3> QED BY <1>0, <2>1, <3>2 DEF Table, Early, Idle, Resend, Final, Stuck, Stages
    <2> QED BY <2>3, <2>4
  <1>3. CASE Interrupting
    <2>1. c_kex = "sent" /\ None(to_client) /\ None(to_server)'
      BY <1>3, InterruptIdle
    <2>2. c_kex' = "sent" /\ None(to_client)'
      BY <1>b, <1>3, <2>1 DEF Interrupting, GivesNothing
    <2>3. ResendRows'
      BY <2>1, <2>2 DEF ResendRows
    <2> QED BY <1>3, <2>3 DEF Interrupting, Table, Early, Idle, Resend, Final, Stuck, Stages
  <1>4. CASE GivingUp
    <2>1. c_kex' = c_kex /\ SameShape(to_server, to_server') /\ SameShape(to_client, to_client')
      BY <1>0, <1>b, <1>4, ShapesOf DEF GivingUp
    <2>2. EcdhRows \/ FinalRows
      BY <1>0, <1>4 DEF GivingUp, Table, Final
    <2>3. EcdhRows' \/ FinalRows'
      BY <2>1, <2>2, RowsKept
    <2> QED BY <1>4, <2>3 DEF GivingUp, Table, Early, Idle, Resend, Final, Stuck, Stages
  <1>5. CASE Exchanging
    <2>0. /\ c_kex' = c_kex /\ abandoned' = abandoned /\ ~abandoned
          /\ pc # "recv_newkeys" => rekey_in_progress' = rekey_in_progress
      BY <1>0, <1>b, <1>5 DEF Exchanging, Control
    <2>1. CASE pc \in {"send_ident", "recv_ident"}
      <3>1. pc' \in {"recv_ident", "send_kexinit"} /\ ~rekey_in_progress
        BY <1>0, <1>5, <2>1 DEF Exchanging, Control
      <3>2. SameShape(to_client, to_client')
        <4>1. CASE pc = "send_ident"
          <5>1. to_client' = Append(to_client, Outgoing("ident", 0)) /\ to_client \in Seq(Packets)
            BY <1>0, <1>5, <4>1 DEF Exchanging, TypeInv
          <5>2. Outgoing("ident", 0) \in Packets /\ Outgoing("ident", 0).type = "ident"
            BY <1>0, PacketsIs DEF Types
          <5> QED BY <5>1, <5>2, ShapeAppend DEF KexTypes
        <4>2. CASE pc = "recv_ident"
          BY <1>0, <1>5, <4>2, ShapesOf DEF Exchanging
        <4> QED BY <2>1, <4>1, <4>2
      <3>3. SameShape(to_server, to_server')
        <4>1. CASE pc = "send_ident"
          BY <1>0, <1>5, <4>1, ShapesOf DEF Exchanging
        <4>2. CASE pc = "recv_ident"
          <5>1. to_server # <<>> /\ to_server \in Seq(Packets) /\ to_server' = Tail(to_server)
            BY <1>0, <1>5, <4>2 DEF Exchanging, TypeInv
          <5>2. Head(to_server).type \in LineTypes
            <6>1. AllLines(to_server) \/ IdentAhead(to_server)
              BY <4>2 DEF IInv, Lines
            <6> QED BY <5>1, <6>1, LinesTail DEF LineTypes
          <5> QED BY <5>1, <5>2, ShapeTail DEF LineTypes, KexTypes
        <4> QED BY <2>1, <4>1, <4>2
      <3>4. EarlyRows'
        BY <1>0, <2>0, <2>1, <3>2, <3>3, RowsKept DEF Table, Early
      <3> QED BY <2>0, <2>1, <3>1, <3>4 DEF Table, Early, Idle, Resend, Final, Stuck, Stages
    <2>2. CASE pc = "send_kexinit"
      <3>1. /\ to_client' = Append(to_client, Outgoing("kexinit", 0)) /\ to_server' = to_server
            /\ pc' = IF rekey_in_progress THEN "recv_ecdh_init" ELSE "recv_kexinit"
        BY <1>5, <2>2 DEF Exchanging, Gives, TakesNothing
      <3>2. None(to_client) => Only(to_client, "kexinit")'
        BY <1>0, <1>a, <3>1, SendRows
      <3>3. CASE rekey_in_progress
        <4>1. ResendRows
          BY <1>0, <2>2, <3>3 DEF Table, Resend
        <4>2. EcdhRows'
          BY <2>0, <3>1, <3>2, <4>1 DEF ResendRows, EcdhRows
        <4> QED BY <3>1, <3>3, <4>2 DEF Table, Early, Idle, Resend, Final, Stuck, Stages
      <3>4. CASE ~rekey_in_progress
        <4>1. EarlyRows /\ c_kex # "start"
          BY <1>0, <2>2, <3>4 DEF Table, Early, IInv, Lines
        <4>2. WaitRows'
          BY <2>0, <3>1, <3>2, <4>1 DEF EarlyRows, WaitRows
        <4> QED BY <3>1, <3>4, <4>2 DEF Table, Early, Idle, Resend, Final, Stuck, Stages
      <3> QED BY <3>3, <3>4
    <2>3. CASE pc = "recv_kexinit"
      <3>1. /\ to_client' = to_client /\ to_server # <<>> /\ to_server' = Tail(to_server)
            /\ Head(to_server).type = "kexinit" /\ pc' = "recv_ecdh_init"
        BY <1>5, <2>3 DEF Exchanging, TakesOne, GivesNothing
      <3>2. /\ ~None(to_server)
            /\ \A a : Only(to_server, a) => None(to_server)'
            /\ \A a, b \in KexTypes : Both(to_server, a, b) => Only(to_server, b)'
        BY <1>0, <1>a, <3>1, TakeRows
      <3>3. WaitRows
        BY <1>0, <2>3 DEF Table
      <3>4. EcdhRows'
        BY <1>a, <2>0, <3>1, <3>2, <3>3 DEF EcdhRows, WaitRows
      <3> QED BY <3>1, <3>4 DEF Table, Early, Idle, Resend, Final, Stuck, Stages
    <2>4. CASE pc = "recv_ecdh_init"
      <3>1. /\ to_client' = to_client /\ to_server # <<>> /\ to_server' = Tail(to_server)
            /\ Head(to_server).type = "ecdh_init" /\ pc' = "send_reply"
        BY <1>5, <2>4 DEF Exchanging, TakesOne, GivesNothing
      <3>2. ~None(to_server) /\ \A a : Only(to_server, a) => None(to_server)'
        BY <1>0, <1>a, <3>1, TakeRows
      <3>3. EcdhRows
        BY <1>0, <2>4 DEF Table
      <3>4. ReplyRows'
        BY <2>0, <3>1, <3>2, <3>3 DEF EcdhRows, ReplyRows
      <3> QED BY <3>1, <3>4 DEF Table, Early, Idle, Resend, Final, Stuck, Stages
    <2>5. CASE pc = "send_reply"
      <3>1. /\ to_client' = Append(to_client, Outgoing("reply", client_kexinit))
            /\ to_server' = to_server /\ pc' = "send_newkeys"
        BY <1>5, <2>5 DEF Exchanging, TakesNothing
      <3>2. None(to_client) => Only(to_client, "reply")'
        BY <1>0, <1>a, <3>1, SendRows DEF TypeInv
      <3>3. NewkeysRows'
        BY <1>0, <2>0, <2>5, <3>1, <3>2 DEF Table, ReplyRows, NewkeysRows
      <3> QED BY <3>1, <3>3 DEF Table, Early, Idle, Resend, Final, Stuck, Stages
    <2>6. CASE pc = "send_newkeys"
      <3>1. /\ to_client' = Append(to_client, Outgoing("newkeys", 0)) /\ to_server' = to_server
            /\ pc' = IF rekey_in_progress THEN "recv_newkeys" ELSE "send_ext_info"
        BY <1>5, <2>6 DEF Exchanging, TakesNothing
      <3>2. /\ None(to_client) => Only(to_client, "newkeys")'
            /\ \A a : Only(to_client, a) => Both(to_client, a, "newkeys")'
        BY <1>0, <1>a, <3>1, SendRows
      <3>3. FinalRows'
        BY <1>0, <2>0, <2>6, <3>1, <3>2 DEF Table, NewkeysRows, FinalRows
      <3> QED BY <1>0, <3>1, <3>3 DEF Table, Early, Idle, Resend, Final, Stuck, Stages
    <2>7. CASE pc = "send_ext_info"
      <3>1. /\ SameShape(to_client, to_client') /\ SameShape(to_server, to_server')
            /\ pc' = "recv_newkeys"
        BY <1>0, <1>5, <2>7, ShapesOf DEF Exchanging, PlainTypes
      <3>2. FinalRows'
        BY <1>0, <2>0, <2>7, <3>1, RowsKept DEF Table, Final
      <3> QED BY <3>1, <3>2 DEF Table, Early, Idle, Resend, Final, Stuck, Stages
    <2>8. CASE pc = "recv_newkeys"
      <3>1. /\ to_client' = to_client /\ to_server # <<>> /\ to_server' = Tail(to_server)
            /\ Head(to_server).type = "newkeys" /\ pc' \in Stages
        BY <1>5, <2>8 DEF Exchanging, GivesNothing
      <3>2. /\ ~None(to_server)
            /\ \A a : Only(to_server, a) => None(to_server)'
            /\ \A a, b \in KexTypes : Both(to_server, a, b) => Only(to_server, b)'
        BY <1>0, <1>a, <3>1, TakeRows
      <3>3. FinalRows
        BY <1>0, <2>8 DEF Table, Final
      <3>4. IdleRows'
        BY <1>a, <2>0, <3>1, <3>2, <3>3 DEF FinalRows, IdleRows
      <3> QED BY <2>0, <3>1, <3>4 DEF Table, Early, Idle, Resend, Final, Stuck, Stages
    <2> QED BY <1>5, <2>1, <2>2, <2>3, <2>4, <2>5, <2>6, <2>7, <2>8 DEF Exchanging
  <1>6. CASE PlainMove
    <2>1. EndedRows'
      BY <1>0, <1>6, EndedRowsKept DEF PlainMove
    <2> QED BY <1>0, <1>c, <1>6, <2>1, RowsKept DEF PlainMove, Table
  <1>7. CASE WritesIdent
    <2>1. /\ ServerSame /\ c_kex = "start" /\ c_kex' = "none" /\ to_client' = to_client
          /\ pc # "ended"
      BY <1>7 DEF WritesIdent, Writes
    <2>2. pc \in {"send_ident", "recv_ident"}
      BY <2>1 DEF IInv, Lines
    <2>3. EarlyRows /\ SameShape(to_server, to_server')
      BY <1>0, <1>7, <2>2, ShapesOf DEF Table, Early
    <2>4. EarlyRows'
      BY <2>1, <2>3 DEF EarlyRows, SameShape
    <2>5. pc' \in {"send_ident", "recv_ident"}
      BY <2>1, <2>2 DEF ServerSame
    <2> QED BY <2>4, <2>5 DEF Table, Early, Idle, Resend, Final, Stuck, Stages
  <1>8. CASE WritesKexinit
    <2>1. /\ ServerSame /\ c_kex = "none" /\ c_kex' = "sent" /\ to_client' = to_client
          /\ pc # "ended" /\ to_server' = Append(to_server, ClientPacket("kexinit", c_kid + 1))
      BY <1>8 DEF WritesKexinit, Writes
    <2>2. /\ None(to_server) => Only(to_server, "kexinit")'
          /\ \A a : Only(to_server, a) => Both(to_server, a, "kexinit")'
      BY <1>0, <1>a, <2>1, WriteRows DEF TypeInv
    <2>3. /\ EarlyRows => EarlyRows'
          /\ WaitRows => WaitRows'
          /\ IdleRows => IdleRows'
          /\ FinalRows => FinalRows'
          /\ ~ResendRows /\ ~EcdhRows /\ ~ReplyRows /\ ~NewkeysRows
      BY <2>1, <2>2 DEF EarlyRows, WaitRows, IdleRows, FinalRows, ResendRows, EcdhRows,
                        ReplyRows, NewkeysRows
    <2> QED BY <1>0, <1>c, <2>1, <2>3 DEF Table
  <1>9. CASE ReadsKexinit
    <2>1. /\ ServerSame /\ c_kex = "sent" /\ c_kex' = "init"
          /\ to_server' = Append(to_server, ClientPacket("ecdh_init", 0))
      BY <1>9, SameIs DEF ReadsKexinit, Reads
    <2>2. /\ None(to_server) => Only(to_server, "ecdh_init")'
          /\ \A a : Only(to_server, a) => Both(to_server, a, "ecdh_init")'
      BY <1>0, <1>a, <2>1, WriteRows
    <2>3. /\ ~None(to_client)
          /\ \A a : Only(to_client, a) => None(to_client)'
      BY <1>a, <1>9, ReadRows DEF ReadsKexinit
    <2>4. /\ ~EarlyRows /\ ~IdleRows /\ ~ResendRows /\ ~ReplyRows /\ ~NewkeysRows /\ ~FinalRows
          /\ WaitRows => WaitRows'
          /\ EcdhRows => EcdhRows'
      BY <2>1, <2>2, <2>3 DEF EarlyRows, WaitRows, IdleRows, FinalRows, ResendRows, EcdhRows,
                        ReplyRows, NewkeysRows
    <2>5. EndedRows'
      BY <1>0, <2>1, <2>3 DEF EndedRows
    <2> QED BY <1>0, <1>c, <2>1, <2>4, <2>5 DEF Table
  <1>10. CASE ReadsReply
    <2>1. /\ ServerSame /\ c_kex = "init" /\ c_kex' = "newkeys"
          /\ to_server' = Append(to_server, ClientPacket("newkeys", 0))
      BY <1>10, SameIs DEF ReadsReply, Reads
    <2>2. None(to_server) => Only(to_server, "newkeys")'
      BY <1>0, <1>a, <2>1, WriteRows
    <2>3. /\ ~None(to_client)
          /\ \A a : Only(to_client, a) => None(to_client)'
          /\ \A a, b \in KexTypes : Both(to_client, a, b) => Only(to_client, b)'
      BY <1>a, <1>10, ReadRows DEF ReadsReply
    <2>4. /\ ~EarlyRows /\ ~IdleRows /\ ~ResendRows /\ ~ReplyRows /\ ~WaitRows /\ ~EcdhRows
          /\ NewkeysRows => NewkeysRows'
          /\ FinalRows => FinalRows'
      BY <1>a, <2>1, <2>2, <2>3 DEF EarlyRows, WaitRows, IdleRows, FinalRows, ResendRows,
                        EcdhRows, ReplyRows, NewkeysRows
    <2>5. EndedRows'
      BY <1>0, <1>a, <2>1, <2>3 DEF EndedRows
    <2> QED BY <1>0, <1>c, <2>1, <2>4, <2>5 DEF Table
  <1>11. CASE ReadsNewkeys
    <2>1. ServerSame /\ c_kex = "newkeys" /\ c_kex' = "none" /\ to_server' = to_server
      BY <1>11, SameIs DEF ReadsNewkeys, Reads
    <2>3. /\ ~None(to_client)
          /\ \A a : Only(to_client, a) => None(to_client)'
      BY <1>a, <1>11, ReadRows DEF ReadsNewkeys
    <2>4. /\ ~EarlyRows /\ ~NewkeysRows /\ ~ResendRows /\ ~ReplyRows /\ ~WaitRows /\ ~EcdhRows
          /\ IdleRows => IdleRows'
          /\ FinalRows => FinalRows'
      BY <2>1, <2>3 DEF EarlyRows, WaitRows, IdleRows, FinalRows, ResendRows,
                        EcdhRows, ReplyRows, NewkeysRows
    <2>5. EndedRows'
      BY <1>0, <2>1, <2>3 DEF EndedRows
    <2> QED BY <1>0, <1>c, <2>1, <2>4, <2>5 DEF Table
  <1> QED BY <1>1, <1>2, <1>3, <1>4, <1>5, <1>6, <1>7, <1>8, <1>9, <1>10, <1>11, PlainMoves
          DEF Moves

(***************************************************************************)
(* The names of the exchanges, and the session identifier.                 *)
(***************************************************************************)

\* A stream without a type has it named by anything.
LEMMA NamedByNone ==
    ASSUME NEW q, NEW t, NEW k, ~Has(q, t)
    PROVE  NamedBy(q, t, k)
  BY DEF Has, NamedBy

\* What a server step between two calls does to the stream to the client and the keys
\* of that direction, the messages of the key exchange apart.
LEMMA OutKept ==
    ASSUME IInv, GivesNothing \/ \E t \in PlainTypes : Gives(t)
    PROVE  /\ SameShape(to_client, to_client') /\ outbound'.epoch = outbound.epoch
  <1>1. TypeInv
    BY DEF IInv
  <1> QED BY <1>1, ShapesOf, Fields DEF GivesNothing, Gives

\* Every move keeps the names in step: the exchange the server is in is the client's.
LEMMA NamesStep ==
    ASSUME IInv, Moves
    PROVE  Names'
  <1>0. TypeInv /\ Control /\ Table /\ Names /\ EndedRows /\ rekey_in_progress \in BOOLEAN
        /\ to_server \in Seq(Packets) /\ to_client \in Seq(Packets)
    BY AllRows DEF IInv, TypeInv
  <1>a. {"kexinit", "ecdh_init", "reply", "newkeys"} = KexTypes
    BY DEF KexTypes
  <1>b. UNCHANGED clientVars => c_kex' = c_kex /\ c_kid' = c_kid /\ c_out' = c_out
    BY SameIs DEF ClientSame
  <1>c. ServerSame => /\ Resend' = Resend /\ Final' = Final /\ pc' = pc
                      /\ client_kexinit' = client_kexinit /\ exchange_hash' = exchange_hash
                      /\ abandoned' = abandoned /\ outbound' = outbound
    BY DEF ServerSame, Resend, Final
  <1>d. /\ NamedBy(to_client, "reply", c_kid)
        /\ Has(to_client, "newkeys") => outbound.epoch = c_kid
        /\ c_kex \in {"sent", "init", "newkeys"} => c_kid # 0
    BY <1>0 DEF Names
  <1>e. ASSUME SameShape(to_client, to_client'), outbound'.epoch = outbound.epoch, c_kid' = c_kid
        PROVE  /\ NamedBy(to_client, "reply", c_kid)'
               /\ Has(to_client, "newkeys")' => outbound'.epoch = c_kid'
    BY <1>a, <1>d, <1>e DEF SameShape
  <1>1. CASE Ending
    <2>1. c_kex' = c_kex /\ c_kid' = c_kid /\ pc' = "ended"
      BY <1>b, <1>1 DEF Ending
    <2>2. /\ NamedBy(to_client, "reply", c_kid)'
          /\ Has(to_client, "newkeys")' => outbound'.epoch = c_kid'
      BY <1>1, <1>e, <2>1, OutKept DEF Ending
    <2> QED BY <1>d, <2>1, <2>2 DEF Names, Resend, Final
  <1>2. CASE Staying \/ GivingUp
    <2>1. /\ c_kex' = c_kex /\ c_kid' = c_kid /\ c_out' = c_out
          /\ exchange_hash' = exchange_hash
          /\ ~abandoned' => ~abandoned
      BY <1>b, <1>2 DEF Staying, GivingUp
    <2>2. /\ NamedBy(to_client, "reply", c_kid)'
          /\ Has(to_client, "newkeys")' => outbound'.epoch = c_kid'
      BY <1>2, <1>e, <2>1, OutKept DEF Staying, GivingUp
    <2>3. pc' \in Stages /\ pc # "ended"
      BY <1>2 DEF Staying, GivingUp, Stages
    <2>4. /\ Has(to_server, "newkeys")' => Has(to_server, "newkeys")
          /\ NamedBy(to_server, "kexinit", c_kid) => NamedBy(to_server, "kexinit", c_kid)'
      <3>1. CASE TakesOne /\ Head(to_server).type \in KexTypes
        BY <1>0, <2>1, <3>1, TakeRows DEF TakesOne
      <3>2. CASE TakesNothing \/ (TakesOne /\ Head(to_server).type \notin KexTypes)
        BY <1>0, <1>a, <2>1, <3>2, ShapesOf DEF SameShape
      <3> QED BY <1>2, <3>1, <3>2 DEF Staying, GivingUp
    <2> QED BY <1>0, <2>1, <2>2, <2>3, <2>4 DEF Names, Resend, Final, Stages
  <1>3. CASE Interrupting
    <2>1. /\ c_kex' = c_kex /\ c_kid' = c_kid /\ c_out' = c_out /\ pc' = "send_kexinit"
      BY <1>b, <1>3 DEF Interrupting
    <2>2. /\ NamedBy(to_client, "reply", c_kid)'
          /\ Has(to_client, "newkeys")' => outbound'.epoch = c_kid'
      BY <1>3, <1>e, <2>1, OutKept DEF Interrupting
    <2>3. client_kexinit' = c_kid /\ None(to_server)'
      BY <1>3, InterruptIdle DEF Interrupting
    <2>4. to_server' \in Seq(Packets)
      BY <1>0, <1>3, TailIs DEF Interrupting, TakesOne
    <2>5. ~Has(to_server, "newkeys")' /\ ~Has(to_server, "kexinit")'
      BY <1>a, <2>3, <2>4, Shapes
    <2>6. NamedBy(to_server, "kexinit", c_kid)'
      BY <2>5, NamedByNone
    <2> QED BY <1>d, <2>1, <2>2, <2>3, <2>5, <2>6 DEF Names, Resend, Final
  <1>4. CASE Exchanging
    <2>0. /\ c_kex' = c_kex /\ c_kid' = c_kid /\ c_out' = c_out
          /\ abandoned' = abandoned /\ ~abandoned /\ pc # "ended"
          /\ pc # "recv_newkeys" => rekey_in_progress' = rekey_in_progress
          /\ pc # "recv_kexinit" => client_kexinit' = client_kexinit
          /\ pc # "send_reply" => exchange_hash' = exchange_hash
      BY <1>0, <1>b, <1>4 DEF Exchanging, Control
    <2>1. /\ Has(to_server, "newkeys")' => Has(to_server, "newkeys")
          /\ NamedBy(to_server, "kexinit", c_kid)'
      <3>1. \/ to_server' = to_server
            \/ to_server # <<>> /\ to_server' = Tail(to_server)
        BY <1>4 DEF Exchanging, TakesNothing, TakesOne
      <3>2. NamedBy(to_server, "kexinit", c_kid)
        BY <1>0, <2>0 DEF Names
      <3>3. ASSUME to_server # <<>>, to_server' = Tail(to_server)
            PROVE  /\ Has(to_server, "newkeys")' => Has(to_server, "newkeys")
                   /\ NamedBy(to_server, "kexinit", c_kid)'
        BY <1>0, <1>a, <2>0, <3>2, <3>3, TailPlain, TailKex
      <3> QED BY <2>0, <3>1, <3>2, <3>3
    <2>2. CASE pc \in {"send_ident", "recv_ident", "send_kexinit", "recv_kexinit",
                       "recv_ecdh_init", "send_ext_info", "recv_newkeys"}
      <3>1. /\ NamedBy(to_client, "reply", c_kid)'
            /\ Has(to_client, "newkeys")' => outbound'.epoch = c_kid'
        <4>1. CASE GivesNothing \/ Gives("ext_info")
          <5>1. GivesNothing \/ \E x \in PlainTypes : Gives(x)
            BY <4>1 DEF PlainTypes
          <5> QED BY <1>e, <2>0, <5>1, OutKept
        <4>2. CASE pc = "send_ident"
          <5>1. to_client' = Append(to_client, Outgoing("ident", 0)) /\ outbound' = outbound
            BY <1>4, <4>2 DEF Exchanging
          <5>2. Outgoing("ident", 0) \in Packets /\ Outgoing("ident", 0).type = "ident"
            BY <1>0, PacketsIs DEF Types
          <5>3. SameShape(to_client, to_client')
            BY <1>0, <5>1, <5>2, ShapeAppend DEF KexTypes
          <5> QED BY <1>e, <2>0, <5>1, <5>3
        <4>3. CASE pc = "send_kexinit"
          <5>1. /\ to_client' = Append(to_client, Outgoing("kexinit", 0))
                /\ outbound' = Advance(outbound)
            BY <1>4, <4>3 DEF Exchanging, Gives
          <5>2. /\ \A x \in KexTypes : Has(to_client, x)' <=> Has(to_client, x) \/ x = "kexinit"
                /\ NamedBy(to_client, "reply", c_kid) => NamedBy(to_client, "reply", c_kid)'
            BY <1>0, <1>a, <2>0, <5>1, SendRows
          <5>3. outbound'.epoch = outbound.epoch
            BY <1>0, <5>1, Fields
          <5> QED BY <1>a, <1>d, <2>0, <5>2, <5>3
        <4> QED BY <1>4, <2>2, <4>1, <4>2, <4>3 DEF Exchanging
      <3>2. CASE pc \in {"send_ident", "recv_ident"}
        <4>1. pc' \in {"recv_ident", "send_kexinit"} /\ ~rekey_in_progress
          BY <1>0, <1>4, <3>2 DEF Exchanging, Control
        <4> QED BY <1>0, <2>0, <2>1, <3>1, <3>2, <4>1 DEF Names, Resend, Final
      <3>3. CASE pc = "send_kexinit"
        <4>1. pc' = IF rekey_in_progress THEN "recv_ecdh_init" ELSE "recv_kexinit"
          BY <1>4, <3>3 DEF Exchanging
        <4> QED BY <1>0, <2>0, <2>1, <3>1, <3>3, <4>1 DEF Names, Resend, Final
      <3>4. CASE pc = "recv_kexinit"
        <4>1. /\ to_server # <<>> /\ Head(to_server).type = "kexinit"
              /\ client_kexinit' = Head(to_server).kid /\ pc' = "recv_ecdh_init"
          BY <1>4, <3>4 DEF Exchanging, TakesOne
        <4>2. Head(to_server).kid = c_kid
          BY <1>0, <3>4, <4>1, TailIs DEF Names, NamedBy
        <4> QED BY <1>0, <2>0, <2>1, <3>1, <3>4, <4>1, <4>2 DEF Names, Resend, Final
      <3>5. CASE pc = "recv_ecdh_init"
        <4>1. pc' = "send_reply"
          BY <1>4, <3>5 DEF Exchanging
        <4> QED BY <1>0, <2>0, <2>1, <3>1, <3>5, <4>1 DEF Names, Resend, Final
      <3>6. CASE pc = "send_ext_info"
        <4>1. pc' = "recv_newkeys"
          BY <1>4, <3>6 DEF Exchanging
        <4> QED BY <1>0, <2>0, <2>1, <3>1, <3>6, <4>1 DEF Names, Resend, Final
      <3>7. CASE pc = "recv_newkeys"
        <4>1. pc' \in Stages
          BY <1>4, <3>7 DEF Exchanging
        <4> QED BY <1>0, <2>0, <2>1, <3>1, <3>7, <4>1 DEF Names, Resend, Final, Stages
      <3> QED BY <2>2, <3>2, <3>3, <3>4, <3>5, <3>6, <3>7
    <2>3. CASE pc = "send_reply"
      <3>1. /\ to_client' = Append(to_client, Outgoing("reply", client_kexinit))
            /\ outbound' = Advance(outbound) /\ pc' = "send_newkeys"
            /\ exchange_hash' = client_kexinit /\ to_server' = to_server
        BY <1>4, <2>3 DEF Exchanging, TakesNothing
      <3>2. client_kexinit = c_kid /\ client_kexinit \in Nat
        BY <1>0, <2>3 DEF Names, TypeInv
      <3>3. /\ \A x \in KexTypes : Has(to_client, x)' <=> Has(to_client, x) \/ x = "reply"
            /\ NamedBy(to_client, "reply", c_kid) => NamedBy(to_client, "reply", c_kid)'
        BY <1>0, <1>a, <2>0, <3>1, <3>2, SendRows
      <3>4. outbound'.epoch = outbound.epoch
        BY <1>0, <3>1, Fields
      <3>5. ~Has(to_server, "newkeys")'
        BY <1>0, <1>a, <2>3, <3>1, Shapes DEF Table, ReplyRows
      <3> QED BY <1>a, <1>d, <2>0, <2>1, <2>3, <3>1, <3>2, <3>3, <3>4, <3>5 DEF Names, Resend, Final
    <2>4. CASE pc = "send_newkeys"
      <3>1. /\ to_client' = Append(to_client, Outgoing("newkeys", 0))
            /\ outbound' = Activate(Advance(outbound), exchange_hash)
            /\ pc' = IF rekey_in_progress THEN "recv_newkeys" ELSE "send_ext_info"
            /\ to_server' = to_server
        BY <1>4, <2>4 DEF Exchanging, TakesNothing
      <3>2. exchange_hash = c_kid /\ (Has(to_server, "newkeys") => c_out.epoch = exchange_hash)
        BY <1>0, <2>0, <2>4 DEF Names
      <3>3. NamedBy(to_client, "reply", c_kid) => NamedBy(to_client, "reply", c_kid)'
        BY <1>0, <1>a, <2>0, <3>1, SendRows
      <3>4. outbound'.epoch = c_kid
        BY <1>0, <3>1, <3>2, Fields
      <3> QED BY <1>d, <2>0, <2>1, <2>4, <3>1, <3>2, <3>3, <3>4 DEF Names, Resend, Final
    <2> QED BY <1>4, <2>2, <2>3, <2>4 DEF Exchanging
  <1>5. CASE PlainMove /\ c_kid' = c_kid /\ c_out'.epoch = c_out.epoch
    <2>1. /\ Has(to_server, "newkeys")' <=> Has(to_server, "newkeys")
          /\ NamedBy(to_server, "kexinit", c_kid) => NamedBy(to_server, "kexinit", c_kid)'
      BY <1>a, <1>5 DEF PlainMove, SameShape
    <2>2. /\ NamedBy(to_client, "reply", c_kid)'
          /\ Has(to_client, "newkeys")' => outbound'.epoch = c_kid'
      BY <1>c, <1>e, <1>5 DEF PlainMove
    <2> QED BY <1>0, <1>c, <1>5, <2>1, <2>2 DEF Names, PlainMove
  <1>6. CASE WritesIdent
    <2>1. /\ ServerSame /\ c_kex = "start" /\ c_kex' = "none" /\ to_client' = to_client
          /\ pc # "ended" /\ c_kid' = c_kid /\ c_out' = c_out
      BY <1>6 DEF WritesIdent, Writes
    <2>2. pc \in {"send_ident", "recv_ident"}
      BY <2>1 DEF IInv, Lines
    <2>3. /\ Has(to_server, "newkeys")' <=> Has(to_server, "newkeys")
          /\ NamedBy(to_server, "kexinit", c_kid) => NamedBy(to_server, "kexinit", c_kid)'
      BY <1>0, <1>a, <1>6, <2>1, ShapesOf DEF SameShape
    <2> QED BY <1>0, <1>c, <2>1, <2>2, <2>3 DEF Names, Final, Resend
  <1>7. CASE WritesKexinit
    <2>1. /\ ServerSame /\ c_kex = "none" /\ c_kex' = "sent" /\ to_client' = to_client
          /\ pc # "ended" /\ to_server' = Append(to_server, ClientPacket("kexinit", c_kid + 1))
          /\ c_kid' = c_kid + 1 /\ c_out' = ClientNext(c_out) /\ c_kid + 1 \in Nat /\ c_kid + 1 # 0
      BY <1>0, <1>7 DEF WritesKexinit, Writes, TypeInv
    <2>2. None(to_client) \/ Only(to_client, "kexinit")
      BY <1>0, <2>1 DEF EndedRows
    <2>3. ~Has(to_client, "reply") /\ ~Has(to_client, "newkeys")
      BY <1>0, <1>a, <2>2, Shapes
    <2>4. NamedBy(to_client, "reply", c_kid)'
      BY <2>1, <2>3, NamedByNone
    <2>5. /\ ~Resend /\ pc \notin {"recv_ecdh_init", "send_reply", "send_newkeys"}
          /\ None(to_server) \/ Only(to_server, "newkeys")
      BY <1>0, <2>1, Places DEF Table, EarlyRows, WaitRows, IdleRows, FinalRows, ResendRows,
                        EcdhRows, ReplyRows, NewkeysRows
    <2>6. ~Has(to_server, "kexinit")
      BY <1>0, <1>a, <2>5, Shapes
    <2>7. NamedBy(to_server, "kexinit", c_kid + 1)
      BY <2>6, NamedByNone
    <2>8. /\ NamedBy(to_server, "kexinit", c_kid)'
          /\ Has(to_server, "newkeys")' => Has(to_server, "newkeys")
      BY <1>0, <1>a, <2>1, <2>7, WriteRows
    <2>9. c_out'.epoch = c_out.epoch
      BY <1>0, <2>1, Fields
    <2> QED BY <1>0, <1>c, <2>1, <2>3, <2>4, <2>5, <2>8, <2>9 DEF Names
  <1>8. CASE ReadsKexinit \/ ReadsReply \/ ReadsNewkeys
    <2>0. Reads /\ Head(to_client).type \in KexTypes /\ ServerSame /\ c_kid' = c_kid
      BY <1>a, <1>8, SameIs DEF ReadsKexinit, ReadsReply, ReadsNewkeys, Reads
    <2>1. /\ ~None(to_client)
          /\ \A a : Only(to_client, a) => a = Head(to_client).type
          /\ \A a, b \in KexTypes : Both(to_client, a, b) => a = Head(to_client).type
          /\ NamedBy(to_client, "reply", c_kid)'
          /\ Has(to_client, "newkeys")' => outbound'.epoch = c_kid'
      BY <1>c, <1>d, <2>0, ReadRows
    <2>2. CASE ReadsKexinit
      <3>1. /\ c_kex = "sent" /\ c_kex' = "init" /\ c_out' = ClientNext(c_out)
            /\ to_server' = Append(to_server, ClientPacket("ecdh_init", 0))
        BY <2>2 DEF ReadsKexinit
      <3>2. /\ pc # "ended" => NamedBy(to_server, "kexinit", c_kid)'
            /\ Has(to_server, "newkeys")' => Has(to_server, "newkeys")
        BY <1>0, <1>a, <2>0, <3>1, WriteRows DEF Names
      <3>3. c_out'.epoch = c_out.epoch
        BY <1>0, <3>1, Fields
      <3>4. ~Final /\ pc # "send_newkeys"
        BY <1>0, <2>1, <3>1 DEF Table, FinalRows, NewkeysRows
      <3> QED BY <1>0, <1>c, <2>0, <2>1, <3>1, <3>2, <3>3, <3>4 DEF Names
    <2>3. CASE ReadsReply
      <3>1. /\ c_kex = "init" /\ c_kex' = "newkeys"
            /\ to_server' = Append(to_server, ClientPacket("newkeys", 0))
            /\ c_out' = [ClientNext(c_out) EXCEPT !.epoch = c_kid]
        BY <2>3 DEF ReadsReply
      <3>2. pc # "ended" => NamedBy(to_server, "kexinit", c_kid)'
        BY <1>0, <1>a, <2>0, <3>1, WriteRows DEF Names
      <3>3. c_out'.epoch = c_kid
        BY <1>0, <3>1, Fields
      <3>4. pc = "send_newkeys" \/ Final \/ Stuck \/ pc = "ended"
        BY <1>0, <2>1, <3>1, Places DEF Table, EarlyRows, WaitRows, IdleRows, FinalRows, ResendRows,
                        EcdhRows, ReplyRows, NewkeysRows
      <3>5. pc # "ended" /\ ~abandoned => exchange_hash = c_kid
        BY <1>0, <3>1, <3>4 DEF Names, Stuck
      <3> QED BY <1>0, <1>c, <2>0, <2>1, <3>1, <3>2, <3>3, <3>5 DEF Names
    <2>4. CASE ReadsNewkeys
      BY <1>0, <1>c, <2>0, <2>1, <2>4 DEF ReadsNewkeys, Names
    <2> QED BY <1>8, <2>2, <2>3, <2>4
  <1> QED BY <1>1, <1>2, <1>3, <1>4, <1>5, <1>6, <1>7, <1>8, PlainMoves DEF Moves

\* The session identifier the client takes from the first reply is the server's.
LEMMA SessionStep ==
    ASSUME IInv, Moves
    PROVE  SameSession'
  <1>0. /\ TypeInv /\ Control /\ Table /\ Names /\ SameSession /\ EndedRows
        /\ to_client \in Seq(Packets)
    BY AllRows DEF IInv, TypeInv
  <1>a. {"kexinit", "ecdh_init", "reply", "newkeys"} = KexTypes
    BY DEF KexTypes
  <1>b. UNCHANGED clientVars => c_kid' = c_kid /\ c_session_id' = c_session_id
    BY SameIs DEF ClientSame
  <1>c. ASSUME Has(to_client, "reply")' <=> Has(to_client, "reply"), session_id' = session_id,
               c_kid' = c_kid, c_session_id' = c_session_id
        PROVE  SameSession'
    BY <1>0, <1>c DEF SameSession
  <1>1. CASE Ending \/ Staying \/ Interrupting \/ GivingUp
    <2>1. /\ UNCHANGED clientVars /\ session_id' = session_id
          /\ GivesNothing \/ \E t \in PlainTypes : Gives(t)
      BY <1>1 DEF Ending, Staying, Interrupting, GivingUp
    <2>2. Has(to_client, "reply")' <=> Has(to_client, "reply")
      BY <1>a, <2>1, OutKept DEF SameShape
    <2> QED BY <1>b, <1>c, <2>1, <2>2
  <1>2. CASE Exchanging
    <2>0. c_kid' = c_kid /\ c_session_id' = c_session_id
      BY <1>b, <1>2 DEF Exchanging
    <2>1. CASE pc = "send_reply"
      <3>1. /\ to_client' = Append(to_client, Outgoing("reply", client_kexinit))
            /\ session_id' = SessionId(client_kexinit)
        BY <1>2, <2>1 DEF Exchanging
      <3>2. client_kexinit = c_kid /\ client_kexinit \in Nat
        BY <1>0, <2>1 DEF Names, TypeInv
      <3>3. Has(to_client, "reply")'
        BY <1>0, <1>a, <3>1, <3>2, SendRows
      <3>4. ~Has(to_client, "reply")
        BY <1>0, <1>a, <2>1, Shapes DEF Table, ReplyRows
      <3>5. session_id = c_session_id
        BY <1>0, <3>4 DEF SameSession
      <3>6. session_id' = IF c_session_id' = 0 THEN c_kid' ELSE c_session_id'
        BY <2>0, <3>1, <3>2, <3>5 DEF SessionId
      <3> QED BY <3>3, <3>6 DEF SameSession
    <2>2. CASE pc # "send_reply"
      <3>1. session_id' = session_id
        BY <1>2, <2>2 DEF Exchanging
      <3>2. Has(to_client, "reply")' <=> Has(to_client, "reply")
        <4>1. CASE GivesNothing \/ Gives("ext_info")
          <5>1. GivesNothing \/ \E x \in PlainTypes : Gives(x)
            BY <4>1 DEF PlainTypes
          <5> QED BY <1>a, <5>1, OutKept DEF SameShape
        <4>2. CASE to_client' = Append(to_client, Outgoing("ident", 0))
          <5>1. Outgoing("ident", 0) \in Packets /\ Outgoing("ident", 0).type = "ident"
            BY <1>0, PacketsIs DEF Types
          <5>2. SameShape(to_client, to_client')
            BY <1>0, <4>2, <5>1, ShapeAppend DEF KexTypes
          <5> QED BY <1>a, <5>2 DEF SameShape
        <4>3. CASE Gives("kexinit")
          BY <1>0, <1>a, <4>3, SendRows DEF Gives
        <4>4. CASE to_client' = Append(to_client, Outgoing("newkeys", 0))
          BY <1>0, <1>a, <4>4, SendRows
        <4> QED BY <1>2, <2>2, <4>1, <4>2, <4>3, <4>4 DEF Exchanging
      <3> QED BY <1>c, <2>0, <3>1, <3>2
    <2> QED BY <2>1, <2>2
  <1>3. CASE PlainMove /\ c_kid' = c_kid /\ c_session_id' = c_session_id
    <2>1. Has(to_client, "reply")' <=> Has(to_client, "reply")
      BY <1>a, <1>3 DEF PlainMove, SameShape
    <2> QED BY <1>c, <1>3, <2>1 DEF PlainMove, ServerSame
  <1>4. CASE WritesIdent
    BY <1>c, <1>4 DEF WritesIdent, Writes, ServerSame
  <1>5. CASE WritesKexinit
    <2>1. /\ session_id' = session_id /\ c_session_id' = c_session_id /\ to_client' = to_client
          /\ c_kex = "none"
      BY <1>5 DEF WritesKexinit, Writes, ServerSame
    <2>2. None(to_client) \/ Only(to_client, "kexinit")
      BY <1>0, <2>1 DEF EndedRows
    <2>3. ~Has(to_client, "reply")
      BY <1>0, <1>a, <2>2, Shapes
    <2> QED BY <1>0, <2>1, <2>3 DEF SameSession
  <1>6. CASE ReadsKexinit \/ ReadsNewkeys
    <2>1. /\ Reads /\ Head(to_client).type \in KexTypes /\ Head(to_client).type # "reply"
          /\ c_kid' = c_kid /\ c_session_id' = c_session_id /\ session_id' = session_id
      BY <1>a, <1>6, SameIs DEF ReadsKexinit, ReadsNewkeys, Reads, ServerSame
    <2>2. /\ ~None(to_client)
          /\ \A a : Only(to_client, a) => a = Head(to_client).type
          /\ \A a, b \in KexTypes : Both(to_client, a, b) => a = Head(to_client).type
          /\ Has(to_client, "reply")' => Has(to_client, "reply")
      BY <2>1, ReadRows
    <2>3. Only(to_client, "kexinit") \/ Only(to_client, "newkeys")
      BY <1>0, <1>a, <2>1, <2>2 DEF EndedRows
    <2>4. ~Has(to_client, "reply")
      BY <1>0, <1>a, <2>3, Shapes
    <2> QED BY <1>c, <2>1, <2>2, <2>4
  <1>7. CASE ReadsReply
    <2>1. /\ Reads /\ Head(to_client).type = "reply" /\ c_kex = "init"
          /\ c_kid' = c_kid /\ session_id' = session_id
          /\ c_session_id' = IF c_session_id = 0 THEN c_kid ELSE c_session_id
      BY <1>7, SameIs DEF ReadsReply, Reads, ServerSame
    <2>2. /\ ~None(to_client) /\ Has(to_client, "reply")
          /\ \A a : Only(to_client, a) => None(to_client)'
          /\ \A a, b \in KexTypes : Both(to_client, a, b) => Only(to_client, b)'
      BY <1>a, <2>1, ReadRows
    <2>3. None(to_client)' \/ Only(to_client, "newkeys")'
      BY <1>0, <1>a, <2>1, <2>2 DEF EndedRows
    <2>4. to_client' \in Seq(Packets)
      BY <1>0, <2>1, TailIs DEF Reads
    <2>5. ~Has(to_client, "reply")'
      BY <1>a, <2>3, <2>4, Shapes
    <2>6. session_id = c_session_id'
      BY <1>0, <2>1, <2>2 DEF SameSession
    <2> QED BY <2>1, <2>5, <2>6 DEF SameSession
  <1> QED BY <1>1, <1>2, <1>3, <1>4, <1>5, <1>6, <1>7, PlainMoves DEF Moves

(***************************************************************************)
(* Nothing but the key exchange between KEXINIT and NEWKEYS.               *)
(***************************************************************************)
\* The server adds packets outside the key exchange only where no KEXINIT of its own
\* is under way: before the first one, after its NEWKEYS, and in the stages.
LEMMA QuietStep ==
    ASSUME IInv, Moves
    PROVE  QuietDuringExchange'
  <1>0. TypeInv /\ Control /\ Table /\ to_client \in Seq(Packets)
    BY DEF IInv, TypeInv
  <1>a. {"kexinit", "ecdh_init", "reply", "newkeys"} = KexTypes
    BY DEF KexTypes
  <1>b. QuietDuringExchange <=> (~abandoned => Hushed(to_client))
    BY DEF QuietDuringExchange, Hushed
  <1>c. QuietDuringExchange' <=> (~abandoned' => Hushed(to_client)')
    BY DEF QuietDuringExchange, Hushed
  <1>d. /\ PlainTypes \subseteq Types /\ KexTypes \subseteq Types /\ "ident" \in Types
    BY DEF PlainTypes, Types, ClientTypes
  <1>e. ASSUME Hushed(to_client), to_client' = to_client \/ (to_client # <<>> /\ to_client' = Tail(to_client))
        PROVE  Hushed(to_client)'
    BY <1>0, <1>e, HushedTail
  <1>f. ASSUME NEW type \in Types, NEW kid \in Nat, Hushed(to_client),
               to_client' = Append(to_client, Outgoing(type, kid)),
               type \in KexTypes \/ ~Has(to_client, "kexinit")
        PROVE  Hushed(to_client)'
    <2>1. Outgoing(type, kid) \in Packets /\ Outgoing(type, kid).type = type
      BY <1>0, PacketsIs
    <2> QED BY <1>0, <1>f, <2>1, HushedAppend
  <1> SUFFICES ASSUME ~abandoned' PROVE Hushed(to_client)'
    BY <1>c
  <1>1. CASE Ending \/ Staying \/ Interrupting \/ GivingUp
    <2>1. ~abandoned /\ Hushed(to_client)
      BY <1>1, <1>b DEF Ending, Staying, Interrupting, GivingUp, IInv
    <2>2. CASE GivesNothing
      BY <1>e, <2>1, <2>2 DEF GivesNothing
    <2>3. CASE pc \in Stages /\ \E t \in PlainTypes : Gives(t)
      <3>1. IdleRows
        BY <1>0, <2>1, <2>3 DEF Table, Idle
      <3>2. ~Has(to_client, "kexinit")
        BY <1>0, <1>a, <3>1, Shapes DEF IdleRows
      <3>3. PICK t \in PlainTypes : Gives(t)
        BY <2>3
      <3> QED BY <1>d, <1>f, <2>1, <3>2, <3>3 DEF Gives
    <2> QED BY <1>1, <2>2, <2>3 DEF Ending, Staying, Interrupting, GivingUp
  <1>2. CASE Exchanging
    <2>1. ~abandoned /\ Hushed(to_client) /\ client_kexinit \in Nat
      BY <1>0, <1>2, <1>b DEF Exchanging, IInv, TypeInv
    <2>2. CASE GivesNothing
      BY <1>e, <2>1, <2>2 DEF GivesNothing
    <2>3. CASE Gives("kexinit")
      BY <1>a, <1>d, <1>f, <2>1, <2>3 DEF Gives
    <2>4. CASE to_client' = Append(to_client, Outgoing("reply", client_kexinit))
      BY <1>a, <1>d, <1>f, <2>1, <2>4
    <2>5. CASE to_client' = Append(to_client, Outgoing("newkeys", 0))
      BY <1>a, <1>d, <1>f, <2>1, <2>5
    <2>6. CASE pc = "send_ident" /\ to_client' = Append(to_client, Outgoing("ident", 0))
      <3>1. ~Has(to_client, "kexinit")
        BY <1>0, <1>a, <2>6, Shapes DEF Table, Early, EarlyRows
      <3> QED BY <1>d, <1>f, <2>1, <2>6, <3>1
    <2>7. CASE pc = "send_ext_info" /\ Gives("ext_info")
      <3>1. FinalRows
        BY <1>0, <2>7 DEF Table, Final
      <3>2. ~Has(to_client, "kexinit")
        BY <1>0, <1>a, <3>1, Shapes DEF FinalRows
      <3>3. "ext_info" \in Types
        BY DEF Types
      <3> QED BY <1>f, <2>1, <2>7, <3>2, <3>3 DEF Gives
    <2> QED BY <1>2, <2>2, <2>3, <2>4, <2>5, <2>6, <2>7 DEF Exchanging
  <1>3. ASSUME ServerSame, to_client' = to_client \/ (to_client # <<>> /\ to_client' = Tail(to_client))
        PROVE  Hushed(to_client)'
    BY <1>b, <1>e, <1>3 DEF ServerSame, IInv
  <1>4. CASE ReadsLine \/ ReadsPlain \/ ReadsKexinit \/ ReadsReply \/ ReadsNewkeys
    <2>1. Reads
      BY <1>4 DEF ReadsLine, ReadsPlain, ReadsKexinit, ReadsReply, ReadsNewkeys
    <2> QED BY <1>3, <2>1, SameIs DEF Reads
  <1>5. CASE WritesLine \/ WritesIdent \/ WritesPlain \/ WritesKexinit
    BY <1>3, <1>5 DEF WritesLine, WritesIdent, WritesPlain, WritesKexinit, Writes
  <1> QED BY <1>1, <1>2, <1>3, <1>4, <1>5 DEF Moves, Damaging

(***************************************************************************)
(* The theorems.                                                           *)
(***************************************************************************)
\* The session starts in the first row of the table, with empty streams.
LEMMA InitIInv == Init => IInv
  <1> SUFFICES ASSUME Init PROVE IInv
    OBVIOUS
  <1>1. Fresh \in Protection /\ Fresh.epoch = 0 /\ Fresh.seq = 0
    BY DEF Fresh, Protection
  <1>2. /\ to_server = <<>> /\ to_client = <<>> /\ Len(to_server) = 0 /\ Len(to_client) = 0
        /\ to_server \in Seq(Packets) /\ to_client \in Seq(Packets)
        /\ pc = "send_ident" /\ c_kex = "start"
    BY DEF Init
  <1>3. TypeInv
    BY <1>1, <1>2 DEF Init, TypeInv, Calls, Stages, RecvSteps, ClientSteps
  <1>4. /\ None(to_server) /\ None(to_client)
        /\ \A t : ~Has(to_server, t) /\ ~Has(to_client, t)
        /\ \A t, k : NamedBy(to_server, t, k) /\ NamedBy(to_client, t, k)
        /\ NoLine(to_client) /\ AllLines(to_server) /\ Hushed(to_client)
    BY <1>2 DEF None, Has, NamedBy, NoLine, AllLines, Hushed
  <1>5. Control
    BY <1>1, <1>2 DEF Init, Control, Idle, Final, Stages
  <1>6. Table
    BY <1>2, <1>4 DEF Table, EarlyRows, Early, Idle, Resend, Final, Stuck, Stages
  <1>7. Names /\ SameSession
    BY <1>2, <1>4 DEF Init, Names, SameSession, Resend, Final
  <1>8. Lines
    BY <1>2, <1>4 DEF Lines
  <1>9. Links
    BY <1>1, <1>2 DEF Init, Links, Linked
  <1>10. Alarm /\ QuietDuringExchange
    BY <1>2 DEF Init, Alarm, QuietDuringExchange
  <1> QED BY <1>3, <1>5, <1>6, <1>7, <1>8, <1>9, <1>10 DEF IInv

\* Every step keeps the invariant.
LEMMA StepIInv == IInv /\ [Next]_vars => IInv'
  <1> SUFFICES ASSUME IInv, [Next]_vars PROVE IInv'
    OBVIOUS
  <1>1. Moves
    BY AllMoves
  <1>2. Links'
    BY <1>1, OutLinkStep, InLinkStep DEF Links
  <1> QED BY <1>1, <1>2, TypeStep, ControlStep, TableStep, NamesStep, SessionStep, LinesStep,
             AlarmStep, QuietStep DEF IInv

\* The two ends are always in step.
LEMMA Invariance == Spec => []IInv
  BY InitIInv, StepIInv, PTL DEF Spec

\* For any number of exchanges and any modulus: no undamaged packet fails the check at
\* either end, and both ends agree on the session identifier, although keys switch at
\* NEWKEYS in each direction by itself (activate_packet_protection) and a re-exchange may
\* be given up half way.
THEOREM KeysSafe == Spec => []KeysInStep
  <1>1. IInv => KeysInStep
    BY DEF IInv, Alarm, SameSession, KeysInStep
  <1> QED BY <1>1, Invariance, PTL

\* A stage of the protected transport never runs on plain packets, and runs with both
\* directions under the keys of the last exchange unless one was given up on a timeout
\* (ssh_server_run_transport_setup, ssh_transport_handle_peer_rekey).
THEOREM StagesSafe == Spec => []StagesProtected
  <1>1. IInv => StagesProtected
    BY DEF IInv, Control, Idle, StagesProtected
  <1> QED BY <1>1, Invariance, PTL

\* Between the server's KEXINIT and its NEWKEYS the client is sent nothing but key
\* exchange messages, unless a re-exchange was given up on a timeout.
THEOREM QuietSafe == Spec => []QuietDuringExchange
  <1>1. IInv => QuietDuringExchange
    BY DEF IInv
  <1> QED BY <1>1, Invariance, PTL
=============================================================================
