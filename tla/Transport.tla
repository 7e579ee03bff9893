------------------------------ MODULE Transport ------------------------------
(***************************************************************************)
(* One SSH transport session: the key exchange of                          *)
(* ssh_server_run_transport_setup, the services that run on the protected  *)
(* transport, and the re-exchange a client may start at any time           *)
(* (src/src/core/ssh_transport.c, ssh_packet.c, ssh_server.c), with the    *)
(* client and the two ordered packet streams between them.                 *)
(*                                                                         *)
(* Cryptography is abstracted to its bookkeeping.  The keys of a direction *)
(* are named by the key exchange they come from (0: none, packets are      *)
(* plain).  A packet remembers the keys and the sequence number it was     *)
(* protected with, and it is accepted iff the receiver uses the same; the  *)
(* counter of the cipher moves with the sequence number.  What an exchange *)
(* hashes is named by the client's KEXINIT it starts from.                 *)
(*                                                                         *)
(* pc is the call the server is in; during a re-exchange ret is the stage  *)
(* whose receive call was interrupted.                                     *)
(***************************************************************************)
EXTENDS Integers, Sequences

CONSTANTS
    SeqMod,       \* 2^32: packet sequence numbers wrap here
    CountMax,     \* UINT64_MAX, where add_u64_saturating stops
    RekeyAfter,   \* rekey_after_packets, 0 if no limit is set
    SkipMax,      \* packets one receive call skips (8)
    LineMax,      \* lines in which the client's identification must come (20)
    MaxAuthTries, \* max_auth_tries of the configuration
    MaxKex,       \* bound: key exchanges the client starts
    MaxQueue      \* packets in flight before the stream takes no more

ASSUME ConstantsAssumption ==
    /\ SeqMod \in Nat \ {0, 1} /\ CountMax \in Nat /\ RekeyAfter \in 0..CountMax
    /\ SkipMax \in Nat \ {0} /\ LineMax \in Nat \ {0}
    /\ MaxAuthTries \in Nat \ {0} /\ MaxKex \in Nat /\ MaxQueue \in Nat \ {0}

VARIABLES
    pc, ret, status,
    inbound, outbound,       \* the server's packet protection per direction
    rekey_needed, rekey_in_progress,
    client_kexinit,          \* the exchange whose KEXINIT was processed last
    exchange_hash, session_id,
    skipped,                 \* packets or lines skipped in this receive call
    tries,                   \* failed authentication attempts
    abandoned,               \* auxiliary: a re-exchange was given up on a timeout
    to_server, to_client,    \* packets in flight, oldest first
    damaged,                 \* the network has damaged a packet to the server
    c_in, c_out,             \* the client's packet protection per direction
    c_kex,                   \* where the client is in a key exchange
    c_kid,                   \* key exchanges the client has started
    c_session_id, c_error

kexVars == <<client_kexinit, exchange_hash, session_id>>
clientVars == <<c_in, c_out, c_kex, c_kid, c_session_id, c_error, damaged>>
serverVars == <<pc, ret, status, inbound, outbound, rekey_needed,
                rekey_in_progress, kexVars, skipped, tries, abandoned>>
vars == <<serverVars, to_server, to_client, clientVars>>

\* The calls on the protected transport, and the calls that wait in a key exchange.
Stages == {"service", "userauth", "open", "request", "channel"}
RecvSteps == {"recv_ident", "recv_kexinit", "recv_ecdh_init", "recv_newkeys"}
KexTypes == {"kexinit", "ecdh_init", "reply", "newkeys"}
ClientTypes == {"service", "auth", "msg", "ignore", "disconnect"}
Types == KexTypes \cup ClientTypes \cup
         {"line", "ident", "ext_info", "accept", "success", "pk_ok", "failure"}

Fresh == [epoch |-> 0, seq |-> 0, count |-> 0]

Init ==
    /\ pc = "send_ident" /\ ret = "service" /\ status = "RUNNING"
    /\ inbound = Fresh /\ outbound = Fresh
    /\ rekey_needed = FALSE /\ rekey_in_progress = FALSE
    /\ client_kexinit = 0 /\ exchange_hash = 0 /\ session_id = 0
    /\ skipped = 0 /\ tries = 0 /\ abandoned = FALSE
    /\ to_server = <<>> /\ to_client = <<>>
    /\ c_in = Fresh /\ c_out = Fresh /\ c_kex = "start" /\ c_kid = 0
    /\ c_session_id = 0 /\ c_error = FALSE /\ damaged = FALSE

-----------------------------------------------------------------------------
(* Packet protection.                                                      *)

AddSaturating(a) == IF a < CountMax THEN a + 1 ELSE a

\* A packet has passed under p: encode_protected and decode_protected move the
\* sequence number on, record_rekey_packet counts.  Plain packets are not counted.
Advance(p) ==
    [p EXCEPT !.seq = (@ + 1) % SeqMod,
              !.count = IF p.epoch = 0 THEN @ ELSE AddSaturating(@)]

\* activate_packet_protection: new keys, and the sequence number goes on.
\* Faulty variant: it restarts at 0.
ActivateFromZero(p, e) == [epoch |-> e, seq |-> 0, count |-> 0]
Activate(p, e) == [p EXCEPT !.epoch = e, !.count = 0]

\* update_rekey_needed.
RekeyDue(i, o) == RekeyAfter # 0 /\ (i.count >= RekeyAfter \/ o.count >= RekeyAfter)

\* A plain packet is taken as it is; a protected one must pass the MAC.
Decodes(p, q) == q.epoch = p.epoch /\ (p.epoch # 0 => q.seq = p.seq)

Arrived(type) == to_server # <<>> /\ Decodes(inbound, Head(to_server))
                                  /\ Head(to_server).type = type
Outgoing(type, kid) ==
    [type |-> type, kid |-> kid, epoch |-> outbound.epoch, seq |-> outbound.seq]
Emits(q) == Len(to_client) < MaxQueue /\ to_client' = Append(to_client, q)

\* The server sends one packet; the write waits while the stream is full.
Sends(type, kid) ==
    /\ Emits(Outgoing(type, kid))
    /\ outbound' = Advance(outbound)
    /\ rekey_needed' = RekeyDue(inbound, Advance(outbound))
    /\ UNCHANGED <<inbound, to_server>>

\* The server takes the packet at the head of the stream, which has decoded.
Takes ==
    /\ to_server' = Tail(to_server)
    /\ inbound' = Advance(inbound)
    /\ rekey_needed' = RekeyDue(Advance(inbound), outbound)
    /\ UNCHANGED <<outbound, to_client>>

\* It takes a packet and answers it.
Answers(type) ==
    /\ Emits(Outgoing(type, 0))
    /\ to_server' = Tail(to_server)
    /\ inbound' = Advance(inbound) /\ outbound' = Advance(outbound)
    /\ rekey_needed' = RekeyDue(Advance(inbound), Advance(outbound))

\* The session returns s; the call goes on; stage p starts a new receive call.
End(s) == pc' = "ended" /\ status' = s
Goto(p) == pc' = p /\ UNCHANGED status
Enter(p) == Goto(p) /\ skipped' = 0

\* The receive call of stage p has skipped one packet more.
SkipsIn(p) ==
    /\ skipped' = skipped + 1
    /\ IF skipped' = SkipMax THEN End("MALFORMED") ELSE Goto(p)

-----------------------------------------------------------------------------
(* The server: setup, and the same calls during a re-exchange.             *)

\* The call after p, in ssh_server_run_transport_setup and in
\* ssh_transport_handle_peer_rekey.
SetupOrder == [send_ident |-> "recv_ident", recv_ident |-> "send_kexinit",
               send_kexinit |-> "recv_kexinit", recv_kexinit |-> "recv_ecdh_init",
               recv_ecdh_init |-> "send_reply", send_reply |-> "send_newkeys",
               send_newkeys |-> "send_ext_info", send_ext_info |-> "recv_newkeys"]
RekeyOrder == [send_kexinit |-> "recv_ecdh_init", recv_ecdh_init |-> "send_reply",
               send_reply |-> "send_newkeys", send_newkeys |-> "recv_newkeys"]

\* Faulty variants: setup does not wait for the client's NEWKEYS; a re-exchange
\* does not announce the server's own.
NextStepNoWait(p) ==
    IF rekey_in_progress THEN RekeyOrder[p]
    ELSE IF p = "send_ext_info" THEN "service" ELSE SetupOrder[p]
NextStepSilent(p) ==
    IF ~rekey_in_progress THEN SetupOrder[p]
    ELSE IF p = "send_reply" THEN "recv_newkeys" ELSE RekeyOrder[p]
NextStep(p) == IF rekey_in_progress THEN RekeyOrder[p] ELSE SetupOrder[p]

\* Lines are not packets: no sequence number moves.
SendIdentification ==
    /\ pc = "send_ident" /\ Goto(NextStep(pc))
    /\ Emits(Outgoing("ident", 0))
    /\ UNCHANGED <<ret, inbound, outbound, rekey_needed, rekey_in_progress, kexVars,
                   skipped, tries, abandoned, to_server, clientVars>>

\* Other lines may come first; the client's version may be refused.
ReceiveIdentification ==
    /\ pc = "recv_ident" /\ to_server # <<>>
    /\ to_server' = Tail(to_server)
    /\ \/ /\ Head(to_server).type = "ident"
          /\ \/ Enter(NextStep(pc))
             \/ End("UNSUPPORTED") /\ UNCHANGED skipped
       \/ /\ Head(to_server).type # "ident"
          /\ skipped' = skipped + 1
          /\ IF skipped' = LineMax THEN End("MALFORMED") ELSE Goto(pc)
    /\ UNCHANGED <<ret, inbound, outbound, rekey_needed, rekey_in_progress, kexVars,
                   tries, abandoned, to_client, clientVars>>

SendKexinit ==
    /\ pc = "send_kexinit" /\ Goto(NextStep(pc))
    /\ Sends("kexinit", 0)
    /\ UNCHANGED <<ret, rekey_in_progress, kexVars, skipped, tries, abandoned,
                   clientVars>>

\* process_kexinit_payload may find no common algorithm.
ReceiveKexinit ==
    /\ pc = "recv_kexinit" /\ Arrived("kexinit") /\ Takes
    /\ client_kexinit' = Head(to_server).kid
    /\ Goto(NextStep(pc)) \/ End("UNSUPPORTED")
    /\ UNCHANGED <<ret, rekey_in_progress, exchange_hash, session_id, skipped,
                   tries, abandoned, clientVars>>

ReceiveEcdhInit ==
    /\ pc = "recv_ecdh_init" /\ Arrived("ecdh_init") /\ Takes
    /\ Goto(NextStep(pc))
    /\ UNCHANGED <<ret, rekey_in_progress, kexVars, skipped, tries, abandoned,
                   clientVars>>

\* The calls of an exchange take one type each and skip nothing.
Expected == [recv_kexinit |-> "kexinit", recv_ecdh_init |-> "ecdh_init",
             recv_newkeys |-> "newkeys"]

ReceiveOtherThanKex ==
    /\ pc \in DOMAIN Expected
    /\ \E type \in Types \ {Expected[pc]} : Arrived(type)
    /\ Takes /\ End("MALFORMED")
    /\ rekey_in_progress' = FALSE
    /\ UNCHANGED <<ret, kexVars, skipped, tries, abandoned, clientVars>>

\* The first exchange hash becomes the session identifier and stays it.
SessionId(h) == IF session_id = 0 THEN h ELSE session_id

SendKexEcdhReply ==
    /\ pc = "send_reply" /\ Goto(NextStep(pc))
    /\ exchange_hash' = client_kexinit
    /\ session_id' = SessionId(client_kexinit)
    /\ Sends("reply", client_kexinit)
    /\ UNCHANGED <<ret, rekey_in_progress, client_kexinit, skipped, tries,
                   abandoned, clientVars>>

\* NEWKEYS goes out under the old keys; then the outbound direction switches.
SendNewkeys ==
    /\ pc = "send_newkeys" /\ Goto(NextStep(pc))
    /\ Emits(Outgoing("newkeys", 0))
    /\ outbound' = Activate(Advance(outbound), exchange_hash)
    /\ rekey_needed' = RekeyDue(inbound, outbound')
    /\ UNCHANGED <<ret, inbound, rekey_in_progress, kexVars, skipped, tries,
                   abandoned, to_server, clientVars>>

\* Sent only if the client's KEXINIT asked for it.
SendExtInfo ==
    /\ pc = "send_ext_info" /\ Goto(NextStep(pc))
    /\ \/ Sends("ext_info", 0)
       \/ UNCHANGED <<to_client, inbound, outbound, rekey_needed, to_server>>
    /\ UNCHANGED <<ret, rekey_in_progress, kexVars, skipped, tries, abandoned,
                   clientVars>>

\* The inbound direction switches.  After a re-exchange the interrupted receive
\* call goes on, unless that was the last packet it may skip.
ReceiveNewkeys ==
    /\ pc = "recv_newkeys" /\ Arrived("newkeys")
    /\ to_server' = Tail(to_server)
    /\ inbound' = Activate(Advance(inbound), exchange_hash)
    /\ rekey_needed' = RekeyDue(inbound', outbound)
    /\ rekey_in_progress' = FALSE
    /\ IF rekey_in_progress THEN SkipsIn(ret) ELSE Enter("service")
    /\ UNCHANGED <<ret, outbound, kexVars, tries, abandoned, to_client, clientVars>>

-----------------------------------------------------------------------------
(* The server: the stages on the protected transport.                      *)

\* receive_protected_payload_skip_ignorable.
SkipIgnorable ==
    /\ pc \in Stages /\ Arrived("ignore") /\ Takes /\ SkipsIn(pc)
    /\ UNCHANGED <<ret, rekey_in_progress, kexVars, tries, abandoned, clientVars>>

\* The run loop takes SSH_ERR_CLOSED for the end of the session.
ReceiveDisconnect ==
    /\ pc \in Stages /\ Arrived("disconnect") /\ Takes
    /\ End(IF pc = "channel" THEN "OK" ELSE "CLOSED")
    /\ UNCHANGED <<ret, rekey_in_progress, kexVars, skipped, tries, abandoned,
                   clientVars>>

\* The loops that wait for a channel request take SSH_ERR_UNSUPPORTED for a
\* request to refuse, a bounded number of times; the others give up.
RefuseUnsupported ==
    \/ Takes /\ End("UNSUPPORTED") /\ UNCHANGED skipped
    \/ pc = "request" /\ Takes /\ Enter(pc)
    \/ pc = "request" /\ Answers("failure") /\ Enter(pc)

\* ssh_transport_handle_peer_rekey: the client's KEXINIT interrupts the stage.
ReceivePeerKexinit ==
    /\ pc \in Stages /\ Arrived("kexinit")
    /\ client_kexinit' = Head(to_server).kid
    /\ \/ /\ Takes /\ Goto("send_kexinit")
          /\ ret' = pc /\ rekey_in_progress' = TRUE /\ UNCHANGED skipped
       \/ RefuseUnsupported /\ UNCHANGED <<ret, rekey_in_progress>>
    /\ UNCHANGED <<exchange_hash, session_id, tries, abandoned, clientVars>>

ReceiveService ==
    /\ pc = "service" /\ Arrived("service")
    /\ \/ Answers("accept") /\ Enter("userauth")
       \/ Takes /\ End("UNSUPPORTED") /\ UNCHANGED skipped
    /\ UNCHANGED <<ret, rekey_in_progress, kexVars, tries, abandoned, clientVars>>

\* ssh_userauth_evaluate_request decides; only a failure counts as a try.
ReceiveUserauth ==
    /\ pc = "userauth" /\ Arrived("auth")
    /\ \/ Answers("success") /\ Enter("open") /\ UNCHANGED tries
       \/ Answers("pk_ok") /\ Enter(pc) /\ UNCHANGED tries
       \/ /\ Answers("failure") /\ tries' = tries + 1
          /\ IF tries' = MaxAuthTries THEN End("SECURITY") /\ UNCHANGED skipped
                                      ELSE Enter(pc)
    /\ UNCHANGED <<ret, rekey_in_progress, kexVars, abandoned, clientVars>>

\* CHANNEL_OPEN or a global request; a channel request; any channel message.
\* A refused channel type, and CHANNEL_EOF and CHANNEL_CLOSE, end the session.
EndStatus == [open |-> "UNSUPPORTED", request |-> "CLOSED", channel |-> "OK"]
ReceiveMessage ==
    /\ pc \in {"open", "request", "channel"} /\ Arrived("msg")
    /\ \/ Answers("msg") \/ Takes
    /\ \/ Enter(pc)
       \/ pc = "open" /\ Enter("request")
       \/ pc = "request" /\ Enter("channel")
       \/ End(EndStatus[pc]) /\ UNCHANGED skipped
    /\ UNCHANGED <<ret, rekey_in_progress, kexVars, tries, abandoned, clientVars>>

\* What the stage does not decode.
StageType == [service |-> "service", userauth |-> "auth", open |-> "msg",
              request |-> "msg", channel |-> "msg"]

ReceiveUnexpected ==
    /\ pc \in Stages
    /\ \E type \in Types \ {StageType[pc], "ignore", "disconnect", "kexinit"} :
          Arrived(type)
    /\ IF pc \in {"request", "channel"}
       THEN RefuseUnsupported
       ELSE Takes /\ End("MALFORMED") /\ UNCHANGED skipped
    /\ UNCHANGED <<ret, rekey_in_progress, kexVars, tries, abandoned, clientVars>>

\* Output the server starts itself: terminal data, the cached SFTP response.
\* Faulty variant: it is also pumped while a receive call waits in an exchange.
ServerOutputAnytime ==
    /\ pc \in {"channel"} \cup RecvSteps /\ outbound.epoch # 0
    /\ Sends("msg", 0) /\ Goto(pc)
    /\ UNCHANGED <<ret, rekey_in_progress, kexVars, skipped, tries, abandoned,
                   clientVars>>
ServerOutput ==
    /\ pc = "channel" /\ Sends("msg", 0) /\ Goto(pc)
    /\ UNCHANGED <<ret, rekey_in_progress, kexVars, skipped, tries, abandoned,
                   clientVars>>

\* Nothing arrived in time.  The loops of the channel stage go on, and leave an
\* exchange that waits where it is; before that stage the session ends.
ReceiveTimeout ==
    /\ pc \in Stages \cup RecvSteps
    /\ IF pc = "channel" \/ (rekey_in_progress /\ ret = "channel")
       THEN Enter("channel")
       ELSE End("NOT_FOUND") /\ UNCHANGED skipped
    /\ abandoned' = (abandoned \/ rekey_in_progress)
    /\ rekey_in_progress' = FALSE
    /\ UNCHANGED <<ret, inbound, outbound, rekey_needed, kexVars, tries,
                   to_server, to_client, clientVars>>

\* A packet that fails the check: nothing is committed.
ReceiveUndecodable ==
    /\ pc \in (Stages \cup RecvSteps) \ {"recv_ident"}
    /\ to_server # <<>> /\ ~Decodes(inbound, Head(to_server))
    /\ to_server' = Tail(to_server) /\ End("MAC")
    /\ UNCHANGED <<ret, inbound, outbound, rekey_needed, rekey_in_progress, kexVars,
                   skipped, tries, abandoned, to_client, clientVars>>

\* The network, the random source or the crypto library fails.
PlatformError ==
    /\ pc # "ended" /\ End("PLATFORM")
    /\ rekey_in_progress' = FALSE
    /\ UNCHANGED <<ret, inbound, outbound, rekey_needed, kexVars, skipped, tries,
                   abandoned, to_server, to_client, clientVars>>

Exchange ==
    \/ SendIdentification \/ ReceiveIdentification \/ SendKexinit
    \/ ReceiveKexinit \/ ReceiveEcdhInit \/ ReceiveOtherThanKex
    \/ SendKexEcdhReply \/ SendNewkeys \/ SendExtInfo \/ ReceiveNewkeys
Receive ==
    \/ SkipIgnorable \/ ReceiveDisconnect \/ ReceivePeerKexinit \/ ReceiveService
    \/ ReceiveUserauth \/ ReceiveMessage \/ ReceiveUnexpected \/ ReceiveUndecodable

-----------------------------------------------------------------------------
(* The client, which the code does not contain: it keeps to the rules of   *)
(* the key exchange and may send any other packet at any stage.            *)

ClientNext(p) == [p EXCEPT !.seq = (@ + 1) % SeqMod]
ClientPacket(type, kid) ==
    [type |-> type, kid |-> kid, epoch |-> c_out.epoch, seq |-> c_out.seq]
ClientWrites(q) == to_server' = Append(to_server, q)

\* Lines, the last of them the identification.
ClientIdentify ==
    /\ c_kex = "start" /\ pc # "ended" /\ Len(to_server) < MaxQueue
    /\ \/ ClientWrites(ClientPacket("line", 0)) /\ UNCHANGED c_kex
       \/ ClientWrites(ClientPacket("ident", 0)) /\ c_kex' = "none"
    /\ UNCHANGED <<serverVars, to_client, c_in, c_out, c_kid, c_session_id, c_error,
                   damaged>>

\* On plain packets, and between its KEXINIT and its NEWKEYS, the client sends
\* nothing but the messages RFC 4253 allows there: IGNORE, DEBUG, DISCONNECT.
ClientSend ==
    /\ c_kex # "start" /\ pc # "ended" /\ Len(to_server) < MaxQueue
    /\ \E type \in ClientTypes :
          /\ type \in {"ignore", "disconnect"}
             \/ (c_kex \in {"none", "newkeys"} /\ c_out.epoch # 0)
          /\ ClientWrites(ClientPacket(type, 0))
    /\ c_out' = ClientNext(c_out)
    /\ UNCHANGED <<serverVars, to_client, c_in, c_kex, c_kid, c_session_id, c_error,
                   damaged>>

ClientSendKexinit ==
    /\ c_kex = "none" /\ c_kid < MaxKex
    /\ pc # "ended" /\ Len(to_server) < MaxQueue
    /\ ClientWrites(ClientPacket("kexinit", c_kid + 1))
    /\ c_out' = ClientNext(c_out)
    /\ c_kid' = c_kid + 1 /\ c_kex' = "sent"
    /\ UNCHANGED <<serverVars, to_client, c_in, c_session_id, c_error, damaged>>

\* It answers the server's KEXINIT, and the reply with its NEWKEYS; the server's
\* NEWKEYS switches the other direction.
ClientReceive ==
    /\ to_client # <<>>
    /\ LET q == Head(to_client)
           ok == q.type = "ident" \/ Decodes(c_in, q)
       IN /\ q.type = "kexinit" => c_kex # "none"
          /\ to_client' = Tail(to_client)
          /\ CASE ok /\ q.type = "ident" ->
                    UNCHANGED <<c_in, c_out, c_kex, c_session_id, c_error, to_server>>
               [] ok /\ q.type = "kexinit" /\ c_kex = "sent" ->
                    /\ ClientWrites(ClientPacket("ecdh_init", 0))
                    /\ c_out' = ClientNext(c_out) /\ c_in' = ClientNext(c_in)
                    /\ c_kex' = "init" /\ UNCHANGED <<c_session_id, c_error>>
               [] ok /\ q.type = "reply" /\ c_kex = "init" /\ q.kid = c_kid ->
                    /\ ClientWrites(ClientPacket("newkeys", 0))
                    /\ c_out' = [ClientNext(c_out) EXCEPT !.epoch = c_kid]
                    /\ c_in' = ClientNext(c_in)
                    /\ c_session_id' = IF c_session_id = 0 THEN c_kid ELSE c_session_id
                    /\ c_kex' = "newkeys" /\ UNCHANGED c_error
               [] ok /\ q.type = "newkeys" /\ c_kex = "newkeys" ->
                    /\ c_in' = [ClientNext(c_in) EXCEPT !.epoch = c_kid]
                    /\ c_kex' = "none"
                    /\ UNCHANGED <<c_out, c_session_id, c_error, to_server>>
               [] ok /\ q.type \notin KexTypes \cup {"ident"} ->
                    /\ c_in' = ClientNext(c_in)
                    /\ UNCHANGED <<c_out, c_kex, c_session_id, c_error, to_server>>
               [] OTHER ->
                    /\ c_error' = TRUE
                    /\ UNCHANGED <<c_in, c_out, c_kex, c_session_id, to_server>>
    /\ UNCHANGED <<serverVars, c_kid, damaged>>

\* A protected packet is changed on its way: it will not match its MAC.
Damage ==
    /\ pc # "ended" /\ ~damaged /\ to_server # <<>> /\ Head(to_server).epoch # 0
    /\ to_server' = [to_server EXCEPT ![1].seq = (@ + 1) % SeqMod]
    /\ damaged' = TRUE
    /\ UNCHANGED <<serverVars, to_client, c_in, c_out, c_kex, c_kid, c_session_id,
                   c_error>>

Client == ClientIdentify \/ ClientSend \/ ClientSendKexinit \/ ClientReceive

Finished == pc = "ended" /\ UNCHANGED vars

Next ==
    \/ Exchange \/ Receive \/ ServerOutput \/ ReceiveTimeout \/ PlatformError
    \/ Client \/ Damage \/ Finished

Spec == Init /\ [][Next]_vars

\* The server's thread never stops between two calls; a read that has a packet
\* returns it, and one that has none times out; the client reads and answers.
FairSpec ==
    /\ Spec
    /\ WF_vars(Exchange) /\ WF_vars(Receive) /\ WF_vars(ClientReceive)
    /\ WF_vars(to_server = <<>> /\ ReceiveTimeout)

-----------------------------------------------------------------------------
(* Properties.                                                             *)

\* The two ends hold the same keys: no packet fails the check at the other end
\* unless it was damaged, through any number of exchanges, for keys switch at
\* NEWKEYS in each direction by itself and sequence numbers run on across the
\* switch (activate_packet_protection). Both keep the hash of their first exchange
\* as session identifier, which the signatures of public key authentication cover
\* (ssh_transport_send_kex_ecdh_reply).
KeysInStep ==
    /\ status = "MAC" => damaged
    /\ ~c_error
    /\ session_id # 0 /\ c_session_id # 0 => session_id = c_session_id

\* A stage runs with both directions under the keys of the last exchange, so never
\* on plain packets; only a re-exchange given up on a timeout leaves them apart.
StagesProtected ==
    pc \in Stages =>
        /\ inbound.epoch # 0 /\ outbound.epoch # 0
        /\ ~abandoned => /\ inbound.epoch = exchange_hash
                         /\ outbound.epoch = exchange_hash

\* Between the server's KEXINIT and its NEWKEYS the client sees nothing but key
\* exchange messages, unless a re-exchange was given up on a timeout.
QuietDuringExchange ==
    ~abandoned =>
        \A i, j \in 1..Len(to_client) :
            (i < j /\ to_client[i].type = "kexinit" /\ to_client[j].type \notin KexTypes)
            => \E k \in i..j : to_client[k].type = "newkeys"

\* An exchange the client has started comes to its end: both directions are switched,
\* or the session ends or the client has met an error.
ExchangeSettles ==
    (c_kex \in {"sent", "init", "newkeys"}) ~> (c_kex = "none" \/ pc = "ended" \/ c_error)
=============================================================================
