----------------------------- MODULE SftpChannel -----------------------------
(***************************************************************************)
(* One SFTP channel of a running session: the loop of                      *)
(* ssh_server_run_sftp_session around ssh_server_process_sftp_channel_data *)
(* (src/src/core/ssh_server.c), the client at the other end, and the two   *)
(* ordered message streams between them.                                   *)
(*                                                                         *)
(* Payload bytes are abstracted to positions.  The requests the client     *)
(* writes form one byte stream and the responses the server produces form  *)
(* another; a CHANNEL_DATA message is the interval of the stream it        *)
(* carries, so loss, duplication or reordering of payload shows as a       *)
(* position that does not fit.  The SFTP length field, 4 bytes in the      *)
(* code, is Hdr units.                                                     *)
(*                                                                         *)
(* The handler is one loop body of the code per step: pc says which loop   *)
(* the server is in.                                                       *)
(*   "receive"  waiting in ssh_transport_receive_channel_message           *)
(*   "flush"    in maybe_flush_pending_sftp_response                       *)
(*   "parse"    at the head of the while (sftp_rx_len >= 4) loop           *)
(*   "send"     in the loop that sends the chunks of one response          *)
(*   "ended"    ssh_server_run_sftp_session has left its loop              *)
(***************************************************************************)
EXTENDS Integers, Sequences

CONSTANTS
    WindowMax,      \* channel_window_size: receive window the server opens
    RxCap,          \* EMSSH_SFTP_MAX_PACKET_SIZE: size of sftp_rx
    Hdr,            \* size of the SFTP length field
    InitWindow,     \* initial_window_size of the client's CHANNEL_OPEN
    ExtraCredit,    \* how far the client may widen its window beyond InitWindow
    PeerMaxPacket,  \* maximum_packet_size of the client's CHANNEL_OPEN, 0 if none
    U32Max,         \* UINT32_MAX, where add_u32_saturating stops
    ReqLens,        \* wire lengths of the requests the client may write
    RespLens,       \* lengths of the responses sftp_server_handle_packet may give
    MaxRequests,    \* bound: requests the client writes in a behaviour
    MaxQueue        \* bound: messages in flight before the client sends another

ASSUME ConstantsAssumption ==
    /\ WindowMax \in Nat \ {0}
    /\ RxCap \in Nat /\ Hdr \in Nat \ {0}
    /\ InitWindow \in Nat /\ ExtraCredit \in Nat /\ PeerMaxPacket \in Nat
    /\ U32Max \in Nat /\ InitWindow <= U32Max
    /\ ReqLens \subseteq Nat \ {0} /\ \A l \in ReqLens : l >= Hdr
    /\ RespLens \subseteq Nat \ {0}
    /\ MaxRequests \in Nat /\ MaxQueue \in Nat

VARIABLES
    pc, status,          \* where the server is, and how the session ended
    window_size,         \* bytes the client may still send
    peer_window_size,    \* bytes the server believes it may still send
    sftp_rx_len,         \* bytes in the reassembly buffer
    sftp_tx_pending,     \* response bytes cached for want of window
    response,            \* the response being sent chunk by chunk
    produced,            \* end of the response stream produced so far
    handled,             \* requests given to sftp_server_handle_packet
    eof_sent, close_sent,
    to_server, to_client,\* messages in flight, oldest first
    requests,            \* end position, in the client's stream, of each request
    sent,                \* client stream position already put in CHANNEL_DATA
    send_limit,          \* client stream position the server's window allows
    got,                 \* response stream position the client has received
    recv_limit,          \* response stream position the client's window allows
    client_eof, client_closed,
    rogue                \* the client has broken the connection protocol

serverVars == <<pc, status, window_size, peer_window_size, sftp_rx_len,
                sftp_tx_pending, response, produced, handled,
                eof_sent, close_sent>>
clientVars == <<requests, sent, send_limit, got, recv_limit,
                client_eof, client_closed, rogue>>
vars == <<serverVars, to_server, to_client, clientVars>>

PCs == {"receive", "flush", "parse", "send", "ended"}
Statuses == {"RUNNING", "OK", "SECURITY", "BUFFER_TOO_SMALL",
             "MALFORMED_PACKET", "HANDLER", "PLATFORM"}

(***************************************************************************)
(* A message.  n is the payload length of a CHANNEL_DATA and the increment *)
(* of a WINDOW_ADJUST; at is the position of the sender's stream after the *)
(* message.  reply is want_reply of a CHANNEL_REQUEST the server answers;  *)
(* mine tells a message for this channel from one for another.  lim is     *)
(* auxiliary, read by no action: the position up to which the sender has   *)
(* allowed the receiver to send.                                           *)
(***************************************************************************)
Types == {"data", "adjust", "request", "failure", "eof", "close"}
Message == [type : Types, n : Nat, at : Nat, lim : Nat,
            reply : BOOLEAN, mine : BOOLEAN]
Msg(type, n, at, lim) ==
    [type |-> type, n |-> n, at |-> at, lim |-> lim,
     reply |-> FALSE, mine |-> TRUE]

\* A piece of the response stream: [first, from) is sent, [from, to) is not.
Pieces == [first : Nat, from : Nat, to : Nat]
None == [first |-> 0, from |-> 0, to |-> 0]
Pending == sftp_tx_pending.to # sftp_tx_pending.from

Min2(a, b) == IF a <= b THEN a ELSE b
AddSaturating(a, b) == Min2(a + b, U32Max)
LimitToPacket(n) == IF PeerMaxPacket # 0 THEN Min2(n, PeerMaxPacket) ELSE n

\* Client stream positions consumed by the SFTP parser and received in all.
Taken == IF handled = 0 THEN 0 ELSE requests[handled]
Received == Taken + sftp_rx_len
Written == IF requests = <<>> THEN 0 ELSE requests[Len(requests)]

\* Response stream position after the last CHANNEL_DATA sent, and the position
\* the server may send up to.  peer_window_size is only lowered after the last
\* chunk of a response, so during "send" it counts from the response's start.
SentPos == IF pc = "send" THEN response.from
           ELSE IF Pending THEN sftp_tx_pending.from
           ELSE produced
PeerLimit == peer_window_size +
             (IF pc = "send" THEN response.first ELSE SentPos)
ServerLimit == Received + window_size

Init ==
    /\ pc = "receive" /\ status = "RUNNING"
    /\ window_size = WindowMax /\ peer_window_size = InitWindow
    /\ sftp_rx_len = 0 /\ sftp_tx_pending = None /\ response = None
    /\ produced = 0 /\ handled = 0
    /\ eof_sent = FALSE /\ close_sent = FALSE
    /\ to_server = <<>> /\ to_client = <<>>
    /\ requests = <<>> /\ sent = 0 /\ send_limit = WindowMax
    /\ got = 0 /\ recv_limit = InitWindow
    /\ client_eof = FALSE /\ client_closed = FALSE /\ rogue = FALSE

-----------------------------------------------------------------------------
(* The server.                                                             *)

\* The session leaves its loop; ssh_server_sftp_channel_deinit then clears the
\* channel, which nothing reads any more.
End(s) == pc' = "ended" /\ status' = s

\* The message the server takes next, and its removal from the stream.
Arrives(type) ==
    /\ pc = "receive" /\ to_server # <<>>
    /\ Head(to_server).type = type /\ Head(to_server).mine
    /\ to_server' = Tail(to_server)

ToClient(type, n, at, lim) == Append(to_client, Msg(type, n, at, lim))

\* recipient_channel is not this channel.
ReceiveForeign ==
    /\ pc = "receive" /\ to_server # <<>> /\ ~Head(to_server).mine
    /\ to_server' = Tail(to_server)
    /\ End("SECURITY")
    /\ UNCHANGED <<window_size, peer_window_size, sftp_rx_len, sftp_tx_pending,
                   response, produced, handled, eof_sent, close_sent,
                   to_client, clientVars>>

\* A cached response is only flushed here when request bytes are waiting too.
AfterAdjust == IF sftp_rx_len = 0 THEN "receive" ELSE "flush"

ReceiveWindowAdjust ==
    /\ Arrives("adjust")
    /\ peer_window_size' = AddSaturating(peer_window_size, Head(to_server).n)
    /\ pc' = AfterAdjust
    /\ UNCHANGED <<status, window_size, sftp_rx_len, sftp_tx_pending, response,
                   produced, handled, eof_sent, close_sent,
                   to_client, clientVars>>

\* No channel request is served on a running SFTP channel.
ReceiveChannelRequest ==
    /\ Arrives("request")
    /\ to_client' = IF Head(to_server).reply
                    THEN ToClient("failure", 0, SentPos, ServerLimit)
                    ELSE to_client
    /\ UNCHANGED <<serverVars, clientVars>>

ReceiveEof ==
    /\ Arrives("eof")
    /\ LET out == IF eof_sent THEN to_client
                  ELSE ToClient("eof", 0, SentPos, ServerLimit)
       IN to_client' = IF close_sent THEN out
                       ELSE Append(out, Msg("close", 0, SentPos, ServerLimit))
    /\ eof_sent' = TRUE /\ close_sent' = TRUE
    /\ UNCHANGED <<pc, status, window_size, peer_window_size, sftp_rx_len,
                   sftp_tx_pending, response, produced, handled, clientVars>>

ReceiveClose ==
    /\ Arrives("close")
    /\ to_client' = IF close_sent THEN to_client
                    ELSE ToClient("close", 0, SentPos, ServerLimit)
    /\ close_sent' = TRUE
    /\ End("OK")
    /\ UNCHANGED <<window_size, peer_window_size, sftp_rx_len, sftp_tx_pending,
                   response, produced, handled, eof_sent, clientVars>>

\* maybe_replenish_receive_window: with w bytes left, the window afterwards and
\* the bytes_to_add announced for it.
\* Faulty variants: the window is never replenished; the whole window is announced
\* instead of what was used of it.
NeverReplenished(w) == w
Replenished(w) == IF w > WindowMax \div 2 THEN w ELSE WindowMax
WholeWindow(w) == Replenished(w)
BytesToAdd(w) == Replenished(w) - w

RxRoom == RxCap - sftp_rx_len

\* CHANNEL_DATA beyond the window.
ReceiveExcessData ==
    /\ Arrives("data")
    /\ Head(to_server).n > window_size
    /\ End("SECURITY")
    /\ UNCHANGED <<window_size, peer_window_size, sftp_rx_len, sftp_tx_pending,
                   response, produced, handled, eof_sent, close_sent,
                   to_client, clientVars>>

\* CHANNEL_DATA within the window: the window is replenished first, then the
\* payload is appended to sftp_rx if it fits.
ReceiveData ==
    /\ Arrives("data")
    /\ Head(to_server).n <= window_size
    /\ LET n == Head(to_server).n
           left == window_size - n
       IN /\ window_size' = Replenished(left)
          /\ to_client' = IF Replenished(left) = left THEN to_client
                          ELSE ToClient("adjust", BytesToAdd(left), SentPos,
                                        Received + n + Replenished(left))
          /\ \/ /\ n > RxRoom
                /\ End("BUFFER_TOO_SMALL")
                /\ UNCHANGED sftp_rx_len
             \/ /\ n <= RxRoom
                /\ sftp_rx_len' = sftp_rx_len + n
                /\ pc' = "flush"
                /\ UNCHANGED status
    /\ UNCHANGED <<peer_window_size, sftp_tx_pending, response, produced,
                   handled, eof_sent, close_sent, clientVars>>

\* The receive timed out (SSH_ERR_NOT_FOUND).  Without request bytes and before
\* CLOSE the run loop just calls the handler again, which changes nothing.
ReceiveTimeout ==
    /\ pc = "receive"
    /\ \/ sftp_rx_len # 0 /\ pc' = "flush" /\ UNCHANGED status
       \/ sftp_rx_len = 0 /\ close_sent /\ End("OK")
    /\ UNCHANGED <<window_size, peer_window_size, sftp_rx_len, sftp_tx_pending,
                   response, produced, handled, eof_sent, close_sent,
                   to_server, to_client, clientVars>>

\* One turn of the loop of maybe_flush_pending_sftp_response.
\* Faulty variant: only the packet size limits a chunk of the cached response.
FlushLenIgnoresWindow(left) == LimitToPacket(left)
FlushLen(left) == LimitToPacket(Min2(left, peer_window_size))

FlushChunk ==
    /\ pc = "flush" /\ Pending /\ peer_window_size # 0
    /\ LET n == FlushLen(sftp_tx_pending.to - sftp_tx_pending.from)
       IN /\ sftp_tx_pending' = [sftp_tx_pending EXCEPT !.from = @ + n]
          /\ peer_window_size' = peer_window_size - n
          /\ to_client' = ToClient("data", n, sftp_tx_pending.from + n,
                                   ServerLimit)
    /\ UNCHANGED <<pc, status, window_size, sftp_rx_len, response, produced,
                   handled, eof_sent, close_sent, to_server, clientVars>>

\* Its end: SSH_ERR_NOT_FOUND sends the run loop back to receiving, and only an
\* empty cache lets the parser go on.  The flush after a response was cached
\* ends the same way: that response exceeds the window, so some of it is left.
\* Faulty variant: the parser goes on although a response is still cached.
AfterFlushParse == "parse"
AfterFlush == IF Pending THEN "receive" ELSE "parse"

FlushEnd ==
    /\ pc = "flush" /\ (Pending => peer_window_size = 0)
    /\ pc' = AfterFlush
    /\ UNCHANGED <<status, window_size, peer_window_size, sftp_rx_len,
                   sftp_tx_pending, response, produced, handled, eof_sent,
                   close_sent, to_server, to_client, clientVars>>

\* Wire length of the request at the head of sftp_rx, once its length field is in.
HeadLen == requests[handled + 1] - Taken
BadLength(l) == l <= Hdr \/ l > RxCap

\* sftp_rx ends before the request at its head does.
Incomplete == sftp_rx_len < HeadLen

\* The parse loop stops: no complete request is left.
ParseBreak ==
    /\ pc = "parse"
    /\ \/ sftp_rx_len < Hdr
       \/ sftp_rx_len >= Hdr /\ ~BadLength(HeadLen) /\ Incomplete
    /\ pc' = "receive"
    /\ UNCHANGED <<status, window_size, peer_window_size, sftp_rx_len,
                   sftp_tx_pending, response, produced, handled, eof_sent,
                   close_sent, to_server, to_client, clientVars>>

ParseMalformed ==
    /\ pc = "parse" /\ sftp_rx_len >= Hdr /\ BadLength(HeadLen)
    /\ End("MALFORMED_PACKET")
    /\ UNCHANGED <<window_size, peer_window_size, sftp_rx_len, sftp_tx_pending,
                   response, produced, handled, eof_sent, close_sent,
                   to_server, to_client, clientVars>>

Complete == sftp_rx_len >= Hdr /\ ~BadLength(HeadLen) /\ ~Incomplete

\* sftp_server_handle_packet fails: the session ends.
HandleError ==
    /\ pc = "parse" /\ Complete
    /\ End("HANDLER")
    /\ UNCHANGED <<window_size, peer_window_size, sftp_rx_len, sftp_tx_pending,
                   response, produced, handled, eof_sent, close_sent,
                   to_server, to_client, clientVars>>

\* sftp_server_handle_packet answers with l bytes: the request leaves sftp_rx,
\* and the response is sent if the peer's window takes it whole, else cached.
HandlePacket(l) ==
    /\ pc = "parse" /\ Complete
    /\ sftp_rx_len' = sftp_rx_len - HeadLen
    /\ handled' = handled + 1
    /\ produced' = produced + l
    /\ LET piece == [first |-> produced, from |-> produced, to |-> produced + l]
       IN \/ /\ l > peer_window_size
             /\ sftp_tx_pending' = piece /\ pc' = "flush" /\ UNCHANGED response
          \/ /\ l <= peer_window_size
             /\ response' = piece /\ pc' = "send" /\ UNCHANGED sftp_tx_pending
    /\ UNCHANGED <<status, window_size, peer_window_size, eof_sent, close_sent,
                   to_server, to_client, clientVars>>

\* One turn of the loop that sends a response that fits the peer's window; the
\* window is charged after the last chunk.
SendChunk ==
    /\ pc = "send"
    /\ LET n == LimitToPacket(response.to - response.from)
           done == response.from + n = response.to
       IN /\ to_client' = ToClient("data", n, response.from + n, ServerLimit)
          /\ response' = [response EXCEPT !.from = @ + n]
          /\ peer_window_size' = IF done
                                 THEN peer_window_size - (response.to - response.first)
                                 ELSE peer_window_size
          /\ pc' = IF done THEN "parse" ELSE "send"
    /\ UNCHANGED <<status, window_size, sftp_rx_len, sftp_tx_pending, produced,
                   handled, eof_sent, close_sent, to_server, clientVars>>

\* A read or a write of the transport fails, or finds the connection closed: the
\* run loop ends on SSH_ERR_CLOSED with SSH_OK.
TransportError ==
    /\ pc # "ended"
    /\ \E s \in {"PLATFORM", "OK"} : End(s)
    /\ UNCHANGED <<window_size, peer_window_size, sftp_rx_len, sftp_tx_pending,
                   response, produced, handled, eof_sent, close_sent,
                   to_server, to_client, clientVars>>

Receive ==
    \/ ReceiveForeign \/ ReceiveWindowAdjust \/ ReceiveChannelRequest
    \/ ReceiveEof \/ ReceiveClose \/ ReceiveExcessData \/ ReceiveData
Process ==
    \/ FlushChunk \/ FlushEnd \/ ParseBreak \/ ParseMalformed \/ HandleError
    \/ (\E l \in RespLens : HandlePacket(l)) \/ SendChunk
Server == Receive \/ ReceiveTimeout \/ Process \/ TransportError

-----------------------------------------------------------------------------
(* The client, which the code does not contain: any peer that keeps to the *)
(* connection protocol, until it turns rogue.                              *)

\* Bounds: at most MaxQueue messages wait for the server, and what the client
\* would send to a session that has ended is left out.
ToServer(m) ==
    /\ pc # "ended" /\ Len(to_server) < MaxQueue
    /\ to_server' = Append(to_server, m)

\* The application writes a request.
ClientWrite(l) ==
    /\ pc # "ended" /\ ~client_eof /\ ~client_closed
    /\ Len(requests) < MaxRequests
    /\ requests' = Append(requests, Written + l)
    /\ UNCHANGED <<serverVars, to_server, to_client, sent, send_limit, got,
                   recv_limit, client_eof, client_closed, rogue>>

\* Part of what is written goes out, cut anywhere and within the window.
ClientSendData(n) ==
    /\ ~client_eof /\ ~client_closed
    /\ sent + n <= Written /\ sent + n <= send_limit
    /\ sent' = sent + n
    /\ ToServer(Msg("data", n, sent + n, recv_limit))
    /\ UNCHANGED <<serverVars, to_client, requests, send_limit, got,
                   recv_limit, client_eof, client_closed, rogue>>

\* The client opens its window again, up to InitWindow + ExtraCredit.
ClientGrant(n) ==
    /\ ~client_closed
    /\ recv_limit + n - got <= InitWindow + ExtraCredit
    /\ recv_limit' = recv_limit + n
    /\ ToServer(Msg("adjust", n, sent, recv_limit + n))
    /\ UNCHANGED <<serverVars, to_client, requests, sent, send_limit, got,
                   client_eof, client_closed, rogue>>

\* A channel request (a window-change, say); bounded: only while nothing is in flight.
ClientRequest(reply) ==
    /\ ~client_eof /\ ~client_closed
    /\ to_server = <<>> /\ to_client = <<>>
    /\ ToServer([Msg("request", 0, sent, recv_limit) EXCEPT !.reply = reply])
    /\ UNCHANGED <<serverVars, to_client, clientVars>>

ClientEof ==
    /\ ~client_eof /\ ~client_closed
    /\ client_eof' = TRUE
    /\ ToServer(Msg("eof", 0, sent, recv_limit))
    /\ UNCHANGED <<serverVars, to_client, requests, sent, send_limit, got,
                   recv_limit, client_closed, rogue>>

ClientClose ==
    /\ ~client_closed
    /\ client_closed' = TRUE
    /\ ToServer(Msg("close", 0, sent, recv_limit))
    /\ UNCHANGED <<serverVars, to_client, requests, sent, send_limit, got,
                   recv_limit, client_eof, rogue>>

\* A step outside the protocol: data beyond the window, or another channel.
ClientMisbehave ==
    /\ ~client_eof /\ ~client_closed /\ ~rogue
    /\ rogue' = TRUE
    /\ \/ /\ send_limit < Written
          /\ sent' = Written
          /\ ToServer(Msg("data", Written - sent, Written, recv_limit))
       \/ /\ ToServer([Msg("request", 0, sent, recv_limit) EXCEPT !.mine = FALSE])
          /\ UNCHANGED sent
    /\ UNCHANGED <<serverVars, to_client, requests, send_limit, got,
                   recv_limit, client_eof, client_closed>>

\* The client takes a message; it answers CLOSE with CLOSE.
ClientReceive ==
    /\ to_client # <<>>
    /\ LET m == Head(to_client)
           reply == m.type = "close" /\ ~client_closed
       IN /\ to_client' = Tail(to_client)
          /\ got' = IF m.type = "data" THEN m.at ELSE got
          /\ send_limit' = IF m.type = "adjust" THEN send_limit + m.n ELSE send_limit
          /\ client_closed' = (client_closed \/ reply)
          /\ to_server' = IF reply
                          THEN Append(to_server, Msg("close", 0, sent, recv_limit))
                          ELSE to_server
    /\ UNCHANGED <<serverVars, requests, sent, recv_limit, client_eof, rogue>>

ClientSend == \E n \in 1..Written : ClientSendData(n)
ClientOpen == \E n \in 1..(InitWindow + ExtraCredit) : ClientGrant(n)
Client ==
    \/ (\E l \in ReqLens : ClientWrite(l)) \/ ClientSend \/ ClientOpen
    \/ (\E reply \in BOOLEAN : ClientRequest(reply)) \/ ClientEof
    \/ ClientClose \/ ClientMisbehave \/ ClientReceive

\* The session is over and the client has read what was sent.
Finished == pc = "ended" /\ to_client = <<>> /\ UNCHANGED vars

Next == Server \/ Client \/ Finished
Spec == Init /\ [][Next]_vars

(***************************************************************************)
(* Fairness.  The server thread runs whenever it is not waiting for the    *)
(* network (WF).  It takes a message that has arrived although its receive *)
(* may time out again and again before (SF): a message in to_server has    *)
(* arrived whole.  The client reads what arrives, sends what is written    *)
(* and opens its window when it is used up.                                *)
(***************************************************************************)
FairSpec ==
    /\ Spec
    /\ WF_vars(Process) /\ SF_vars(Receive) /\ WF_vars(ReceiveTimeout)
    /\ WF_vars(ClientReceive) /\ WF_vars(ClientSend) /\ WF_vars(ClientOpen)

-----------------------------------------------------------------------------
(* Properties.                                                             *)

\* Every variable has its type.
TypeOK ==
    /\ pc \in PCs /\ status \in Statuses
    /\ (pc = "ended") <=> (status # "RUNNING")
    /\ window_size \in 0..WindowMax /\ peer_window_size \in 0..U32Max
    /\ sftp_rx_len \in 0..RxCap
    /\ sftp_tx_pending \in Pieces /\ response \in Pieces
    /\ produced \in Nat /\ handled \in 0..Len(requests)
    /\ eof_sent \in BOOLEAN /\ close_sent \in BOOLEAN
    /\ to_server \in Seq(Message) /\ to_client \in Seq(Message)
    /\ requests \in Seq(Nat)
    /\ sent \in Nat /\ send_limit \in Nat /\ got \in Nat /\ recv_limit \in Nat
    /\ client_eof \in BOOLEAN /\ client_closed \in BOOLEAN /\ rogue \in BOOLEAN

\* The server never has more response bytes on the wire than the client's
\* window allows: a CHANNEL_DATA message ends within the credit the client has
\* given when it arrives, whether it came from the response loop, which charges
\* peer_window_size only at its end, or from the cached response.
PeerWindowRespected ==
    \A i \in 1..Len(to_client) :
        to_client[i].type = "data" => to_client[i].at <= recv_limit

\* A client that keeps to the window the server announced is never thrown out
\* with SSH_ERR_SECURITY: the server's window_size is never below what the
\* client has been told it may send.
ConformingClientAccepted == status = "SECURITY" => rogue

\* The client receives the response stream from its start without a gap, a
\* repetition or a swap, also when a response is cached, sent in pieces and
\* further requests arrive meanwhile.
ResponsesInOrder ==
    (to_client # <<>> /\ Head(to_client).type = "data")
        => Head(to_client).at - Head(to_client).n = got

\* A cached response is sent as far as the client's window goes once a
\* WINDOW_ADJUST has opened it: the run loop waits for that message and
\* maybe_flush_pending_sftp_response then sends (what the manual of
\* ssh_server.c says of a response larger than the window).
SentOnceWindowOpens ==
    (Pending /\ peer_window_size # 0) ~> (~Pending \/ peer_window_size = 0 \/ pc = "ended")

\* Where the code falls short of that: the window is open again, but no request
\* byte is buffered, so the handler of the WINDOW_ADJUST returned before the
\* flush (ssh_server.c:1458). The next byte the client sends sets it going.
FlushSkipped ==
    pc = "receive" /\ Pending /\ peer_window_size # 0 /\ sftp_rx_len = 0

\* The requests the client writes are answered in full, however they are cut
\* into messages and whatever part of the window a message leaves, or the
\* session ends; nothing but the skipped flush holds an answer up, so a cached
\* response waits neither for a used up window nor behind buffered requests.
AllAnswered == handled = Len(requests) /\ got = produced
AnsweredUnlessFlushSkipped ==
    ~AllAnswered ~> (AllAnswered \/ pc = "ended" \/ FlushSkipped)
=============================================================================
