--------------------------- MODULE TerminalChannel ---------------------------
(***************************************************************************)
(* A terminal channel whose shell or command runs: the loop of             *)
(* ssh_server_run_terminal_session around                                  *)
(* ssh_server_process_terminal_channel_data (src/src/core/ssh_server.c),   *)
(* the child process behind src/src/platform/posix_term.c, the client, and *)
(* the two ordered message streams.  Module Session ends where this module *)
(* begins.                                                                 *)
(*                                                                         *)
(* Bytes are positions, as in SftpChannel: the child's output is one       *)
(* stream (produced, out_pos, got), the client's input another (sent).     *)
(*                                                                         *)
(*   pc = "pump"     in the loop of maybe_pump_terminal_output             *)
(*   pc = "exit"     at maybe_send_terminal_exit_and_close                 *)
(*   pc = "receive"  in ssh_transport_receive_channel_message              *)
(*   pc = "closing"  in posix_term_close, waiting for the child            *)
(*   pc = "ended"    the session function has returned                     *)
(* The child and the client move between any two steps of the server, so   *)
(* in particular between the read that finds no output and the waitpid.    *)
(***************************************************************************)
EXTENDS Integers, Sequences

CONSTANTS
    WindowMax,      \* channel_window_size: receive window the server opens
    PeerWindow,     \* window the client has granted by the time the shell runs
    PeerMaxPacket,  \* maximum_packet_size of the client's CHANNEL_OPEN, 0 if none
    OutBuf,         \* size of outbuf in maybe_pump_terminal_output
    U32Max,         \* UINT32_MAX, where add_u32_saturating stops
    TermCap,        \* bytes of input the pty or the socket holds for the child
    MaxOutput,      \* bound: bytes the child writes
    MaxInput,       \* bound: bytes the client sends
    MaxExtras,      \* bound: requests and signals the client sends
    MaxQueue        \* bound: messages in flight to the server

ASSUME ConstantsAssumption ==
    /\ WindowMax \in Nat \ {0} /\ PeerWindow \in Nat \ {0}
    /\ PeerMaxPacket \in Nat /\ OutBuf \in Nat \ {0}
    /\ U32Max \in Nat /\ PeerWindow <= U32Max
    /\ TermCap \in Nat /\ MaxOutput \in Nat /\ MaxInput \in Nat
    /\ MaxExtras \in Nat /\ MaxQueue \in Nat

VARIABLES
    pc, after, status,   \* step, what follows the exit check, how it ended
    window_size, peer_window_size,
    exit_status_sent, eof_sent, close_sent,
    out_pos,             \* position of the child's output sent to the client
    child,               \* "running", "deaf", "exited" (unreaped) or "reaped"
    produced,            \* bytes the child has written
    unread,              \* input bytes the terminal holds for the child
    is_pty,              \* the child's terminal is a pty, not a socket pair
    write_closed,        \* auxiliary: a write found the child's end closed
    up,                  \* the connection works
    to_server, to_client,
    sent, send_limit,    \* client: input sent, and how far the window allows
    got, recv_limit,     \* client: output received, and how far it has allowed
    client_closed, extras, rogue,
    partial              \* the first bytes of the next message have arrived, not all

serverVars == <<pc, after, status, window_size, peer_window_size,
                exit_status_sent, eof_sent, close_sent, out_pos>>
childVars == <<child, produced, unread, is_pty, write_closed>>
clientVars == <<sent, send_limit, got, recv_limit, client_closed,
                extras, rogue, partial>>
vars == <<serverVars, childVars, up, to_server, to_client, clientVars>>

Requests == {"window-change", "signal", "env", "other"}
\* n is the payload length of a "data" and the increment of an "adjust", at the
\* position of the sender's stream after a "data".
Msg(type, n, at) ==
    [type |-> type, n |-> n, at |-> at, req |-> "other",
     reply |-> FALSE, mine |-> TRUE]

\* The child has exited, reaped or not.
Gone == child \in {"exited", "reaped"}

Min2(a, b) == IF a <= b THEN a ELSE b
AddSaturating(a, b) == Min2(a + b, U32Max)

\* spawn_with_pty or spawn_with_stream has started the child.
Spawned == child = "running" /\ produced = 0 /\ unread = 0 /\ is_pty \in BOOLEAN
           /\ write_closed = FALSE

\* WINDOW_ADJUST messages skipped before the shell request was served reduce
\* what the server believes, not what the client has granted.
Init ==
    /\ pc = "pump" /\ after = "receive" /\ status = "RUNNING"
    /\ window_size = WindowMax /\ peer_window_size \in 0 .. PeerWindow
    /\ exit_status_sent = FALSE /\ eof_sent = FALSE /\ close_sent = FALSE
    /\ out_pos = 0 /\ Spawned
    /\ up = TRUE /\ to_server = <<>> /\ to_client = <<>>
    /\ sent = 0 /\ send_limit = WindowMax
    /\ got = 0 /\ recv_limit = PeerWindow
    /\ client_closed = FALSE /\ extras = 0 /\ rogue = FALSE
    /\ partial = FALSE

-----------------------------------------------------------------------------
(* The server.                                                             *)

\* The session leaves its loop; ssh_server_terminal_channel_deinit calls
\* posix_term_close, which sends SIGTERM unless the child has been reaped.
End(s) == pc' = "closing" /\ status' = s

\* A send whose status is checked: on a broken connection the handler returns it.
Fails == ~up /\ End("PLATFORM") /\ UNCHANGED <<after, to_client>>

Deliver(msgs) == to_client' = to_client \o msgs

\* Faulty variant: the window of the peer does not limit a read.
MaxSendIgnoresWindow ==
    Min2(IF PeerMaxPacket # 0 THEN PeerMaxPacket ELSE OutBuf, OutBuf)
MaxSend ==
    LET w == IF PeerMaxPacket # 0 THEN Min2(peer_window_size, PeerMaxPacket)
             ELSE peer_window_size
    IN Min2(w, OutBuf)

\* One turn of the pump: read what the terminal gives, send it, lower the window.
PumpSend ==
    /\ pc = "pump" /\ peer_window_size # 0
    /\ \E n \in 1 .. Min2(MaxSend, produced - out_pos) :
          \/ /\ up
             /\ Deliver(<<Msg("data", n, out_pos + n)>>)
             /\ out_pos' = out_pos + n
             /\ peer_window_size' = peer_window_size - n
             /\ UNCHANGED <<pc, after, status>>
          \/ Fails /\ UNCHANGED <<out_pos, peer_window_size>>
    /\ UNCHANGED <<window_size, exit_status_sent, eof_sent, close_sent,
                   childVars, up, to_server, clientVars>>

\* The child left input unread in the socket: the read that follows its last
\* output fails with ECONNRESET, which posix_term_read reports as an error.
ReadResets == ~is_pty /\ Gone /\ unread # 0

PumpReset ==
    /\ pc = "pump" /\ peer_window_size # 0
    /\ produced = out_pos /\ ReadResets
    /\ End("PLATFORM")
    /\ UNCHANGED <<after, window_size, peer_window_size, exit_status_sent,
                   eof_sent, close_sent, out_pos, childVars, up,
                   to_server, to_client, clientVars>>

\* The pump stops: no window, or nothing to read.
PumpEnd ==
    /\ pc = "pump"
    /\ peer_window_size = 0 \/ (produced = out_pos /\ ~ReadResets)
    /\ pc' = "exit"
    /\ UNCHANGED <<after, status, window_size, peer_window_size,
                   exit_status_sent, eof_sent, close_sent, out_pos, childVars,
                   up, to_server, to_client, clientVars>>

\* wait_exit says the child still runs: go on to receive, or to the next call.
ExitNotYet ==
    /\ pc = "exit" /\ ~Gone
    /\ \/ after = "receive" /\ pc' = "receive" /\ UNCHANGED after
       \/ after = "loop" /\ pc' = "pump" /\ after' = "receive"
    /\ UNCHANGED <<status, window_size, peer_window_size, exit_status_sent,
                   eof_sent, close_sent, out_pos, childVars, up,
                   to_server, to_client, clientVars>>

\* The child is gone: exit status, EOF and CLOSE go out and the session ends.
\* Faulty variant: no exit status is sent.
CloseWithoutStatus ==
    /\ Deliver(<<Msg("eof", 0, out_pos), Msg("close", 0, out_pos)>>)
    /\ eof_sent' = TRUE /\ close_sent' = TRUE /\ UNCHANGED exit_status_sent
CloseWithStatus ==
    /\ Deliver(<<Msg("exit-status", 0, out_pos), Msg("eof", 0, out_pos),
                 Msg("close", 0, out_pos)>>)
    /\ exit_status_sent' = TRUE /\ eof_sent' = TRUE /\ close_sent' = TRUE

ExitAndClose ==
    /\ pc = "exit" /\ Gone
    /\ child' = "reaped"
    /\ \/ up /\ CloseWithStatus /\ End("OK") /\ UNCHANGED after
       \/ Fails /\ UNCHANGED <<exit_status_sent, eof_sent, close_sent>>
    /\ UNCHANGED <<window_size, peer_window_size, out_pos, produced, unread,
                   is_pty, write_closed, up, to_server, clientVars>>

\* A message for this channel is taken.
Arrives(type) ==
    /\ pc = "receive" /\ to_server # <<>>
    /\ Head(to_server).type = type /\ Head(to_server).mine
    /\ to_server' = Tail(to_server)

\* Pump and exit check once more, then the handler returns to the run loop.
\* Faulty variant: the server waits for the next message at once.
ReceiveAgain == pc' = "receive" /\ UNCHANGED <<after, status>>
PumpAgain == pc' = "pump" /\ after' = "loop" /\ UNCHANGED status

\* The 50 ms poll (EMSSH_TERMINAL_RECV_POLL_MS) found nothing.  It only ends the
\* wait for the first byte: once net_read_exact has one, a timeout makes it read
\* again, for as long as the rest of the message does not come.
ReceiveTimeout ==
    /\ pc = "receive" /\ to_server = <<>> /\ up /\ ~partial
    /\ PumpAgain
    /\ UNCHANGED <<window_size, peer_window_size, exit_status_sent, eof_sent,
                   close_sent, out_pos, childVars, up, to_server, to_client,
                   clientVars>>

\* The peer hung up (SSH_ERR_CLOSED, a normal end) or the read failed.
ReceiveLost ==
    /\ pc = "receive" /\ to_server = <<>> /\ ~up
    /\ End("OK") \/ End("PLATFORM")
    /\ UNCHANGED <<after, window_size, peer_window_size, exit_status_sent,
                   eof_sent, close_sent, out_pos, childVars, up, to_server,
                   to_client, clientVars>>

ReceiveForeign ==
    /\ pc = "receive" /\ to_server # <<>> /\ ~Head(to_server).mine
    /\ to_server' = Tail(to_server)
    /\ End("SECURITY")
    /\ UNCHANGED <<after, window_size, peer_window_size, exit_status_sent,
                   eof_sent, close_sent, out_pos, childVars, up, to_client,
                   clientVars>>

ReceiveWindowAdjust ==
    /\ Arrives("adjust")
    /\ peer_window_size' = AddSaturating(peer_window_size, Head(to_server).n)
    /\ PumpAgain
    /\ UNCHANGED <<window_size, exit_status_sent, eof_sent, close_sent, out_pos,
                   childVars, up, to_client, clientVars>>

\* term->resize needs a pty, term->signal a child, env is always accepted.
RequestOk(r) == (r = "window-change" /\ is_pty) \/ r \in {"signal", "env"}

\* A signal may end the child; the reply, if wanted, is checked.
ReceiveRequest ==
    /\ Arrives("request")
    /\ LET m == Head(to_server)
           ok == RequestOk(m.req)
           reply == <<Msg(IF ok THEN "success" ELSE "failure", 0, out_pos)>>
       IN /\ \/ m.reply /\ up /\ Deliver(reply)
                 /\ (IF ok THEN PumpAgain
                     ELSE pc' = "pump" /\ after' = "receive" /\ UNCHANGED status)
             \/ m.reply /\ Fails
             \/ ~m.reply /\ UNCHANGED to_client
                 /\ (IF ok THEN PumpAgain
                     ELSE pc' = "pump" /\ after' = "receive" /\ UNCHANGED status)
          /\ \/ UNCHANGED child
             \/ m.req = "signal" /\ child = "running" /\ child' = "exited"
    /\ UNCHANGED <<window_size, peer_window_size, exit_status_sent, eof_sent,
                   close_sent, out_pos, produced, unread, is_pty,
                   write_closed, up, clientVars>>

\* The client's EOF is not passed on to the child.
ReceiveEof ==
    /\ Arrives("eof")
    /\ PumpAgain
    /\ UNCHANGED <<window_size, peer_window_size, exit_status_sent, eof_sent,
                   close_sent, out_pos, childVars, up, to_client, clientVars>>

ReceiveClose ==
    /\ Arrives("close")
    /\ \/ close_sent /\ End("OK") /\ UNCHANGED <<after, close_sent, to_client>>
       \/ ~close_sent /\ up
          /\ Deliver(<<Msg("close", 0, out_pos)>>)
          /\ close_sent' = TRUE /\ End("OK") /\ UNCHANGED after
       \/ ~close_sent /\ Fails /\ UNCHANGED close_sent
    /\ UNCHANGED <<window_size, peer_window_size, exit_status_sent, eof_sent,
                   out_pos, childVars, up, clientVars>>

\* maybe_replenish_terminal_receive_window.  Faulty variant: the bytes
\* announced are not added to the window the server keeps.
NotAdded(w) == w
Replenished(w) == IF w > WindowMax \div 2 THEN w ELSE WindowMax
BytesToAdd(w) == IF w > WindowMax \div 2 THEN 0 ELSE WindowMax - w

ReceiveExcessData ==
    /\ Arrives("data") /\ Head(to_server).n > window_size
    /\ End("SECURITY")
    /\ UNCHANGED <<after, window_size, peer_window_size, exit_status_sent,
                   eof_sent, close_sent, out_pos, childVars, up, to_client,
                   clientVars>>

\* posix_term_write takes what fits.
Taken(n) == Min2(n, TermCap - unread)

\* What a child that runs does not take is dropped
\* although the window has been given back.  To one that is gone it fails, with
\* EPIPE (SSH_ERR_CLOSED, which the run loop takes for a normal end) on a
\* socket; a pty may still take the bytes or report EIO.
ReceiveData ==
    /\ Arrives("data") /\ Head(to_server).n <= window_size
    /\ LET n == Head(to_server).n
           left == window_size - n
           add == BytesToAdd(left)
       IN \/ /\ add = 0 \/ up
             /\ Deliver(IF add = 0 THEN <<>> ELSE <<Msg("adjust", add, out_pos)>>)
             /\ window_size' = Replenished(left)
             /\ \/ /\ ~Gone \/ is_pty
                   /\ unread' = unread + Taken(n)
                   /\ PumpAgain /\ UNCHANGED write_closed
                \/ /\ Gone
                   /\ End(IF is_pty THEN "PLATFORM" ELSE "OK")
                   /\ write_closed' = ~is_pty
                   /\ UNCHANGED <<after, unread>>
          \/ /\ add # 0 /\ Fails
             /\ window_size' = left /\ UNCHANGED <<unread, write_closed>>
    /\ UNCHANGED <<peer_window_size, exit_status_sent, eof_sent, close_sent,
                   out_pos, child, produced, is_pty, up, clientVars>>

\* posix_term_close: SIGTERM to a child not reaped, which may ignore it, then a
\* waitpid without limit.  Faulty variant: only the pty's close ends the child.
KillPty ==
    /\ pc = "closing" /\ child = "running" /\ is_pty
    /\ child' \in {"exited", "deaf"}
    /\ UNCHANGED <<serverVars, produced, unread, is_pty, write_closed, up,
                   to_server, to_client, clientVars>>
Kill ==
    /\ pc = "closing" /\ child = "running"
    /\ child' \in {"exited", "deaf"}
    /\ UNCHANGED <<serverVars, produced, unread, is_pty, write_closed, up,
                   to_server, to_client, clientVars>>

WaitClosed ==
    /\ pc = "closing" /\ Gone
    /\ pc' = "ended" /\ child' = "reaped"
    /\ UNCHANGED <<after, status, window_size, peer_window_size,
                   exit_status_sent, eof_sent, close_sent, out_pos, produced,
                   unread, is_pty, write_closed, up, to_server, to_client,
                   clientVars>>

Server ==
    \/ PumpSend \/ PumpReset \/ PumpEnd \/ ExitNotYet \/ ExitAndClose
    \/ ReceiveTimeout \/ ReceiveLost \/ ReceiveForeign \/ ReceiveWindowAdjust
    \/ ReceiveRequest \/ ReceiveEof \/ ReceiveClose
    \/ ReceiveExcessData \/ ReceiveData \/ Kill \/ WaitClosed

-----------------------------------------------------------------------------
(* The child, the client and the network.                                  *)

ChildWrites ==
    /\ child = "running" /\ produced < MaxOutput
    /\ produced' = produced + 1
    /\ UNCHANGED <<serverVars, child, unread, is_pty, write_closed, up,
                   to_server, to_client, clientVars>>

ChildReads ==
    /\ child = "running" /\ unread > 0
    /\ unread' = unread - 1
    /\ UNCHANGED <<serverVars, child, produced, is_pty, write_closed, up,
                   to_server, to_client, clientVars>>

ChildExits ==
    /\ ~Gone
    /\ child' = "exited"
    /\ UNCHANGED <<serverVars, produced, unread, is_pty, write_closed, up,
                   to_server, to_client, clientVars>>

\* After the run loop nothing is received any more.
Listening == pc \notin {"closing", "ended"}

\* A message has arrived whole.
ClientPuts(m) ==
    /\ Listening /\ up /\ ~client_closed /\ Len(to_server) < MaxQueue
    /\ to_server' = Append(to_server, m)
    /\ partial' = FALSE

\* The first bytes of a message arrive before the others; nothing says that the
\* others follow.
ClientBegins ==
    /\ Listening /\ up /\ ~client_closed /\ ~partial
    /\ partial' = TRUE
    /\ UNCHANGED <<serverVars, childVars, up, to_server, to_client, sent,
                   send_limit, got, recv_limit, client_closed, extras, rogue>>

\* The client keeps to the server's window, or breaks the protocol.
ClientSendsData ==
    /\ \E n \in 1 .. MaxInput - sent :
          /\ ClientPuts(Msg("data", n, sent + n))
          /\ sent' = sent + n
          /\ rogue' = (rogue \/ sent + n > send_limit)
    /\ UNCHANGED <<serverVars, childVars, up, to_client, send_limit, got,
                   recv_limit, client_closed, extras>>

ClientSendsExtra ==
    /\ extras < MaxExtras /\ extras' = extras + 1
    /\ \/ \E r \in Requests, w \in BOOLEAN :
             /\ ClientPuts([Msg("request", 0, sent) EXCEPT !.req = r, !.reply = w])
             /\ UNCHANGED rogue
       \/ ClientPuts(Msg("eof", 0, sent)) /\ UNCHANGED rogue
       \/ /\ ClientPuts([Msg("data", 0, sent) EXCEPT !.mine = FALSE])
          /\ rogue' = TRUE
    /\ UNCHANGED <<serverVars, childVars, up, to_client, sent, send_limit, got,
                   recv_limit, client_closed>>

\* The client gives back what it has received.
ClientAdjusts ==
    /\ recv_limit < got + PeerWindow
    /\ LET n == got + PeerWindow - recv_limit
       IN ClientPuts(Msg("adjust", n, sent)) /\ recv_limit' = recv_limit + n
    /\ UNCHANGED <<serverVars, childVars, up, to_client, sent, send_limit, got,
                   client_closed, extras, rogue>>

ClientCloses ==
    /\ ClientPuts(Msg("close", 0, sent))
    /\ client_closed' = TRUE
    /\ UNCHANGED <<serverVars, childVars, up, to_client, sent, send_limit, got,
                   recv_limit, extras, rogue>>

ClientReceives ==
    /\ Listening /\ to_client # <<>>
    /\ LET m == Head(to_client)
       IN /\ got' = IF m.type = "data" THEN m.at ELSE got
          /\ send_limit' = IF m.type = "adjust" THEN send_limit + m.n
                           ELSE send_limit
    /\ to_client' = Tail(to_client)
    /\ UNCHANGED <<serverVars, childVars, up, to_server, sent, recv_limit,
                   client_closed, extras, rogue, partial>>

ConnectionLost ==
    /\ Listening /\ up /\ up' = FALSE
    /\ UNCHANGED <<serverVars, childVars, to_server, to_client, clientVars>>

Environment ==
    \/ ChildWrites \/ ChildReads \/ ChildExits
    \/ ClientSendsData \/ ClientSendsExtra \/ ClientAdjusts \/ ClientCloses
    \/ ClientBegins \/ ClientReceives \/ ConnectionLost

Next == Server \/ Environment
Spec == Init /\ [][Next]_vars

(***************************************************************************)
(* The server thread runs on whenever it does not wait for the rest of a   *)
(* message.  Nothing is asked of the client, the child or the network.     *)
(***************************************************************************)
FairSpec == Spec /\ WF_vars(Server)

-----------------------------------------------------------------------------
(* Properties.                                                             *)

\* A client that keeps to its window and names its channel is never thrown out:
\* the window the server keeps and the window it announces stay in step.
HonestNotRejected == status = "SECURITY" => rogue

\* A session that ends normally without the client's CLOSE or a lost connection
\* has reported the exit status, unless the write of its last input found the
\* socket of a child that was gone (SSH_ERR_CLOSED, which ends the run loop
\* before the exit is looked at); that never happens on a pty.
ExitReported ==
    /\ status = "OK" /\ up /\ ~client_closed => exit_status_sent \/ write_closed
    /\ write_closed => ~is_pty /\ Gone

\* The output of the terminal is a stream with flow control: nothing is sent
\* beyond what the child wrote or the client allowed, nothing after CLOSE.
Output == INSTANCE Stream WITH
              delivered <- out_pos, granted <- recv_limit, closed <- close_sent
OutputIsStream == Output!Spec

\* The server is held in the middle of a message of a client that stays connected.
Stalled == partial /\ up

\* A child that has exited is noticed and the session comes to its end, unless
\* the client leaves a message half sent for ever.
ExitNoticed == []<>~Stalled => (Gone ~> pc = "ended")

\* Closing the terminal ends, unless the child ignores SIGTERM.
CloseEnds == pc = "closing" ~> (pc = "ended" \/ child = "deaf")
=============================================================================
