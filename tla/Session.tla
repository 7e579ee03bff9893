------------------------------- MODULE Session -------------------------------
(***************************************************************************)
(* A session from the protected transport to a running channel: the loops  *)
(* of ssh_server_run_userauth, of the channel open and of the channel      *)
(* requests, for the three entry points ssh_server_run_sftp_session,       *)
(* ssh_server_run_terminal_session and ssh_server_run_auto_session         *)
(* (src/src/core/ssh_server.c), with the decision of                       *)
(* src/src/core/ssh_userauth.c and the password check of                   *)
(* src/src/platform/posix_passwd_auth.c.                                   *)
(*                                                                         *)
(* The server blocks in one receive at a time, so a step is: one message   *)
(* (or a timeout, or a broken connection) and all the server does with it. *)
(* The client is free to send anything.  Modules SftpChannel and           *)
(* TerminalChannel say what happens in pc = "sftp" and pc = "terminal";    *)
(* here those stages only give the status their handler returns.           *)
(***************************************************************************)
EXTENDS Integers

CONSTANTS
    Users, Root,       \* user names as C strings, and the one that is "root"
    Views,             \* user names as a request carries them: counted bytes
    CString,           \* what a view is once it is read as a C string
    Configs,           \* configurations of the server: a subset of Config
    MaxAuthTries,      \* config.max_auth_tries
    MaxGlobal,         \* 8 in ssh_transport_receive_channel_open_skip_global_requests
    MaxSkip,           \* 16 in ssh_transport_receive_channel_request
    MaxAttempts,       \* 16 requests in the automatic choice and for a terminal
    MaxSftpAttempts,   \* 8 requests for an SFTP channel
    MaxPackets         \* options->max_sftp_packets, 0 for no limit

\* root is permit_root_login with its default resolved, allow the views that
\* AllowUsers matches.  A field of the passwd or shadow file is absent, one of the
\* marks x * ! !!, or a hash.
Fields == {"absent", "mark", "hash"}
Config == [run : {"auto", "sftp", "terminal"}, fs : BOOLEAN, term : BOOLEAN,
           root : {"yes", "no", "prohibit-password"}, allow : SUBSET Views,
           password : BOOLEAN, publickey : BOOLEAN,
           passwd : [Users -> Fields], shadow : [Users -> Fields]]

ASSUME ConstantsAssumption ==
    /\ Root \in Users /\ Configs \subseteq Config /\ Configs # {}
    /\ Users \subseteq Views /\ CString \in [Views -> Users]
    /\ \A u \in Users : CString[u] = u
    /\ MaxAuthTries \in Nat /\ MaxPackets \in Nat
    /\ MaxGlobal \in Nat \ {0} /\ MaxSkip \in Nat \ {0}
    /\ MaxAttempts \in Nat \ {0} /\ MaxSftpAttempts \in Nat \ {0}

VARIABLES
    config,        \* server->config and the platform's tables
    pc, status,    \* stage, and how the session function returned
    tries,         \* failed authentication requests
    decision,      \* of the last authentication request
    probe,         \* auxiliary: parity of the authentication requests
    user,          \* authenticated_username
    proof,         \* auxiliary: the request that authenticated the user
    skipped,       \* messages skipped by the receive that is going on
    attempts,      \* turns of the loop over channel requests
    request,       \* the last request decoded wants a refusal, if none is served
    last_data,     \* the last message received was CHANNEL_(EXTENDED_)DATA
    handle,        \* what the channel holds: "none", "sftp", "process", "closed"
    pty_requested,
    owed,          \* auxiliary: replies the client is due, minus replies sent
    odd,           \* auxiliary: a turn was taken up without a new request
    processed,     \* calls of the channel's handler that returned SSH_OK
    up,            \* the connection works
    partial        \* the bytes of a message have begun to come, not all are there

authVars == <<tries, decision, probe, user, proof>>
requestVars == <<skipped, attempts, request, last_data>>
channelVars == <<handle, pty_requested, owed, odd, processed>>
vars == <<config, pc, status, authVars, requestVars, channelVars, up, partial>>

AcceptPCs == {"choose", "sftp_accept", "term_accept"}
RunningPCs == {"sftp", "terminal"}

Methods == {"none", "password", "publickey", "other"}
\* right: the password or the key is one the account accepts.
AuthFields == [user : Views, method : Methods, change : BOOLEAN,
               sig : {"none", "good", "bad", "unsupported"}, right : BOOLEAN]
AuthRequest ==
    {r \in AuthFields :
        /\ r.method # "password" => ~r.change
        /\ r.method # "publickey" => r.sig = "none"
        /\ r.method \in {"none", "other"} => ~r.right}
NoProof == [user |-> Root, method |-> "none", change |-> FALSE,
            sig |-> "none", right |-> FALSE]

TerminalTypes == {"pty-req", "shell", "exec", "env", "window-change", "signal"}
RequestTypes == TerminalTypes \cup {"sftp", "subsystem", "putty", "unknown"}
\* ok: the fields of the type decode; fits: the strings fit their buffers.
RequestFields == [type : RequestTypes, reply : BOOLEAN, ok : BOOLEAN,
                  fits : BOOLEAN, mine : BOOLEAN]
ChannelRequest ==
    {r \in RequestFields :
        /\ r.type \in {"putty", "unknown"} => r.ok
        /\ r.type \notin {"pty-req", "exec"} => r.fits}

Init ==
    /\ config \in Configs
    /\ pc = "service" /\ status = "RUNNING"
    /\ tries = 0 /\ decision = "none" /\ probe = 0
    /\ user = "" /\ proof = NoProof
    /\ skipped = 0 /\ attempts = 0 /\ request = FALSE /\ last_data = FALSE
    /\ handle = "none" /\ pty_requested = FALSE
    /\ owed = 0 /\ odd = FALSE /\ processed = 0 /\ up = TRUE /\ partial = FALSE

\* The session function returns s: the channel is taken down first.
Deinit == handle' = IF handle \in {"sftp", "process"} THEN "closed" ELSE handle

Return(s) == pc' = "ended" /\ status' = s

-----------------------------------------------------------------------------
(* Service request and user authentication.                                *)

ReceiveServiceRequest(userauth) ==
    /\ pc = "service"
    /\ \/ /\ userauth /\ up
          /\ \/ MaxAuthTries > 0 /\ pc' = "userauth" /\ UNCHANGED status
             \/ MaxAuthTries = 0 /\ Return("SECURITY")
       \/ ~userauth /\ Return("UNSUPPORTED")
       \/ userauth /\ ~up /\ Return("PLATFORM")
    /\ UNCHANGED <<config, authVars, requestVars, channelVars, up>>

\* posix_passwd_auth_cb copies the name and looks for the copy as a C string.  A
\* mark in the passwd file sends the search to the shadow file; only a hash can be
\* matched.
Field(u) == IF config.passwd[u] = "mark" THEN config.shadow[u]
            ELSE config.passwd[u]
HashMatches(r) == Field(CString[r.user]) = "hash" /\ r.right
PasswordOk(r) == config.password /\ HashMatches(r)

\* request_allowed_by_server_policy compares the counted view.  Faulty variant: PermitRootLogin is only
\* consulted for the value "no".
AllowedButNo(r) == r.user \in config.allow /\ (r.user = Root => config.root # "no")
Allowed(r) ==
    /\ r.user \in config.allow
    /\ r.user = Root =>
         \/ config.root = "yes"
         \/ config.root = "prohibit-password" /\ r.method # "password"

KeyAcceptable(r) == config.publickey /\ Allowed(r) /\ r.right
SignatureAccepted(r) == KeyAcceptable(r) /\ r.sig = "good"

\* ssh_userauth_evaluate_request; "error" ends the session.
Decision(r) ==
    CASE r.method = "password" ->
           IF r.change THEN "error"
           ELSE IF PasswordOk(r) /\ Allowed(r) THEN "SUCCESS" ELSE "FAILURE"
      [] r.method = "publickey" /\ r.sig # "none" ->
           IF SignatureAccepted(r) THEN "SUCCESS" ELSE "FAILURE"
      [] r.method = "publickey" /\ r.sig = "none" ->
           IF KeyAcceptable(r) THEN "PK_OK" ELSE "FAILURE"
      [] OTHER -> "FAILURE"

\* Faulty variant: a failed request that names a key does not count.
TriesExceptKeys(r) == IF r.method = "publickey" THEN tries ELSE tries + 1
TriesAfter(r) == tries + 1

\* tries is a local of the function: it is dropped with its success.
\* The reply is sent last and its status checked, so a broken connection ends the
\* session; the name has been stored by then, by view_to_cstring: what is read
\* of it later is the C string.
ReceiveUserauthRequest(r) ==
    /\ pc = "userauth"
    /\ decision' = Decision(r) /\ probe' = 1 - probe
    /\ \/ /\ decision' = "error" /\ Return("INVALID_ARGUMENT")
          /\ UNCHANGED <<tries, user, proof>>
       \/ /\ decision' = "SUCCESS"
          /\ user' = CString[r.user] /\ proof' = r /\ tries' = 0
          /\ IF up THEN pc' = "open" /\ UNCHANGED status ELSE Return("PLATFORM")
       \/ /\ decision' = "PK_OK"
          /\ IF up THEN UNCHANGED <<pc, status>> ELSE Return("PLATFORM")
          /\ UNCHANGED <<tries, user, proof>>
       \/ /\ decision' = "FAILURE" /\ tries' = TriesAfter(r)
          /\ IF ~up THEN Return("PLATFORM")
             ELSE IF tries' < MaxAuthTries THEN UNCHANGED <<pc, status>>
             ELSE Return("SECURITY")
          /\ UNCHANGED <<user, proof>>
    /\ UNCHANGED <<config, requestVars, channelVars, up>>

-----------------------------------------------------------------------------
(* The channel is opened.                                                  *)

\* ssh_server_accept_sftp_channel wants a file system before it reads the open.
OpenStage == pc = "open" /\ (config.run = "sftp" => config.fs)

NoFileSystem ==
    /\ pc = "open" /\ ~OpenStage
    /\ Return("PLATFORM")
    /\ UNCHANGED <<config, authVars, requestVars, channelVars, up>>

\* A global request is refused if it wants a reply, and skipped.
ReceiveGlobalRequest(reply) ==
    /\ OpenStage
    /\ \/ /\ reply => up
          /\ IF skipped + 1 < MaxGlobal
             THEN skipped' = skipped + 1 /\ UNCHANGED <<pc, status>>
             ELSE Return("UNSUPPORTED") /\ UNCHANGED skipped
       \/ reply /\ ~up /\ Return("PLATFORM") /\ UNCHANGED skipped
    /\ UNCHANGED <<config, authVars, attempts, request, last_data,
                   channelVars, up>>

\* The stage that follows the confirmation depends on the session function.
AfterOpen ==
    CASE config.run = "auto" -> "choose"
      [] config.run = "sftp" -> "sftp_accept"
      [] config.run = "terminal" -> "term_accept"

ReceiveChannelOpen(is_session) ==
    /\ OpenStage
    /\ \/ ~is_session /\ Return("UNSUPPORTED")
       \/ is_session /\ ~up /\ Return("PLATFORM")
       \/ /\ is_session /\ up /\ config.run = "terminal" /\ ~config.term
          /\ Return("UNSUPPORTED")
       \/ /\ is_session /\ up /\ (config.run = "terminal" => config.term)
          /\ pc' = AfterOpen /\ UNCHANGED status
    /\ skipped' = 0
    /\ UNCHANGED <<config, authVars, attempts, request, last_data,
                   channelVars, up>>

-----------------------------------------------------------------------------
(* Channel requests before the channel runs.                               *)

Limit == IF pc = "sftp_accept" THEN MaxSftpAttempts ELSE MaxAttempts

\* The loop goes into its next turn, n turns after the one it is in.
Turn(from) ==
    IF from + 1 < Limit THEN attempts' = from + 1 /\ UNCHANGED status
    ELSE attempts' = from + 1 /\ status' = "UNSUPPORTED"

\* should_reply_failure_for_non_sftp_request: PuTTY's extensions get no reply.
WantsRefusal(r) == r.reply /\ r.type # "putty"
Due(r) == IF WantsRefusal(r) THEN 1 ELSE 0

\* The rest of a turn that serves nothing.  wanted says whether the request it looks
\* at wants a refusal, new is 1 if that request has just come and is due a reply.
\* The status of the send is discarded.
Refuse(wanted, new) ==
    /\ owed' = owed + new - (IF wanted /\ up THEN 1 ELSE 0)
    /\ Turn(attempts)
    /\ pc' = IF attempts + 1 < Limit THEN pc ELSE "ended"
    /\ skipped' = 0
    /\ IF attempts + 1 < Limit THEN UNCHANGED handle ELSE Deinit
    /\ UNCHANGED <<pty_requested, processed>>

\* The turn has no new request and looks at the one of the turn before.
RefuseStale == Refuse(request, 0) /\ odd' = TRUE
RefuseNew(r) == Refuse(WantsRefusal(r), Due(r)) /\ UNCHANGED odd

\* A message that is neither a request nor an end is skipped.  After MaxSkip of
\* them the receive gives SSH_ERR_UNSUPPORTED, and the turn looks at the request
\* of an earlier turn once more.
Skips == skipped + 1

ReceiveSkipped(data) ==
    /\ pc \in AcceptPCs
    /\ last_data' = data
    /\ \/ /\ Skips < MaxSkip /\ skipped' = Skips
          /\ UNCHANGED <<pc, status, attempts, channelVars>>
       \/ Skips = MaxSkip /\ RefuseStale
    /\ UNCHANGED <<config, authVars, request, up>>

\* A global request or a second CHANNEL_OPEN is refused with a checked send.
ReceiveRefused ==
    /\ pc \in AcceptPCs
    /\ last_data' = FALSE
    /\ \/ /\ ~up /\ Return("PLATFORM") /\ Deinit
          /\ UNCHANGED <<skipped, attempts, pty_requested, owed, odd, processed>>
       \/ /\ up /\ Skips < MaxSkip /\ skipped' = Skips
          /\ UNCHANGED <<pc, status, attempts, channelVars>>
       \/ up /\ Skips = MaxSkip /\ RefuseStale
    /\ UNCHANGED <<config, authVars, request, up>>

\* A message type no branch knows.
ReceiveUnknownMessage ==
    /\ pc \in AcceptPCs
    /\ last_data' = FALSE
    /\ RefuseStale
    /\ UNCHANGED <<config, authVars, request, up>>

\* A packet that does not decode: tolerated once the last message was data.
ReceiveMalformed ==
    /\ pc \in AcceptPCs
    /\ \/ /\ last_data /\ Turn(attempts)
          /\ pc' = IF attempts + 1 < Limit THEN pc ELSE "ended"
          /\ IF attempts + 1 < Limit THEN UNCHANGED handle ELSE Deinit
       \/ ~last_data /\ Return("MALFORMED_PACKET") /\ Deinit /\ UNCHANGED attempts
    /\ skipped' = 0
    /\ UNCHANGED <<config, authVars, request, last_data, pty_requested, owed,
                   odd, processed, up>>

Decodes(r) == r.ok /\ r.type \notin {"putty", "unknown"}

\* The session ends on request r, with or without the reply it asked for.
ReturnOn(r, s, answered) ==
    /\ Return(s) /\ Deinit
    /\ owed' = owed + Due(r) - (IF answered THEN 1 ELSE 0)
    /\ UNCHANGED <<skipped, attempts, pty_requested, odd, processed>>

\* A request the loop serves is answered with a checked CHANNEL_SUCCESS and the
\* loop goes on.  from is the turn it is in.
Grant(r, from) ==
    \/ /\ r.reply /\ ~up /\ ReturnOn(r, "PLATFORM", FALSE)
    \/ /\ r.reply => up
       /\ skipped' = 0 /\ Turn(from)
       /\ pc' = IF from + 1 < MaxAttempts THEN "term_accept" ELSE "ended"
       /\ IF from + 1 < MaxAttempts THEN UNCHANGED handle ELSE Deinit
       /\ pty_requested' = (pty_requested \/ r.type = "pty-req")
       /\ UNCHANGED <<owed, odd, processed>>

\* The channel runs once its success has been sent.  A failed send returns with
\* the process already started; initialized is set by then, so the channel is
\* taken down.  Faulty variant: initialized is set last, as for SFTP.
StartUninitialised(r, stage, h) ==
    /\ IF r.reply /\ ~up
       THEN Return("PLATFORM") /\ owed' = owed + Due(r) /\ handle' = h
       ELSE pc' = stage /\ handle' = h /\ UNCHANGED <<status, owed>>
    /\ UNCHANGED <<skipped, attempts, pty_requested, odd, processed>>
Start(r, stage, h) ==
    /\ IF r.reply /\ ~up
       THEN Return("PLATFORM") /\ owed' = owed + Due(r)
            /\ handle' = IF h = "process" THEN "closed" ELSE "none"
       ELSE pc' = stage /\ handle' = h /\ UNCHANGED <<status, owed>>
    /\ UNCHANGED <<skipped, attempts, pty_requested, odd, processed>>

\* One request inside the loop of terminal_accept_after_open, in turn from.
\* Faulty variant: a shell that cannot be spawned leaves its request unanswered.
SpawnFailsSilently(r, from) ==
    /\ owed' = owed + Due(r) /\ skipped' = 0 /\ Turn(from)
    /\ pc' = IF from + 1 < MaxAttempts THEN "term_accept" ELSE "ended"
    /\ IF from + 1 < MaxAttempts THEN UNCHANGED handle ELSE Deinit
    /\ UNCHANGED <<pty_requested, odd, processed>>
SpawnFails(r, from) ==
    /\ owed' = owed + Due(r) - (IF r.reply /\ up THEN 1 ELSE 0)
    /\ skipped' = 0 /\ Turn(from)
    /\ pc' = IF from + 1 < MaxAttempts THEN "term_accept" ELSE "ended"
    /\ IF from + 1 < MaxAttempts THEN UNCHANGED handle ELSE Deinit
    /\ UNCHANGED <<pty_requested, odd, processed>>

TerminalRequest(r, from) ==
    \/ r.type = "pty-req" /\ ~r.fits /\ ReturnOn(r, "BUFFER_TOO_SMALL", FALSE)
    \/ r.type = "pty-req" /\ r.fits /\ Grant(r, from)
    \/ r.type \in {"env", "window-change", "signal"} /\ Grant(r, from)
    \/ r.type \in {"shell", "exec"} /\ SpawnFails(r, from)
    \/ /\ r.type = "shell" \/ (r.type = "exec" /\ r.fits)
       /\ Start(r, "terminal", "process")

ReceiveChannelRequest(r) ==
    /\ pc \in AcceptPCs
    /\ request' = WantsRefusal(r) /\ last_data' = FALSE
    /\ \/ r.type \in {"sftp", "subsystem"} /\ ~r.ok
          /\ ReturnOn(r, "MALFORMED_PACKET", FALSE)
       \/ r.type \notin {"sftp", "subsystem"} /\ ~Decodes(r) /\ RefuseNew(r)
       \/ Decodes(r) /\ ~r.mine /\ ReturnOn(r, "SECURITY", FALSE)
       \/ /\ Decodes(r) /\ r.mine
          /\ \/ pc = "choose" /\ r.type = "sftp" /\ ~config.fs
                /\ ReturnOn(r, "PLATFORM", FALSE)
             \/ r.type = "sftp" /\ pc # "term_accept" /\ config.fs
                /\ Start(r, "sftp", "sftp")
             \/ pc = "choose" /\ r.type \in TerminalTypes /\ ~config.term
                /\ ReturnOn(r, "UNSUPPORTED", FALSE)
             \/ pc = "choose" /\ r.type \in TerminalTypes /\ config.term
                /\ TerminalRequest(r, 0)
             \/ pc = "term_accept" /\ r.type \in TerminalTypes
                /\ TerminalRequest(r, attempts)
             \/ /\ \/ r.type = "subsystem"
                   \/ pc = "sftp_accept" /\ r.type \in TerminalTypes
                   \/ pc = "term_accept" /\ r.type = "sftp"
                /\ RefuseNew(r)
    /\ UNCHANGED <<config, authVars, up>>

\* CHANNEL_EOF or CHANNEL_CLOSE.
ReceiveEnd ==
    /\ pc \in AcceptPCs
    /\ Return("CLOSED") /\ Deinit /\ last_data' = FALSE
    /\ UNCHANGED <<config, authVars, skipped, attempts, request, pty_requested,
                   owed, odd, processed, up>>

-----------------------------------------------------------------------------
(* The running channel, failures, and the specification.                   *)

\* One call of the channel's handler by the run loop.  SSH_ERR_NOT_FOUND only
\* calls it again.
Process(s) ==
    /\ pc \in RunningPCs
    /\ \/ /\ s = "OK"
          /\ processed' = IF MaxPackets = 0 THEN 0 ELSE processed + 1
          /\ IF MaxPackets # 0 /\ processed + 1 = MaxPackets
             THEN Return("OK") /\ Deinit
             ELSE UNCHANGED <<pc, status, handle>>
       \/ s = "CLOSED" /\ Return("OK") /\ Deinit /\ UNCHANGED processed
       \/ s = "PLATFORM" /\ Return(s) /\ Deinit /\ UNCHANGED processed
    /\ UNCHANGED <<config, authVars, requestVars, pty_requested, owed, odd, up>>

\* The receive the server waits in gives up: timeout, end of the connection, or
\* a packet that cannot be used.  net_read_exact only gives up on a timeout before
\* the first byte of a message.
ReceiveFails(s) ==
    /\ pc \in {"service", "userauth", "open"} \cup AcceptPCs
    /\ s \in {"NOT_FOUND", "MALFORMED_PACKET"} \/ ~up
    /\ s = "NOT_FOUND" => ~partial
    /\ s = "MALFORMED_PACKET" => pc \notin AcceptPCs
    /\ Return(s) /\ Deinit
    /\ UNCHANGED <<config, authVars, requestVars, pty_requested, owed, odd,
                   processed, up>>

\* The first bytes of a message arrive: the receive waits for the rest of it.
MessageBegins ==
    /\ pc # "ended" /\ up /\ ~partial /\ partial' = TRUE
    /\ UNCHANGED <<config, pc, status, authVars, requestVars, channelVars, up>>

ConnectionLost ==
    /\ pc # "ended" /\ up /\ up' = FALSE
    /\ UNCHANGED <<config, pc, status, authVars, requestVars, channelVars, partial>>

\* What the server does with the whole of a message, or without one.
Handles ==
    \/ \E b \in BOOLEAN : \/ ReceiveServiceRequest(b) \/ ReceiveGlobalRequest(b)
                          \/ ReceiveChannelOpen(b) \/ ReceiveSkipped(b)
    \/ \E r \in AuthRequest : ReceiveUserauthRequest(r)
    \/ \E r \in ChannelRequest : ReceiveChannelRequest(r)
    \/ NoFileSystem \/ ReceiveRefused \/ ReceiveUnknownMessage
    \/ ReceiveMalformed \/ ReceiveEnd
    \/ \E s \in {"OK", "CLOSED", "PLATFORM"} : Process(s)
    \/ \E s \in {"NOT_FOUND", "MALFORMED_PACKET", "CLOSED"} : ReceiveFails(s)

Served == Handles /\ partial' = FALSE

Next == Served \/ MessageBegins \/ ConnectionLost

Spec == Init /\ [][Next]_vars

\* The server is held in the middle of a message the client does not complete.
Held == partial /\ up

\* A receive gives up after its timeout, but not in the middle of a message.
FairSpec == Spec /\ WF_vars(~Held /\ Served)

-----------------------------------------------------------------------------
(* Properties.                                                             *)

\* A channel is only opened for a user who gave a right password or signed with a
\* right key: never after a mere key probe, never for a name AllowUsers leaves out,
\* never from a locked password field, for root only as PermitRootLogin says.  The
\* user of the session is the C string of the name that was checked; the rules of
\* AllowUsers and PermitRootLogin look at the counted name, so the last two lines
\* speak of a request that names root itself, and of no other view that reads root.
OnlyProvenUsers ==
    pc \in {"open"} \cup AcceptPCs \cup RunningPCs =>
        /\ user = CString[proof.user] /\ proof.user \in config.allow /\ proof.right
        /\ \/ proof.method = "publickey" /\ proof.sig = "good"
           \/ proof.method = "password" /\ ~proof.change
              /\ "hash" \in {config.passwd[user], config.shadow[user]}
        /\ proof.user = Root => config.root # "no"
        /\ proof.user = Root /\ proof.method = "password" => config.root = "yes"

\* Until the channel runs each request that wants a reply gets exactly one (the
\* extensions of PuTTY none), whatever other messages come between.  Only a turn
\* taken up without a new request may repeat a refusal: the loop looks at the
\* request of the turn before.
OneReplyEach ==
    pc \in AcceptPCs \cup RunningPCs /\ up => owed = 0 \/ (odd /\ owed < 0)

\* A session that has returned holds neither a process nor an SFTP session, also
\* when the reply to the request that started it could not be sent.
NothingLeft == pc = "ended" => handle \in {"none", "closed"}

\* There are two ways to stay in authentication for ever: an endless row of key
\* probes, since a request answered with PK_OK does not count as a try, and a message
\* the client begins and never completes, since max_auth_tries and the timeout both
\* act between messages only.
StuckOnlyByProbes ==
    <>[](pc = "userauth") => []<>(decision = "PK_OK") \/ <>[]Held
=============================================================================
