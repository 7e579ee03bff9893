--------------------------- MODULE EmtaskSession ---------------------------
(***************************************************************************)
(* The sessions of one task of emtask over EmtaskTerm: the worker threads  *)
(* and the session manager that gives the terminal to the newest session   *)
(* (emtask_session_manager_takeover).  Module EmtaskPanel has the listener *)
(* and the worker pool.  A worker is at                                    *)
(*                                                                         *)
(*   "idle"      no connection                                             *)
(*   "auth"      transport setup and user authentication                   *)
(*   "sftp"      running an SFTP channel                                   *)
(*   "waiting"   in the emtask_cond_wait of a takeover                     *)
(*   "accept"    waiting for the shell request                             *)
(*   "reply"     attached, CHANNEL_SUCCESS not yet sent                    *)
(*   "run"       in the loop over the terminal channel                     *)
(*   "deinit"    at ssh_server_terminal_channel_deinit                     *)
(*   "release"   at emtask_session_manager_release, with the end of        *)
(*               emtask_worker_thread_main behind it                       *)
(***************************************************************************)
EXTENDS EmtaskTerm

CONSTANTS
    Workers,        \* bound: connections at one time
    SftpWorkers,    \* those whose client may ask for SFTP (none without use_sftp)
    NoWorker

ASSUME SessionAssumption ==
    SftpWorkers \subseteq Workers /\ NoWorker \notin Workers

VARIABLES
    pc,
    up,               \* up[w]: neither the client nor a takeover has ended it
    active_worker,    \* of the session manager
    leaked,           \* auxiliary: an attachment nobody will close
    stalled           \* workers whose client has begun a message and not ended it

sessionVars == <<pc, up, active_worker, leaked>>
vars == <<termVars, sessionVars, stalled>>

Init ==
    /\ TermInit
    /\ pc = [w \in Workers |-> "idle"]
    /\ up = [w \in Workers |-> FALSE]
    /\ active_worker = NoWorker /\ leaked = FALSE
    /\ stalled = {}

Go(w, next) == pc' = [pc EXCEPT ![w] = next]

-----------------------------------------------------------------------------
(* One worker: emtask_run_worker_session.                                  *)

\* A connection; the worker's stage before the channel is in module Session.
Accept(w) ==
    /\ pc[w] = "idle"
    /\ Go(w, "auth") /\ up' = [up EXCEPT ![w] = TRUE]
    /\ UNCHANGED <<termVars, active_worker, leaked>>

\* Authenticated, for an SFTP channel.
OpensSftp(w) ==
    /\ pc[w] = "auth" /\ up[w] /\ w \in SftpWorkers
    /\ Go(w, "sftp")
    /\ UNCHANGED <<termVars, up, active_worker, leaked>>

\* Setup or authentication fails or times out, the SFTP channel ends, no shell
\* request comes: no terminal channel was initialised.
EndsEarly(w) ==
    /\ pc[w] \in {"auth", "accept"} \/ (pc[w] = "sftp" /\ ~up[w])
    /\ Go(w, "release")
    /\ UNCHANGED <<termVars, up, active_worker, leaked>>

\* Authenticated, for a terminal: emtask_session_manager_takeover disconnects the
\* previous session and waits for it.  Faulty variant: it does not wait.
TakeoverAtOnce(w) ==
    /\ pc[w] = "auth" /\ up[w]
    /\ Go(w, "accept") /\ active_worker' = w
    /\ UNCHANGED <<termVars, up, leaked>>
Takeover(w) ==
    /\ pc[w] = "auth" /\ up[w]
    /\ \/ /\ active_worker = NoWorker
          /\ Go(w, "accept") /\ active_worker' = w /\ UNCHANGED up
       \/ /\ active_worker # NoWorker
          /\ up' = [up EXCEPT ![active_worker] = FALSE]
          /\ Go(w, "waiting") /\ UNCHANGED active_worker
    /\ UNCHANGED <<termVars, leaked>>

\* The condition of the wait is active_worker alone: a worker that finds another in
\* possession waits on and disconnects nobody.
Woken(w) ==
    /\ pc[w] = "waiting" /\ active_worker = NoWorker
    /\ Go(w, "accept") /\ active_worker' = w
    /\ UNCHANGED <<termVars, up, leaked>>

\* A shell request is served; it may have come before the connection went down.
ShellRequest(w) ==
    /\ pc[w] = "accept"
    /\ \/ TermAttach /\ Go(w, "reply")
       \/ TermAttachRefused /\ UNCHANGED pc     \* CHANNEL_FAILURE, next request
    /\ UNCHANGED <<up, active_worker, leaked>>

\* CHANNEL_SUCCESS.  If it cannot be sent the accept returns an error, and
\* channel_initialized is not set: the attachment is not closed any more.
Reply(w) ==
    /\ pc[w] = "reply"
    /\ \/ up[w] /\ Go(w, "run") /\ UNCHANGED leaked
       \/ ~up[w] /\ Go(w, "release") /\ leaked' = TRUE
    /\ UNCHANGED <<termVars, up, active_worker>>

\* The pump: output goes to the client, or the session ends.
Pump(w) ==
    /\ pc[w] = "run"
    /\ \/ TermReadKept \/ TermReadNew
    /\ IF up[w] THEN UNCHANGED pc ELSE Go(w, "deinit")
    /\ UNCHANGED <<up, active_worker, leaked>>

PumpFindsNothing(w) ==
    /\ pc[w] = "run"
    /\ \/ TermReadNothing /\ UNCHANGED pc
       \/ TermReadError /\ Go(w, "deinit")
    /\ UNCHANGED <<up, active_worker, leaked>>

\* maybe_send_terminal_exit_and_close.
CheckExit(w) ==
    /\ pc[w] = "run"
    /\ \/ TermWaitRestarts /\ UNCHANGED pc
       \/ TermWaitReports /\ Go(w, "deinit")
    /\ UNCHANGED <<up, active_worker, leaked>>

\* Input and signals of the client.
ClientInput(w) ==
    /\ pc[w] = "run" /\ up[w]
    /\ TermSignal \/ \E interrupt \in BOOLEAN : TermWrite(interrupt)
    /\ UNCHANGED sessionVars

Disconnected(w) ==
    /\ pc[w] = "run" /\ ~up[w]
    /\ Go(w, "deinit")
    /\ UNCHANGED <<termVars, up, active_worker, leaked>>

ChannelDeinit(w) ==
    /\ pc[w] = "deinit"
    /\ TermClose /\ Go(w, "release")
    /\ UNCHANGED <<up, active_worker, leaked>>

\* The manager is released and the endpoint closed.
Release(w) ==
    /\ pc[w] = "release"
    /\ active_worker' = IF active_worker = w THEN NoWorker ELSE active_worker
    /\ Go(w, "idle") /\ up' = [up EXCEPT ![w] = FALSE]
    /\ UNCHANGED <<termVars, leaked>>

ClientLeaves(w) ==
    /\ up[w] /\ up' = [up EXCEPT ![w] = FALSE]
    /\ UNCHANGED <<termVars, pc, active_worker, leaked>>

-----------------------------------------------------------------------------
Worker(w) ==
    \/ OpensSftp(w) \/ EndsEarly(w) \/ Takeover(w) \/ Woken(w)
    \/ ShellRequest(w) \/ Reply(w) \/ Pump(w) \/ PumpFindsNothing(w) \/ CheckExit(w)
    \/ Disconnected(w) \/ ChannelDeinit(w) \/ Release(w)

\* The panel's restart request: refused while a worker of the task runs.
PanelRestart ==
    /\ \A w \in Workers : pc[w] = "idle"
    /\ RestartManual
    /\ UNCHANGED sessionVars

Term ==
    /\ MonitorCaptures \/ Watchdog \/ ChildWrites \/ ChildExits \/ Tick
    /\ UNCHANGED sessionVars

-----------------------------------------------------------------------------
(* Messages that come in pieces.  Once net_read_exact has the first byte   *)
(* of a message a timeout does not end it any more: the worker is held     *)
(* until the rest has come or the connection is down, and the loop over    *)
(* the channel does not come to its pump.                                  *)

Held(w) == w \in stalled /\ up[w]

MessageBegins(w) ==
    /\ pc[w] \in {"auth", "accept", "run"} /\ up[w] /\ w \notin stalled
    /\ stalled' = stalled \cup {w}
    /\ UNCHANGED <<termVars, sessionVars>>

MessageEnds(w) ==
    /\ w \in stalled
    /\ stalled' = stalled \ {w}
    /\ UNCHANGED <<termVars, sessionVars>>

\* A step of w's thread, which is not held; a connection it ends is read no more.
GoesOn(w, step) == ~Held(w) /\ step /\ stalled' = {v \in stalled : up'[v]}

Next ==
    \/ \E w \in Workers :
          \/ (Accept(w) \/ ClientLeaves(w)) /\ stalled' = stalled \ {w}
          \/ GoesOn(w, Worker(w) \/ ClientInput(w))
          \/ MessageBegins(w) \/ MessageEnds(w)
    \/ (Term \/ PanelRestart) /\ UNCHANGED stalled

Spec == Init /\ [][Next]_vars

\* The steps a worker thread takes without anything having to arrive.  A receive
\* before the channel runs has a time limit, so "auth" and "accept" end.
Moves(w) ==
    \/ EndsEarly(w) \/ Woken(w) \/ Reply(w) \/ Disconnected(w)
    \/ ChannelDeinit(w) \/ Release(w)

\* A worker that is not held goes on.  The loop over the channel comes to its pump
\* and to its check of the exit after every receive, so these two are taken also
\* when the client begins one message after the other.
FairSpec ==
    /\ Spec
    /\ \A w \in Workers :
          /\ WF_vars(GoesOn(w, Moves(w)))
          /\ SF_vars(GoesOn(w, Pump(w) \/ PumpFindsNothing(w)))
          /\ SF_vars(GoesOn(w, CheckExit(w)))
    /\ WF_vars(MonitorCaptures /\ UNCHANGED <<sessionVars, stalled>>)
    /\ WF_vars(Watchdog /\ UNCHANGED <<sessionVars, stalled>>)

-----------------------------------------------------------------------------
(* Properties.                                                             *)

Sessions == {w \in Workers : pc[w] \in {"reply", "run", "deinit"}}

(***************************************************************************)
(* The terminal has one session at most, the one the session manager knows *)
(* as active; and it counts as attached exactly while that session has it, *)
(* unless a reply failed just after the attach.                            *)
(***************************************************************************)
OneSession ==
    /\ Cardinality(Sessions) <= 1
    /\ Sessions \subseteq {active_worker}
    /\ ~leaked => (attached <=> Sessions # {})

(***************************************************************************)
(* A child that has ended is started again or the task is marked faulted,  *)
(* attached or not, unless the attachment was leaked, as long as no client *)
(* holds its worker in the middle of a message for ever: the watchdog      *)
(* leaves an attached terminal to its session.                             *)
(***************************************************************************)
ChildComesBack ==
    (\A w \in Workers : []<>~Held(w)) => []<>(child = "alive" \/ faulted \/ leaked)
=============================================================================
