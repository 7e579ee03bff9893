----------------------------- MODULE EmtaskTerm -----------------------------
(***************************************************************************)
(* The terminal of one task of emtask (src/APP/emtask/emtask.c): a child   *)
(* process on a pty (Linux/emtask_platform_linux.c), the limit on its      *)
(* restarts, the ring buffer that keeps its last output, and the one       *)
(* session that may be attached to it.  Every function here runs under     *)
(* term->lock, so each is one step; the child and the clock move between   *)
(* any two of them.                                                        *)
(*                                                                         *)
(* Output is counted: byte n is the n-th byte read from the pty.  Escape   *)
(* sequences and the screen are in module Screen.                          *)
(***************************************************************************)
EXTENDS Integers, Sequences, FiniteSets

CONSTANTS
    RestartLimit, RestartWindow,   \* restart_limit, restart_window_ms; 0: no limit
    MaxHistory,                    \* EMTASK_MAX_RESTART_HISTORY
    Grace,                         \* EMTASK_TERMINAL_RESTART_GRACE_MS
    Capacity,                      \* replay_buffer_bytes
    ReplayOnAttach,                \* replay_on_attach
    MaxOutput,                     \* bound: bytes read from the children
    MaxTime                        \* bound: the clock stops there

ASSUME TermAssumption ==
    /\ {RestartLimit, RestartWindow, MaxHistory, Grace} \subseteq Nat
    /\ Capacity \in Nat \ {0} /\ ReplayOnAttach \in BOOLEAN
    /\ MaxOutput \in Nat /\ MaxTime \in Nat

VARIABLES
    child,                  \* "alive", "dead" (not yet waited for) or "none"
    clean,                  \* the last child exited with status 0
    pty,                    \* output in the pty, not yet read
    running, exited, faulted, attached,
    history,                \* restart_history: times of counted restarts
    deadline,               \* interrupt_restart_deadline_ms, 0 for none
    now,
    ring, replay_start, replay_len,
    offset, remaining,      \* replay_offset, replay_remaining of the attachment
    captured,               \* auxiliary: bytes read from the pty
    seen,                   \* auxiliary: the last byte the attached session was given
    torn,                   \* auxiliary: it was given a byte out of order
    restarts                \* auxiliary: times of counted restarts, none removed

childVars == <<child, clean, pty>>
stateVars == <<running, exited, faulted, history, deadline, restarts>>
outputVars == <<ring, replay_start, replay_len, captured>>
attachVars == <<attached, offset, remaining, seen, torn>>
termVars == <<childVars, stateVars, outputVars, attachVars, now>>

\* emtask_task_init: the first start may fail, which leaves the task faulted.
TermInit ==
    /\ \E ok \in BOOLEAN :
          /\ child = IF ok THEN "alive" ELSE "none"
          /\ running = ok /\ faulted = ~ok
    /\ clean = TRUE /\ pty = 0
    /\ exited = FALSE /\ attached = FALSE
    /\ history = <<>> /\ restarts = <<>> /\ deadline = 0 /\ now = 1
    /\ ring = [i \in 0 .. Capacity - 1 |-> 0] /\ replay_start = 0 /\ replay_len = 0
    /\ offset = 0 /\ remaining = 0 /\ captured = 0
    /\ seen = 0 /\ torn = FALSE

-----------------------------------------------------------------------------
(* Starting the child.                                                     *)

Limited == RestartLimit # 0 /\ RestartWindow # 0

\* emtask_term_prune_restart_locked: the entries of the window, in their order.
Young == {i \in 1 .. Len(history) : now - history[i] < RestartWindow}
Pruned ==
    [k \in 1 .. Cardinality(Young) |->
        history[CHOOSE i \in Young : Cardinality({j \in Young : j <= i}) = k]]
LimitReached == Limited /\ Len(Pruned) >= RestartLimit

\* emtask_term_note_restart_locked; counted says whether the start is a restart.
\* Faulty variant: the restart is not written down.
NotNoted(counted) == UNCHANGED history /\ restarts' = IF counted THEN Append(restarts, now) ELSE restarts
Noted(counted) ==
    /\ history' = IF ~counted \/ ~Limited THEN history
                  ELSE IF Len(Pruned) < MaxHistory THEN Append(Pruned, now) ELSE Pruned
    /\ restarts' = IF counted THEN Append(restarts, now) ELSE restarts

\* emtask_term_spawn_locked for a task that is not faulted.  A limit that is
\* reached or a fork that fails leaves the task faulted.
SpawnOk(counted) ==
    /\ counted => ~LimitReached
    /\ Noted(counted)
    /\ child' = "alive" /\ running' = TRUE /\ exited' = FALSE /\ faulted' = FALSE
    /\ deadline' = 0 /\ pty' = 0 /\ clean' = TRUE

SpawnFails(counted) ==
    /\ IF counted /\ LimitReached THEN history' = Pruned /\ UNCHANGED restarts
       ELSE Noted(counted)
    /\ child' = "none" /\ running' = FALSE /\ faulted' = TRUE /\ pty' = 0
    /\ UNCHANGED clean

\* emtask_term_poll_exit_locked: the child is waited for and the pty closed, with
\* what is left in it.
Reaped == running /\ child = "dead"
ExitedNow == exited \/ Reaped
Poll ==
    /\ IF Reaped
       THEN child' = "none" /\ running' = FALSE /\ exited' = TRUE /\ pty' = 0
       ELSE UNCHANGED <<child, running, exited, pty>>
    /\ UNCHANGED <<clean, faulted, history, restarts>>

\* emtask_term_restart_manual: SIGTERM, waitpid, and a start that is not counted.
RestartManual ==
    /\ \/ child' = "alive" /\ running' = TRUE /\ faulted' = FALSE
       \/ child' = "none" /\ running' = FALSE /\ faulted' = TRUE
    /\ exited' = FALSE /\ deadline' = 0 /\ history' = <<>> /\ restarts' = <<>>
    /\ pty' = 0 /\ clean' = TRUE
    /\ UNCHANGED <<outputVars, attachVars, now>>

-----------------------------------------------------------------------------
(* Output.                                                                 *)

Least2(a, b) == IF a <= b THEN a ELSE b

\* Bytes from .. to at the positions that follow p, round the ring.
PutInRing(p, from, to) ==
    [i \in 0 .. Capacity - 1 |->
        LET k == (i - p) % Capacity IN
        IF k <= to - from THEN from + k ELSE ring[i]]

\* emtask_term_replay_append_locked for the next n bytes.  Faulty variant: the
\* start of the ring stays where it is when old bytes are dropped.
ReplayAppendKeepsStart(n) ==
    /\ captured' = captured + n
    /\ replay_len' = Least2(replay_len + n, Capacity)
    /\ replay_start' = IF n >= Capacity THEN 0 ELSE replay_start
    /\ ring' = IF n >= Capacity THEN PutInRing(0, captured + n - Capacity + 1, captured + n)
               ELSE PutInRing((replay_start + replay_len) % Capacity, captured + 1, captured + n)
ReplayAppend(n) ==
    /\ captured' = captured + n
    /\ \/ /\ n >= Capacity
          /\ ring' = PutInRing(0, captured + n - Capacity + 1, captured + n)
          /\ replay_start' = 0 /\ replay_len' = Capacity
       \/ /\ n < Capacity
          /\ LET drop == IF replay_len + n > Capacity THEN replay_len + n - Capacity ELSE 0
                 start == (replay_start + drop) % Capacity
             IN /\ replay_start' = start
                /\ replay_len' = replay_len - drop + n
                /\ ring' = PutInRing((start + replay_len - drop) % Capacity,
                                     captured + 1, captured + n)

\* emtask_term_replay_copy_locked: the next n bytes of the ring, in one piece.
ReplayChunk == LET left == Least2(remaining, replay_len - offset)
                   pos == (replay_start + offset) % Capacity
               IN Least2(left, Capacity - pos)
ReplayCopy(n) ==
    LET pos == (replay_start + offset) % Capacity IN
    /\ remaining' = remaining - n
    /\ offset' = IF remaining' = 0 THEN 0 ELSE offset + n     \* not used any more
    /\ seen' = ring[pos + n - 1]
    /\ torn' = (torn \/ \E k \in 1 .. n : ring[pos + k - 1] # seen + k)
    /\ UNCHANGED <<attached, outputVars>>

-----------------------------------------------------------------------------
(* The calls of the attached session.                                      *)

\* emtask_term_read: what is kept first, then n bytes of new output.
TermReadKept ==
    /\ running /\ remaining # 0 /\ offset < replay_len
    /\ \E n \in 1 .. ReplayChunk : ReplayCopy(n)
    /\ UNCHANGED <<childVars, stateVars, now>>

TermReadNew ==
    /\ running /\ (remaining = 0 \/ offset >= replay_len)
    /\ \E n \in 1 .. pty :
          /\ ReplayAppend(n) /\ pty' = pty - n
          /\ seen' = captured + n /\ torn' = (torn \/ seen # captured)
    /\ remaining' = 0 /\ offset' = 0
    /\ UNCHANGED <<child, clean, stateVars, attached, now>>

\* Nothing to read: the child is polled, if it has not already been waited for.
TermReadNothing ==
    /\ running /\ (remaining = 0 \/ offset >= replay_len) /\ pty = 0
    /\ Poll
    /\ UNCHANGED <<deadline, outputVars, attachVars, now>>

\* A pty whose last writer is gone answers EIO, which is reported as an error.
TermReadError == Reaped /\ pty = 0 /\ remaining = 0 /\ UNCHANGED termVars

\* emtask_term_wait_exit.  A child that failed, or that ended within the grace of
\* an interrupt, is started again.
ToRestart == ExitedNow /\ ~faulted /\ (~clean \/ (deadline # 0 /\ now <= deadline))
TermWaitRestarts ==
    /\ ToRestart /\ SpawnOk(TRUE)
    /\ UNCHANGED <<outputVars, attachVars, now>>

\* ... and otherwise its end is reported to the session.
TermWaitReports ==
    /\ ExitedNow
    /\ \/ ~ToRestart /\ Poll /\ UNCHANGED deadline
       \/ ToRestart /\ SpawnFails(TRUE) /\ exited' = TRUE /\ deadline' = 0
    /\ UNCHANGED <<outputVars, attachVars, now>>

\* emtask_term_write; ^C (0x03) starts the grace.
TermWrite(interrupt) ==
    /\ deadline' = IF interrupt THEN now + Grace ELSE deadline
    /\ Poll
    /\ UNCHANGED <<outputVars, attachVars, now>>

\* emtask_term_signal with TERM, INT or KILL: the child may be gone already when it
\* is polled.
TermSignal ==
    /\ running
    /\ \/ /\ child = "alive"
          /\ deadline' = now + Grace
          /\ UNCHANGED <<childVars, running, exited, faulted, history, restarts>>
       \/ SpawnOk(TRUE)
       \/ SpawnFails(TRUE) /\ exited' = TRUE /\ deadline' = 0
    /\ UNCHANGED <<outputVars, attachVars, now>>

\* emtask_term_close.
TermClose ==
    /\ attached' = FALSE /\ offset' = 0 /\ remaining' = 0 /\ seen' = 0
    /\ UNCHANGED torn
    /\ UNCHANGED <<childVars, stateVars, outputVars, now>>

\* emtask_term_attach_common, which starts a child that has ended.  A task that is
\* attached, or cannot be started, refuses.
Attached ==
    /\ attached' = TRUE /\ offset' = 0
    /\ remaining' = IF ReplayOnAttach THEN replay_len ELSE 0
    /\ seen' = captured - remaining'
    /\ UNCHANGED torn
TermAttach ==
    /\ ~attached
    /\ \/ running /\ ~Reaped /\ UNCHANGED <<childVars, stateVars>>
       \/ (~running \/ Reaped) /\ ~faulted /\ SpawnOk(TRUE)
    /\ Attached
    /\ UNCHANGED <<outputVars, now>>

TermAttachRefused ==
    /\ \/ attached /\ UNCHANGED <<childVars, stateVars>>
       \/ ~attached /\ ~running /\ faulted /\ UNCHANGED <<childVars, stateVars>>
       \/ ~attached /\ Reaped /\ faulted /\ Poll /\ UNCHANGED deadline
       \/ /\ ~attached /\ (~running \/ Reaped) /\ ~faulted
          /\ SpawnFails(TRUE) /\ exited' = ExitedNow /\ UNCHANGED deadline
    /\ UNCHANGED <<outputVars, attachVars, now>>

-----------------------------------------------------------------------------
(* The monitor thread, the child and the clock.                            *)

\* emtask_term_monitor_step: output is kept while nobody is attached.
MonitorCaptures ==
    /\ running /\ ~attached
    /\ \E n \in 1 .. pty : ReplayAppend(n) /\ pty' = pty - n
    /\ UNCHANGED <<child, clean, stateVars, attachVars, now>>

\* Faulty variant: the watchdog waits for a session to see the end.
WatchdogIdle == FALSE /\ UNCHANGED termVars
\* emtask_term_watchdog_step_locked, once there is nothing left to read.
Watchdog ==
    /\ running \/ exited
    /\ running /\ ~attached => pty = 0
    /\ \/ (~ExitedNow \/ faulted \/ attached) /\ Poll /\ UNCHANGED deadline
       \/ ExitedNow /\ ~faulted /\ ~attached /\ SpawnOk(TRUE)
       \/ /\ ExitedNow /\ ~faulted /\ ~attached
          /\ SpawnFails(TRUE) /\ exited' = TRUE /\ UNCHANGED deadline
    /\ UNCHANGED <<outputVars, attachVars, now>>

ChildWrites ==
    /\ child = "alive" /\ captured + pty < MaxOutput
    /\ pty' = pty + 1
    /\ UNCHANGED <<child, clean, stateVars, outputVars, attachVars, now>>

ChildExits ==
    /\ child = "alive"
    /\ child' = "dead" /\ clean' \in BOOLEAN
    /\ UNCHANGED <<pty, stateVars, outputVars, attachVars, now>>

\* A deadline that has passed is as good as none.
Tick ==
    /\ now < MaxTime
    /\ now' = now + 1
    /\ deadline' = IF deadline < now' THEN 0 ELSE deadline
    /\ UNCHANGED <<childVars, running, exited, faulted, history, restarts,
                   outputVars, attachVars>>

-----------------------------------------------------------------------------
(***************************************************************************)
(* What an attached session is given is the output without a gap, a        *)
(* repetition or a stale byte: the last bytes kept when it attached, then  *)
(* every byte read since, in order.                                        *)
(***************************************************************************)
ReplayExact == ~torn

(***************************************************************************)
(* A limit that the history can hold bounds the restarts: no window of     *)
(* RestartWindow holds more than RestartLimit of them, whoever asked for   *)
(* them, since the last restart by hand.                                   *)
(***************************************************************************)
RestartBounded ==
    Limited /\ RestartLimit <= MaxHistory =>
        \A k \in 1 .. Len(restarts) - RestartLimit :
           restarts[k + RestartLimit] - restarts[k] >= RestartWindow
=============================================================================
