---------------------------- MODULE EmtaskPanel ----------------------------
(***************************************************************************)
(* The task table of emtask (src/APP/emtask/emtask.c): the panel requests  *)
(* that create, change and delete tasks and keep them in a database, the   *)
(* listener thread of every task, the worker pool all of them share, and   *)
(* the start of the program from the configuration file and the database.  *)
(*                                                                         *)
(* The panel thread serves one request at a time and holds task_lock for   *)
(* the whole of it.  A request is two steps here, the change of the        *)
(* database and the change of the table, because the process may be        *)
(* stopped between them and because the listener threads, which read and   *)
(* write a task's listeners without the lock, run between them.            *)
(*                                                                         *)
(* A socket that is closed while a thread waits for it in select() stays   *)
(* open in the kernel for as long as that wait lasts: select(2) on Linux   *)
(* says that closing it has no effect on the waiting thread.               *)
(***************************************************************************)
EXTENDS Naturals, Sequences, FiniteSets, Functions, FiniteSetsExt

CONSTANTS
  MaxTasks,     \* EMTASK_MAX_TASKS
  Configs,      \* the task configurations requests may ask for
  Static,       \* the tasks of the configuration file, a subset of Configs
  Stored,       \* the rows an earlier run of the program left in the database
  NoConfig,     \* the configuration of a slot that was never used
  Wildcards,    \* listen addresses that stand for all
  PanelPort,
  PanelAddr,    \* where the panel itself listens
  BindRetry,    \* global.bind_retry_enabled
  MaxWorkers,   \* global.max_workers
  Contested,    \* endpoints another program may hold when the run starts
  MaxRequests,  \* bound: requests that pass their checks in a run
  MaxCrashes    \* bound: stops of the process in a run

\* A configuration: the unique name, the port and the listen addresses, in the
\* order they are listed in and none of them twice; what else a request may
\* change plays no part here.
ASSUME ConfigAssumption ==
  /\ \A c \in Configs : {"name", "port", "addrs"} = DOMAIN c
  /\ \A c \in Configs : c.addrs # << >> /\ IsInjective(c.addrs)
  /\ Static \cup Stored \subseteq Configs
  /\ NoConfig \notin Configs
  /\ MaxWorkers \in Nat \ {0} /\ MaxTasks \in Nat \ {0}

VARIABLES
  up,        \* the process runs
  db,        \* the rows of the tasks table
  task,      \* app->tasks
  listeners, \* the open listeners of each task, the first one opened first
  lt,        \* the listener thread of each slot: where it is, the listener it
             \* waits for, and the socket it still waits for after a request
             \* has closed it
  pool,      \* pool.active_workers
  req,       \* the request the panel thread is in the middle of
  other,     \* endpoints that other programs listen on
  lost,      \* sockets nothing in the process refers to any more
  pending,   \* endpoints with a connection that nobody has accepted
  torn,      \* a failed request left a row without its task
  budget     \* what is left of the bounds

vars == <<up, db, task, listeners, lt, pool, req, other, lost, pending, torn, budget>>

Slots == 1..MaxTasks      \* the entries of app->tasks
Eps(c) == {c.port} \X Range(c.addrs)
Endpoints == UNION {Eps(c) : c \in Configs}
Idle == [op |-> "none"]
NoThread == [pc |-> "none", at |-> 1, held |-> {}]
Zeroed == [cfg |-> NoConfig, init |-> FALSE, gone |-> FALSE, running |-> FALSE,
           complete |-> FALSE, workers |-> 0]

Live(s) == task[s].init /\ ~task[s].gone
Unused(s) == ~task[s].init /\ ~task[s].running
FreeSlots == {s \in Slots : Unused(s)}
Bound(s) == Range(listeners[s])
Used == other \cup lost \cup UNION {Bound(s) \cup lt[s].held : s \in Slots}
Spend(what) == /\ budget[what] > 0
               /\ budget' = [budget EXCEPT ![what] = @ - 1]

Init ==
  /\ up = FALSE /\ db = Stored /\ pool = 0 /\ req = Idle
  /\ task = [s \in Slots |-> Zeroed] /\ lt = [s \in Slots |-> NoThread]
  /\ listeners = [s \in Slots |-> << >>]
  /\ other \in SUBSET Contested
  /\ lost = {} /\ pending = {} /\ torn = FALSE
  /\ budget = [requests |-> MaxRequests, crashes |-> MaxCrashes]

(***************************************************************************)
(* Listening.                                                              *)
(***************************************************************************)

\* emtask_ensure_listener_set: every address that is not open yet is tried,
\* and what opens is added at the end; the set is complete when all of them
\* are open.
Ensured(l, c, free) ==
  l \o SelectSeq([i \in DOMAIN c.addrs |-> <<c.port, c.addrs[i]>>],
                 LAMBDA e : e \in free \ Range(l))

\* emtask_task_init in a zeroed slot; it fails when nothing could be bound and
\* binding is not tried again.
Started(c, free) == [Zeroed EXCEPT !.cfg = c, !.init = TRUE, !.running = TRUE,
                                   !.complete = (Eps(c) \subseteq free)]
StartFails(c, free) == ~BindRetry /\ Eps(c) \cap free = {}

\* emtask_task_deinit after deleted and stop_requested have been set.
Ended(t) == [t EXCEPT !.init = FALSE, !.gone = TRUE, !.complete = FALSE]

\* What a closed set of listeners leaves in the kernel: the one the slot's
\* listener thread waits for.
StillHeld(s) ==
  {e \in Endpoints : /\ lt[s].pc \in {"select", "poll"}
                     /\ lt[s].at \in DOMAIN listeners[s] /\ e = listeners[s][lt[s].at]}

(***************************************************************************)
(* Requests.                                                               *)
(***************************************************************************)
ConflictsWithPanel(c) ==
  /\ c.port = PanelPort
  /\ \E a \in Range(c.addrs) : a = PanelAddr \/ {a, PanelAddr} \cap Wildcards # {}

\* Faulty variant: only the name of a new task is compared.
SameName(c, s) == Live(s) /\ task[s].cfg.name = c.name
Clashes(c, s) == Live(s) /\ (task[s].cfg.name = c.name \/ task[s].cfg.port = c.port)

\* UNIQUE(port) and the primary key of the table.
RowFits(c, rows) == \A r \in rows : r.name # c.name /\ r.port # c.port

\* emtask_panel_create_task_from_json up to the insertion.
Create(c) ==
  /\ up /\ req = Idle /\ ~ConflictsWithPanel(c)
  /\ \A s \in Slots : ~Clashes(c, s)
  /\ RowFits(c, db)
  /\ FreeSlots # {} /\ req' = [op |-> "create", cfg |-> c, slot |-> Min(FreeSlots)]
  /\ db' = db \cup {c}
  /\ Spend("requests")
  /\ UNCHANGED <<up, task, listeners, lt, pool, other, lost, pending, torn>>

\* The new slot is zeroed first: what it listened on before is forgotten.
Begin(s, c) ==
  /\ lost' = lost \cup Bound(s)
  /\ task' = [task EXCEPT ![s] = Started(c, Endpoints \ Used)]
  /\ listeners' = [listeners EXCEPT ![s] = Ensured(<< >>, c, Endpoints \ Used)]
  /\ lt' = [lt EXCEPT ![s].pc = "check"]

\* The rest of the request: the task starts, or fails to start and the row is
\* removed again, which may fail too.
CreateDone ==
  /\ req.op = "create" /\ ~StartFails(req.cfg, Endpoints \ Used)
  /\ Begin(req.slot, req.cfg)
  /\ req' = Idle
  /\ UNCHANGED <<up, db, pool, other, pending, torn, budget>>

CreateFails ==
  /\ req.op = "create"
  /\ lost' = lost \cup Bound(req.slot)
  /\ task' = [task EXCEPT ![req.slot] = [Zeroed EXCEPT !.cfg = req.cfg]]
  /\ listeners' = [listeners EXCEPT ![req.slot] = << >>]
  /\ \/ db' = db \ {req.cfg} /\ UNCHANGED torn
     \/ UNCHANGED db /\ torn' = TRUE
  /\ req' = Idle
  /\ UNCHANGED <<up, lt, pool, other, pending, budget>>

\* emtask_panel_update_task_from_json up to the change of the row.
Update(c) ==
  /\ up /\ req = Idle /\ ~ConflictsWithPanel(c)
  /\ \E s \in Slots :
        /\ Live(s) /\ task[s].cfg.name = c.name /\ task[s].workers = 0
        /\ FreeSlots # {}
        /\ \A i \in Slots \ {s} : ~Clashes(c, i)
        /\ req' = [op |-> "update", cfg |-> c, old |-> s, slot |-> Min(FreeSlots)]
  /\ \E r \in db : /\ r.name = c.name
                   /\ RowFits(c, db \ {r})
                   /\ db' = (db \ {r}) \cup {c}
  /\ Spend("requests")
  /\ UNCHANGED <<up, task, listeners, lt, pool, other, lost, pending, torn>>

\* Faulty variant: the old task is left running.
StartedBeside(t, s, f, c, free) == [t EXCEPT ![f] = Started(c, free)]

\* The old task ends, then the new one starts in the other slot.
Replaced(t, s, f, c, free) == [t EXCEPT ![s] = Ended(@), ![f] = Started(c, free)]

UpdateDone ==
  /\ req.op = "update"
  /\ LET s == req.old  f == req.slot
         free == Endpoints \ ((Used \ Bound(s)) \cup StillHeld(s)) IN
       /\ ~StartFails(req.cfg, free)
       /\ task' = Replaced(task, s, f, req.cfg, free)
       /\ listeners' = [listeners EXCEPT ![s] = << >>, ![f] = Ensured(<< >>, req.cfg, free)]
       /\ lt' = [lt EXCEPT ![s].held = StillHeld(s), ![f].pc = "check"]
       /\ lost' = lost \cup Bound(f)
       /\ pending' = pending \ (Bound(s) \ StillHeld(s))
  /\ req' = Idle
  /\ UNCHANGED <<up, db, pool, other, torn, budget>>

\* The new task does not start: the request fails, and the row stays.
UpdateFails ==
  /\ req.op = "update"
  /\ LET s == req.old  f == req.slot IN
       /\ task' = [task EXCEPT ![s] = Ended(@), ![f] = [Zeroed EXCEPT !.cfg = req.cfg]]
       /\ listeners' = [listeners EXCEPT ![s] = << >>, ![f] = << >>]
       /\ lt' = [lt EXCEPT ![s].held = StillHeld(s)]
       /\ lost' = lost \cup Bound(f)
       /\ pending' = pending \ (Bound(s) \ StillHeld(s))
  /\ torn' = TRUE /\ req' = Idle
  /\ UNCHANGED <<up, db, pool, other, budget>>

\* emtask_panel_delete_task_by_name up to the removal of the row.
Delete(n) ==
  /\ up /\ req = Idle
  /\ \E s \in Slots : /\ Live(s) /\ task[s].cfg.name = n /\ task[s].workers = 0
                      /\ req' = [op |-> "delete", old |-> s]
  /\ \E r \in db : r.name = n /\ db' = db \ {r}
  /\ Spend("requests")
  /\ UNCHANGED <<up, task, listeners, lt, pool, other, lost, pending, torn>>

DeleteDone ==
  /\ req.op = "delete"
  /\ lt' = [lt EXCEPT ![req.old].held = StillHeld(req.old)]
  /\ pending' = pending \ (Bound(req.old) \ StillHeld(req.old))
  /\ task' = [task EXCEPT ![req.old] = Ended(@)]
  /\ listeners' = [listeners EXCEPT ![req.old] = << >>]
  /\ req' = Idle
  /\ UNCHANGED <<up, db, pool, other, lost, torn, budget>>

(***************************************************************************)
(* emtask_listener_thread_main, the thread of slot s.                      *)
(***************************************************************************)
At(s, pc) == up /\ lt[s].pc = pc
Goto(s, pc) == lt' = [lt EXCEPT ![s] = [pc |-> pc, at |-> 1, held |-> {}]]
EndThread(s, t) == /\ task' = [task EXCEPT ![s] = [t EXCEPT !.running = FALSE]]
                   /\ Goto(s, "none")

\* The top of the loop: the thread ends, goes on to accept, or tries to bind
\* what is missing; a set that is partly open is left alone until the delay
\* of emtask_bind_retry_delay_sec is over.
Check(s) ==
  /\ At(s, "check")
  /\ \/ task[s].gone /\ EndThread(s, task[s])
     \/ ~task[s].gone /\ listeners[s] # << >> /\ Goto(s, "reserve") /\ UNCHANGED task
  /\ UNCHANGED <<up, db, listeners, pool, req, other, lost, pending, torn, budget>>

Retry(s) ==
  /\ At(s, "check") /\ ~task[s].gone /\ ~task[s].complete
  /\ Goto(s, "open")
  /\ UNCHANGED <<up, db, task, listeners, pool, req, other, lost, pending, torn, budget>>

\* emtask_task_open_listener, without the lock.
Open(s) ==
  /\ At(s, "open")
  /\ LET t == task[s]
         l == Ensured(listeners[s], t.cfg, Endpoints \ Used)
         done == Range(l) = Eps(t.cfg)
     IN  /\ listeners' = [listeners EXCEPT ![s] = l]
         /\ IF l = << >>
            THEN IF t.gone \/ ~BindRetry THEN EndThread(s, t)
                 ELSE Goto(s, "check") /\ UNCHANGED task
            ELSE /\ task' = [task EXCEPT ![s].complete = done \/ ~BindRetry]
                 /\ Goto(s, "reserve")
  /\ UNCHANGED <<up, db, pool, req, other, lost, pending, torn, budget>>

\* emtask_worker_pool_reserve waits for a free place.
Reserve(s) ==
  /\ At(s, "reserve") /\ pool < MaxWorkers
  /\ pool' = pool + 1
  /\ Goto(s, "accept")
  /\ UNCHANGED <<up, db, task, listeners, req, other, lost, pending, torn, budget>>

\* Faulty variant: a failed accept keeps its place in the pool.
FailureKeepsPlace(s) ==
  /\ UNCHANGED pool
  /\ IF task[s].gone THEN EndThread(s, task[s])
     ELSE Goto(s, "check") /\ UNCHANGED task

\* emtask_accept_listener_set failed: the place is given back.
AfterFailure(s) ==
  /\ pool' = pool - 1
  /\ IF task[s].gone THEN EndThread(s, task[s])
     ELSE Goto(s, "check") /\ UNCHANGED task

\* A complete set of one listener is waited for without a timeout; of any other
\* the listeners are waited for one after the other, each for a while.
Accept(s) ==
  /\ At(s, "accept")
  /\ IF listeners[s] = << >> THEN AfterFailure(s)
     ELSE /\ Goto(s, IF task[s].complete /\ Len(listeners[s]) = 1 THEN "select" ELSE "poll")
          /\ UNCHANGED <<task, pool>>
  /\ UNCHANGED <<up, db, listeners, req, other, lost, pending, torn, budget>>

\* A connection to the listener that is waited for.
Arrived(s) == lt[s].at \in DOMAIN listeners[s] /\ listeners[s][lt[s].at] \in pending

Accepted(s) ==
  /\ lt[s].pc \in {"select", "poll"} /\ up
  /\ Arrived(s)
  /\ pending' = pending \ {listeners[s][lt[s].at]}
  /\ Goto(s, "got")
  /\ UNCHANGED <<up, db, task, listeners, pool, req, other, lost, torn, budget>>

\* None came in time: the next listener, if there is one.
PollNext(s) ==
  /\ At(s, "poll") /\ lt[s].at \in DOMAIN listeners[s] /\ ~Arrived(s)
  /\ lt' = [lt EXCEPT ![s].at = @ + 1]
  /\ UNCHANGED <<up, db, task, listeners, pool, req, other, lost, pending, torn, budget>>

\* The poll ends without a connection; a socket a request closed is released.
PollEnds(s) ==
  /\ At(s, "poll") /\ lt[s].at \notin DOMAIN listeners[s]
  /\ AfterFailure(s)
  /\ pending' = pending \ lt[s].held
  /\ UNCHANGED <<up, db, listeners, req, other, lost, torn, budget>>

\* Systems other than Linux let the wait for a closed socket end.
WaitAborts(s) ==
  /\ At(s, "select") /\ lt[s].held # {}
  /\ AfterFailure(s)
  /\ pending' = pending \ lt[s].held
  /\ UNCHANGED <<up, db, listeners, req, other, lost, torn, budget>>

\* Faulty variant: the task is not looked at again under the lock.
AdmitUnchecked(s) ==
  /\ At(s, "got") /\ req = Idle
  /\ task' = [task EXCEPT ![s].workers = @ + 1]
  /\ Goto(s, "start")
  /\ UNCHANGED <<up, db, listeners, pool, req, other, lost, pending, torn, budget>>

\* The connection is counted for the task under task_lock, unless the task has
\* been stopped meanwhile; with no memory for the worker it is dropped.
Admit(s) ==
  /\ At(s, "got") /\ req = Idle
  /\ IF task[s].gone THEN EndThread(s, task[s]) /\ pool' = pool - 1
     ELSE /\ task' = [task EXCEPT ![s].workers = @ + 1]
          /\ Goto(s, "start") /\ UNCHANGED pool
  /\ UNCHANGED <<up, db, listeners, req, other, lost, pending, torn, budget>>

NoMemory(s) ==
  /\ At(s, "got")
  /\ pool' = pool - 1
  /\ Goto(s, "check")
  /\ UNCHANGED <<up, db, task, listeners, req, other, lost, pending, torn, budget>>

WorkerStarts(s) ==
  /\ At(s, "start")
  /\ Goto(s, "check")
  /\ UNCHANGED <<up, db, task, listeners, pool, req, other, lost, pending, torn, budget>>

\* emtask_start_worker_thread failed.
WorkerStartFails(s) ==
  /\ At(s, "start") /\ req = Idle
  /\ task' = [task EXCEPT ![s].workers = @ - 1]
  /\ pool' = pool - 1
  /\ Goto(s, "check")
  /\ UNCHANGED <<up, db, listeners, req, other, lost, pending, torn, budget>>

\* emtask_worker_thread_main after the session.
Running(s) == task[s].workers - (IF lt[s].pc = "start" THEN 1 ELSE 0)

WorkerEnds(s) ==
  /\ up /\ req = Idle /\ Running(s) > 0
  /\ task' = [task EXCEPT ![s].workers = @ - 1]
  /\ pool' = pool - 1
  /\ UNCHANGED <<up, db, listeners, lt, req, other, lost, pending, torn, budget>>

(***************************************************************************)
(* The process, other programs and clients.                                *)
(***************************************************************************)

\* emtask_load_config: the checks on the tasks of the file and then those of the
\* database, which stand in one list, so that a task may not be in both.
Loadable(rows) ==
  LET all == Static \cup rows IN
  /\ Static \cap rows = {}
  /\ Cardinality(all) <= MaxTasks
  /\ \A r, q \in all : r # q => r.name # q.name /\ r.port # q.port
  /\ \A r \in all : ~ConflictsWithPanel(r)

\* What a run starts from has been loaded.
ASSUME StoredAssumption ==
  /\ IsFiniteSet(Static) /\ IsFiniteSet(Stored)
  /\ Loadable(Stored)

\* main: every task starts before the panel does, or the program ends.
Boot ==
  /\ ~up /\ Loadable(db)
  /\ LET rows == Static \cup db
         at == CHOOSE f \in Bijection(1..Cardinality(rows), rows) : TRUE
         free == Endpoints \ other
     IN  /\ \A r \in rows : ~StartFails(r, free)
         /\ task' = [s \in Slots |-> IF s \in DOMAIN at THEN Started(at[s], free) ELSE Zeroed]
         /\ lt' = [s \in Slots |-> IF s \in DOMAIN at THEN [NoThread EXCEPT !.pc = "check"]
                                                      ELSE NoThread]
         /\ listeners' = [s \in Slots |-> IF s \in DOMAIN at THEN Ensured(<< >>, at[s], free)
                                                             ELSE << >>]
  /\ up' = TRUE
  /\ UNCHANGED <<db, pool, req, other, lost, pending, torn, budget>>

Crash ==
  /\ up /\ Spend("crashes")
  /\ up' = FALSE /\ pool' = 0 /\ req' = Idle /\ lost' = {} /\ pending' = {}
  /\ task' = [s \in Slots |-> Zeroed] /\ lt' = [s \in Slots |-> NoThread]
  /\ listeners' = [s \in Slots |-> << >>]
  /\ UNCHANGED <<db, other, torn>>

OtherEnds == /\ other # {} /\ other' = {}
             /\ UNCHANGED <<up, db, task, listeners, lt, pool, req, lost, pending, torn, budget>>

\* The kernel completes a connection to any listening socket.
Connect(e) ==
  /\ up /\ e \in Used \ (other \cup pending)
  /\ pending' = pending \cup {e}
  /\ UNCHANGED <<up, db, task, listeners, lt, pool, req, other, lost, torn, budget>>

Request ==
  \/ \E c \in Configs : Create(c) \/ Update(c)
  \/ \E c \in Configs : Delete(c.name)

Finish == CreateDone \/ CreateFails \/ UpdateDone \/ UpdateFails \/ DeleteDone

ListenerStep(s) ==
  \/ Check(s) \/ Retry(s) \/ Open(s) \/ Reserve(s) \/ Accept(s) \/ Accepted(s) \/ PollNext(s)
  \/ PollEnds(s)
  \/ Admit(s) \/ NoMemory(s) \/ WorkerStarts(s) \/ WorkerStartFails(s)

Next ==
  \/ Request \/ Finish
  \/ \E s \in Slots : ListenerStep(s) \/ WaitAborts(s) \/ WorkerEnds(s)
  \/ Boot \/ Crash \/ OtherEnds
  \/ \E e \in Endpoints : Connect(e)

Spec == Init /\ [][Next]_vars

\* The listener threads run and the request in progress ends.  Nothing makes a
\* client connect or leave, a session end, another program end, a wait for a
\* closed socket return or a stopped process start again.
FairSpec ==
  /\ Spec
  /\ WF_vars(Finish)
  /\ \A s \in Slots : WF_vars(ListenerStep(s))

(***************************************************************************)
(* Properties.                                                             *)
(***************************************************************************)
LiveConfigs == {task[s].cfg : s \in {i \in Slots : Live(i)}}

\* Between requests the tasks that run are tasks of the file or rows of the
\* database as they are stored now, no two with the same name or port; and
\* unless a request failed half way every stored task runs.
StoreExact ==
  up /\ req = Idle =>
    /\ LiveConfigs \subseteq Static \cup db
    /\ \A s, i \in Slots : Live(s) /\ s # i => ~Clashes(task[s].cfg, i)
    /\ torn \/ Static \cup db \subseteq LiveConfigs

\* Whenever the process is stopped, in the middle of a request too, what the
\* database holds lets it start again (emtask_load_config refuses the whole
\* configuration for one conflict).  A row that a failed request left behind
\* takes a place that a later task may need, so those runs are excepted.
RestartLoads == torn \/ Loadable(db)

\* No session runs on a task whose terminal and session manager are gone: a
\* connection accepted while the task was being deleted is refused.
SessionsHaveTask == \A s \in Slots : task[s].workers > 0 => task[s].init

\* The places of the pool that sessions and listener threads really use: a
\* thread takes one before it waits for a client.
Occupied == SumFunction([s \in Slots |-> Running(s)])
              + Cardinality({s \in Slots : lt[s].pc \in {"accept", "select", "poll", "got", "start"}})

Waiting(e) == e \in pending /\ \E s \in Slots : Live(s) /\ e \in Bound(s)

\* The task of e has to wait for a place because others use all of them.
Crowded(e) ==
  Occupied >= MaxWorkers /\ \E s \in Slots : e \in Bound(s) /\ lt[s].pc = "reserve"

\* A listener of the task in front of e has a client, which is looked at first.
Behind(e) ==
  \E s \in Slots : \E i, j \in DOMAIN listeners[s] :
     i < j /\ listeners[s][j] = e /\ listeners[s][i] \in pending

\* A client of a running task is taken off the queue or its task is ended,
\* whatever sessions, deletions and failures happen elsewhere, unless there is
\* for ever a time again at which every place of the pool is in use, or one at
\* which a listener in front of it has a client (each poll starts with the
\* first).
Served ==
  \A e \in Endpoints : []<>(~Waiting(e) \/ Crowded(e) \/ Behind(e))
=============================================================================
