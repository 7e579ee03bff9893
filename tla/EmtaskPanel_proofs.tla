------------------------- MODULE EmtaskPanel_proofs -------------------------
(***************************************************************************)
(* Proofs about EmtaskPanel, for every number of slots and workers, every  *)
(* set of configurations and every bound: sessions have their task, the    *)
(* running tasks are those of the file and the database, and what the      *)
(* database holds can be loaded again after a stop at any time.            *)
(***************************************************************************)
EXTENDS EmtaskPanel, TLAPS, FiniteSetTheorems, WellFoundedInduction

-----------------------------------------------------------------------------
(* Slots, their threads and the request in progress.                       *)

PCs == {"none", "check", "open", "reserve", "accept", "select", "poll", "got", "start"}
TaskRec == [cfg : Configs \cup {NoConfig}, init : BOOLEAN, gone : BOOLEAN, running : BOOLEAN,
            complete : BOOLEAN, workers : Nat]
Thread == [pc : PCs, at : Nat, held : SUBSET Endpoints]
Creating == [op : {"create"}, cfg : Configs, slot : Slots]
Updating == [op : {"update"}, cfg : Configs, old : Slots, slot : Slots]
Deleting == [op : {"delete"}, old : Slots]

TypeInv ==
  /\ task \in [Slots -> TaskRec] /\ lt \in [Slots -> Thread]
  /\ req \in {Idle} \cup Creating \cup Updating \cup Deleting
  /\ up \in BOOLEAN /\ torn \in BOOLEAN
  /\ db \subseteq Configs /\ IsFiniteSet(db)

\* A task with workers is there; a connection about to get its worker is counted;
\* a slot with a thread has a task, or had one.
SlotInv ==
  \A s \in Slots :
    /\ task[s].workers > 0 => task[s].init
    /\ lt[s].pc = "start" => task[s].workers > 0
    /\ lt[s].pc # "none" => task[s].running
    /\ task[s].running => task[s].init \/ task[s].gone

\* A request keeps the task_lock: the slot it found unused stays so, and the task
\* it found without workers gets none.
ReqInv ==
  /\ ~up => req = Idle
  /\ req \in Creating \cup Updating => Unused(req.slot)
  /\ req \in Updating \cup Deleting => Live(req.old) /\ task[req.old].workers = 0

LockInv == TypeInv /\ SlotInv /\ ReqInv

\* One slot gets the task t and the thread l; nothing a request rests on changes.
Moved(s, t, l) ==
  /\ task' = [task EXCEPT ![s] = t] /\ lt' = [lt EXCEPT ![s] = l]
  /\ t.cfg = task[s].cfg /\ t.init = task[s].init /\ t.gone = task[s].gone
  /\ t.running => task[s].running
  /\ l.pc # "none" => t.running
  /\ t.workers > 0 => t.init
  /\ l.pc = "start" => t.workers > 0
  /\ t.workers # task[s].workers => req = Idle
  /\ UNCHANGED <<up, db, req, torn>>

\* No two kinds of request are the same.
LEMMA RequestKinds ==
  /\ \A r \in Creating : r.op = "create" /\ r.slot \in Slots /\ r.cfg \in Configs /\ r \notin Updating \cup Deleting
  /\ \A r \in Updating : /\ r.op = "update" /\ r.slot \in Slots /\ r.old \in Slots
                         /\ r.cfg \in Configs /\ r \notin Creating \cup Deleting
  /\ \A r \in Deleting : r.op = "delete" /\ r.old \in Slots /\ r \notin Creating \cup Updating
  /\ Idle.op = "none" /\ Idle \notin Creating \cup Updating \cup Deleting
BY DEF Creating, Updating, Deleting, Idle

\* A change of one slot that Moved describes keeps everything.
LEMMA MovedKeeps ==
  ASSUME LockInv, NEW s \in Slots, NEW t \in TaskRec, NEW l \in Thread, Moved(s, t, l)
  PROVE  LockInv'
<1>1. /\ \A i \in Slots : task'[i] = (IF i = s THEN t ELSE task[i])
      /\ \A i \in Slots : lt'[i] = (IF i = s THEN l ELSE lt[i])
  BY DEF Moved, LockInv, TypeInv
<1>2. UNCHANGED <<up, db, req, torn>>
  BY DEF Moved
<1>3. TypeInv'
  BY <1>2 DEF Moved, LockInv, TypeInv
<1>4. SlotInv'
  BY <1>1 DEF Moved, LockInv, SlotInv, TypeInv, TaskRec, Thread
<1>5. \A i \in Slots : /\ task'[i].init = task[i].init /\ task'[i].gone = task[i].gone
                       /\ task'[i].running => task[i].running
                       /\ task'[i].workers # task[i].workers => req = Idle
  BY <1>1 DEF Moved
<1>6. \A i \in Slots : /\ Unused(i) => Unused(i)'
                       /\ Live(i) => Live(i)'
  BY <1>5 DEF Unused, Live
<1>7. ReqInv'
  BY <1>2, <1>5, <1>6, RequestKinds DEF LockInv, ReqInv
<1> QED BY <1>3, <1>4, <1>7 DEF LockInv

\* A step of a listener thread, or the end of a worker, moves one slot.
LEMMA ThreadMoves ==
  ASSUME LockInv, NEW s \in Slots, ListenerStep(s) \/ WaitAborts(s) \/ WorkerEnds(s)
  PROVE  \E t \in TaskRec, l \in Thread : Moved(s, t, l)
<1> DEFINE On(pc) == [pc |-> pc, at |-> 1, held |-> {}]
           Off(t) == [t EXCEPT !.running = FALSE]
<1>0. /\ task[s] \in TaskRec /\ lt[s] \in Thread /\ lt[s].pc \in PCs
      /\ \A t \in TaskRec : Off(t) \in TaskRec
      /\ \A pc \in PCs : On(pc) \in Thread
      /\ task = [task EXCEPT ![s] = task[s]] /\ lt = [lt EXCEPT ![s] = lt[s]]
  BY DEF LockInv, TypeInv, TaskRec, Thread
<1>1. /\ task[s].workers > 0 => task[s].init
      /\ lt[s].pc = "start" => task[s].workers > 0
      /\ lt[s].pc # "none" => task[s].running
      /\ task[s].running => task[s].init \/ task[s].gone
  BY DEF LockInv, SlotInv
<1>2. ASSUME NEW pc \in PCs \ {"start"}, Goto(s, pc), lt[s].pc # "none",
             UNCHANGED <<up, db, req, torn, task>>
      PROVE  Moved(s, task[s], On(pc))
  BY <1>0, <1>1, <1>2 DEF Moved, Goto
<1>3. ASSUME EndThread(s, task[s]), UNCHANGED <<up, db, req, torn>>
      PROVE  Moved(s, Off(task[s]), On("none"))
  BY <1>0, <1>1, <1>3 DEF Moved, EndThread, Goto, TaskRec
<1>4. ASSUME AfterFailure(s), lt[s].pc # "none", UNCHANGED <<up, db, req, torn>>
      PROVE  \E t \in TaskRec, l \in Thread : Moved(s, t, l)
  BY <1>0, <1>2, <1>3, <1>4 DEF AfterFailure, PCs
<1>5. CASE Check(s)
  <2>1. lt[s].pc = "check" /\ UNCHANGED <<up, db, req, torn>>
    BY <1>5 DEF Check, At
  <2>2. EndThread(s, task[s]) \/ (Goto(s, "reserve") /\ UNCHANGED task)
    BY <1>5 DEF Check
  <2> QED BY <1>0, <1>2, <1>3, <2>1, <2>2 DEF PCs
<1>6. CASE Retry(s) \/ Accepted(s) \/ NoMemory(s) \/ Reserve(s)
  <2>1. lt[s].pc # "none" /\ UNCHANGED <<up, db, req, torn, task>>
    BY <1>6 DEF Retry, Accepted, NoMemory, Reserve, At
  <2>2. \E pc \in {"open", "got", "check", "accept"} : Goto(s, pc)
    BY <1>6 DEF Retry, Accepted, NoMemory, Reserve
  <2> QED BY <1>0, <1>2, <2>1, <2>2 DEF PCs
<1>7. CASE Open(s)
  <2>1. lt[s].pc = "open" /\ UNCHANGED <<up, db, req, torn>>
    BY <1>7 DEF Open, At
  <2>2. \/ EndThread(s, task[s])
        \/ Goto(s, "check") /\ UNCHANGED task
        \/ \E b \in BOOLEAN : Goto(s, "reserve") /\ task' = [task EXCEPT ![s].complete = b]
    BY <1>7 DEF Open
  <2>3. CASE EndThread(s, task[s]) \/ (Goto(s, "check") /\ UNCHANGED task)
    BY <1>0, <1>2, <1>3, <2>1, <2>3 DEF PCs
  <2>4. ASSUME NEW b \in BOOLEAN, Goto(s, "reserve"), task' = [task EXCEPT ![s].complete = b]
        PROVE  \E t \in TaskRec, l \in Thread : Moved(s, t, l)
    <3> DEFINE v == [task[s] EXCEPT !.complete = b]
    <3>1. /\ v \in TaskRec /\ v.cfg = task[s].cfg /\ v.init = task[s].init
          /\ v.gone = task[s].gone /\ v.running = task[s].running /\ v.workers = task[s].workers
      BY <1>0 DEF TaskRec
    <3>2. task' = [task EXCEPT ![s] = v] /\ lt' = [lt EXCEPT ![s] = On("reserve")]
      BY <2>4 DEF Goto
    <3> HIDE DEF v
    <3>3. Moved(s, v, On("reserve"))
      BY <1>1, <2>1, <3>1, <3>2 DEF Moved
    <3> QED BY <1>0, <3>1, <3>3 DEF PCs
  <2> QED BY <2>2, <2>3, <2>4
<1>8. CASE Accept(s)
  <2>1. lt[s].pc = "accept" /\ UNCHANGED <<up, db, req, torn>>
    BY <1>8 DEF Accept, At
  <2>2. \/ AfterFailure(s)
        \/ (Goto(s, "select") \/ Goto(s, "poll")) /\ UNCHANGED task
    BY <1>8 DEF Accept
  <2> QED BY <1>0, <1>2, <1>4, <2>1, <2>2 DEF PCs
<1>9. CASE PollEnds(s) \/ WaitAborts(s)
  <2>1. lt[s].pc # "none" /\ AfterFailure(s) /\ UNCHANGED <<up, db, req, torn>>
    BY <1>9 DEF PollEnds, WaitAborts, At
  <2> QED BY <1>4, <2>1
<1>10. CASE Admit(s)
  <2> DEFINE v == [task[s] EXCEPT !.workers = @ + 1]
  <2>1. lt[s].pc = "got" /\ req = Idle /\ UNCHANGED <<up, db, req, torn>>
    BY <1>10 DEF Admit, At
  <2>2. CASE task[s].gone
    BY <1>0, <1>3, <1>10, <2>1, <2>2 DEF Admit, PCs
  <2>3. CASE ~task[s].gone
    <3>1. /\ v \in TaskRec /\ v.cfg = task[s].cfg /\ v.init = task[s].init /\ v.gone = task[s].gone
          /\ v.running = task[s].running /\ v.workers = task[s].workers + 1 /\ v.workers > 0
      BY <1>0 DEF TaskRec
    <3>2. task' = [task EXCEPT ![s] = v] /\ lt' = [lt EXCEPT ![s] = On("start")]
      BY <1>10, <2>3 DEF Admit, Goto
    <3> HIDE DEF v
    <3>3. Moved(s, v, On("start"))
      BY <1>1, <2>1, <2>3, <3>1, <3>2 DEF Moved
    <3> QED BY <1>0, <3>1, <3>3 DEF PCs
  <2> QED BY <2>2, <2>3
<1>11. CASE WorkerStarts(s)
  <2>1. /\ lt[s].pc = "start" /\ UNCHANGED <<up, db, req, torn, task>>
        /\ Goto(s, "check")
    BY <1>11 DEF WorkerStarts, At
  <2> QED BY <1>0, <1>2, <2>1 DEF PCs
<1>12. CASE WorkerStartFails(s) \/ WorkerEnds(s)
  <2> DEFINE v == [task[s] EXCEPT !.workers = @ - 1]
  <2>1. req = Idle /\ UNCHANGED <<up, db, req, torn>> /\ task' = [task EXCEPT ![s] = v]
    BY <1>12 DEF WorkerStartFails, WorkerEnds
  <2>2. \/ lt[s].pc = "start" /\ lt' = [lt EXCEPT ![s] = On("check")]
        \/ lt' = lt /\ Running(s) > 0
    BY <1>12 DEF WorkerStartFails, WorkerEnds, At, Goto
  <2>3. /\ task[s].workers \in Nat /\ task[s].workers > 0
        /\ Running(s) > 0 /\ lt[s].pc = "start" => task[s].workers > 1
    <3>1. task[s].workers \in Nat
      BY <1>0 DEF TaskRec
    <3>2. Running(s) > 0 => task[s].workers > 0 /\ (lt[s].pc = "start" => task[s].workers > 1)
      BY <3>1 DEF Running
    <3> QED BY <1>1, <2>2, <3>1, <3>2
  <2>4. /\ v \in TaskRec /\ v.cfg = task[s].cfg /\ v.init = task[s].init /\ v.gone = task[s].gone
        /\ v.running = task[s].running /\ v.workers = task[s].workers - 1
    BY <1>0, <2>3 DEF TaskRec
  <2> HIDE DEF v
  <2>5. CASE lt[s].pc = "start" /\ lt' = [lt EXCEPT ![s] = On("check")]
    <3>1. Moved(s, v, On("check"))
      BY <1>1, <2>1, <2>3, <2>4, <2>5 DEF Moved
    <3> QED BY <1>0, <2>4, <3>1 DEF PCs
  <2>6. CASE lt' = lt /\ Running(s) > 0
    <3>1. Moved(s, v, lt[s])
      BY <1>0, <1>1, <2>1, <2>3, <2>4, <2>6 DEF Moved
    <3> QED BY <1>0, <2>4, <3>1
  <2> QED BY <2>2, <2>5, <2>6
<1>13. CASE PollNext(s)
  <2> DEFINE l == [lt[s] EXCEPT !.at = @ + 1]
  <2>1. lt[s].pc = "poll" /\ UNCHANGED <<up, db, req, torn, task>>
    BY <1>13 DEF PollNext, At
  <2>2. lt' = [lt EXCEPT ![s] = l] /\ l \in Thread /\ l.pc = "poll"
    BY <1>0, <1>13, <2>1 DEF PollNext, Thread
  <2> HIDE DEF l
  <2>3. Moved(s, task[s], l)
    BY <1>0, <1>1, <2>1, <2>2 DEF Moved
  <2> QED BY <1>0, <2>2, <2>3
<1> QED BY <1>5, <1>6, <1>7, <1>8, <1>9, <1>10, <1>11, <1>12, <1>13 DEF ListenerStep

\* What a slot holds when its task starts, ends, or was never there.
LEMMA SlotValues ==
  /\ \A c \in Configs, free \in SUBSET Endpoints :
       /\ Started(c, free) \in TaskRec /\ Started(c, free).cfg = c
       /\ Started(c, free).init /\ Started(c, free).running /\ ~Started(c, free).gone
       /\ Started(c, free).workers = 0
  /\ \A t \in TaskRec :
       /\ Ended(t) \in TaskRec /\ Ended(t).cfg = t.cfg /\ ~Ended(t).init /\ Ended(t).gone
       /\ Ended(t).running = t.running /\ Ended(t).workers = t.workers
  /\ \A c \in Configs : LET z == [Zeroed EXCEPT !.cfg = c] IN
       z \in TaskRec /\ ~z.init /\ ~z.gone /\ ~z.running /\ z.workers = 0
  /\ Zeroed \in TaskRec /\ ~Zeroed.init /\ ~Zeroed.gone /\ ~Zeroed.running /\ Zeroed.workers = 0
<1>1. /\ Zeroed \in TaskRec /\ ~Zeroed.init /\ ~Zeroed.gone /\ ~Zeroed.running /\ Zeroed.workers = 0
  BY DEF Zeroed, TaskRec
<1>2. ASSUME NEW c \in Configs
      PROVE  LET z == [Zeroed EXCEPT !.cfg = c] IN
             z \in TaskRec /\ ~z.init /\ ~z.gone /\ ~z.running /\ z.workers = 0
  BY DEF Zeroed, TaskRec
<1>3. ASSUME NEW c \in Configs, NEW free \in SUBSET Endpoints
      PROVE  /\ Started(c, free) \in TaskRec /\ Started(c, free).cfg = c
             /\ Started(c, free).init /\ Started(c, free).running /\ ~Started(c, free).gone
             /\ Started(c, free).workers = 0
  <2>1. (Eps(c) \subseteq free) \in BOOLEAN
    OBVIOUS
  <2> QED BY <2>1 DEF Started, Zeroed, TaskRec
<1>4. ASSUME NEW t \in TaskRec
      PROVE  /\ Ended(t) \in TaskRec /\ Ended(t).cfg = t.cfg /\ ~Ended(t).init /\ Ended(t).gone
             /\ Ended(t).running = t.running /\ Ended(t).workers = t.workers
  BY DEF Ended, TaskRec
<1> QED BY <1>1, <1>2, <1>3, <1>4

\* A set of numbers that is not empty has a smallest one.
LEMMA LeastExists ==
  ASSUME NEW T \in SUBSET Nat, T # {}
  PROVE  Min(T) \in T
<1>1. PICK x \in T : \A y \in T : ~(<<y, x>> \in OpToRel(<, Nat))
  BY NatLessThanWellFounded, WFMin
<1>2. ASSUME NEW y \in T PROVE x <= y
  <2>1. <<y, x>> \in Nat \X Nat => ~(y < x)
    BY <1>1 DEF OpToRel
  <2> QED BY <2>1
<1>3. \E z \in T : \A y \in T : z <= y
  BY <1>2
<1> QED BY <1>3 DEF Min

\* A request finds an unused slot if there is one.
LEMMA FreeSlotFound ==
  ASSUME FreeSlots # {} PROVE Min(FreeSlots) \in Slots /\ Unused(Min(FreeSlots))
<1>1. FreeSlots \in SUBSET Nat
  BY ConfigAssumption DEF FreeSlots, Slots
<1> QED BY <1>1, LeastExists DEF FreeSlots

\* The slots after a start of the program: one for each task that was loaded.
BootTable(n, at, free) ==
  /\ n \in Nat /\ n <= MaxTasks /\ at \in Bijection(1..n, Static \cup db) /\ free \in SUBSET Endpoints
  /\ task' = [s \in Slots |-> IF s \in 1..n THEN Started(at[s], free) ELSE Zeroed]
  /\ lt' = [s \in Slots |-> IF s \in 1..n THEN [NoThread EXCEPT !.pc = "check"] ELSE NoThread]

\* The start finds such a table.
LEMMA BootFinds ==
  ASSUME TypeInv, Boot
  PROVE  \E n, at, free : BootTable(n, at, free)
<1> DEFINE rows == Static \cup db
           n == Cardinality(rows)
           at == CHOOSE f \in Bijection(1..n, rows) : TRUE
           free == Endpoints \ other
<1>1. IsFiniteSet(rows)
  BY StoredAssumption, FS_Union DEF TypeInv
<1>2. n \in Nat /\ Bijection(1..n, rows) # {}
  BY <1>1, FS_CardinalityType DEF ExistsBijection
<1>3. at \in Bijection(1..n, rows)
  BY <1>2
<1>4. n <= MaxTasks
  BY DEF Boot, Loadable
<1>5. DOMAIN at = 1..n
  BY <1>3 DEF Bijection, Injection, Surjection, IsInjective
<1>6. /\ task' = [s \in Slots |-> IF s \in DOMAIN at THEN Started(at[s], free) ELSE Zeroed]
      /\ lt' = [s \in Slots |-> IF s \in DOMAIN at THEN [NoThread EXCEPT !.pc = "check"] ELSE NoThread]
  BY DEF Boot
<1> HIDE DEF at, free, n
<1>7. /\ task' = [s \in Slots |-> IF s \in 1..n THEN Started(at[s], free) ELSE Zeroed]
      /\ lt' = [s \in Slots |-> IF s \in 1..n THEN [NoThread EXCEPT !.pc = "check"] ELSE NoThread]
  BY <1>5, <1>6
<1>8. free \in SUBSET Endpoints
  BY DEF free
<1>9. BootTable(n, at, free)
  BY <1>2, <1>3, <1>4, <1>7, <1>8 DEF BootTable
<1> QED BY <1>9

\* The slots of a booted program, one by one.
LEMMA BootSlots ==
  ASSUME TypeInv, NEW n, NEW at, NEW free, BootTable(n, at, free)
  PROVE  /\ task' \in [Slots -> TaskRec] /\ lt' \in [Slots -> Thread]
         /\ \A s \in Slots :
              /\ task'[s].workers = 0 /\ ~task'[s].gone
              /\ lt'[s].pc # "start"
              /\ lt'[s].pc # "none" => task'[s].running
              /\ task'[s].running => task'[s].init
              /\ task'[s].init <=> s \in 1..n
              /\ s \in 1..n => task'[s].cfg = at[s] /\ at[s] \in Static \cup db
<1>1. at \in [1..n -> Static \cup db]
  BY DEF BootTable, Bijection, Injection
<1>2. Static \cup db \subseteq Configs
  BY ConfigAssumption DEF TypeInv
<1>3. \A s \in 1..n : at[s] \in Static \cup db /\ at[s] \in Configs
  BY <1>1, <1>2
<1>4. free \in SUBSET Endpoints
  BY DEF BootTable
<1>5. /\ [NoThread EXCEPT !.pc = "check"] \in Thread /\ [NoThread EXCEPT !.pc = "check"].pc = "check"
      /\ NoThread \in Thread /\ NoThread.pc = "none"
  BY DEF NoThread, Thread, PCs
<1>6. \A s \in Slots : task'[s] = (IF s \in 1..n THEN Started(at[s], free) ELSE Zeroed)
  BY DEF BootTable
<1>7. \A s \in Slots : lt'[s] = (IF s \in 1..n THEN [NoThread EXCEPT !.pc = "check"] ELSE NoThread)
  BY DEF BootTable
<1>8. \A s \in Slots : task'[s] \in TaskRec
  BY <1>3, <1>4, <1>6, SlotValues
<1>9. \A s \in Slots : lt'[s] \in Thread
  BY <1>5, <1>7
<1>10. task' \in [Slots -> TaskRec]
  BY <1>8 DEF BootTable
<1>11. lt' \in [Slots -> Thread]
  BY <1>9 DEF BootTable
<1>12. ASSUME NEW s \in Slots
       PROVE  /\ task'[s].workers = 0 /\ ~task'[s].gone
              /\ lt'[s].pc # "start"
              /\ lt'[s].pc # "none" => task'[s].running
              /\ task'[s].running => task'[s].init
              /\ task'[s].init <=> s \in 1..n
              /\ s \in 1..n => task'[s].cfg = at[s] /\ at[s] \in Static \cup db
  <2>1. CASE s \in 1..n
    <3>1. task'[s] = Started(at[s], free) /\ lt'[s] = [NoThread EXCEPT !.pc = "check"]
      BY <1>6, <1>7, <2>1
    <3>2. at[s] \in Static \cup db /\ at[s] \in Configs
      BY <1>3, <2>1
    <3>3. lt'[s].pc = "check"
      BY <1>5, <3>1
    <3>4. /\ task'[s].cfg = at[s] /\ task'[s].init /\ task'[s].running /\ ~task'[s].gone
          /\ task'[s].workers = 0
      BY <1>4, <3>1, <3>2, SlotValues
    <3> QED BY <2>1, <3>2, <3>3, <3>4
  <2>2. CASE s \notin 1..n
    BY <1>5, <1>6, <1>7, <2>2, SlotValues
  <2> QED BY <2>1, <2>2
<1> QED BY <1>10, <1>11, <1>12

\* The rows stay finitely many configurations.
LEMMA RowsFinite ==
  ASSUME TypeInv, NEW c \in Configs, NEW r
  PROVE  /\ db \cup {c} \subseteq Configs /\ IsFiniteSet(db \cup {c})
         /\ db \ {r} \subseteq Configs /\ IsFiniteSet(db \ {r})
         /\ (db \ {r}) \cup {c} \subseteq Configs /\ IsFiniteSet((db \ {r}) \cup {c})
<1>1. db \subseteq Configs /\ IsFiniteSet(db)
  BY DEF TypeInv
<1>2. IsFiniteSet(db \cup {c}) /\ IsFiniteSet(db \ {r})
  BY <1>1, FS_AddElement, FS_RemoveElement
<1>3. IsFiniteSet((db \ {r}) \cup {c})
  BY <1>2, FS_AddElement
<1> QED BY <1>1, <1>2, <1>3

\* What the second half of a request does to the slots: the old one ends, the new
\* one starts or is zeroed, no other is touched.
LEMMA FinishSlots ==
  ASSUME LockInv, Finish
  PROVE  /\ up /\ up' = up /\ req' = Idle
         /\ \/ req \in Creating /\ CreateDone
            \/ req \in Creating /\ CreateFails
            \/ req \in Updating /\ UpdateDone
            \/ req \in Updating /\ UpdateFails
            \/ req \in Deleting /\ DeleteDone
<1>1. req' = Idle /\ up' = up /\ req # Idle
  BY RequestKinds DEF Finish, CreateDone, CreateFails, UpdateDone, UpdateFails, DeleteDone, Idle
<1>2. up
  BY <1>1 DEF LockInv, ReqInv
<1>3. req \in {Idle} \cup Creating \cup Updating \cup Deleting
  BY DEF LockInv, TypeInv
<1>4. /\ req.op = "create" => req \in Creating
      /\ req.op = "update" => req \in Updating
      /\ req.op = "delete" => req \in Deleting
  BY <1>3, RequestKinds
<1> QED BY <1>1, <1>2, <1>4 DEF Finish, CreateDone, CreateFails, UpdateDone, UpdateFails, DeleteDone

\* A set of listeners that is closed holds endpoints.
LEMMA HeldEndpoints ==
  ASSUME NEW s \in Slots
  PROVE  StillHeld(s) \in SUBSET Endpoints
BY DEF StillHeld

\* The second half of a request: the slots of the request, and the others.
Finished(old, slot) ==
  /\ old # slot
  /\ old \in Slots => Live(old) /\ task[old].workers = 0
  /\ slot \in Slots => Unused(slot)
  /\ task' \in [Slots -> TaskRec] /\ lt' \in [Slots -> Thread]
  /\ \A i \in Slots \ {old, slot} : task'[i] = task[i] /\ lt'[i] = lt[i]
  /\ old \in Slots => /\ ~task'[old].init /\ task'[old].gone /\ task'[old].workers = 0
                      /\ task'[old].running = task[old].running /\ lt'[old].pc = lt[old].pc
  /\ slot \in Slots =>
       /\ task'[slot].workers = 0 /\ ~task'[slot].gone
       /\ \/ task'[slot].init /\ task'[slot].running /\ lt'[slot].pc = "check"
          \/ ~task'[slot].init /\ ~task'[slot].running /\ lt'[slot].pc = lt[slot].pc

\* A creation has no old slot, a deletion no new one: 0 stands for them.
LEMMA CreateFinished ==
  ASSUME LockInv, req \in Creating, CreateDone \/ CreateFails
  PROVE  Finished(0, req.slot) /\ (CreateDone => task'[req.slot].cfg = req.cfg /\ task'[req.slot].init)
                               /\ (CreateFails => ~task'[req.slot].init)
<1> DEFINE f == req.slot
           z == [Zeroed EXCEPT !.cfg = req.cfg]
           n == Started(req.cfg, Endpoints \ Used)
<1>1. f \in Slots /\ req.cfg \in Configs /\ 0 \notin Slots
  BY RequestKinds, ConfigAssumption DEF Slots
<1>2. task \in [Slots -> TaskRec] /\ lt \in [Slots -> Thread] /\ Unused(f)
  BY DEF LockInv, TypeInv, ReqInv
<1>3. /\ n \in TaskRec /\ n.cfg = req.cfg /\ n.init /\ n.running /\ ~n.gone /\ n.workers = 0
      /\ z \in TaskRec /\ ~z.init /\ ~z.running /\ ~z.gone /\ z.workers = 0
  BY <1>1, SlotValues
<1> HIDE DEF n, z
<1>4. ASSUME CreateDone PROVE Finished(0, f) /\ task'[f].cfg = req.cfg /\ task'[f].init
  <2>1. task' = [task EXCEPT ![f] = n] /\ lt' = [lt EXCEPT ![f].pc = "check"]
    BY <1>4 DEF CreateDone, Begin, n
  <2>2. lt' \in [Slots -> Thread] /\ lt'[f].pc = "check" /\ \A i \in Slots \ {f} : lt'[i] = lt[i]
    BY <1>1, <1>2, <2>1 DEF Thread, PCs
  <2>3. task' \in [Slots -> TaskRec] /\ task'[f] = n /\ \A i \in Slots \ {f} : task'[i] = task[i]
    BY <1>1, <1>2, <1>3, <2>1
  <2> QED BY <1>1, <1>2, <1>3, <2>2, <2>3 DEF Finished
<1>5. ASSUME CreateFails PROVE Finished(0, f) /\ ~task'[f].init
  <2>1. task' = [task EXCEPT ![f] = z] /\ lt' = lt
    BY <1>5 DEF CreateFails, z
  <2>2. task' \in [Slots -> TaskRec] /\ task'[f] = z /\ \A i \in Slots \ {f} : task'[i] = task[i]
    BY <1>1, <1>2, <1>3, <2>1
  <2> QED BY <1>1, <1>2, <1>3, <2>1, <2>2 DEF Finished
<1> QED BY <1>4, <1>5

\* An update ends the old task, and starts the new one or leaves its slot zeroed.
LEMMA UpdateFinished ==
  ASSUME LockInv, req \in Updating, UpdateDone \/ UpdateFails
  PROVE  /\ Finished(req.old, req.slot)
         /\ UpdateDone => task'[req.slot].cfg = req.cfg /\ task'[req.slot].init
         /\ UpdateFails => ~task'[req.slot].init
<1> DEFINE f == req.slot
           s == req.old
           z == [Zeroed EXCEPT !.cfg = req.cfg]
<1>1. f \in Slots /\ s \in Slots /\ req.cfg \in Configs
  BY RequestKinds
<1>2. /\ task \in [Slots -> TaskRec] /\ lt \in [Slots -> Thread]
      /\ Unused(f) /\ Live(s) /\ task[s].workers = 0
  BY DEF LockInv, TypeInv, ReqInv
<1>3. s # f
  BY <1>2 DEF Unused, Live
<1>4. z \in TaskRec /\ ~z.init /\ ~z.running /\ ~z.gone /\ z.workers = 0
  BY <1>1, SlotValues
<1>5. /\ Ended(task[s]) \in TaskRec /\ ~Ended(task[s]).init /\ Ended(task[s]).gone
      /\ Ended(task[s]).running = task[s].running /\ Ended(task[s]).workers = 0
  BY <1>1, <1>2, SlotValues DEF LockInv, ReqInv
<1> HIDE DEF f, s, z
<1>6. ASSUME NEW v \in TaskRec, task' = [task EXCEPT ![s] = Ended(@), ![f] = v]
      PROVE  /\ task' \in [Slots -> TaskRec] /\ task'[f] = v /\ task'[s] = Ended(task[s])
             /\ \A i \in Slots \ {s, f} : task'[i] = task[i]
  BY <1>1, <1>2, <1>3, <1>5, <1>6
<1>7. ASSUME UpdateDone PROVE Finished(s, f) /\ task'[f].cfg = req.cfg /\ task'[f].init
  <2>1. PICK h \in {StillHeld(s)}, free \in SUBSET Endpoints :
             /\ task' = Replaced(task, s, f, req.cfg, free)
             /\ lt' = [lt EXCEPT ![s].held = h, ![f].pc = "check"]
    <3> DEFINE fr == Endpoints \ ((Used \ Bound(s)) \cup StillHeld(s))
    <3>1. /\ task' = Replaced(task, s, f, req.cfg, fr)
          /\ lt' = [lt EXCEPT ![s].held = StillHeld(s), ![f].pc = "check"]
      BY <1>7 DEF UpdateDone, s, f
    <3>2. fr \in SUBSET Endpoints
      OBVIOUS
    <3> QED BY <3>1, <3>2
  <2>2. h \in SUBSET Endpoints
    BY <1>1, HeldEndpoints
  <2>3. /\ lt' \in [Slots -> Thread] /\ lt'[f].pc = "check" /\ lt'[s].pc = lt[s].pc
        /\ \A i \in Slots \ {s, f} : lt'[i] = lt[i]
    BY <1>1, <1>2, <1>3, <2>1, <2>2 DEF Thread, PCs
  <2>4. PICK v \in TaskRec : /\ v = Started(req.cfg, free)
                             /\ v.cfg = req.cfg /\ v.init /\ v.running /\ ~v.gone /\ v.workers = 0
    BY <1>1, SlotValues
  <2>5. task' = [task EXCEPT ![s] = Ended(@), ![f] = v]
    BY <2>1, <2>4 DEF Replaced
  <2> QED BY <1>1, <1>2, <1>3, <1>5, <1>6, <2>3, <2>4, <2>5 DEF Finished
<1>8. ASSUME UpdateFails PROVE Finished(s, f) /\ ~task'[f].init
  <2>1. PICK h \in {StillHeld(s)} :
             /\ task' = [task EXCEPT ![s] = Ended(@), ![f] = z]
             /\ lt' = [lt EXCEPT ![s].held = h]
    BY <1>8 DEF UpdateFails, s, f, z
  <2>2. h \in SUBSET Endpoints
    BY <1>1, HeldEndpoints
  <2>3. /\ lt' \in [Slots -> Thread] /\ lt'[f] = lt[f] /\ lt'[s].pc = lt[s].pc
        /\ \A i \in Slots \ {s, f} : lt'[i] = lt[i]
    BY <1>1, <1>2, <1>3, <2>1, <2>2 DEF Thread, PCs
  <2> QED BY <1>1, <1>2, <1>3, <1>4, <1>5, <1>6, <2>1, <2>3 DEF Finished
<1> QED BY <1>7, <1>8 DEF s, f

\* A deletion ends the old task.
LEMMA DeleteFinished ==
  ASSUME LockInv, req \in Deleting, DeleteDone PROVE Finished(req.old, 0)
<1> DEFINE s == req.old
<1>1. s \in Slots /\ 0 \notin Slots
  BY RequestKinds DEF Slots
<1>2. /\ task \in [Slots -> TaskRec] /\ lt \in [Slots -> Thread]
      /\ Live(s) /\ task[s].workers = 0
  BY DEF LockInv, TypeInv, ReqInv
<1>3. /\ Ended(task[s]) \in TaskRec /\ ~Ended(task[s]).init /\ Ended(task[s]).gone
      /\ Ended(task[s]).running = task[s].running /\ Ended(task[s]).workers = 0
  BY <1>1, <1>2, SlotValues DEF LockInv, ReqInv
<1> HIDE DEF s
<1>4. PICK h \in {StillHeld(s)} : lt' = [lt EXCEPT ![s].held = h]
  BY DEF DeleteDone, s
<1>5. h \in SUBSET Endpoints
  BY <1>1, HeldEndpoints
<1>6. lt' \in [Slots -> Thread] /\ lt'[s].pc = lt[s].pc /\ \A i \in Slots \ {s} : lt'[i] = lt[i]
  BY <1>1, <1>2, <1>4, <1>5 DEF Thread, PCs
<1>7. task' = [task EXCEPT ![s] = Ended(task[s])]
  BY DEF DeleteDone, s
<1>8. task' \in [Slots -> TaskRec] /\ task'[s] = Ended(task[s]) /\ \A i \in Slots \ {s} : task'[i] = task[i]
  BY <1>1, <1>2, <1>3, <1>7
<1>9. Finished(s, 0)
  BY <1>1, <1>2, <1>3, <1>6, <1>8 DEF Finished
<1> QED BY <1>9 DEF s

\* The second half of a request keeps the rules of the slots.
LEMMA FinishKeeps ==
  ASSUME LockInv, Finish PROVE LockInv'
<1>1. up /\ up' = up /\ req' = Idle
  BY FinishSlots
<1>2. torn' \in BOOLEAN /\ db' \subseteq Configs /\ IsFiniteSet(db')
  <2>1. db' = db \/ (req \in Creating /\ db' = db \ {req.cfg})
    BY FinishSlots DEF CreateDone, CreateFails, UpdateDone, UpdateFails, DeleteDone
  <2>2. torn' = torn \/ torn' = TRUE
    BY FinishSlots DEF CreateDone, CreateFails, UpdateDone, UpdateFails, DeleteDone
  <2>3. req \in Creating => req.cfg \in Configs
    BY RequestKinds
  <2>4. db' \subseteq Configs /\ IsFiniteSet(db')
    BY <2>1, <2>3, RowsFinite DEF LockInv, TypeInv
  <2>5. torn' \in BOOLEAN
    BY <2>2 DEF LockInv, TypeInv
  <2> QED BY <2>4, <2>5
<1>3. \E old, slot : Finished(old, slot)
  BY FinishSlots, CreateFinished, UpdateFinished, DeleteFinished
<1>4. PICK old, slot : Finished(old, slot)
  BY <1>3
<1>5. TypeInv'
  BY <1>1, <1>2, <1>4 DEF LockInv, TypeInv, Finished
<1>6. ASSUME NEW i \in Slots
      PROVE  /\ task'[i].workers > 0 => task'[i].init
             /\ lt'[i].pc = "start" => task'[i].workers > 0
             /\ lt'[i].pc # "none" => task'[i].running
             /\ task'[i].running => task'[i].init \/ task'[i].gone
  <2>1. /\ task[i].workers > 0 => task[i].init
        /\ lt[i].pc = "start" => task[i].workers > 0
        /\ lt[i].pc # "none" => task[i].running
        /\ task[i].running => task[i].init \/ task[i].gone
    BY DEF LockInv, SlotInv
  <2>2. CASE i \notin {old, slot}
    BY <1>4, <2>1, <2>2 DEF Finished
  <2>3. CASE i = old
    BY <1>4, <2>1, <2>3 DEF Finished
  <2>4. CASE i = slot
    <3>1. lt[i].pc = "none"
      BY <1>4, <2>1, <2>4 DEF Finished, Unused
    <3> QED BY <1>4, <2>4, <3>1 DEF Finished
  <2> QED BY <2>2, <2>3, <2>4
<1>7. SlotInv'
  BY <1>6 DEF SlotInv
<1>8. ReqInv'
  BY <1>1, RequestKinds DEF ReqInv
<1> QED BY <1>5, <1>7, <1>8 DEF LockInv

\* The first half of a request looks at the table and writes the row.
LEMMA RequestKeeps ==
  ASSUME LockInv, Request
  PROVE  LockInv' /\ UNCHANGED <<task, lt, up, torn>> /\ up /\ req = Idle
<1>1. UNCHANGED <<task, lt, up, torn>> /\ up /\ req = Idle
  BY DEF Request, Create, Update, Delete
<1>2. ASSUME NEW r \in Creating \cup Updating \cup Deleting, req' = r,
             r \in Creating \cup Updating => Unused(r.slot),
             r \in Updating \cup Deleting => Live(r.old) /\ task[r.old].workers = 0,
             db' \subseteq Configs, IsFiniteSet(db')
      PROVE  LockInv'
  <2>1. TypeInv'
    BY <1>1, <1>2 DEF LockInv, TypeInv
  <2>2. SlotInv'
    BY <1>1 DEF LockInv, SlotInv
  <2>3. ReqInv'
    BY <1>1, <1>2 DEF ReqInv, Unused, Live
  <2> QED BY <2>1, <2>2, <2>3 DEF LockInv
<1>3. ASSUME NEW c \in Configs, Create(c) PROVE LockInv'
  <2> DEFINE r == [op |-> "create", cfg |-> c, slot |-> Min(FreeSlots)]
  <2>1. Min(FreeSlots) \in Slots /\ Unused(Min(FreeSlots))
    BY <1>3, FreeSlotFound DEF Create
  <2>2. req' = r /\ db' = db \cup {c}
    BY <1>3 DEF Create
  <2>3. r \in Creating /\ r.slot = Min(FreeSlots)
    BY <2>1 DEF Creating
  <2>4. db' \subseteq Configs /\ IsFiniteSet(db')
    BY <2>2, RowsFinite DEF LockInv
  <2> HIDE DEF r
  <2> QED BY <1>2, <2>1, <2>2, <2>3, <2>4, RequestKinds
<1>4. ASSUME NEW c \in Configs, Update(c) PROVE LockInv'
  <2>1. PICK s \in Slots :
          /\ Live(s) /\ task[s].workers = 0 /\ FreeSlots # {}
          /\ req' = [op |-> "update", cfg |-> c, old |-> s, slot |-> Min(FreeSlots)]
    BY <1>4 DEF Update
  <2>2. PICK q : db' = (db \ {q}) \cup {c}
    BY <1>4 DEF Update
  <2> DEFINE r == [op |-> "update", cfg |-> c, old |-> s, slot |-> Min(FreeSlots)]
  <2>3. Min(FreeSlots) \in Slots /\ Unused(Min(FreeSlots))
    BY <2>1, FreeSlotFound
  <2>4. r \in Updating /\ r.slot = Min(FreeSlots) /\ r.old = s
    BY <2>3 DEF Updating
  <2>5. db' \subseteq Configs /\ IsFiniteSet(db')
    BY <2>2, RowsFinite DEF LockInv
  <2>6. req' = r
    BY <2>1
  <2> HIDE DEF r
  <2> QED BY <1>2, <2>1, <2>3, <2>4, <2>5, <2>6, RequestKinds
<1>5. ASSUME NEW c \in Configs, Delete(c.name) PROVE LockInv'
  <2>1. PICK s \in Slots : /\ Live(s) /\ task[s].workers = 0
                           /\ req' = [op |-> "delete", old |-> s]
    BY <1>5 DEF Delete
  <2>2. PICK q : db' = db \ {q}
    BY <1>5 DEF Delete
  <2> DEFINE r == [op |-> "delete", old |-> s]
  <2>3. r \in Deleting /\ r.old = s
    BY DEF Deleting
  <2>4. db' \subseteq Configs /\ IsFiniteSet(db')
    BY <2>2, RowsFinite DEF LockInv
  <2>5. req' = r
    BY <2>1
  <2> HIDE DEF r
  <2> QED BY <1>2, <2>1, <2>3, <2>4, <2>5, RequestKinds
<1> QED BY <1>1, <1>3, <1>4, <1>5 DEF Request

\* Every step keeps the rules of the slots.
LEMMA LockStep ==
  ASSUME LockInv, [Next]_vars PROVE LockInv'
<1>1. CASE Request
  BY <1>1, RequestKeeps
<1>2. CASE Finish
  BY <1>2, FinishKeeps
<1>3. ASSUME NEW s \in Slots, ListenerStep(s) \/ WaitAborts(s) \/ WorkerEnds(s) PROVE LockInv'
  BY <1>3, ThreadMoves, MovedKeeps
<1>4. CASE Boot
  <2>1. up' = TRUE /\ UNCHANGED <<db, req, torn>> /\ req = Idle
    BY <1>4 DEF Boot, LockInv, ReqInv
  <2>2. PICK n, at, free : BootTable(n, at, free)
    BY <1>4, BootFinds DEF LockInv
  <2>3. TypeInv'
    BY <2>1, <2>2, BootSlots DEF LockInv, TypeInv
  <2>4. SlotInv'
    BY <2>2, BootSlots DEF LockInv, SlotInv
  <2>5. ReqInv'
    BY <2>1, RequestKinds DEF ReqInv
  <2> QED BY <2>3, <2>4, <2>5 DEF LockInv
<1>5. CASE Crash
  <2>1. /\ up' = FALSE /\ req' = Idle /\ UNCHANGED <<db, torn>>
        /\ task' = [s \in Slots |-> Zeroed] /\ lt' = [s \in Slots |-> NoThread]
    BY <1>5 DEF Crash
  <2>2. NoThread \in Thread /\ NoThread.pc = "none"
    BY DEF NoThread, Thread, PCs
  <2>3. TypeInv'
    BY <2>1, <2>2, SlotValues DEF LockInv, TypeInv
  <2>4. SlotInv'
    BY <2>1, <2>2, SlotValues DEF SlotInv
  <2>5. ReqInv'
    BY <2>1, RequestKinds DEF ReqInv
  <2> QED BY <2>3, <2>4, <2>5 DEF LockInv
<1>6. CASE UNCHANGED <<up, db, task, lt, req, torn>>
  BY <1>6 DEF LockInv, TypeInv, SlotInv, ReqInv, Unused, Live
<1>7. OtherEnds \/ (\E e \in Endpoints : Connect(e)) \/ UNCHANGED vars
         => UNCHANGED <<up, db, task, lt, req, torn>>
  BY DEF OtherEnds, Connect, vars
<1> QED BY <1>1, <1>2, <1>3, <1>4, <1>5, <1>6, <1>7 DEF Next

\* The rules of the slots hold from the start.
LEMMA LockHolds == Spec => []LockInv
<1>1. ASSUME Init PROVE LockInv
  <2>1. /\ up = FALSE /\ req = Idle /\ torn = FALSE /\ db = Stored
        /\ task = [s \in Slots |-> Zeroed] /\ lt = [s \in Slots |-> NoThread]
    BY <1>1 DEF Init
  <2>2. NoThread \in Thread /\ NoThread.pc = "none"
    BY DEF NoThread, Thread, PCs
  <2>3. TypeInv
    BY <2>1, <2>2, SlotValues, StoredAssumption, ConfigAssumption DEF TypeInv
  <2>4. SlotInv
    BY <2>1, <2>2, SlotValues DEF SlotInv
  <2>5. ReqInv
    BY <2>1, RequestKinds DEF ReqInv
  <2> QED BY <2>3, <2>4, <2>5 DEF LockInv
<1>2. LockInv /\ [Next]_vars => LockInv'
  BY LockStep
<1> QED BY <1>1, <1>2, PTL DEF Spec

\* No session runs on a task that has been ended: a connection accepted while the
\* task was being deleted is refused under the task_lock.
THEOREM SessionsSafe == Spec => []SessionsHaveTask
<1>1. LockInv => SessionsHaveTask
  BY DEF LockInv, SlotInv, SessionsHaveTask
<1> QED BY <1>1, LockHolds, PTL

-----------------------------------------------------------------------------
(* The table, the file and the database.                                   *)

Apart(c, d) == c.name # d.name /\ c.port # d.port
Rows == Static \cup db

\* What emtask_load_config asks of the rows; the number of them is kept unless a
\* failed request has left one behind.
RowsInv ==
  /\ Static \cap db = {}
  /\ \A r, q \in Rows : r # q => Apart(r, q)
  /\ \A r \in Rows : ~ConflictsWithPanel(r)
  /\ torn \/ Cardinality(Rows) <= MaxTasks

\* The tasks that outlast the request in progress, and the rows it does not write.
Lasting == {s \in Slots : Live(s) /\ (req \in Updating \cup Deleting => s # req.old)}
Rest == IF req \in Creating \cup Updating THEN db \ {req.cfg} ELSE db

(***************************************************************************)
(* Those tasks are the tasks of the file and the other rows; those of the  *)
(* file always run, for no request finds a row of theirs; and what the     *)
(* request is about to start fits beside them.                             *)
(***************************************************************************)
TableInv ==
  /\ \A s \in Lasting : task[s].cfg \in Static \cup Rest
  /\ \A s, i \in Lasting : s # i => Apart(task[s].cfg, task[i].cfg)
  /\ \A r \in Static : \E s \in Lasting : task[s].cfg = r
  /\ torn \/ \A r \in Rest : \E s \in Lasting : task[s].cfg = r
  /\ req \in Creating \cup Updating =>
       req.cfg \in db /\ \A s \in Lasting : Apart(req.cfg, task[s].cfg)

StoreInv == RowsInv /\ (up => TableInv)

\* A step that changes neither the rows nor what the slots are.
LEMMA StoreKept ==
  ASSUME StoreInv, UNCHANGED <<up, db, req, torn>>,
         \A i \in Slots : /\ task'[i].cfg = task[i].cfg /\ task'[i].init = task[i].init
                          /\ task'[i].gone = task[i].gone
  PROVE  StoreInv'
<1>1. RowsInv'
  BY DEF StoreInv, RowsInv, Rows
<1>2. Lasting' = Lasting /\ Rest' = Rest
  BY DEF Lasting, Live, Rest
<1>3. \A i \in Lasting : task'[i].cfg = task[i].cfg
  BY DEF Lasting
<1>4. up' => TableInv'
  BY <1>2, <1>3 DEF StoreInv, TableInv
<1> QED BY <1>1, <1>4 DEF StoreInv

\* As many rows as slots can be told apart by the slots.
LEMMA RowsFit ==
  ASSUME NEW S, NEW g, g = [s \in Slots |-> g[s]],
         \A r \in S : \E s \in Slots : g[s] = r
  PROVE  Cardinality(S) <= MaxTasks
<1> DEFINE T == {g[s] : s \in Slots}
<1>1. g \in Surjection(Slots, T)
  <2>1. g \in [Slots -> T]
    OBVIOUS
  <2> QED BY <2>1 DEF Surjection
<1>0. MaxTasks \in Nat /\ Slots = 1..MaxTasks
  BY ConfigAssumption DEF Slots
<1>2. IsFiniteSet(Slots) /\ Cardinality(Slots) = MaxTasks
  BY <1>0, FS_Interval
<1>3. IsFiniteSet(T) /\ Cardinality(T) <= Cardinality(Slots)
  BY <1>1, <1>2, FS_Surjection
<1>4. S \in SUBSET T
  OBVIOUS
<1>5. Cardinality(S) <= Cardinality(T)
  BY <1>3, <1>4, FS_Subset
<1>6. Cardinality(S) \in Nat /\ Cardinality(T) \in Nat
  BY <1>3, <1>4, FS_Subset, FS_CardinalityType
<1> HIDE DEF T
<1> QED BY <1>0, <1>2, <1>3, <1>5, <1>6

\* A creation adds a row that fits.
LEMMA CreateStores ==
  ASSUME LockInv, StoreInv, NEW c \in Configs, Create(c) PROVE StoreInv'
<1>1. /\ up /\ req = Idle /\ UNCHANGED <<task, up, torn>> /\ db' = db \cup {c}
      /\ ~ConflictsWithPanel(c) /\ (\A s \in Slots : ~Clashes(c, s)) /\ RowFits(c, db)
      /\ FreeSlots # {}
      /\ req' = [op |-> "create", cfg |-> c, slot |-> Min(FreeSlots)]
  BY DEF Create
<1>2. Min(FreeSlots) \in Slots /\ Unused(Min(FreeSlots))
  BY <1>1, FreeSlotFound
<1>3. req' \in Creating /\ req'.cfg = c /\ req' \notin Updating \cup Deleting
  BY <1>1, <1>2, RequestKinds DEF Creating
<1>4. \A s \in Slots : Live(s) => Apart(c, task[s].cfg)
  BY <1>1 DEF Clashes, Apart
<1>5. \A r \in db : Apart(c, r)
  BY <1>1 DEF RowFits, Apart
<1>6. c \notin db
  BY <1>5 DEF Apart
<1>7. Lasting = {s \in Slots : Live(s)} /\ Rest = db
  BY <1>1, RequestKinds DEF Lasting, Rest
<1>8. Lasting' = Lasting /\ Rest' = db
  BY <1>1, <1>3, <1>6, <1>7 DEF Lasting, Rest, Live
<1>9. TableInv'
  BY <1>1, <1>3, <1>4, <1>7, <1>8 DEF TableInv, StoreInv
<1>10. \A r \in Static : Apart(c, r)
  BY <1>1, <1>4, <1>7 DEF StoreInv, TableInv
<1>11. c \notin Static
  BY <1>10 DEF Apart
<1>12. \A r, q \in Rows' : r # q => Apart(r, q)
  <2>1. Rows' = Rows \cup {c} /\ \A r \in Rows : Apart(c, r) /\ Apart(r, c)
    BY <1>1, <1>5, <1>10 DEF Rows, Apart
  <2> QED BY <2>1 DEF StoreInv, RowsInv
<1>13. torn' \/ Cardinality(Rows') <= MaxTasks
  <2>1. SUFFICES ASSUME ~torn PROVE Cardinality(Rows') <= MaxTasks
    BY <1>1
  <2> DEFINE g == [s \in Slots |-> IF s = Min(FreeSlots) THEN c ELSE task[s].cfg]
  <2>2. \A r \in Rows : \E s \in Lasting : task[s].cfg = r
    BY <1>1, <1>7, <2>1 DEF StoreInv, TableInv, Rows
  <2>3. Min(FreeSlots) \notin Lasting
    BY <1>2 DEF Lasting, Unused, Live
  <2>4. \A r \in Rows : \E s \in Slots : g[s] = r
    BY <2>2, <2>3 DEF Lasting
  <2>5. g[Min(FreeSlots)] = c
    BY <1>2
  <2>6. \A r \in Rows' : \E s \in Slots : g[s] = r
    BY <1>1, <1>2, <2>4, <2>5 DEF Rows
  <2> HIDE DEF g
  <2>7. g = [s \in Slots |-> g[s]]
    BY DEF g
  <2> QED BY <2>6, <2>7, RowsFit
<1>14. RowsInv'
  BY <1>1, <1>11, <1>12, <1>13 DEF StoreInv, RowsInv, Rows, ConflictsWithPanel
<1> QED BY <1>9, <1>14 DEF StoreInv

\* The task of a row and the row: the other tasks are those of the other rows.
LEMMA RowOfTask ==
  ASSUME StoreInv, up, req = Idle, NEW s \in Slots, Live(s), NEW r \in db,
         r.name = task[s].cfg.name
  PROVE  /\ Rest = db /\ Lasting = {i \in Slots : Live(i)}
         /\ \A i \in Lasting \ {s} : task[i].cfg \in Static \cup (db \ {r})
         /\ \A q \in Static : \E i \in Lasting \ {s} : task[i].cfg = q
         /\ torn \/ \A q \in db \ {r} : \E i \in Lasting \ {s} : task[i].cfg = q
<1>1. Rest = db /\ Lasting = {i \in Slots : Live(i)}
  BY RequestKinds DEF Rest, Lasting
<1>2. TableInv /\ RowsInv
  BY DEF StoreInv
<1>3. ASSUME NEW i \in Lasting \ {s} PROVE task[i].cfg \in Static \cup (db \ {r})
  <2>1. Apart(task[s].cfg, task[i].cfg)
    BY <1>1, <1>2 DEF TableInv
  <2>2. task[i].cfg # r
    BY <2>1 DEF Apart
  <2> QED BY <1>1, <1>2, <2>2 DEF TableInv
<1>4. ASSUME NEW q \in Rows, q # r PROVE task[s].cfg # q
  <2>1. Apart(q, r)
    BY <1>2, <1>4 DEF RowsInv, Rows
  <2> QED BY <2>1 DEF Apart
<1>5. ASSUME NEW q \in Static PROVE \E i \in Lasting \ {s} : task[i].cfg = q
  <2>1. q \in Rows /\ q # r
    BY <1>2 DEF RowsInv, Rows
  <2> QED BY <1>2, <1>4, <2>1 DEF TableInv
<1>6. ASSUME ~torn, NEW q \in db \ {r} PROVE \E i \in Lasting \ {s} : task[i].cfg = q
  <2>1. q \in Rows /\ q # r
    BY DEF Rows
  <2> QED BY <1>1, <1>2, <1>4, <1>6, <2>1 DEF TableInv
<1> QED BY <1>1, <1>3, <1>5, <1>6

\* An update writes one row for another of the same name.
LEMMA UpdateStores ==
  ASSUME LockInv, StoreInv, NEW c \in Configs, Update(c) PROVE StoreInv'
<1>1. /\ up /\ req = Idle /\ UNCHANGED <<task, up, torn>> /\ ~ConflictsWithPanel(c)
  BY DEF Update
<1>2. PICK s \in Slots :
        /\ Live(s) /\ task[s].cfg.name = c.name /\ FreeSlots # {}
        /\ \A i \in Slots \ {s} : ~Clashes(c, i)
        /\ req' = [op |-> "update", cfg |-> c, old |-> s, slot |-> Min(FreeSlots)]
  BY DEF Update
<1>3. PICK r \in db : r.name = c.name /\ RowFits(c, db \ {r}) /\ db' = (db \ {r}) \cup {c}
  BY DEF Update
<1>4. Min(FreeSlots) \in Slots
  BY <1>2, FreeSlotFound
<1>5. req' \in Updating /\ req'.cfg = c /\ req'.old = s
  BY <1>2, <1>4 DEF Updating
<1>6. /\ Rest = db /\ Lasting = {i \in Slots : Live(i)}
      /\ \A i \in Lasting \ {s} : task[i].cfg \in Static \cup (db \ {r})
      /\ \A q \in Static : \E i \in Lasting \ {s} : task[i].cfg = q
      /\ torn \/ \A q \in db \ {r} : \E i \in Lasting \ {s} : task[i].cfg = q
  BY <1>1, <1>2, <1>3, RowOfTask
<1>7. \A i \in Lasting \ {s} : Apart(c, task[i].cfg)
  BY <1>2, <1>6 DEF Clashes, Apart
<1>8. \A q \in db \ {r} : Apart(c, q)
  BY <1>3 DEF RowFits, Apart
<1>9. \A q \in Static : Apart(c, q)
  BY <1>6, <1>7
<1>10. c \notin Static /\ c \notin db \ {r}
  BY <1>8, <1>9 DEF Apart
<1>11. Lasting' = Lasting \ {s} /\ Rest' = db \ {r}
  <2>1. Lasting' = Lasting \ {s}
    BY <1>1, <1>5, <1>6 DEF Lasting, Live
  <2>2. Rest' = ((db \ {r}) \cup {c}) \ {c}
    BY <1>3, <1>5 DEF Rest
  <2> QED BY <1>10, <2>1, <2>2
<1>12. TableInv'
  <2>1. \A i, j \in Lasting' : i # j => Apart(task'[i].cfg, task'[j].cfg)
    BY <1>1, <1>11 DEF StoreInv, TableInv
  <2>2. c \in db'
    BY <1>3
  <2> QED BY <1>1, <1>5, <1>6, <1>7, <1>11, <2>1, <2>2 DEF TableInv
<1>13. Rows' = (Static \cup (db \ {r})) \cup {c}
  BY <1>3 DEF Rows
<1>14. \A p, q \in Rows' : p # q => Apart(p, q)
  <2>1. \A q \in Static \cup (db \ {r}) : Apart(c, q) /\ Apart(q, c)
    BY <1>8, <1>9 DEF Apart
  <2>2. \A p, q \in Static \cup (db \ {r}) : p # q => Apart(p, q)
    BY DEF StoreInv, RowsInv, Rows
  <2> QED BY <1>13, <2>1, <2>2
<1>15. torn' \/ Cardinality(Rows') <= MaxTasks
  <2>1. SUFFICES ASSUME ~torn PROVE Cardinality(Rows') <= MaxTasks
    BY <1>1
  <2> DEFINE g == [i \in Slots |-> IF i = s THEN c ELSE task[i].cfg]
  <2>2. \A q \in Static \cup (db \ {r}) : \E i \in Slots \ {s} : task[i].cfg = q
    BY <1>6, <2>1 DEF Lasting
  <2>3. \A q \in Rows' : \E i \in Slots : g[i] = q
    BY <1>13, <2>2
  <2> HIDE DEF g
  <2>4. g = [i \in Slots |-> g[i]]
    BY DEF g
  <2> QED BY <2>3, <2>4, RowsFit
<1>16. RowsInv'
  <2>1. Static \cap db' = {}
    BY <1>3, <1>10 DEF StoreInv, RowsInv
  <2>2. \A q \in Rows' : ~ConflictsWithPanel(q)
    BY <1>1, <1>13 DEF StoreInv, RowsInv, Rows
  <2> QED BY <1>14, <1>15, <2>1, <2>2 DEF RowsInv, ConflictsWithPanel
<1> QED BY <1>12, <1>16 DEF StoreInv

\* A deletion takes one row away.
LEMMA DeleteStores ==
  ASSUME LockInv, StoreInv, NEW n, Delete(n) PROVE StoreInv'
<1>1. up /\ req = Idle /\ UNCHANGED <<task, up, torn>>
  BY DEF Delete
<1>2. PICK s \in Slots : Live(s) /\ task[s].cfg.name = n /\ req' = [op |-> "delete", old |-> s]
  BY DEF Delete
<1>3. PICK r \in db : r.name = n /\ db' = db \ {r}
  BY DEF Delete
<1>4. req' \in Deleting /\ req'.old = s /\ req' \notin Creating \cup Updating
  BY <1>2, RequestKinds DEF Deleting
<1>5. /\ Rest = db /\ Lasting = {i \in Slots : Live(i)}
      /\ \A i \in Lasting \ {s} : task[i].cfg \in Static \cup (db \ {r})
      /\ \A q \in Static : \E i \in Lasting \ {s} : task[i].cfg = q
      /\ torn \/ \A q \in db \ {r} : \E i \in Lasting \ {s} : task[i].cfg = q
  BY <1>1, <1>2, <1>3, RowOfTask
<1>6. Lasting' = Lasting \ {s} /\ Rest' = db \ {r}
  BY <1>1, <1>3, <1>4, <1>5 DEF Lasting, Live, Rest
<1>7. TableInv'
  <2>1. \A i, j \in Lasting' : i # j => Apart(task'[i].cfg, task'[j].cfg)
    BY <1>1, <1>6 DEF StoreInv, TableInv
  <2> QED BY <1>1, <1>4, <1>5, <1>6, <2>1 DEF TableInv
<1>8. Rows' \subseteq Rows /\ Static \cap db' = {}
  BY <1>3 DEF Rows, StoreInv, RowsInv
<1>9. torn' \/ Cardinality(Rows') <= MaxTasks
  <2>1. IsFiniteSet(Rows) /\ Rows' \in SUBSET Rows
    BY <1>8, StoredAssumption, FS_Union DEF Rows, LockInv, TypeInv
  <2>2. /\ Cardinality(Rows') <= Cardinality(Rows)
        /\ Cardinality(Rows') \in Nat /\ Cardinality(Rows) \in Nat
    BY <2>1, FS_Subset, FS_CardinalityType
  <2>3. MaxTasks \in Nat
    BY ConfigAssumption
  <2> QED BY <1>1, <2>2, <2>3 DEF StoreInv, RowsInv
<1>10. RowsInv'
  BY <1>8, <1>9 DEF StoreInv, RowsInv, ConflictsWithPanel
<1> QED BY <1>7, <1>10 DEF StoreInv

\* Fewer rows are loaded as well.
LEMMA RowsShrink ==
  ASSUME LockInv, RowsInv, db' \subseteq db, torn' = torn \/ torn' = TRUE PROVE RowsInv'
<1>1. Rows' \subseteq Rows /\ Static \cap db' = {}
  BY DEF Rows, RowsInv
<1>2. IsFiniteSet(Rows) /\ Rows' \in SUBSET Rows
  BY <1>1, StoredAssumption, FS_Union DEF Rows, LockInv, TypeInv
<1>3. /\ Cardinality(Rows') <= Cardinality(Rows)
      /\ Cardinality(Rows') \in Nat /\ Cardinality(Rows) \in Nat
  BY <1>2, FS_Subset, FS_CardinalityType
<1>4. torn' \/ Cardinality(Rows') <= MaxTasks
  <2>1. MaxTasks \in Nat
    BY ConfigAssumption
  <2>2. CASE torn' = TRUE
    BY <2>2
  <2>3. CASE torn' = torn
    BY <1>3, <2>1, <2>3 DEF RowsInv
  <2> QED BY <2>2, <2>3
<1> QED BY <1>1, <1>4 DEF RowsInv, ConflictsWithPanel

\* The end of a request leaves the lasting tasks, and adds the one it started.
LEMMA LastingAfter ==
  ASSUME LockInv, NEW old, NEW slot, Finished(old, slot), req' = Idle,
         \/ req \in Updating \cup Deleting /\ old = req.old
         \/ req \in Creating /\ old \notin Slots
  PROVE  /\ \A i \in Lasting : task'[i] = task[i] /\ i # slot
         /\ slot \in Slots /\ task'[slot].init => Lasting' = Lasting \cup {slot}
         /\ slot \in Slots /\ ~task'[slot].init => Lasting' = Lasting
         /\ slot \notin Slots => Lasting' = Lasting
<1>1. Lasting' = {i \in Slots : Live(i)'}
  BY RequestKinds DEF Lasting
<1>2. old \notin Lasting
  BY DEF Lasting
<1>3. slot \notin Lasting
  BY DEF Finished, Lasting, Live, Unused
<1>4. \A i \in Lasting : task'[i] = task[i] /\ i # slot
  BY <1>2, <1>3 DEF Finished, Lasting
<1>5. \A i \in Slots \ {old, slot} : i \in Lasting' <=> i \in Lasting
  BY <1>1, RequestKinds DEF Finished, Lasting, Live
<1>6. old \notin Lasting'
  BY <1>1 DEF Finished, Live
<1>7. slot \in Slots => (slot \in Lasting' <=> task'[slot].init)
  BY <1>1 DEF Finished, Live
<1>8. Lasting \subseteq Slots /\ Lasting' \subseteq Slots
  BY <1>1 DEF Lasting
<1> QED BY <1>2, <1>3, <1>4, <1>5, <1>6, <1>7, <1>8

\* The end of a request that started its task.
LEMMA StartStores ==
  ASSUME StoreInv, up, up' = up, req' = Idle, UNCHANGED <<db, torn>>, RowsInv',
         req \in Creating \cup Updating, NEW slot, Lasting' = Lasting \cup {slot},
         \A i \in Lasting : task'[i] = task[i] /\ i # slot, task'[slot].cfg = req.cfg
  PROVE  StoreInv'
<1>1. Rest' = db /\ Rest = db \ {req.cfg}
  BY RequestKinds DEF Rest
<1>2. TableInv
  BY DEF StoreInv
<1>3. \A i \in Lasting' : task'[i].cfg \in Static \cup Rest'
  BY <1>1, <1>2 DEF TableInv
<1>4. \A i, j \in Lasting' : i # j => Apart(task'[i].cfg, task'[j].cfg)
  <2>1. \A i \in Lasting : Apart(task'[slot].cfg, task'[i].cfg) /\ Apart(task'[i].cfg, task'[slot].cfg)
    BY <1>2 DEF TableInv, Apart
  <2>2. \A i, j \in Lasting : i # j => Apart(task'[i].cfg, task'[j].cfg)
    BY <1>2 DEF TableInv
  <2> QED BY <2>1, <2>2
<1>5. \A r \in Static : \E i \in Lasting' : task'[i].cfg = r
  BY <1>2 DEF TableInv
<1>6. torn' \/ \A r \in Rest' : \E i \in Lasting' : task'[i].cfg = r
  <2>1. \A r \in Rest : torn \/ \E i \in Lasting : task[i].cfg = r
    BY <1>2 DEF TableInv
  <2>2. \A r \in Rest' : torn \/ \E i \in Lasting' : task'[i].cfg = r
    BY <1>1, <2>1
  <2> QED BY <2>2
<1>7. req' \notin Creating \cup Updating
  BY RequestKinds
<1> QED BY <1>3, <1>4, <1>5, <1>6, <1>7 DEF StoreInv, TableInv

\* The end of a request that started nothing: its row is gone, or torn tells of it.
LEMMA EndStores ==
  ASSUME StoreInv, up, up' = up, req' = Idle, RowsInv', Lasting' = Lasting,
         \A i \in Lasting : task'[i] = task[i],
         \/ db' = Rest /\ torn' = torn
         \/ db' = db /\ torn' = TRUE
  PROVE  StoreInv'
<1>1. Rest' = db' /\ Rest \subseteq db'
  BY RequestKinds DEF Rest
<1>2. TableInv
  BY DEF StoreInv
<1>3. \A i \in Lasting' : task'[i].cfg \in Static \cup Rest'
  BY <1>1, <1>2 DEF TableInv
<1>4. \A i, j \in Lasting' : i # j => Apart(task'[i].cfg, task'[j].cfg)
  BY <1>2 DEF TableInv
<1>5. \A r \in Static : \E i \in Lasting' : task'[i].cfg = r
  BY <1>2 DEF TableInv
<1>6. torn' \/ \A r \in Rest' : \E i \in Lasting' : task'[i].cfg = r
  <2>1. CASE db' = Rest /\ torn' = torn
    BY <1>1, <1>2, <2>1 DEF TableInv
  <2>2. CASE db' = db /\ torn' = TRUE
    BY <2>2
  <2> QED BY <2>1, <2>2
<1>7. req' \notin Creating \cup Updating
  BY RequestKinds
<1> QED BY <1>3, <1>4, <1>5, <1>6, <1>7 DEF StoreInv, TableInv

\* The second half of a request keeps the table and the database together.
LEMMA FinishStores ==
  ASSUME LockInv, StoreInv, Finish PROVE StoreInv'
<1>1. up /\ up' = up /\ req' = Idle /\ RowsInv
  BY FinishSlots DEF StoreInv
<1>2. CASE req \in Creating /\ (CreateDone \/ CreateFails)
  <2>1. /\ Finished(0, req.slot) /\ req.slot \in Slots /\ 0 \notin Slots
        /\ CreateDone => task'[req.slot].cfg = req.cfg /\ task'[req.slot].init
        /\ CreateFails => ~task'[req.slot].init
    BY <1>2, CreateFinished, RequestKinds DEF Slots
  <2>2. /\ \A i \in Lasting : task'[i] = task[i] /\ i # req.slot
        /\ task'[req.slot].init => Lasting' = Lasting \cup {req.slot}
        /\ ~task'[req.slot].init => Lasting' = Lasting
    BY <1>1, <1>2, <2>1, LastingAfter
  <2>3. CASE CreateDone
    <3>1. UNCHANGED <<db, torn>>
      BY <2>3 DEF CreateDone
    <3>2. RowsInv'
      BY <1>1, <3>1, RowsShrink
    <3> QED BY <1>1, <1>2, <2>1, <2>2, <2>3, <3>1, <3>2, StartStores
  <2>4. CASE CreateFails
    <3>1. Rest = db \ {req.cfg}
      BY <1>2 DEF Rest
    <3>2. (db' = Rest /\ torn' = torn) \/ (db' = db /\ torn' = TRUE)
      BY <2>4, <3>1 DEF CreateFails
    <3>3. RowsInv'
      BY <1>1, <3>1, <3>2, RowsShrink
    <3> QED BY <1>1, <2>1, <2>2, <2>4, <3>2, <3>3, EndStores
  <2> QED BY <1>2, <2>3, <2>4
<1>3. CASE req \in Updating /\ (UpdateDone \/ UpdateFails)
  <2>1. /\ Finished(req.old, req.slot) /\ req.slot \in Slots
        /\ UpdateDone => task'[req.slot].cfg = req.cfg /\ task'[req.slot].init
        /\ UpdateFails => ~task'[req.slot].init
    BY <1>3, UpdateFinished, RequestKinds
  <2>2. /\ \A i \in Lasting : task'[i] = task[i] /\ i # req.slot
        /\ task'[req.slot].init => Lasting' = Lasting \cup {req.slot}
        /\ ~task'[req.slot].init => Lasting' = Lasting
    BY <1>1, <1>3, <2>1, LastingAfter
  <2>3. CASE UpdateDone
    <3>1. UNCHANGED <<db, torn>>
      BY <2>3 DEF UpdateDone
    <3>2. RowsInv'
      BY <1>1, <3>1, RowsShrink
    <3> QED BY <1>1, <1>3, <2>1, <2>2, <2>3, <3>1, <3>2, StartStores
  <2>4. CASE UpdateFails
    <3>1. db' = db /\ torn' = TRUE
      BY <2>4 DEF UpdateFails
    <3>2. RowsInv'
      BY <1>1, <3>1, RowsShrink
    <3> QED BY <1>1, <2>1, <2>2, <2>4, <3>1, <3>2, EndStores
  <2> QED BY <1>3, <2>3, <2>4
<1>4. CASE req \in Deleting /\ DeleteDone
  <2>1. Finished(req.old, 0) /\ 0 \notin Slots
    BY <1>4, DeleteFinished DEF Slots
  <2>2. (\A i \in Lasting : task'[i] = task[i]) /\ Lasting' = Lasting
    BY <1>1, <1>4, <2>1, LastingAfter
  <2>3. db' = Rest /\ torn' = torn /\ Rest = db
    BY <1>4, RequestKinds DEF DeleteDone, Rest
  <2>4. RowsInv'
    BY <1>1, <2>3, RowsShrink
  <2> QED BY <1>1, <2>2, <2>3, <2>4, EndStores
<1> QED BY <1>2, <1>3, <1>4, FinishSlots

\* A start loads every row into a slot of its own.
LEMMA BootStores ==
  ASSUME LockInv, StoreInv, Boot PROVE StoreInv'
<1>1. up' = TRUE /\ UNCHANGED <<db, req, torn>> /\ req = Idle
  BY DEF Boot, LockInv, ReqInv
<1>2. PICK n, at, free : BootTable(n, at, free)
  BY BootFinds DEF LockInv
<1>3. \A s \in Slots : /\ ~task'[s].gone /\ (task'[s].init <=> s \in 1..n)
                       /\ s \in 1..n => task'[s].cfg = at[s] /\ at[s] \in Static \cup db
  BY <1>2, BootSlots DEF LockInv
<1>4. n \in Nat /\ n <= MaxTasks /\ MaxTasks \in Nat
  BY <1>2, ConfigAssumption DEF BootTable
<1>5. 1..n \subseteq Slots
  BY <1>4 DEF Slots
<1>6. Lasting' = 1..n /\ Rest' = db
  BY <1>1, <1>3, <1>5, RequestKinds DEF Lasting, Live, Rest
<1>7. /\ \A i, j \in 1..n : i # j => at[i] # at[j]
      /\ \A r \in Static \cup db : \E s \in 1..n : at[s] = r
  BY <1>2 DEF BootTable, Bijection, Injection, Surjection, IsInjective
<1>8. \A i \in Lasting' : task'[i].cfg = at[i] /\ at[i] \in Static \cup db
  BY <1>3, <1>5, <1>6
<1>9. \A i, j \in Lasting' : i # j => Apart(task'[i].cfg, task'[j].cfg)
  BY <1>6, <1>7, <1>8 DEF StoreInv, RowsInv, Rows
<1>10. \A r \in Static \cup db : \E s \in Lasting' : task'[s].cfg = r
  BY <1>6, <1>7, <1>8
<1>11. req' \notin Creating \cup Updating
  BY <1>1, RequestKinds
<1>12. RowsInv'
  BY <1>1, RowsShrink DEF StoreInv
<1> QED BY <1>6, <1>8, <1>9, <1>10, <1>11, <1>12 DEF StoreInv, TableInv

\* Every step keeps the table and the database together.
LEMMA StoreStep ==
  ASSUME LockInv, StoreInv, [Next]_vars PROVE StoreInv'
<1>1. CASE Request
  BY <1>1, CreateStores, UpdateStores, DeleteStores DEF Request
<1>2. CASE Finish
  BY <1>2, FinishStores
<1>3. ASSUME NEW s \in Slots, ListenerStep(s) \/ WaitAborts(s) \/ WorkerEnds(s) PROVE StoreInv'
  <2>1. PICK t \in TaskRec, l \in Thread : Moved(s, t, l)
    BY <1>3, ThreadMoves
  <2>2. \A i \in Slots : task'[i] = IF i = s THEN t ELSE task[i]
    BY <2>1 DEF Moved, LockInv, TypeInv
  <2>3. \A i \in Slots : /\ task'[i].cfg = task[i].cfg /\ task'[i].init = task[i].init
                         /\ task'[i].gone = task[i].gone
    BY <2>1, <2>2 DEF Moved
  <2>4. UNCHANGED <<up, db, req, torn>>
    BY <2>1 DEF Moved
  <2> QED BY <2>3, <2>4, StoreKept
<1>4. CASE Boot
  BY <1>4, BootStores
<1>5. CASE Crash
  <2>1. up' = FALSE /\ UNCHANGED <<db, torn>>
    BY <1>5 DEF Crash
  <2>2. RowsInv'
    BY <2>1, RowsShrink DEF StoreInv
  <2> QED BY <2>1, <2>2 DEF StoreInv
<1>6. CASE UNCHANGED <<up, db, task, lt, req, torn>>
  BY <1>6, StoreKept
<1>7. OtherEnds \/ (\E e \in Endpoints : Connect(e)) \/ UNCHANGED vars
         => UNCHANGED <<up, db, task, lt, req, torn>>
  BY DEF OtherEnds, Connect, vars
<1> QED BY <1>1, <1>2, <1>3, <1>4, <1>5, <1>6, <1>7 DEF Next

\* The table and the database are kept together from the start.
LEMMA StoreHolds == Spec => []StoreInv
<1>1. Init => StoreInv
  BY StoredAssumption DEF Init, StoreInv, RowsInv, Rows, Loadable, Apart
<1>2. StoreInv /\ LockInv /\ [Next]_vars => StoreInv'
  BY StoreStep
<1> QED BY <1>1, <1>2, LockHolds, PTL DEF Spec

\* Between requests the running tasks are those of the file and the database, each
\* with a name and a port of its own, however requests, threads and stops interleave.
THEOREM StoreSafe == Spec => []StoreExact
<1>1. ASSUME StoreInv PROVE StoreExact
  <2>1. SUFFICES ASSUME up, req = Idle
                 PROVE  /\ LiveConfigs \subseteq Static \cup db
                        /\ \A s, i \in Slots : Live(s) /\ s # i => ~Clashes(task[s].cfg, i)
                        /\ torn \/ Static \cup db \subseteq LiveConfigs
    BY DEF StoreExact
  <2>2. Lasting = {i \in Slots : Live(i)} /\ Rest = db
    BY <2>1, RequestKinds DEF Lasting, Rest
  <2>3. TableInv
    BY <1>1, <2>1 DEF StoreInv
  <2>4. LiveConfigs \subseteq Static \cup db
    BY <2>2, <2>3 DEF TableInv, LiveConfigs
  <2>5. \A s, i \in Slots : Live(s) /\ s # i => ~Clashes(task[s].cfg, i)
    BY <2>2, <2>3 DEF TableInv, Clashes, Apart
  <2>6. \A r \in Static \cup db : torn \/ r \in LiveConfigs
    BY <2>2, <2>3 DEF TableInv, LiveConfigs
  <2> QED BY <2>4, <2>5, <2>6
<1> QED BY <1>1, StoreHolds, PTL

\* Stopped at any time, between the two halves of a request too, the program finds
\* rows that emtask_load_config takes, unless a failed request left one behind.
THEOREM RestartLoadsSafe == Spec => []RestartLoads
<1>1. StoreInv => RestartLoads
  BY DEF StoreInv, RowsInv, Rows, RestartLoads, Loadable, Apart
<1> QED BY <1>1, StoreHolds, PTL
=============================================================================
