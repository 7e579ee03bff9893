------------------------ MODULE EmtaskSession_proofs ------------------------
(***************************************************************************)
(* Proofs about EmtaskSession and the EmtaskTerm under it, for every set   *)
(* of workers and every value of the limits: one session at a time, a      *)
(* replay without gaps, restarts within their limit.  Each of the three    *)
(* has its own inductive invariant; the replay needs that of the sessions. *)
(* Then about the Screen of a task, for every size of it and every number  *)
(* in a control sequence: the cursor and the region stay on the screen,    *)
(* and what is outside the region stays in place.                          *)
(***************************************************************************)
EXTENDS EmtaskSession, Screen, TLAPS, FiniteSetTheorems, WellFoundedInduction

-----------------------------------------------------------------------------
(* One session.                                                            *)

Stages == {"idle", "auth", "sftp", "waiting", "accept", "reply", "run", "deinit", "release"}
InSession == {"reply", "run", "deinit"}

(***************************************************************************)
(* A worker that may attach, or is attached, is the active one; the        *)
(* terminal is attached while a session has it, and, unless a reply was    *)
(* lost, only then.                                                        *)
(***************************************************************************)
SessionInv ==
    /\ pc \in [Workers -> Stages] /\ up \in [Workers -> BOOLEAN]
    /\ attached \in BOOLEAN /\ leaked \in BOOLEAN
    /\ \A w \in Workers : pc[w] \in InSession \cup {"accept"} => active_worker = w
    /\ \A w \in Workers : pc[w] \in InSession => attached
    /\ ~leaked /\ attached => \E w \in Workers : pc[w] \in InSession

\* No step of the terminal but an attach and a close touches the attachment.
LEMMA TermKeepsAttached ==
    /\ TermReadKept => UNCHANGED attached
    /\ TermReadNew => UNCHANGED attached
    /\ TermReadNothing => UNCHANGED attached
    /\ TermReadError => UNCHANGED attached
    /\ TermWaitRestarts => UNCHANGED attached
    /\ TermWaitReports => UNCHANGED attached
    /\ TermSignal => UNCHANGED attached
    /\ \A i \in BOOLEAN : TermWrite(i) => UNCHANGED attached
    /\ TermAttachRefused => UNCHANGED attached
    /\ MonitorCaptures \/ Watchdog \/ ChildWrites \/ ChildExits \/ Tick => UNCHANGED attached
    /\ RestartManual => UNCHANGED attached
<1> USE DEF attachVars, termVars
<1>1. TermReadKept => UNCHANGED attached
  BY DEF TermReadKept, ReplayCopy
<1>2. TermReadNew => UNCHANGED attached
  BY DEF TermReadNew
<1>3. /\ TermReadNothing => UNCHANGED attached
      /\ TermReadError => UNCHANGED attached
      /\ TermWaitRestarts => UNCHANGED attached
      /\ TermWaitReports => UNCHANGED attached
      /\ TermSignal => UNCHANGED attached
      /\ \A i \in BOOLEAN : TermWrite(i) => UNCHANGED attached
      /\ TermAttachRefused => UNCHANGED attached
  BY DEF TermReadNothing, TermReadError, TermWaitRestarts, TermWaitReports, TermSignal,
     TermWrite, TermAttachRefused
<1>4. MonitorCaptures \/ Watchdog \/ ChildWrites \/ ChildExits \/ Tick => UNCHANGED attached
  BY DEF MonitorCaptures, Watchdog, ChildWrites, ChildExits, Tick
<1>5. RestartManual => UNCHANGED attached
  BY DEF RestartManual
<1> QED BY <1>1, <1>2, <1>3, <1>4, <1>5

\* A step that moves one worker between stages of the same kind, or out of the
\* stages that need the terminal without it.
LEMMA MoveKeeps ==
    ASSUME SessionInv, NEW w \in Workers, NEW next \in Stages, Go(w, next),
           pc[w] \in InSession <=> next \in InSession,
           next \in InSession \cup {"accept"} => pc[w] \in InSession \cup {"accept"},
           UNCHANGED <<attached, active_worker, leaked>>, up' \in [Workers -> BOOLEAN]
    PROVE  SessionInv'
<1>1. pc' = [pc EXCEPT ![w] = next]
  BY DEF Go
<1>2. pc' \in [Workers -> Stages]
  BY <1>1 DEF SessionInv
<1>3. \A v \in Workers : pc'[v] = IF v = w THEN next ELSE pc[v]
  BY <1>1 DEF SessionInv
<1>4. \A v \in Workers : pc'[v] \in InSession <=> pc[v] \in InSession
  BY <1>3
<1>5. \A v \in Workers : pc'[v] \in InSession \cup {"accept"}
                            => pc[v] \in InSession \cup {"accept"}
  BY <1>3
<1> QED BY <1>2, <1>4, <1>5 DEF SessionInv

\* Every step keeps the rule of the session manager.
LEMMA SessionStep == SessionInv /\ [Next]_vars => SessionInv'
<1> SUFFICES ASSUME SessionInv, [Next]_vars PROVE SessionInv'
  OBVIOUS
<1> USE DEF sessionVars
<1>0. UNCHANGED <<sessionVars, attached>> => SessionInv'
  BY DEF SessionInv
<1>1. ASSUME NEW w \in Workers, Accept(w) \/ OpensSftp(w) \/ EndsEarly(w) \/ Disconnected(w)
      PROVE  SessionInv'
  <2>1. UNCHANGED <<attached, active_worker, leaked>> /\ up' \in [Workers -> BOOLEAN]
    BY <1>1 DEF Accept, OpensSftp, EndsEarly, Disconnected, termVars, attachVars, SessionInv
  <2>2. CASE Accept(w)
    <3>1. pc[w] = "idle" /\ Go(w, "auth")
      BY <2>2 DEF Accept
    <3> QED BY <2>1, <3>1, MoveKeeps DEF Stages, InSession
  <2>3. CASE OpensSftp(w)
    <3>1. pc[w] = "auth" /\ Go(w, "sftp")
      BY <2>3 DEF OpensSftp
    <3> QED BY <2>1, <3>1, MoveKeeps DEF Stages, InSession
  <2>4. CASE EndsEarly(w)
    <3>1. pc[w] \in {"auth", "accept", "sftp"} /\ Go(w, "release")
      BY <2>4 DEF EndsEarly
    <3> QED BY <2>1, <3>1, MoveKeeps DEF Stages, InSession
  <2>5. CASE Disconnected(w)
    <3>1. pc[w] = "run" /\ Go(w, "deinit")
      BY <2>5 DEF Disconnected
    <3> QED BY <2>1, <3>1, MoveKeeps DEF Stages, InSession
  <2> QED BY <1>1, <2>2, <2>3, <2>4, <2>5
<1>2. ASSUME NEW w \in Workers, Takeover(w) \/ Woken(w) PROVE SessionInv'
  <2>1. UNCHANGED <<attached, leaked>> /\ up' \in [Workers -> BOOLEAN]
    BY <1>2 DEF Takeover, Woken, termVars, attachVars, SessionInv
  <2>2. CASE active_worker # NoWorker
    <3>1. pc[w] = "auth" /\ Go(w, "waiting") /\ UNCHANGED active_worker
      BY <1>2, <2>2 DEF Takeover, Woken
    <3> QED BY <2>1, <3>1, MoveKeeps DEF Stages, InSession
  <2>3. CASE active_worker = NoWorker
    <3>1. /\ pc[w] \in {"auth", "waiting"} /\ active_worker' = w
          /\ pc' = [pc EXCEPT ![w] = "accept"]
      BY <1>2, <2>3 DEF Takeover, Woken, Go
    <3>2. \A v \in Workers : pc[v] \notin InSession \cup {"accept"}
      BY <2>3, SessionAssumption DEF SessionInv
    <3>3. /\ pc' \in [Workers -> Stages]
          /\ \A v \in Workers : pc'[v] = IF v = w THEN "accept" ELSE pc[v]
      BY <3>1 DEF SessionInv, Stages
    <3>4. \A v \in Workers : pc'[v] \notin InSession
      BY <3>2, <3>3 DEF InSession
    <3>5. \A v \in Workers : pc'[v] = "accept" => v = w
      BY <3>2, <3>3
    <3>6. ~leaked => ~attached
      BY <3>2 DEF SessionInv
    <3> QED BY <2>1, <3>1, <3>3, <3>4, <3>5, <3>6 DEF SessionInv
  <2> QED BY <2>2, <2>3
<1>3. ASSUME NEW w \in Workers, ShellRequest(w) PROVE SessionInv'
  <2>1. pc[w] = "accept" /\ UNCHANGED <<up, active_worker, leaked>>
    BY <1>3 DEF ShellRequest
  <2>2. CASE TermAttach /\ Go(w, "reply")
    <3>1. attached' = TRUE
      BY <2>2 DEF TermAttach, Attached
    <3>2. active_worker = w
      BY <2>1 DEF SessionInv
    <3>3. /\ pc' \in [Workers -> Stages]
          /\ \A v \in Workers : pc'[v] = IF v = w THEN "reply" ELSE pc[v]
      BY <2>2 DEF Go, SessionInv, Stages
    <3>4. \A v \in Workers : pc'[v] \in InSession \cup {"accept"} => active_worker = v
      BY <3>2, <3>3 DEF SessionInv
    <3>5. pc'[w] \in InSession
      BY <3>3 DEF InSession
    <3> QED BY <2>1, <3>1, <3>3, <3>4, <3>5 DEF SessionInv
  <2>3. CASE TermAttachRefused /\ UNCHANGED pc
    BY <1>0, <2>1, <2>3, TermKeepsAttached
  <2> QED BY <1>3, <2>2, <2>3 DEF ShellRequest
<1>4. ASSUME NEW w \in Workers, Reply(w) PROVE SessionInv'
  <2>1. /\ pc[w] = "reply" /\ UNCHANGED <<attached, active_worker, up>>
        /\ up' \in [Workers -> BOOLEAN]
    BY <1>4 DEF Reply, termVars, attachVars, SessionInv
  <2>2. CASE Go(w, "run") /\ UNCHANGED leaked
    BY <2>1, <2>2, MoveKeeps DEF Stages, InSession
  <2>3. CASE Go(w, "release") /\ leaked' = TRUE
    <3>1. /\ pc' \in [Workers -> Stages]
          /\ \A v \in Workers : pc'[v] = IF v = w THEN "release" ELSE pc[v]
      BY <2>3 DEF Go, SessionInv, Stages
    <3>2. \A v \in Workers : pc'[v] \in InSession \cup {"accept"} =>
                                pc[v] \in InSession \cup {"accept"}
      BY <3>1 DEF InSession
    <3>3. \A v \in Workers : pc'[v] \in InSession => pc[v] \in InSession
      BY <3>1 DEF InSession
    <3>4. leaked' \in BOOLEAN /\ leaked'
      BY <2>3
    <3> QED BY <2>1, <3>1, <3>2, <3>3, <3>4 DEF SessionInv
  <2> QED BY <1>4, <2>2, <2>3 DEF Reply
<1>5. ASSUME NEW w \in Workers, Pump(w) \/ PumpFindsNothing(w) \/ CheckExit(w)
      PROVE  SessionInv'
  <2>1. /\ pc[w] = "run" /\ UNCHANGED <<up, active_worker, leaked>>
        /\ UNCHANGED pc \/ Go(w, "deinit")
    BY <1>5 DEF Pump, PumpFindsNothing, CheckExit
  <2>2. UNCHANGED attached
    BY <1>5, TermKeepsAttached DEF Pump, PumpFindsNothing, CheckExit
  <2>3. up' \in [Workers -> BOOLEAN]
    BY <2>1 DEF SessionInv
  <2>4. CASE UNCHANGED pc
    BY <1>0, <2>1, <2>2, <2>4
  <2>5. CASE Go(w, "deinit")
    BY <2>1, <2>2, <2>3, <2>5, MoveKeeps DEF Stages, InSession
  <2> QED BY <2>1, <2>4, <2>5
<1>6. ASSUME NEW w \in Workers, ClientInput(w) PROVE SessionInv'
  BY <1>0, <1>6, TermKeepsAttached DEF ClientInput
<1>7. ASSUME NEW w \in Workers, ChannelDeinit(w) PROVE SessionInv'
  <2>1. /\ pc[w] = "deinit" /\ attached' = FALSE /\ Go(w, "release")
        /\ UNCHANGED <<up, active_worker, leaked>>
    BY <1>7 DEF ChannelDeinit, TermClose
  <2>2. /\ pc' \in [Workers -> Stages]
        /\ \A v \in Workers : pc'[v] = IF v = w THEN "release" ELSE pc[v]
    BY <2>1 DEF Go, SessionInv, Stages
  <2>3. \A v \in Workers : pc'[v] \notin InSession \cup {"accept"}
    <3>1. active_worker = w
      BY <2>1 DEF SessionInv, InSession
    <3>2. \A v \in Workers : v # w => pc[v] \notin InSession \cup {"accept"}
      BY <3>1 DEF SessionInv
    <3> QED BY <2>2, <3>2 DEF InSession
  <2> QED BY <2>1, <2>2, <2>3 DEF SessionInv
<1>8. ASSUME NEW w \in Workers, Release(w) PROVE SessionInv'
  <2>1. /\ pc[w] = "release" /\ Go(w, "idle") /\ UNCHANGED <<attached, leaked>>
        /\ active_worker' = IF active_worker = w THEN NoWorker ELSE active_worker
        /\ up' \in [Workers -> BOOLEAN]
    BY <1>8 DEF Release, termVars, attachVars, SessionInv
  <2>2. /\ pc' \in [Workers -> Stages]
        /\ \A v \in Workers : pc'[v] = IF v = w THEN "idle" ELSE pc[v]
    BY <2>1 DEF Go, SessionInv, Stages
  <2>3. \A v \in Workers : pc'[v] \in InSession <=> pc[v] \in InSession
    BY <2>1, <2>2 DEF InSession
  <2>4. \A v \in Workers : pc'[v] \in InSession \cup {"accept"} =>
                              v # w /\ pc[v] \in InSession \cup {"accept"}
    BY <2>1, <2>2 DEF InSession
  <2>5. \A v \in Workers : pc'[v] \in InSession \cup {"accept"} => active_worker' = v
    BY <2>1, <2>4 DEF SessionInv
  <2> QED BY <2>1, <2>2, <2>3, <2>5 DEF SessionInv
<1>9. ASSUME NEW w \in Workers, ClientLeaves(w) PROVE SessionInv'
  <2>1. UNCHANGED <<attached, pc, active_worker, leaked>> /\ up' \in [Workers -> BOOLEAN]
    BY <1>9 DEF ClientLeaves, termVars, attachVars, SessionInv
  <2> QED BY <2>1 DEF SessionInv
<1>10. CASE Term \/ PanelRestart
  BY <1>0, <1>10, TermKeepsAttached DEF Term, PanelRestart
<1>11. CASE \/ UNCHANGED vars
             \/ \E w \in Workers : MessageBegins(w) \/ MessageEnds(w)
  <2>1. UNCHANGED <<termVars, sessionVars>>
    BY <1>11 DEF vars, MessageBegins, MessageEnds
  <2> QED BY <1>0, <2>1 DEF termVars, attachVars
<1> QED BY <1>1, <1>2, <1>3, <1>4, <1>5, <1>6, <1>7, <1>8, <1>9, <1>10, <1>11
        DEF Next, GoesOn, Worker

\* It holds before the first connection.
LEMMA SessionInit == Init => SessionInv
BY DEF Init, TermInit, SessionInv, Stages, InSession

\* With it the terminal has one session at most, the active one.
LEMMA SessionSafe == SessionInv => OneSession
<1> SUFFICES ASSUME SessionInv PROVE OneSession
  OBVIOUS
<1>1. Sessions \subseteq {active_worker}
  BY DEF SessionInv, Sessions, InSession
<1>2. Cardinality(Sessions) <= 1
  <2>1. IsFiniteSet({active_worker}) /\ Cardinality({active_worker}) = 1
    BY FS_Singleton
  <2> QED BY <1>1, <2>1, FS_Subset
<1>3. ~leaked => (attached <=> Sessions # {})
  BY DEF SessionInv, Sessions, InSession
<1> QED BY <1>1, <1>2, <1>3 DEF OneSession

\* emtask_session_manager_takeover and _release give the terminal of a task to
\* one worker at a time, however many connect, leave and time out, and the
\* terminal's attached flag follows the session that has it.
THEOREM OneSessionSafe == Spec => []OneSession
<1>1. Spec => []SessionInv
  BY SessionInit, SessionStep, PTL DEF Spec
<1> QED BY <1>1, SessionSafe, PTL
-----------------------------------------------------------------------------
(* Restarts.                                                               *)

(***************************************************************************)
(* The history is the end of the list of all restarts: what it has lost    *)
(* left the window.  d is how many it has lost.                            *)
(***************************************************************************)
LostFirst(h, d) ==
    /\ Len(h) = Len(restarts) - d
    /\ \A i \in 1..Len(h) : h[i] = restarts[i + d]
    /\ \A i \in 1..d : now - restarts[i] >= RestartWindow

Timed ==
    /\ \A i \in 1..Len(restarts) : restarts[i] <= now
    /\ \A i, j \in 1..Len(restarts) : i <= j => restarts[i] <= restarts[j]

Bounding == Limited /\ RestartLimit <= MaxHistory

RestartInv ==
    /\ now \in Nat /\ restarts \in Seq(Nat)
    /\ Bounding => /\ history \in Seq(Nat) /\ Timed /\ RestartBounded
                   /\ \E d \in 0..Len(restarts) : LostFirst(history, d)

\* The constants are numbers.
LEMMA Limits ==
    /\ RestartLimit \in Nat /\ RestartWindow \in Nat /\ MaxHistory \in Nat
    /\ Capacity \in Nat /\ Capacity > 0
BY TermAssumption

\* A set of numbers that is not empty has a smallest one.
LEMMA Smallest ==
    ASSUME NEW T \in SUBSET Nat, T # {}
    PROVE  \E x \in T : \A y \in T : x <= y
<1>1. PICK x \in T : \A y \in T : ~(<<y, x>> \in OpToRel(<, Nat))
  BY NatLessThanWellFounded, WFMin
<1>2. ASSUME NEW y \in T PROVE x <= y
  <2>1. ~(<<y, x>> \in OpToRel(<, Nat))
    BY <1>1
  <2>2. <<y, x>> \in Nat \X Nat => ~(y < x)
    BY <2>1 DEF OpToRel
  <2> QED BY <2>2
<1> QED BY <1>2

\* When what is left of the window is a suffix, pruning yields that suffix.
LEMMA PrunedSuffix ==
    ASSUME history \in Seq(Nat), NEW y \in Nat, y > 0, Young = y..Len(history),
           y <= Len(history) + 1
    PROVE  /\ Pruned \in Seq(Nat) /\ Len(Pruned) = Len(history) - y + 1
           /\ \A k \in 1..Len(Pruned) : Pruned[k] = history[k + y - 1]
<1> DEFINE L == Len(history)
           c == L - y + 1
<1>1. L \in Nat /\ c \in Nat
  OBVIOUS
<1>2. Cardinality(Young) = c
  <2>1. Cardinality(y..L) = IF y > L THEN 0 ELSE L - y + 1
    <3>1. y \in Int /\ L \in Int
      BY <1>1
    <3> HIDE DEF L
    <3> QED BY <3>1, FS_Interval, Zenon
  <2>2. c = IF y > L THEN 0 ELSE L - y + 1
    BY <1>1
  <2> QED BY <2>1, <2>2, Zenon
<1>3. ASSUME NEW k \in 1..c
      PROVE  (CHOOSE i \in Young : Cardinality({j \in Young : j <= i}) = k) = k + y - 1
  <2>1. \A i \in Young : Cardinality({j \in Young : j <= i}) = i - y + 1
    <3>1. ASSUME NEW i \in Young PROVE Cardinality({j \in Young : j <= i}) = i - y + 1
      <4>1. i \in Int /\ y <= i /\ i <= L
        BY <1>1
      <4>2. {j \in Young : j <= i} = y..i
        BY <1>1, <4>1
      <4>3. Cardinality(y..i) = IF y > i THEN 0 ELSE i - y + 1
        <5>1. y \in Int
          OBVIOUS
        <5> QED BY <4>1, <5>1, FS_Interval, Zenon
      <4>4. ~(y > i)
        BY <4>1
      <4> QED BY <4>2, <4>3, <4>4, Zenon
    <3> QED BY <3>1
  <2>2. k + y - 1 \in Young /\ (k + y - 1) - y + 1 = k
    BY <1>1
  <2>3. \A i \in Young : i - y + 1 = k => i = k + y - 1
    BY <1>1
  <2>4. \E i \in Young : Cardinality({j \in Young : j <= i}) = k
    BY <2>1, <2>2
  <2>5. PICK e : e = CHOOSE i \in Young : Cardinality({j \in Young : j <= i}) = k
    OBVIOUS
  <2>6. e \in Young /\ Cardinality({j \in Young : j <= e}) = k
    BY <2>4, <2>5
  <2>7. e = k + y - 1
    BY <2>1, <2>3, <2>6
  <2> QED BY <2>5, <2>7
<1>4. Pruned = [k \in 1..c |-> history[k + y - 1]]
  <2> HIDE DEF c
  <2>1. Pruned = [k \in 1..c |->
             history[CHOOSE i \in Young : Cardinality({j \in Young : j <= i}) = k]]
    BY <1>2, Zenon DEF Pruned
  <2> DEFINE at(k) == CHOOSE i \in Young : Cardinality({j \in Young : j <= i}) = k
  <2>2. \A k \in 1..c : at(k) = k + y - 1
    BY <1>3
  <2>3. Pruned = [k \in 1..c |-> history[at(k)]]
    BY <2>1
  <2> HIDE DEF at
  <2> QED BY <2>2, <2>3
<1>5. \A k \in 1..c : history[k + y - 1] \in Nat
  BY <1>1
<1> QED BY <1>1, <1>4, <1>5

\* Pruning drops restarts that left the window, and no other.
LEMMA PrunedLost ==
    ASSUME RestartInv, Bounding
    PROVE  /\ Pruned \in Seq(Nat)
           /\ \E d \in 0..Len(restarts) : LostFirst(Pruned, d)
<1>1. PICK d \in 0..Len(restarts) : LostFirst(history, d)
  BY DEF RestartInv
<1> DEFINE L == Len(history)
           R == Len(restarts)
<1>2. /\ L \in Nat /\ R \in Nat /\ d \in Nat /\ L = R - d /\ now \in Nat
      /\ \A i \in 1..L : history[i] = restarts[i + d] /\ history[i] \in Nat
      /\ \A i \in 1..d : now - restarts[i] >= RestartWindow
      /\ \A i \in 1..R : restarts[i] \in Nat
      /\ \A i, j \in 1..R : i <= j => restarts[i] <= restarts[j]
  <2>1. history \in Seq(Nat) /\ restarts \in Seq(Nat) /\ now \in Nat /\ Timed
    BY DEF RestartInv
  <2>2. /\ \A i \in 1..L : history[i] \in Nat /\ L \in Nat
        /\ \A i \in 1..R : restarts[i] \in Nat /\ R \in Nat
    BY <2>1
  <2>3. L \in Nat /\ R \in Nat /\ d \in Nat
    BY <2>1
  <2> HIDE DEF L, R
  <2>4. /\ L = R - d /\ \A i \in 1..L : history[i] = restarts[i + d]
        /\ \A i \in 1..d : now - restarts[i] >= RestartWindow
    BY <1>1 DEF LostFirst, L, R
  <2>5. \A i, j \in 1..R : i <= j => restarts[i] <= restarts[j]
    BY <2>1 DEF Timed, R
  <2> QED BY <2>1, <2>2, <2>3, <2>4, <2>5
<1>3. PICK y \in 1..(L + 1) : Young = y..L
  <2> HIDE DEF L
  <2>1. CASE Young = {}
    <3>1. (L + 1)..L = {} /\ L + 1 \in 1..(L + 1)
      BY <1>2
    <3> QED BY <2>1, <3>1, Zenon
  <2>2. CASE Young # {}
    <3>1. Young \in SUBSET Nat
      BY <1>2 DEF Young
    <3>2. PICK y \in Young : \A i \in Young : y <= i
      BY <2>2, <3>1, Smallest
    <3>3. y \in 1..L /\ now - history[y] < RestartWindow
      BY <3>2 DEF Young, L
    <3>4. ASSUME NEW i \in y..L PROVE i \in Young
      <4>1. /\ i \in 1..L /\ i + d \in 1..R /\ y + d \in 1..R /\ y + d <= i + d
        BY <1>2, <3>3
      <4>2. history[y] <= history[i]
        BY <1>2, <3>3, <4>1
      <4>3. now - history[i] < RestartWindow
        BY <1>2, <3>3, <4>1, <4>2, Limits
      <4> QED BY <4>1, <4>3 DEF Young, L
    <3>5. Young = y..L
      BY <1>2, <3>1, <3>2, <3>4 DEF Young, L
    <3> QED BY <1>2, <3>3, <3>5
  <2> QED BY <2>1, <2>2
<1>4. history \in Seq(Nat)
  BY DEF RestartInv
<1>5. /\ Pruned \in Seq(Nat) /\ Len(Pruned) = L - y + 1
      /\ \A k \in 1..Len(Pruned) : Pruned[k] = history[k + y - 1]
  BY <1>2, <1>3, <1>4, PrunedSuffix
<1> DEFINE e == d + y - 1
<1>6. e \in 0..R /\ Len(Pruned) = R - e
  BY <1>2, <1>5
<1>7. \A k \in 1..Len(Pruned) : Pruned[k] = restarts[k + e]
  <2>1. ASSUME NEW k \in 1..Len(Pruned) PROVE Pruned[k] = restarts[k + e]
    <3>1. k \in Int /\ k + y - 1 \in 1..L /\ (k + y - 1) + d = k + e
      BY <1>2, <1>5
    <3>2. history[k + y - 1] = restarts[(k + y - 1) + d]
      BY <1>2, <3>1
    <3> QED BY <1>5, <3>1, <3>2
  <2> QED BY <2>1
<1>8. ASSUME NEW i \in 1..e PROVE now - restarts[i] >= RestartWindow
  <2>1. CASE i <= d
    BY <1>2, <2>1
  <2>2. CASE i > d
    <3>1. i - d \in 1..L /\ i - d < y /\ (i - d) + d = i
      BY <1>2, <1>6, <2>2
    <3>2. i - d \notin Young
      BY <1>2, <1>3, <3>1
    <3>3. ~(now - history[i - d] < RestartWindow)
      BY <3>1, <3>2 DEF Young
    <3>4. history[i - d] = restarts[i] /\ restarts[i] \in Nat
      BY <1>2, <3>1
    <3> QED BY <1>2, <3>3, <3>4, Limits
  <2> QED BY <1>2, <2>1, <2>2
<1> QED BY <1>5, <1>6, <1>7, <1>8 DEF LostFirst

\* What a step may do to the history.
HistoryStep ==
    \/ UNCHANGED <<history, restarts>> /\ (now' = now \/ now' = now + 1)
    \/ ~LimitReached /\ Noted(TRUE) /\ UNCHANGED now
    \/ history' = Pruned /\ LimitReached /\ UNCHANGED <<restarts, now>>
    \/ history' = <<>> /\ restarts' = <<>> /\ UNCHANGED now

\* Every step does one of these: whoever starts a child again counts it.
LEMMA HistorySteps == [Next]_vars => HistoryStep
<1> SUFFICES ASSUME [Next]_vars PROVE HistoryStep
  OBVIOUS
<1> USE DEF stateVars
<1>1. SpawnOk(TRUE) /\ UNCHANGED now => HistoryStep
  BY DEF SpawnOk, HistoryStep
<1>2. SpawnFails(TRUE) /\ UNCHANGED now => HistoryStep
  BY DEF SpawnFails, HistoryStep
<1>3. UNCHANGED <<history, restarts, now>> => HistoryStep
  BY DEF HistoryStep
<1>4. ASSUME NEW w \in Workers, Worker(w) PROVE HistoryStep
  <2>1. CASE UNCHANGED termVars
    BY <1>3, <2>1 DEF termVars
  <2>2. CASE ShellRequest(w)
    <3>1. TermAttach => HistoryStep
      BY <1>1, <1>3 DEF TermAttach
    <3>2. TermAttachRefused => HistoryStep
      BY <1>2, <1>3 DEF TermAttachRefused, Poll
    <3> QED BY <2>2, <3>1, <3>2 DEF ShellRequest
  <2>3. CASE Pump(w)
    BY <1>3, <2>3 DEF Pump, TermReadKept, TermReadNew
  <2>4. CASE PumpFindsNothing(w)
    BY <1>3, <2>4 DEF PumpFindsNothing, TermReadNothing, TermReadError, Poll, termVars
  <2>5. CASE CheckExit(w)
    <3>1. TermWaitRestarts => HistoryStep
      BY <1>1 DEF TermWaitRestarts
    <3>2. TermWaitReports => HistoryStep
      BY <1>2, <1>3 DEF TermWaitReports, Poll
    <3> QED BY <2>5, <3>1, <3>2 DEF CheckExit
  <2>6. CASE ChannelDeinit(w)
    BY <1>3, <2>6 DEF ChannelDeinit, TermClose
  <2>7. CASE OpensSftp(w) \/ EndsEarly(w) \/ Takeover(w) \/ Woken(w) \/ Reply(w)
              \/ Disconnected(w) \/ Release(w)
    <3>1. UNCHANGED termVars
      BY <2>7 DEF OpensSftp, EndsEarly, Takeover, Woken, Reply, Disconnected, Release
    <3> QED BY <2>1, <3>1
  <2> QED BY <1>4, <2>2, <2>3, <2>4, <2>5, <2>6, <2>7 DEF Worker
<1>5. ASSUME NEW w \in Workers, Accept(w) \/ ClientLeaves(w) PROVE HistoryStep
  <2>1. UNCHANGED termVars
    BY <1>5 DEF Accept, ClientLeaves
  <2> QED BY <1>3, <2>1 DEF termVars
<1>6. ASSUME NEW w \in Workers, ClientInput(w) PROVE HistoryStep
  <2>1. TermSignal => HistoryStep
    BY <1>1, <1>2, <1>3 DEF TermSignal
  <2>2. \A i \in BOOLEAN : TermWrite(i) => HistoryStep
    BY <1>3 DEF TermWrite, Poll
  <2> QED BY <1>6, <2>1, <2>2 DEF ClientInput
<1>7. CASE Term
  <2>1. MonitorCaptures \/ ChildWrites \/ ChildExits => HistoryStep
    BY <1>3 DEF MonitorCaptures, ChildWrites, ChildExits
  <2>2. Watchdog => HistoryStep
    BY <1>1, <1>2, <1>3 DEF Watchdog, Poll
  <2>3. Tick => HistoryStep
    BY DEF Tick, HistoryStep
  <2> QED BY <1>7, <2>1, <2>2, <2>3 DEF Term
<1>8. CASE PanelRestart
  BY <1>8 DEF PanelRestart, RestartManual, HistoryStep
<1>9. CASE \/ UNCHANGED vars
             \/ \E w \in Workers : MessageBegins(w) \/ MessageEnds(w)
  <2>1. UNCHANGED termVars
    BY <1>9 DEF vars, MessageBegins, MessageEnds
  <2> QED BY <1>3, <2>1 DEF termVars
<1> QED BY <1>4, <1>5, <1>6, <1>7, <1>8, <1>9 DEF Next, GoesOn

\* A counted restart is the RestartLimit-th of its window at most.
LEMMA NotedBounded ==
    ASSUME RestartInv, Bounding, ~LimitReached, Noted(TRUE), UNCHANGED now
    PROVE  RestartInv'
<1>1. Limited /\ RestartLimit <= MaxHistory
  BY DEF Bounding
<1>2. PICK d \in 0..Len(restarts) : LostFirst(Pruned, d)
  BY PrunedLost
<1>3. Pruned \in Seq(Nat)
  BY PrunedLost
<1> DEFINE R == Len(restarts)
<1>4. /\ R \in Nat /\ d \in 0..R /\ now \in Nat /\ restarts \in Seq(Nat)
      /\ Len(Pruned) = R - d /\ Len(Pruned) < RestartLimit
      /\ \A i \in 1..Len(Pruned) : Pruned[i] = restarts[i + d]
      /\ \A i \in 1..d : now - restarts[i] >= RestartWindow
  BY <1>1, <1>2, <1>3, Limits DEF LostFirst, LimitReached, RestartInv
<1>5. history' = Append(Pruned, now) /\ restarts' = Append(restarts, now)
  <2>1. Len(Pruned) < MaxHistory
    BY <1>1, <1>4, Limits
  <2> QED BY <1>1, <2>1 DEF Noted
<1>6. /\ Len(history') = R - d + 1 /\ Len(restarts') = R + 1
      /\ \A i \in 1..R : restarts'[i] = restarts[i] /\ restarts[i] \in Nat
      /\ restarts'[R + 1] = now
      /\ \A i \in 1..(R - d) : history'[i] = Pruned[i]
      /\ history'[R - d + 1] = now
      /\ history' \in Seq(Nat) /\ restarts' \in Seq(Nat) /\ now' = now /\ now' \in Nat
  BY <1>3, <1>4, <1>5
<1>7. Timed /\ RestartBounded
  BY DEF RestartInv
<1> HIDE DEF R
<1>8. Timed'
  <2>1. \A i \in 1..R : restarts[i] <= now
    BY <1>7 DEF Timed, R
  <2>2. \A i, j \in 1..R : i <= j => restarts[i] <= restarts[j]
    BY <1>7 DEF Timed, R
  <2>3. PICK r : r = restarts'
    OBVIOUS
  <2>4. /\ \A i \in 1..R : r[i] = restarts[i] /\ restarts[i] \in Nat
        /\ r[R + 1] = now
    BY <1>6, <2>3
  <2>5. R \in Nat /\ now \in Nat
    BY <1>4
  <2>6. \A i \in 1..(R + 1) : i \in 1..R \/ i = R + 1
    BY <2>5
  <2>7. \A i \in 1..(R + 1) : r[i] <= now
    BY <2>1, <2>4, <2>5, <2>6
  <2>8. ASSUME NEW i \in 1..(R + 1), NEW j \in 1..(R + 1), i <= j PROVE r[i] <= r[j]
    <3>1. CASE j = R + 1
      BY <2>4, <2>7, <3>1
    <3>2. CASE j \in 1..R
      <4>1. i \in 1..R
        BY <2>5, <2>8, <3>2
      <4> QED BY <2>2, <2>4, <2>8, <3>2, <4>1
    <3> QED BY <2>6, <3>1, <3>2
  <2> QED BY <1>6, <2>3, <2>7, <2>8 DEF Timed
<1>9. RestartBounded'
  <2>1. ASSUME NEW k \in 1..((R + 1) - RestartLimit)
        PROVE  restarts'[k + RestartLimit] - restarts'[k] >= RestartWindow
    <3>1. CASE k <= R - RestartLimit
      <4>1. /\ k \in 1..(R - RestartLimit) /\ k \in 1..R /\ k + RestartLimit \in 1..R
        BY <1>4, <3>1, Limits
      <4>2. restarts[k + RestartLimit] - restarts[k] >= RestartWindow
        BY <1>1, <1>7, <4>1 DEF RestartBounded, R
      <4> QED BY <1>6, <4>1, <4>2
    <3>2. CASE k > R - RestartLimit
      <4>1. k + RestartLimit = R + 1 /\ k \in 1..R /\ k \in 1..d
        BY <1>1, <1>4, <3>2, Limits DEF Limited
      <4>2. now - restarts[k] >= RestartWindow
        BY <1>4, <4>1
      <4> QED BY <1>6, <4>1, <4>2
    <3> QED BY <1>4, <3>1, <3>2, Limits
  <2> QED BY <1>6, <2>1 DEF RestartBounded
<1>10. (\E e \in 0..Len(restarts) : LostFirst(history, e))'
  <2>1. Len(history') = Len(restarts') - d /\ d \in 0..Len(restarts')
    BY <1>4, <1>6
  <2>2. ASSUME NEW i \in 1..(R - d + 1) PROVE history'[i] = restarts'[i + d]
    <3>1. CASE i = R - d + 1
      BY <1>4, <1>6, <3>1
    <3>2. CASE i \in 1..(R - d)
      <4>1. i + d \in 1..R /\ i \in 1..Len(Pruned)
        BY <1>4, <3>2
      <4> QED BY <1>4, <1>6, <3>2, <4>1
    <3> QED BY <1>4, <3>1, <3>2
  <2>3. ASSUME NEW i \in 1..d PROVE now' - restarts'[i] >= RestartWindow
    <3>1. i \in 1..R
      BY <1>4
    <3>2. now - restarts[i] >= RestartWindow /\ restarts'[i] = restarts[i] /\ now' = now
      BY <1>4, <1>6, <3>1
    <3> QED BY <3>2
  <2>4. LostFirst(history, d)'
    <3>1. Len(history') = R - d + 1
      BY <1>6
    <3>2. \A i \in 1..Len(history') : history'[i] = restarts'[i + d]
      BY <2>2, <3>1
    <3> QED BY <2>1, <2>3, <3>2 DEF LostFirst
  <2> QED BY <2>1, <2>4
<1> QED BY <1>6, <1>8, <1>9, <1>10 DEF RestartInv

\* Every step keeps the history.
LEMMA RestartStep == RestartInv /\ [Next]_vars => RestartInv'
<1> SUFFICES ASSUME RestartInv, HistoryStep PROVE RestartInv'
  BY HistorySteps
<1>1. CASE UNCHANGED <<history, restarts>> /\ (now' = now \/ now' = now + 1)
  <2>1. now \in Nat /\ now' \in Nat /\ now' >= now /\ history' = history /\ restarts' = restarts
    BY <1>1 DEF RestartInv
  <2>2. ASSUME Bounding PROVE Timed' /\ RestartBounded'
    BY <2>1, <2>2 DEF RestartInv, Timed, RestartBounded
  <2>3. ASSUME Bounding PROVE (\E d \in 0..Len(restarts) : LostFirst(history, d))'
    <3>1. PICK d \in 0..Len(restarts) : LostFirst(history, d)
      BY <2>3 DEF RestartInv
    <3>2. \A i \in 1..d : restarts[i] \in Nat /\ now - restarts[i] >= RestartWindow
      BY <3>1 DEF RestartInv, LostFirst
    <3>3. PICK t \in Nat : t = now'
      BY <2>1
    <3>4. \A i \in 1..d : t - restarts[i] >= RestartWindow
      BY <2>1, <3>2, <3>3, Limits
    <3>5. LostFirst(history, d)'
      BY <2>1, <3>1, <3>3, <3>4 DEF LostFirst
    <3> QED BY <2>1, <3>1, <3>5
  <2> QED BY <2>1, <2>2, <2>3 DEF RestartInv, Bounding, Limited
<1>2. CASE ~LimitReached /\ Noted(TRUE) /\ UNCHANGED now
  <2>1. CASE Bounding
    BY <1>2, <2>1, NotedBounded
  <2>2. CASE ~Bounding
    <3>1. restarts' \in Seq(Nat)
      BY <1>2 DEF Noted, RestartInv
    <3> QED BY <1>2, <2>2, <3>1 DEF RestartInv, Bounding, Limited
  <2> QED BY <2>1, <2>2
<1>3. CASE history' = Pruned /\ UNCHANGED <<restarts, now>>
  <2>1. CASE Bounding
    <3>1. Timed' /\ RestartBounded'
      BY <1>3, <2>1 DEF RestartInv, Timed, RestartBounded
    <3>2. (\E d \in 0..Len(restarts) : LostFirst(history, d))'
      <4>1. PICK d \in 0..Len(restarts) : LostFirst(Pruned, d)
        BY <2>1, PrunedLost
      <4>2. LostFirst(history, d)'
        BY <1>3, <4>1 DEF LostFirst
      <4> QED BY <1>3, <4>1, <4>2
    <3>3. history' \in Seq(Nat)
      BY <1>3, <2>1, PrunedLost
    <3> QED BY <1>3, <2>1, <3>1, <3>2, <3>3 DEF RestartInv, Bounding, Limited
  <2>2. CASE ~Bounding
    BY <1>3, <2>2 DEF RestartInv, Bounding, Limited
  <2> QED BY <2>1, <2>2
<1>4. CASE history' = <<>> /\ restarts' = <<>> /\ UNCHANGED now
  <2>1. Len(<<>>) = 0 /\ <<>> \in Seq(Nat)
    OBVIOUS
  <2>2. Timed'
    BY <1>4, <2>1 DEF Timed
  <2>3. RestartBounded'
    BY <1>4, <2>1, Limits DEF RestartBounded
  <2>4. LostFirst(history, 0)'
    BY <1>4, <2>1 DEF LostFirst
  <2>5. (\E d \in 0..Len(restarts) : LostFirst(history, d))'
    BY <1>4, <2>1, <2>4
  <2> QED BY <1>4, <2>1, <2>2, <2>3, <2>5 DEF RestartInv
<1> QED BY <1>1, <1>2, <1>3, <1>4 DEF HistoryStep

\* It holds when the task starts.
LEMMA RestartInit == Init => RestartInv
<1> SUFFICES ASSUME Init PROVE RestartInv
  OBVIOUS
<1>1. history = <<>> /\ restarts = <<>> /\ now = 1
  BY DEF Init, TermInit
<1>2. Len(<<>>) = 0 /\ <<>> \in Seq(Nat)
  OBVIOUS
<1>3. LostFirst(history, 0)
  BY <1>1, <1>2 DEF LostFirst
<1>4. Timed /\ RestartBounded
  BY <1>1, <1>2, Limits DEF Timed, RestartBounded
<1> QED BY <1>1, <1>2, <1>3, <1>4 DEF RestartInv

\* emtask_term_note_restart_locked bounds the restarts of a task by whoever asks
\* for them (the watchdog, an attach, a signal, the end seen by a session):
\* no window of restart_window_ms sees more than restart_limit of them.
THEOREM RestartSafe == Spec => []RestartBounded
<1>1. Spec => []RestartInv
  BY RestartInit, RestartStep, PTL DEF Spec
<1>2. RestartInv => RestartBounded
  BY DEF RestartInv, Bounding, RestartBounded
<1> QED BY <1>1, <1>2, PTL
-----------------------------------------------------------------------------
(* Replay.                                                                 *)

(***************************************************************************)
(* The ring holds the last replay_len bytes read from the pty, in order;   *)
(* what the attached session has been given ends where the rest of its     *)
(* replay begins.                                                          *)
(***************************************************************************)
Turn(a) == a % Capacity

Holds(r, start, len, last) ==
    /\ last \in Nat /\ start \in 0..(Capacity - 1)
    /\ len \in 0..Capacity /\ len <= last
    /\ r \in [0..(Capacity - 1) -> Nat]
    /\ \A i \in 0..(len - 1) : r[Turn(start + i)] = last - len + 1 + i

RingExact == Holds(ring, replay_start, replay_len, captured)

Given ==
    /\ offset \in Nat /\ remaining \in Nat /\ seen \in Nat
    /\ seen = captured - remaining
    /\ remaining # 0 => offset + remaining = replay_len

RingInv == RingExact /\ pty \in Nat /\ torn = FALSE /\ (attached => Given)

\* Positions of the ring: one turn at most is taken off, or added.
LEMMA TurnUp ==
    ASSUME NEW a \in 0..(2 * Capacity - 1)
    PROVE  /\ Turn(a) \in 0..(Capacity - 1)
           /\ Turn(a) = a \/ Turn(a) = a - Capacity
<1>1. Capacity \in Nat \ {0}
  BY TermAssumption
<1>2. ASSUME NEW C \in Nat \ {0}, NEW x \in 0..(C - 1) PROVE x % C = x
  OBVIOUS
<1>3. ASSUME NEW C \in Nat \ {0}, NEW x \in C..(2 * C - 1) PROVE x % C = x - C
  OBVIOUS
<1>4. CASE a < Capacity
  BY <1>1, <1>2, <1>4 DEF Turn
<1>5. CASE ~(a < Capacity)
  BY <1>1, <1>3, <1>5 DEF Turn
<1> QED BY <1>4, <1>5

\* The same for the distance between two positions.
LEMMA TurnDown ==
    ASSUME NEW a \in (1 - Capacity)..(Capacity - 1)
    PROVE  /\ Turn(a) \in 0..(Capacity - 1)
           /\ Turn(a) = a \/ Turn(a) = a + Capacity
<1>1. Capacity \in Nat \ {0}
  BY TermAssumption
<1>2. ASSUME NEW C \in Nat \ {0}, NEW x \in 0..(C - 1) PROVE x % C = x
  OBVIOUS
<1>3. ASSUME NEW C \in Nat \ {0}, NEW x \in (1 - C)..(-1) PROVE x % C = x + C
  OBVIOUS
<1>4. CASE a < 0
  BY <1>1, <1>3, <1>4 DEF Turn
<1>5. CASE ~(a < 0)
  BY <1>1, <1>2, <1>5 DEF Turn
<1> QED BY <1>4, <1>5

\* What PutInRing says, with Turn.
LEMMA PutIs ==
    ASSUME NEW p, NEW from, NEW to
    PROVE  PutInRing(p, from, to) =
             [i \in 0..(Capacity - 1) |->
                IF Turn(i - p) <= to - from THEN from + Turn(i - p) ELSE ring[i]]
BY Zenon DEF PutInRing, Turn

\* What ReplayAppend says of bytes that leave room for others.
LEMMA AppendIs ==
    ASSUME NEW n, ReplayAppend(n), ~(n >= Capacity), NEW drop,
           drop = IF replay_len + n > Capacity THEN replay_len + n - Capacity ELSE 0,
           NEW s, s = Turn(replay_start + drop)
    PROVE  /\ replay_start' = s /\ replay_len' = replay_len - drop + n
           /\ ring' = PutInRing(Turn(s + replay_len - drop), captured + 1, captured + n)
BY Zenon DEF ReplayAppend, Turn

\* Appending keeps the ring exact, whether the bytes fit, push out old ones or
\* fill the ring alone.
LEMMA AppendExact ==
    ASSUME RingExact, NEW n \in Nat, n > 0, ReplayAppend(n)
    PROVE  RingExact' /\ captured' = captured + n
<1> DEFINE C == Capacity
<1>0. C \in Nat /\ C > 0
  BY Limits
<1>1. /\ captured \in Nat /\ replay_start \in 0..(C - 1) /\ replay_len \in 0..C
      /\ replay_len <= captured /\ ring \in [0..(C - 1) -> Nat]
      /\ \A i \in 0..(replay_len - 1) :
            ring[Turn(replay_start + i)] = captured - replay_len + 1 + i
  BY DEF RingExact, Holds
<1>2. captured' = captured + n
  BY DEF ReplayAppend
<1>r. PICK r : r = ring'
  OBVIOUS
<1>3. CASE n >= C
  <2>1. /\ r = PutInRing(0, captured + n - C + 1, captured + n)
        /\ replay_start' = 0 /\ replay_len' = C
    BY <1>0, <1>3, <1>r DEF ReplayAppend
  <2>2. ASSUME NEW i \in 0..(C - 1) PROVE r[i] = captured + n - C + 1 + i
    <3>1. Turn(i - 0) = i
      BY <1>0, TurnDown
    <3>2. i <= (captured + n) - (captured + n - C + 1)
      BY <1>0, <1>1
    <3> QED BY <2>1, <3>1, <3>2, PutIs
  <2>3. r \in [0..(C - 1) -> Nat]
    <3>1. r = [i \in 0..(C - 1) |-> r[i]]
      BY <2>1, PutIs
    <3>2. \A i \in 0..(C - 1) : captured + n - C + 1 + i \in Nat
      BY <1>0, <1>1, <1>3
    <3> QED BY <2>2, <3>1, <3>2
  <2>4. \A i \in 0..(C - 1) : Turn(0 + i) = i
    BY <1>0, TurnUp
  <2>5. captured + n \in Nat /\ C <= captured + n /\ 0 \in 0..(C - 1) /\ C \in 0..C
    BY <1>0, <1>1, <1>3
  <2>6. Holds(r, 0, C, captured + n)
    <3>1. ASSUME NEW i \in 0..(C - 1) PROVE r[Turn(0 + i)] = (captured + n) - C + 1 + i
      <4>1. Turn(0 + i) = i
        BY <2>4
      <4>2. r[i] = captured + n - C + 1 + i
        BY <2>2
      <4>3. captured + n - C + 1 + i = (captured + n) - C + 1 + i
        BY <1>0, <1>1
      <4> QED BY <4>1, <4>2, <4>3
    <3> QED BY <2>3, <2>5, <3>1 DEF Holds
  <2> QED BY <1>2, <1>r, <2>1, <2>6 DEF RingExact
<1>4. CASE n < C
  <2>1. PICK drop \in Nat : drop = IF replay_len + n > C THEN replay_len + n - C ELSE 0
    <3>1. CASE replay_len + n > C
      <4>1. replay_len + n - C \in Nat
        BY <1>0, <1>1, <3>1
      <4> QED BY <3>1, <4>1
    <3>2. CASE ~(replay_len + n > C)
      BY <3>2
    <3> QED BY <3>1, <3>2
  <2>2. drop <= replay_len /\ replay_len - drop + n <= C /\ replay_len - drop + n > 0
    BY <1>0, <1>1, <1>4, <2>1
  <2>3. PICK m \in Nat : m = replay_len - drop
    BY <1>1, <2>2
  <2>4. replay_start + drop \in 0..(2 * C - 1)
    BY <1>0, <1>1, <2>2
  <2>5. PICK s \in 0..(C - 1) :
          /\ s = Turn(replay_start + drop)
          /\ s = replay_start + drop \/ s = (replay_start + drop) - C
    <3>1. /\ Turn(replay_start + drop) \in 0..(C - 1)
          /\ \/ Turn(replay_start + drop) = replay_start + drop
             \/ Turn(replay_start + drop) = (replay_start + drop) - C
      BY <2>4, TurnUp, Zenon
    <3> QED BY <3>1, Zenon
  <2>6. s + replay_len - drop = s + m /\ s + m \in 0..(2 * C - 1)
    BY <1>0, <1>1, <1>4, <2>2, <2>3, <2>5
  <2>7. PICK p \in 0..(C - 1) :
          /\ p = Turn(s + m)
          /\ p = s + m \/ p = (s + m) - C
    <3>1. /\ Turn(s + m) \in 0..(C - 1)
          /\ Turn(s + m) = s + m \/ Turn(s + m) = (s + m) - C
      BY <2>6, TurnUp, Zenon
    <3> QED BY <3>1, Zenon
  <2>8. /\ replay_start' = s /\ replay_len' = m + n
        /\ r = PutInRing(p, captured + 1, captured + n)
    <3>1. ~(n >= C)
      BY <1>0, <1>4
    <3>2. /\ replay_start' = s /\ replay_len' = replay_len - drop + n
          /\ r = PutInRing(Turn(s + replay_len - drop), captured + 1, captured + n)
      <4>1. s = Turn(replay_start + drop)
        BY <2>5, Zenon
      <4>2. drop = IF replay_len + n > Capacity THEN replay_len + n - Capacity ELSE 0
        BY <2>1
      <4>3. ~(n >= Capacity)
        BY <3>1
      <4>4. /\ replay_start' = s /\ replay_len' = replay_len - drop + n
            /\ ring' = PutInRing(Turn(s + replay_len - drop), captured + 1, captured + n)
        BY <4>1, <4>2, <4>3, AppendIs, Zenon
      <4> QED BY <1>r, <4>4
    <3>3. replay_len - drop + n = m + n
      BY <2>3
    <3>4. Turn(s + replay_len - drop) = p
      <4>1. p = Turn(s + m)
        BY <2>7, Zenon
      <4>2. s + replay_len - drop = s + m
        BY <2>6
      <4> QED BY <4>1, <4>2, Zenon
    <3> QED BY <3>2, <3>3, <3>4, Zenon
  <2>9. ASSUME NEW x \in 0..(C - 1)
        PROVE  \E k \in 0..(C - 1) :
                  /\ k = x - p \/ k = x - p + C
                  /\ r[x] = IF k <= n - 1 THEN captured + 1 + k ELSE ring[x]
    <3>1. (captured + n) - (captured + 1) = n - 1
      BY <1>1
    <3>2. x - p \in (1 - C)..(C - 1)
      BY <1>0, <2>7
    <3>3. PICK k \in 0..(C - 1) : k = Turn(x - p) /\ (k = x - p \/ k = x - p + C)
      BY <3>2, TurnDown
    <3>4. r[x] = IF Turn(x - p) <= (captured + n) - (captured + 1)
                 THEN captured + 1 + Turn(x - p) ELSE ring[x]
      BY <2>8, PutIs
    <3>5. r[x] = IF k <= n - 1 THEN captured + 1 + k ELSE ring[x]
      BY <3>1, <3>3, <3>4
    <3> QED BY <3>3, <3>5
  <2>10. r \in [0..(C - 1) -> Nat]
    <3>1. r = [x \in 0..(C - 1) |-> r[x]]
      BY <2>8, PutIs
    <3>2. ASSUME NEW x \in 0..(C - 1) PROVE r[x] \in Nat
      <4>1. PICK k \in 0..(C - 1) :
              r[x] = IF k <= n - 1 THEN captured + 1 + k ELSE ring[x]
        BY <2>9
      <4>2. captured + 1 + k \in Nat /\ ring[x] \in Nat
        BY <1>0, <1>1
      <4> QED BY <4>1, <4>2
    <3> QED BY <3>1, <3>2
  <2>11. ASSUME NEW i \in 0..(m + n - 1)
         PROVE  r[Turn(s + i)] = (captured + n) - (m + n) + 1 + i
    <3>1. s + i \in 0..(2 * C - 1)
      BY <1>0, <1>1, <2>2, <2>3, <2>5
    <3>2. PICK x \in 0..(C - 1) : x = Turn(s + i) /\ (x = s + i \/ x = (s + i) - C)
      <4>1. /\ Turn(s + i) \in 0..(C - 1)
            /\ Turn(s + i) = s + i \/ Turn(s + i) = (s + i) - C
        BY <3>1, TurnUp, Zenon
      <4> QED BY <4>1, Zenon
    <3>3. PICK k \in 0..(C - 1) :
              /\ k = x - p \/ k = x - p + C
              /\ r[x] = IF k <= n - 1 THEN captured + 1 + k ELSE ring[x]
      BY <2>9
    <3>4. CASE i < m
      <4>1. k = C + i - m /\ k > n - 1
        BY <1>0, <2>2, <2>3, <2>5, <2>7, <3>2, <3>3, <3>4
      <4>2. r[x] = ring[x]
        <5>1. ~(k <= n - 1)
          BY <1>0, <4>1
        <5> QED BY <3>3, <5>1
      <4>3. drop + i \in 0..(replay_len - 1) /\ replay_start + (drop + i) \in 0..(2 * C - 1)
        BY <1>0, <1>1, <2>3, <3>4
      <4>4. PICK y \in 0..(C - 1) :
              /\ y = Turn(replay_start + (drop + i))
              /\ y = replay_start + (drop + i) \/ y = (replay_start + (drop + i)) - C
        <5>1. /\ Turn(replay_start + (drop + i)) \in 0..(C - 1)
              /\ \/ Turn(replay_start + (drop + i)) = replay_start + (drop + i)
                 \/ Turn(replay_start + (drop + i)) = (replay_start + (drop + i)) - C
          BY <4>3, TurnUp, Zenon
        <5> QED BY <5>1, Zenon
      <4>5. x = y
        <5>1. s = replay_start + drop \/ s = (replay_start + drop) - C
          BY <2>5
        <5>2. x = s + i \/ x = (s + i) - C
          BY <3>2
        <5>3. y = replay_start + (drop + i) \/ y = (replay_start + (drop + i)) - C
          BY <4>4
        <5>4. replay_start \in Nat
          BY <1>0, <1>1
        <5> QED BY <1>0, <5>1, <5>2, <5>3, <5>4
      <4>6. ring[y] = captured - replay_len + 1 + (drop + i)
        BY <1>1, <4>3, <4>4
      <4>7. captured - replay_len + 1 + (drop + i) = (captured + n) - (m + n) + 1 + i
        BY <1>1, <2>3
      <4> QED BY <3>2, <4>2, <4>5, <4>6, <4>7
    <3>5. CASE ~(i < m)
      <4>1. k = i - m /\ k <= n - 1
        BY <1>0, <2>2, <2>3, <2>5, <2>7, <3>2, <3>3, <3>5
      <4>2. r[x] = captured + 1 + k
        BY <3>3, <4>1
      <4>3. captured + 1 + k = (captured + n) - (m + n) + 1 + i
        BY <1>1, <4>1
      <4> QED BY <3>2, <4>2, <4>3
    <3> QED BY <3>4, <3>5
  <2>12. captured + n \in Nat /\ m + n \in 0..C /\ m + n <= captured + n
    BY <1>0, <1>1, <2>2, <2>3
  <2>13. Holds(r, s, m + n, captured + n)
    BY <2>10, <2>11, <2>12 DEF Holds
  <2> QED BY <1>2, <1>r, <2>8, <2>13 DEF RingExact
<1> QED BY <1>0, <1>2, <1>3, <1>4

\* A piece of the replay is the next bytes, in order.
LEMMA CopyExact ==
    ASSUME RingExact, Given, torn = FALSE, remaining # 0,
           NEW n \in 1..ReplayChunk, ReplayCopy(n)
    PROVE  Given' /\ torn' = FALSE
<1> DEFINE C == Capacity
<1>0. C \in Nat /\ C > 0
  BY Limits
<1>1. /\ captured \in Nat /\ replay_start \in 0..(C - 1) /\ replay_len \in 0..C
      /\ replay_len <= captured
      /\ \A i \in 0..(replay_len - 1) :
            ring[Turn(replay_start + i)] = captured - replay_len + 1 + i
  BY DEF RingExact, Holds
<1>2. /\ offset \in Nat /\ remaining \in Nat /\ seen \in Nat
      /\ seen = captured - remaining /\ offset + remaining = replay_len
  BY DEF Given
<1>3. replay_start + offset \in 0..(2 * C - 1)
  BY <1>0, <1>1, <1>2
<1>4. PICK pos \in 0..(C - 1) :
         /\ pos = Turn(replay_start + offset)
         /\ pos = replay_start + offset \/ pos = (replay_start + offset) - C
  <2>1. /\ Turn(replay_start + offset) \in 0..(C - 1)
        /\ \/ Turn(replay_start + offset) = replay_start + offset
           \/ Turn(replay_start + offset) = (replay_start + offset) - C
    BY <1>3, TurnUp, Zenon
  <2> QED BY <2>1, Zenon
<1>5. pos = (replay_start + offset) % C
  BY <1>4, Zenon DEF Turn
<1>6. n \in Nat /\ n > 0 /\ n <= remaining /\ n <= C - pos
  <2>1. ReplayChunk = Least2(Least2(remaining, replay_len - offset), C - pos)
    BY <1>5, Zenon DEF ReplayChunk
  <2>2. n \in 1..Least2(Least2(remaining, replay_len - offset), C - pos)
    BY <2>1, Zenon
  <2> QED BY <1>0, <1>1, <1>2, <1>4, <2>2 DEF Least2
<1>7. ASSUME NEW k \in 1..n PROVE ring[pos + k - 1] = seen + k
  <2>1. offset + k - 1 \in 0..(replay_len - 1)
        /\ replay_start + (offset + k - 1) \in 0..(2 * C - 1)
    BY <1>0, <1>1, <1>2, <1>6
  <2>2. PICK y \in 0..(C - 1) :
           /\ y = Turn(replay_start + (offset + k - 1))
           /\ \/ y = replay_start + (offset + k - 1)
              \/ y = (replay_start + (offset + k - 1)) - C
    <3>1. /\ Turn(replay_start + (offset + k - 1)) \in 0..(C - 1)
          /\ \/ Turn(replay_start + (offset + k - 1)) = replay_start + (offset + k - 1)
             \/ Turn(replay_start + (offset + k - 1)) = (replay_start + (offset + k - 1)) - C
      BY <2>1, TurnUp, Zenon
    <3> QED BY <3>1, Zenon
  <2>3. y = pos + k - 1
    <3>1. pos = replay_start + offset \/ pos = (replay_start + offset) - C
      BY <1>4
    <3>2. \/ y = replay_start + (offset + k - 1)
          \/ y = (replay_start + (offset + k - 1)) - C
      BY <2>2
    <3>3. replay_start \in Nat /\ offset \in Nat
      BY <1>0, <1>1, <1>2
    <3> QED BY <1>0, <1>6, <3>1, <3>2, <3>3
  <2>4. ring[y] = captured - replay_len + 1 + (offset + k - 1)
    BY <1>1, <2>1, <2>2
  <2>5. captured - replay_len + 1 + (offset + k - 1) = seen + k
    BY <1>1, <1>2
  <2> QED BY <2>3, <2>4, <2>5
<1>8. /\ remaining' = remaining - n
      /\ offset' = IF remaining' = 0 THEN 0 ELSE offset + n
      /\ seen' = ring[pos + n - 1]
      /\ torn' = (torn \/ \E k \in 1..n : ring[pos + k - 1] # seen + k)
      /\ captured' = captured /\ replay_len' = replay_len
  BY <1>5 DEF ReplayCopy, outputVars
<1>9. torn' = FALSE
  BY <1>7, <1>8
<1>10. seen' = seen + n
  BY <1>6, <1>7, <1>8
<1>11. Given'
  <2>1. PICK rem \in Nat : rem = remaining' /\ rem = remaining - n
    BY <1>2, <1>6, <1>8
  <2>2. PICK off \in Nat : off = offset' /\ off = IF rem = 0 THEN 0 ELSE offset + n
    BY <1>2, <1>6, <1>8, <2>1
  <2>3. seen + n \in Nat /\ seen + n = captured - rem
        /\ (rem # 0 => off + rem = replay_len)
    BY <1>1, <1>2, <1>6, <2>1, <2>2
  <2> QED BY <1>8, <1>10, <2>1, <2>2, <2>3 DEF Given
<1> QED BY <1>9, <1>11

\* What a step may do to the output and to what the session has of it.
OutputStep ==
    \/ UNCHANGED <<outputVars, attachVars>> /\ pty' \in {0, pty, pty + 1}
    \/ attached /\ TermReadKept
    \/ attached /\ TermReadNew
    \/ MonitorCaptures
    \/ TermClose
    \/ Attached /\ UNCHANGED outputVars /\ pty' \in {0, pty}

\* Every step does one of these; only the attached session reads.
LEMMA OutputSteps ==
    ASSUME SessionInv, [Next]_vars PROVE OutputStep
<1>0. UNCHANGED <<outputVars, attachVars>> /\ pty' \in {0, pty, pty + 1} => OutputStep
  BY DEF OutputStep
<1>1. UNCHANGED termVars => OutputStep
  BY <1>0 DEF termVars, childVars
<1>2. /\ Poll => pty' \in {0, pty, pty + 1}
      /\ SpawnOk(TRUE) => pty' \in {0, pty, pty + 1}
      /\ SpawnFails(TRUE) => pty' \in {0, pty, pty + 1}
  BY DEF Poll, SpawnOk, SpawnFails
<1>3. ASSUME NEW w \in Workers, Worker(w) PROVE OutputStep
  <2>1. CASE ShellRequest(w)
    <3>1. CASE TermAttach
      <4>1. Attached /\ UNCHANGED outputVars /\ pty' \in {0, pty}
        BY <3>1 DEF TermAttach, SpawnOk, childVars
      <4> QED BY <4>1 DEF OutputStep
    <3>2. CASE TermAttachRefused
      BY <1>0, <1>2, <3>2 DEF TermAttachRefused, childVars
    <3> QED BY <2>1, <3>1, <3>2 DEF ShellRequest
  <2>2. CASE Pump(w)
    <3>1. attached
      BY <2>2 DEF Pump, SessionInv, InSession
    <3> QED BY <2>2, <3>1 DEF Pump, OutputStep
  <2>3. CASE PumpFindsNothing(w)
    <3>1. TermReadNothing => OutputStep
      BY <1>0, <1>2 DEF TermReadNothing
    <3>2. TermReadError => OutputStep
      BY <1>1 DEF TermReadError
    <3> QED BY <2>3, <3>1, <3>2 DEF PumpFindsNothing
  <2>4. CASE CheckExit(w)
    <3>1. TermWaitRestarts => OutputStep
      BY <1>0, <1>2 DEF TermWaitRestarts
    <3>2. TermWaitReports => OutputStep
      BY <1>0, <1>2 DEF TermWaitReports
    <3> QED BY <2>4, <3>1, <3>2 DEF CheckExit
  <2>5. CASE ChannelDeinit(w)
    BY <2>5 DEF ChannelDeinit, OutputStep
  <2>6. CASE OpensSftp(w) \/ EndsEarly(w) \/ Takeover(w) \/ Woken(w) \/ Reply(w)
              \/ Disconnected(w) \/ Release(w)
    <3>1. UNCHANGED termVars
      BY <2>6 DEF OpensSftp, EndsEarly, Takeover, Woken, Reply, Disconnected, Release
    <3> QED BY <1>1, <3>1
  <2> QED BY <1>3, <2>1, <2>2, <2>3, <2>4, <2>5, <2>6 DEF Worker
<1>4. ASSUME NEW w \in Workers, Accept(w) \/ ClientLeaves(w) PROVE OutputStep
  BY <1>1, <1>4 DEF Accept, ClientLeaves
<1>5. ASSUME NEW w \in Workers, ClientInput(w) PROVE OutputStep
  <2>1. TermSignal => OutputStep
    BY <1>0, <1>2 DEF TermSignal, childVars
  <2>2. \A i \in BOOLEAN : TermWrite(i) => OutputStep
    BY <1>0, <1>2 DEF TermWrite
  <2> QED BY <1>5, <2>1, <2>2 DEF ClientInput
<1>6. CASE Term
  <2>1. MonitorCaptures => OutputStep
    BY DEF OutputStep
  <2>2. Watchdog => OutputStep
    BY <1>0, <1>2 DEF Watchdog
  <2>3. ChildWrites => OutputStep
    BY <1>0 DEF ChildWrites
  <2>4. ChildExits => OutputStep
    BY <1>0 DEF ChildExits
  <2>5. Tick => OutputStep
    BY <1>0 DEF Tick, childVars
  <2> QED BY <1>6, <2>1, <2>2, <2>3, <2>4, <2>5 DEF Term
<1>7. CASE PanelRestart
  <2>1. UNCHANGED <<outputVars, attachVars>> /\ pty' = 0
    BY <1>7 DEF PanelRestart, RestartManual
  <2> QED BY <1>0, <2>1
<1>8. CASE \/ UNCHANGED vars
             \/ \E w \in Workers : MessageBegins(w) \/ MessageEnds(w)
  BY <1>1, <1>8 DEF vars, MessageBegins, MessageEnds
<1> QED BY <1>3, <1>4, <1>5, <1>6, <1>7, <1>8 DEF Next, GoesOn

\* Every step keeps the ring and what the session has been given in step.
LEMMA RingStep == SessionInv /\ RingInv /\ [Next]_vars => RingInv'
<1> SUFFICES ASSUME RingInv, OutputStep PROVE RingInv'
  BY OutputSteps
<1>0. RingExact /\ pty \in Nat /\ torn = FALSE /\ (attached => Given)
  BY DEF RingInv
<1>1. CASE UNCHANGED <<outputVars, attachVars>> /\ pty' \in {0, pty, pty + 1}
  <2>1. pty' \in Nat
    BY <1>0, <1>1
  <2>2. UNCHANGED <<ring, replay_start, replay_len, captured, attached, offset, remaining,
                     seen, torn>>
    BY <1>1 DEF outputVars, attachVars
  <2>3. RingExact' /\ (attached' => Given')
    BY <1>0, <2>2 DEF RingExact, Given
  <2> QED BY <1>0, <2>1, <2>2, <2>3 DEF RingInv
<1>2. CASE attached /\ TermReadKept
  <2>1. PICK n \in 1..ReplayChunk : ReplayCopy(n)
    BY <1>2 DEF TermReadKept
  <2>2. remaining # 0 /\ UNCHANGED <<pty, outputVars>>
    BY <1>2, <2>1 DEF TermReadKept, childVars, ReplayCopy
  <2>3. Given' /\ torn' = FALSE
    BY <1>0, <1>2, <2>1, <2>2, CopyExact
  <2>4. RingExact'
    BY <1>0, <2>2 DEF RingExact, outputVars
  <2> QED BY <1>0, <2>2, <2>3, <2>4 DEF RingInv
<1>3. CASE attached /\ TermReadNew
  <2>1. PICK n \in 1..pty : /\ ReplayAppend(n) /\ pty' = pty - n
                            /\ seen' = captured + n /\ torn' = (torn \/ seen # captured)
    BY <1>3 DEF TermReadNew
  <2>2. n \in Nat /\ n > 0 /\ pty' \in Nat
    BY <1>0, <2>1
  <2>3. RingExact' /\ captured' = captured + n
    BY <1>0, <2>1, <2>2, AppendExact
  <2>4. remaining = 0 /\ seen = captured
    <3>1. remaining = 0 \/ offset >= replay_len
      BY <1>3 DEF TermReadNew
    <3>2. Given /\ captured \in Nat /\ replay_len \in Nat
      BY <1>0, <1>3, Limits DEF RingExact, Holds
    <3> QED BY <3>1, <3>2 DEF Given
  <2>5. torn' = FALSE
    BY <1>0, <2>1, <2>4
  <2>6. Given'
    <3>1. remaining' = 0 /\ offset' = 0
      BY <1>3 DEF TermReadNew
    <3>2. captured + n \in Nat
      BY <1>0, <2>2 DEF RingExact, Holds
    <3> QED BY <2>1, <2>3, <3>1, <3>2 DEF Given
  <2> QED BY <2>2, <2>3, <2>5, <2>6 DEF RingInv
<1>4. CASE MonitorCaptures
  <2>1. PICK n \in 1..pty : ReplayAppend(n) /\ pty' = pty - n
    BY <1>4 DEF MonitorCaptures
  <2>2. n \in Nat /\ n > 0 /\ pty' \in Nat
    BY <1>0, <2>1
  <2>3. RingExact'
    BY <1>0, <2>1, <2>2, AppendExact
  <2>4. attached' = attached /\ torn' = torn /\ ~attached
    BY <1>4 DEF MonitorCaptures, attachVars
  <2> QED BY <1>0, <2>2, <2>3, <2>4 DEF RingInv
<1>5. CASE TermClose
  <2>1. attached' = FALSE /\ torn' = torn /\ UNCHANGED <<pty, outputVars>>
    BY <1>5 DEF TermClose, childVars
  <2>2. RingExact'
    BY <1>0, <2>1 DEF RingExact, outputVars
  <2> QED BY <1>0, <2>1, <2>2 DEF RingInv
<1>6. CASE Attached /\ UNCHANGED outputVars /\ pty' \in {0, pty}
  <2>1. RingExact' /\ captured' = captured /\ replay_len' = replay_len
    BY <1>0, <1>6 DEF RingExact, outputVars
  <2>2. captured \in Nat /\ replay_len \in Nat /\ replay_len <= captured
    BY <1>0, Limits DEF RingExact, Holds
  <2>3. /\ offset' = 0 /\ remaining' = (IF ReplayOnAttach THEN replay_len ELSE 0)
        /\ seen' = captured - remaining' /\ torn' = torn
    BY <1>6 DEF Attached
  <2>4. Given'
    <3>1. CASE remaining' = replay_len
      BY <2>1, <2>2, <2>3, <3>1 DEF Given
    <3>2. CASE remaining' = 0
      BY <2>1, <2>2, <2>3, <3>2 DEF Given
    <3> QED BY <2>3, <3>1, <3>2
  <2>5. pty' \in Nat
    BY <1>0, <1>6
  <2> QED BY <1>0, <2>1, <2>3, <2>4, <2>5 DEF RingInv
<1> QED BY <1>1, <1>2, <1>3, <1>4, <1>5, <1>6 DEF OutputStep

\* It holds of the empty ring.
LEMMA RingInit == Init => RingInv
<1> SUFFICES ASSUME Init PROVE RingInv
  OBVIOUS
<1>1. /\ ring = [i \in 0..(Capacity - 1) |-> 0] /\ replay_start = 0 /\ replay_len = 0
      /\ captured = 0 /\ torn = FALSE /\ attached = FALSE /\ pty = 0
  BY DEF Init, TermInit
<1>2. Holds([i \in 0..(Capacity - 1) |-> 0], 0, 0, 0)
  BY Limits DEF Holds
<1> QED BY <1>1, <1>2 DEF RingInv, RingExact

\* What emtask_term_read gives the attached session is the output without a gap,
\* a repetition or a stale byte, whatever the ring buffer of
\* emtask_term_replay_append_locked dropped, wrapped or kept while the
\* monitor and the sessions took turns.
THEOREM ReplaySafe == Spec => []ReplayExact
<1>1. Init => SessionInv /\ RingInv
  BY SessionInit, RingInit
<1>2. (SessionInv /\ RingInv) /\ [Next]_vars => (SessionInv /\ RingInv)'
  BY SessionStep, RingStep
<1>3. RingInv => ReplayExact
  BY DEF RingInv, ReplayExact
<1> QED BY <1>1, <1>2, <1>3, PTL DEF Spec

-----------------------------------------------------------------------------
(* Loops over numbers and sequences.                                       *)

\* What holds at first and is kept by every round holds after the last one.
LEMMA RoundByRound ==
    ASSUME NEW n \in Nat, NEW T, 0 \in T, \A i \in 1..n : i - 1 \in T => i \in T
    PROVE  \A i \in 0..n : i \in T
<1> DEFINE B == {i \in Nat : i \in 0..n /\ i \notin T}
<1>1. SUFFICES ASSUME B # {} PROVE FALSE
    BY DEF B
<1>2. B \subseteq Nat
    BY DEF B
<1> HIDE DEF B
<1>3. PICK i \in B : \A m \in B : ~(<<m, i>> \in OpToRel(<, Nat))
    BY <1>1, <1>2, NatLessThanWellFounded, WFMin
<1>4. i \in Nat /\ i \in 0..n /\ i \notin T
    BY <1>3 DEF B
<1>5. i \in 1..n /\ i - 1 \in Nat /\ i - 1 \in 0..n /\ i - 1 < i
    BY <1>4
<1>6. <<i - 1, i>> \in OpToRel(<, Nat)
    BY <1>4, <1>5 DEF OpToRel
<1>7. i - 1 \notin B
    BY <1>3, <1>6
<1>8. i - 1 \in T
    BY <1>5, <1>7 DEF B
<1> QED BY <1>4, <1>5, <1>8

\* The runs of n rounds of f that start with s.
Runs(S, s, f, n) ==
    {g \in [0..n -> S] : g[0] = s /\ \A i \in 1..n : g[i] = f[i - 1][g[i - 1]]}

\* A loop whose rounds stay in S has a run of any length.
LEMMA Iteration ==
    ASSUME NEW S, NEW s \in S, NEW f \in [Nat -> [S -> S]], NEW n \in Nat
    PROVE  \E g : g \in Runs(S, s, f, n)
<1> DEFINE P(k) == \E g \in [0..k -> S] :
                      g[0] = s /\ \A i \in 1..k : g[i] = f[i - 1][g[i - 1]]
           T == {k \in 0..n : P(k)}
<1>1. P(0)
    <2>1. [i \in 0..0 |-> s] \in [0..0 -> S] /\ [i \in 0..0 |-> s][0] = s
        OBVIOUS
    <2>2. \A i \in 1..0 : FALSE
        OBVIOUS
    <2> QED BY <2>1, <2>2
<1>2. ASSUME NEW k \in 1..n, P(k - 1) PROVE P(k)
    <2>1. PICK g \in [0..(k - 1) -> S] :
              g[0] = s /\ \A i \in 1..(k - 1) : g[i] = f[i - 1][g[i - 1]]
        BY <1>2
    <2> DEFINE h == [i \in 0..k |-> IF i = k THEN f[k - 1][g[k - 1]] ELSE g[i]]
    <2>2. k - 1 \in Nat /\ k - 1 \in 0..(k - 1) /\ k - 1 # k
        OBVIOUS
    <2>3. f[k - 1][g[k - 1]] \in S
        BY <2>2
    <2>4. \A i \in 0..k : i # k => i \in 0..(k - 1)
        OBVIOUS
    <2>5. h \in [0..k -> S]
        BY <2>3, <2>4
    <2>6. h[0] = s
        BY <2>1
    <2>7. ASSUME NEW i \in 1..k PROVE h[i] = f[i - 1][h[i - 1]]
        <3>1. i - 1 \in 0..k /\ i - 1 # k /\ i \in 0..k /\ h[i - 1] = g[i - 1]
            OBVIOUS
        <3>2. CASE i = k
            BY <3>1, <3>2
        <3>3. CASE i # k
            <4>1. i \in 1..(k - 1) /\ h[i] = g[i]
                BY <3>1, <3>3
            <4> QED BY <4>1, <3>1, <2>1
        <3> QED BY <3>2, <3>3
    <2> HIDE DEF h
    <2> QED BY <2>5, <2>6, <2>7
<1> HIDE DEF P
<1>3. 0 \in T
    BY <1>1
<1>4. ASSUME NEW i \in 1..n, i - 1 \in T PROVE i \in T
    BY <1>2, <1>4
<1>5. n \in T
    <2> HIDE DEF T
    <2>1. \A i \in 0..n : i \in T
        BY <1>3, <1>4, RoundByRound
    <2> QED BY <2>1
<1> QED BY <1>5 DEF P, Runs



-----------------------------------------------------------------------------
(* The numbers of a control sequence.                                      *)

LEMMA DigitNat == \A b \in Range(Digit) : DigitValue(b) \in 0..9
<1> SUFFICES ASSUME NEW b \in Range(Digit) PROVE DigitValue(b) \in 0..9
    OBVIOUS
<1>1. \E i \in 1..10 : Digit[i] = b
    <2>1. Len(Digit) = 10 /\ DOMAIN Digit = 1..10
        BY DEF Digit
    <2> QED BY <2>1 DEF Range
<1>2. (CHOOSE i \in 1..10 : Digit[i] = b) \in 1..10
    BY <1>1
<1> QED BY <1>2 DEF DigitValue

CsiStates == [current : Nat, value : {v \in Int : v >= -1}]

LEMMA CsiByteType ==
    ASSUME NEW a \in CsiStates, NEW b, NEW index
    PROVE  CsiByte(a, b, index) \in CsiStates
<1>0. ";" \notin Range(Digit)
    <2>1. DOMAIN Digit = 1..10
        BY DEF Digit
    <2>2. \A i \in 1..10 : i \in {1, 2, 3, 4, 5, 6, 7, 8, 9, 10}
        OBVIOUS
    <2>3. /\ Digit[1] # ";" /\ Digit[2] # ";" /\ Digit[3] # ";" /\ Digit[4] # ";"
          /\ Digit[5] # ";" /\ Digit[6] # ";" /\ Digit[7] # ";" /\ Digit[8] # ";"
          /\ Digit[9] # ";" /\ Digit[10] # ";"
        BY DEF Digit
    <2> QED BY <2>1, <2>2, <2>3 DEF Range
<1>1. CASE b = ";"
    <2>1. CsiByte(a, b, index) = [a EXCEPT !.current = a.current + 1]
        BY <1>0, <1>1 DEF CsiByte
    <2> QED BY <2>1 DEF CsiStates
<1>2. CASE b # ";" /\ b \in Range(Digit) /\ a.current = index
    <2>1. DigitValue(b) \in 0..9
        BY <1>2, DigitNat
    <2>2. CsiByte(a, b, index)
            = [a EXCEPT !.value = (IF @ < 0 THEN 0 ELSE @ * 10) + DigitValue(b)]
        BY <1>2 DEF CsiByte
    <2> DEFINE v == (IF a.value < 0 THEN 0 ELSE a.value * 10) + DigitValue(b)
    <2>3. v \in Int /\ v >= -1
        <3>1. a.value \in Int
            BY DEF CsiStates
        <3>2. a.value < 0 \/ (a.value * 10 \in Int /\ a.value * 10 >= 0)
            BY <3>1
        <3> QED BY <2>1, <3>1, <3>2
    <2> HIDE DEF v
    <2>4. CsiByte(a, b, index) = [a EXCEPT !.value = v]
        BY <2>2 DEF v
    <2> QED BY <2>3, <2>4 DEF CsiStates
<1>3. CASE b # ";" /\ ~(b \in Range(Digit) /\ a.current = index)
    BY <1>3 DEF CsiByte
<1> QED BY <1>1, <1>2, <1>3

LEMMA CsiScanType ==
    ASSUME NEW csi, Len(csi) \in Nat, NEW index
    PROVE  CsiScan(csi, index)[Len(csi)] \in CsiStates
<1> DEFINE n == Len(csi)
           s == [current |-> 0, value |-> -1]
           F(g) == [i \in 0..n |-> IF i = 0 THEN s ELSE CsiByte(g[i - 1], csi[i], index)]
<1>0. s \in CsiStates /\ n \in Nat
    BY DEF CsiStates
<1>1. \E g : g = F(g)
    <2> DEFINE f == [k \in Nat |-> [a \in CsiStates |-> CsiByte(a, csi[k + 1], index)]]
    <2>1. \A k \in Nat : f[k] \in [CsiStates -> CsiStates]
        BY CsiByteType
    <2>2. f \in [Nat -> [CsiStates -> CsiStates]]
        BY <2>1
    <2>3. ASSUME NEW k \in Nat, NEW a \in CsiStates
          PROVE  f[k][a] = CsiByte(a, csi[k + 1], index)
        OBVIOUS
    <2> HIDE DEF f, s, n
    <2>4. PICK g : g \in Runs(CsiStates, s, f, n)
        <3>1. s \in CsiStates
            BY <1>0
        <3>2. n \in Nat
            BY <1>0
        <3> QED BY <3>1, <3>2, <2>2, Iteration
    <2>41. /\ g \in [0..n -> CsiStates] /\ g[0] = s
           /\ \A i \in 1..n : g[i] = f[i - 1][g[i - 1]]
        BY <2>4 DEF Runs
    <2>5. ASSUME NEW i \in 1..n PROVE g[i] = CsiByte(g[i - 1], csi[i], index)
        <3>1. i - 1 \in Nat /\ (i - 1) + 1 = i /\ i - 1 \in 0..n
            BY <1>0
        <3>2. g[i - 1] \in CsiStates
            BY <3>1, <2>41
        <3>3. f[i - 1][g[i - 1]] = CsiByte(g[i - 1], csi[(i - 1) + 1], index)
            BY <3>1, <3>2, <2>3
        <3> QED BY <3>1, <3>3, <2>41
    <2>6. \A i \in 0..n : i = 0 \/ i \in 1..n
        BY <1>0
    <2>7. g = F(g)
        BY <2>41, <2>5, <2>6
    <2> QED BY <2>7
<1>2. CsiScan(csi, index) = CHOOSE g : g = F(g)
    BY DEF CsiScan
<1> DEFINE g == CsiScan(csi, index)
           T == {i \in 0..n : g[i] \in CsiStates}
<1>3. g = F(g)
    <2> HIDE DEF F
    <2> QED BY <1>1, <1>2
<1> HIDE DEF g, s, n
<1>4. 0 \in T
    BY <1>0, <1>3
<1>5. ASSUME NEW i \in 1..n, i - 1 \in T PROVE i \in T
    <2>1. i \in 0..n /\ i # 0
        BY <1>0
    <2>2. g[i] = CsiByte(g[i - 1], csi[i], index)
        BY <1>3, <2>1
    <2> QED BY <2>1, <2>2, <1>5, CsiByteType
<1>6. n \in T
    <2> HIDE DEF T
    <2>1. \A i \in 0..n : i \in T
        BY <1>0, <1>4, <1>5, RoundByRound
    <2> QED BY <1>0, <2>1
<1> QED BY <1>6 DEF g, n

LEMMA CsiParamNat ==
    ASSUME NEW csi, Len(csi) \in Nat, NEW index, NEW default \in Nat,
           ~(CsiNumber(csi, index) > IntMax)
    PROVE  CsiParam(csi, index, default) \in Nat
<1>1. CsiNumber(csi, index) \in Int
    BY CsiScanType DEF CsiNumber, CsiStates
<1>2. IntMax \in Nat
    BY ScreenAssumption
<1> QED BY <1>1, <1>2 DEF CsiParam

\* As an unsigned number, a number is still one.
LEMMA CountNat == ASSUME NEW n \in Nat PROVE Count(n) \in Nat
<1>1. 2 * (IntMax + 1) \in Nat \ {0}
    BY ScreenAssumption
<1>2. \A k \in Nat \ {0} : n % k \in Nat
    BY Z3
<1> QED BY <1>1, <1>2 DEF Count

\* Two cells at the same position of the screen are in the same row.
LEMMA SamePosition ==
    ASSUME NEW i \in Nat, NEW r \in Nat, NEW w \in Nat, NEW j \in Nat, NEW c \in Nat,
           j < w, c < w, i * w + j = r * w + c
    PROVE  i = r
<1>1. ASSUME NEW a \in Nat, NEW b \in Nat, a < b PROVE a * w + w <= b * w
    <2>1. PICK k \in Nat : b = a + 1 + k
        <3>1. b - a - 1 \in Nat /\ b = a + 1 + (b - a - 1)
            BY <1>1
        <3> QED BY <3>1
    <2>2. b * w = a * w + w + k * w
        BY <2>1
    <2>3. k * w \in Nat /\ a * w \in Nat
        OBVIOUS
    <2> QED BY <2>2, <2>3
<1>2. i * w \in Nat /\ r * w \in Nat
    OBVIOUS
<1>3. CASE i < r
    <2>1. i * w + w <= r * w
        BY <1>1, <1>3
    <2> QED BY <1>2, <2>1
<1>4. CASE r < i
    <2>1. r * w + w <= i * w
        BY <1>1, <1>4
    <2> QED BY <1>2, <2>1
<1> QED BY <1>3, <1>4

-----------------------------------------------------------------------------
(* The screen.                                                             *)

CsiBytes == Numbers \cup {";", "?"}

\* Cells that make up the rows and columns of s.
Shaped(c, s) ==
    /\ c = [i \in 0..(s.rows - 1) |-> c[i]]
    /\ \A i \in 0..(s.rows - 1) : DOMAIN c[i] = 0..(s.cols - 1)

\* The cursor, the saved cursor and the region are on the screen.
InOrder(s) ==
    /\ s \in [cols : Nat \ {0}, rows : Nat \ {0}, cells : {s.cells},
              row : Nat, col : Nat, srow : Nat, scol : Nat,
              top : Nat, bottom : Nat, wrap : BOOLEAN,
              esc : {0, 1, 2}, csi : Seq(CsiBytes), tab : Nat]
    /\ s.row < s.rows /\ s.col < s.cols
    /\ s.srow < s.rows /\ s.scol < s.cols
    /\ s.top < s.bottom \/ (s.rows = 1 /\ s.top = s.bottom)
    /\ s.bottom < s.rows

ScreenOk(s) == InOrder(s) /\ Shaped(s.cells, s)

\* Outside the region of s, t differs from s at most by blanks and in the
\* cursor's row.
Kept(s, t) ==
    \A i \in 0..(s.rows - 1), j \in 0..(s.cols - 1) :
        \/ i \in s.top..s.bottom
        \/ t.cells[i][j] \in {s.cells[i][j], " "}
        \/ i = t.row

\* A screen whose cells stay keeps their shape, and all that is outside.
LEMMA CellsStay ==
    ASSUME NEW s, ScreenOk(s), NEW t, InOrder(t),
           t.cells = s.cells, t.rows = s.rows, t.cols = s.cols
    PROVE  ScreenOk(t) /\ Kept(s, t)
BY DEF ScreenOk, InOrder, Shaped, Kept

LEMMA Fields ==
    ASSUME NEW s, ScreenOk(s)
    PROVE  /\ s.cols \in Nat \ {0} /\ s.rows \in Nat \ {0}
           /\ s.row \in Nat /\ s.row < s.rows /\ s.col \in Nat /\ s.col < s.cols
           /\ s.srow \in Nat /\ s.srow < s.rows /\ s.scol \in Nat /\ s.scol < s.cols
           /\ s.top \in Nat /\ s.bottom \in Nat /\ s.bottom < s.rows
           /\ s.top < s.bottom \/ (s.rows = 1 /\ s.top = s.bottom)
           /\ s.wrap \in BOOLEAN /\ s.esc \in {0, 1, 2} /\ s.tab \in Nat
           /\ s.csi \in Seq(CsiBytes)
BY DEF ScreenOk, InOrder

LEMMA ColSet ==
    ASSUME NEW s, ScreenOk(s), NEW k \in Nat, k < s.cols, NEW t, t = [s EXCEPT !.col = k]
    PROVE  /\ ScreenOk(t) /\ Kept(s, t) /\ t.cells = s.cells /\ t.row = s.row
           /\ t.rows = s.rows /\ t.cols = s.cols /\ t.top = s.top /\ t.bottom = s.bottom
<1>1. /\ t.cells = s.cells /\ t.row = s.row /\ t.rows = s.rows /\ t.cols = s.cols
      /\ t.top = s.top /\ t.bottom = s.bottom
    BY DEF ScreenOk, InOrder
<1>2. InOrder(t)
    BY DEF ScreenOk, InOrder
<1> QED BY <1>1, <1>2, CellsStay

LEMMA RowSet ==
    ASSUME NEW s, ScreenOk(s), NEW k \in Nat, k < s.rows, NEW t, t = [s EXCEPT !.row = k]
    PROVE  /\ ScreenOk(t) /\ Kept(s, t) /\ t.col = s.col
           /\ t.rows = s.rows /\ t.cols = s.cols
<1>1. /\ t.cells = s.cells /\ t.rows = s.rows /\ t.cols = s.cols /\ t.col = s.col
    BY DEF ScreenOk, InOrder
<1>2. InOrder(t)
    BY DEF ScreenOk, InOrder
<1> QED BY <1>1, <1>2, CellsStay

LEMMA WrapSet ==
    ASSUME NEW s, ScreenOk(s), NEW w \in BOOLEAN, NEW t, t = [s EXCEPT !.wrap = w]
    PROVE  /\ ScreenOk(t) /\ Kept(s, t) /\ t.cells = s.cells /\ t.row = s.row
           /\ t.rows = s.rows /\ t.cols = s.cols /\ t.top = s.top /\ t.bottom = s.bottom
<1>1. /\ t.cells = s.cells /\ t.row = s.row /\ t.rows = s.rows /\ t.cols = s.cols
      /\ t.top = s.top /\ t.bottom = s.bottom
    BY DEF ScreenOk, InOrder
<1>2. InOrder(t)
    BY DEF ScreenOk, InOrder
<1> QED BY <1>1, <1>2, CellsStay

LEMMA NewCells ==
    ASSUME NEW s, ScreenOk(s), NEW c, Shaped(c, s)
    PROVE  ScreenOk([s EXCEPT !.cells = c])
BY DEF ScreenOk, InOrder, Shaped

\* Rows that move take their shape with them.
LEMMA MovedShape ==
    ASSUME NEW s, ScreenOk(s), NEW from \in Int, NEW to \in Int, NEW n \in Int,
           0 <= from, to < s.rows
    PROVE  /\ Shaped(MovedRows(s, from, to, n), s)
           /\ \A i \in 0..(s.rows - 1) : i \notin from..to =>
                  MovedRows(s, from, to, n)[i] = s.cells[i]
<1> DEFINE c == MovedRows(s, from, to, n)
<1>1. DOMAIN s.cells = 0..(s.rows - 1) /\ s.rows \in Nat
    BY DEF ScreenOk, InOrder, Shaped
<1>2. c = [i \in 0..(s.rows - 1) |->
             IF i \notin from..to THEN s.cells[i]
             ELSE IF i + n \in from..to THEN s.cells[i + n] ELSE BlankRow(s)]
    BY <1>1 DEF MovedRows
<1>3. DOMAIN BlankRow(s) = 0..(s.cols - 1)
    BY DEF BlankRow
<1>4. \A i \in 0..(s.rows - 1) : i + n \in from..to => i + n \in 0..(s.rows - 1)
    BY <1>1
<1>5. \A i \in 0..(s.rows - 1) : DOMAIN s.cells[i] = 0..(s.cols - 1)
    BY DEF ScreenOk, InOrder, Shaped
<1> HIDE DEF c
<1>6. c = [i \in 0..(s.rows - 1) |-> c[i]]
    BY <1>2
<1>7. \A i \in 0..(s.rows - 1) : DOMAIN c[i] = 0..(s.cols - 1)
    BY <1>2, <1>3, <1>4, <1>5
<1>8. \A i \in 0..(s.rows - 1) : i \notin from..to => c[i] = s.cells[i]
    BY <1>2
<1> QED BY <1>6, <1>7, <1>8 DEF c, Shaped

\* The region makes sense.
LEMMA RegionIs ==
    ASSUME NEW s, ScreenOk(s)
    PROVE  Region(s).top = s.top /\ Region(s).bottom = s.bottom
BY DEF Region, ScreenOk, InOrder

Scrolled(s, n) == [s EXCEPT !.cells = MovedRows(s, s.top, s.bottom, n)]

LEMMA ScrollsAre ==
    ASSUME NEW s, ScreenOk(s)
    PROVE  ScrollUp(s) = Scrolled(s, 1) /\ ScrollDown(s) = Scrolled(s, -1)
BY RegionIs DEF ScrollUp, ScrollDown, Scrolled

LEMMA ScrollOk ==
    ASSUME NEW s, ScreenOk(s), NEW n \in Int
    PROVE  /\ ScreenOk(Scrolled(s, n)) /\ Kept(s, Scrolled(s, n))
           /\ \A i \in 0..(s.rows - 1) : i \notin s.top..s.bottom =>
                  Scrolled(s, n).cells[i] = s.cells[i]
           /\ \A f \in DOMAIN s : f # "cells" => Scrolled(s, n)[f] = s[f]
<1> DEFINE c == MovedRows(s, s.top, s.bottom, n)
<1>1. s.top \in Int /\ s.bottom \in Int /\ 0 <= s.top /\ s.bottom < s.rows
    BY DEF ScreenOk, InOrder
<1>2. /\ Shaped(c, s)
      /\ \A i \in 0..(s.rows - 1) : i \notin s.top..s.bottom => c[i] = s.cells[i]
    BY <1>1, MovedShape
<1>3. Scrolled(s, n) = [s EXCEPT !.cells = c]
    BY DEF Scrolled
<1> HIDE DEF c
<1>4. ScreenOk(Scrolled(s, n))
    BY <1>2, <1>3, NewCells
<1>5. Scrolled(s, n).cells = c
    BY <1>3 DEF ScreenOk, InOrder
<1>6. \A f \in DOMAIN s : f # "cells" => Scrolled(s, n)[f] = s[f]
    BY <1>3
<1> QED BY <1>2, <1>4, <1>5, <1>6 DEF Kept

LEMMA NewlineOk ==
    ASSUME NEW s, ScreenOk(s)
    PROVE  ScreenOk(Newline(s)) /\ Kept(s, Newline(s))
<1> DEFINE t == [s EXCEPT !.wrap = FALSE]
<1>1. /\ ScreenOk(t) /\ t.cells = s.cells /\ t.top = s.top /\ t.bottom = s.bottom
      /\ t.rows = s.rows /\ t.cols = s.cols /\ t.row = s.row
    BY DEF ScreenOk, InOrder, Shaped
<1> HIDE DEF t
<1>2. CASE s.row = s.bottom
    <2>1. Newline(s) = Scrolled(t, 1)
        BY <1>1, <1>2, ScrollsAre DEF Newline, t
    <2>2. ScreenOk(Scrolled(t, 1)) /\ Kept(t, Scrolled(t, 1))
        BY <1>1, ScrollOk
    <2>3. Kept(s, Scrolled(t, 1))
        BY <1>1, <2>2 DEF Kept
    <2> QED BY <2>1, <2>2, <2>3
<1>3. CASE s.row # s.bottom
    <2> DEFINE r == Least(s.row + 1, s.rows - 1)
    <2>1. r \in Nat /\ r < s.rows
        BY DEF Least, ScreenOk, InOrder
    <2>2. Newline(s) = [t EXCEPT !.row = r]
        BY <1>3 DEF Newline, t
    <2> HIDE DEF r
    <2>3. ScreenOk([t EXCEPT !.row = r]) /\ [t EXCEPT !.row = r].cells = s.cells
        BY <1>1, <2>1 DEF ScreenOk, InOrder, Shaped
    <2> QED BY <2>2, <2>3 DEF Kept
<1> QED BY <1>2, <1>3

LEMMA ReverseIndexOk ==
    ASSUME NEW s, ScreenOk(s)
    PROVE  ScreenOk(ReverseIndex(s)) /\ Kept(s, ReverseIndex(s))
<1> DEFINE t == [s EXCEPT !.wrap = FALSE]
<1>1. /\ ScreenOk(t) /\ t.cells = s.cells /\ t.top = s.top /\ t.bottom = s.bottom
      /\ t.rows = s.rows /\ t.cols = s.cols /\ t.row = s.row
    BY DEF ScreenOk, InOrder, Shaped
<1> HIDE DEF t
<1>2. CASE s.row = s.top
    <2>1. ReverseIndex(s) = Scrolled(t, -1)
        BY <1>1, <1>2, ScrollsAre DEF ReverseIndex, t
    <2>2. ScreenOk(Scrolled(t, -1)) /\ Kept(t, Scrolled(t, -1))
        BY <1>1, ScrollOk
    <2>3. Kept(s, Scrolled(t, -1))
        BY <1>1, <2>2 DEF Kept
    <2> QED BY <2>1, <2>2, <2>3
<1>3. CASE s.row # s.top
    <2> DEFINE r == IF t.row = 0 THEN 0 ELSE t.row - 1
    <2>1. r \in Nat /\ r < s.rows
        BY <1>1 DEF ScreenOk, InOrder
    <2>2. ReverseIndex(s) = [t EXCEPT !.row = r]
        BY <1>3 DEF ReverseIndex, t
    <2> HIDE DEF r
    <2>3. ScreenOk([t EXCEPT !.row = r]) /\ [t EXCEPT !.row = r].cells = s.cells
        BY <1>1, <2>1 DEF ScreenOk, InOrder, Shaped
    <2> QED BY <2>2, <2>3 DEF Kept
<1> QED BY <1>2, <1>3

\* Cells of the cursor's row, or blanks anywhere, may be replaced.
LEMMA RowReplaced ==
    ASSUME NEW s, ScreenOk(s), NEW row, DOMAIN row = 0..(s.cols - 1)
    PROVE  /\ ScreenOk([s EXCEPT !.cells[s.row] = row])
           /\ Kept(s, [s EXCEPT !.cells[s.row] = row])
           /\ [s EXCEPT !.cells[s.row] = row].row = s.row
           /\ \A i \in 0..(s.rows - 1) : i # s.row =>
                  [s EXCEPT !.cells[s.row] = row].cells[i] = s.cells[i]
<1> DEFINE c == [s.cells EXCEPT ![s.row] = row]
           t == [s EXCEPT !.cells[s.row] = row]
<1>1. t = [s EXCEPT !.cells = c]
    OBVIOUS
<1>2. Shaped(c, s)
    BY DEF ScreenOk, InOrder, Shaped
<1>3. \A i \in 0..(s.rows - 1) : i # s.row => c[i] = s.cells[i]
    BY DEF ScreenOk, InOrder, Shaped
<1> HIDE DEF c, t
<1>4. ScreenOk(t)
    BY <1>1, <1>2, NewCells
<1>5. t.cells = c /\ t.row = s.row
    BY <1>1 DEF ScreenOk, InOrder
<1>6. Kept(s, t)
    BY <1>3, <1>5 DEF Kept
<1> QED BY <1>3, <1>4, <1>5, <1>6 DEF t

LEMMA PutCharOk ==
    ASSUME NEW s, ScreenOk(s), NEW ch
    PROVE  ScreenOk(PutChar(s, ch)) /\ Kept(s, PutChar(s, ch))
<1> DEFINE z == [s EXCEPT !.col = 0]
           t == IF s.wrap THEN Newline(z) ELSE s
           here == t.row * t.cols + t.col
           d == [i \in DOMAIN t.cells |-> [j \in DOMAIN t.cells[i] |->
                    IF i * t.cols + j = here THEN ch ELSE t.cells[i][j]]]
           u == [t EXCEPT !.cells = d]
<1>1. /\ ScreenOk(z) /\ z.cells = s.cells /\ z.top = s.top /\ z.bottom = s.bottom
      /\ z.rows = s.rows /\ z.cols = s.cols
    <2>1. 0 \in Nat /\ 0 < s.cols
        BY Fields
    <2>2. z = [s EXCEPT !.col = 0]
        OBVIOUS
    <2> HIDE DEF z
    <2> QED BY <2>1, <2>2, ColSet
<1>2. ScreenOk(t) /\ Kept(s, t)
    <2>1. CASE s.wrap
        <3> HIDE DEF z
        <3>1. ScreenOk(Newline(z)) /\ Kept(z, Newline(z))
            BY <1>1, NewlineOk
        <3> QED BY <1>1, <2>1, <3>1 DEF Kept
    <2>2. CASE ~s.wrap
        BY <2>2 DEF Kept
    <2> QED BY <2>1, <2>2
<1>22. t.rows = s.rows /\ t.cols = s.cols
    <2>1. CASE s.wrap
        <3> HIDE DEF z
        <3>1. Newline(z).rows = z.rows /\ Newline(z).cols = z.cols
            BY <1>1 DEF Newline, ScrollUp, ScreenOk, InOrder
        <3> QED BY <1>1, <2>1, <3>1
    <2>2. CASE ~s.wrap
        BY <2>2
    <2> QED BY <2>1, <2>2
<1> HIDE DEF t
<1>3. PutChar(s, ch) = IF t.col + 1 >= t.cols THEN [u EXCEPT !.wrap = TRUE]
                       ELSE [u EXCEPT !.col = u.col + 1]
    BY DEF PutChar, t
<1>4. /\ DOMAIN t.cells = 0..(t.rows - 1)
      /\ \A i \in 0..(t.rows - 1) : DOMAIN t.cells[i] = 0..(t.cols - 1)
    BY <1>2 DEF ScreenOk, Shaped
<1>41. Shaped(d, t)
    <2> HIDE DEF here
    <2> QED BY <1>4 DEF Shaped
<1>42. ASSUME NEW i \in 0..(t.rows - 1), NEW j \in 0..(t.cols - 1), i # t.row
       PROVE  d[i][j] = t.cells[i][j]
    <2>1. /\ i \in Nat /\ j \in Nat /\ j < t.cols /\ t.cols \in Nat
          /\ t.row \in Nat /\ t.col \in Nat /\ t.col < t.cols
        BY <1>2, Fields
    <2>2. i * t.cols + j # here
        BY <1>42, <2>1, SamePosition
    <2> HIDE DEF here
    <2> QED BY <1>4, <2>2
<1> HIDE DEF d
<1>5. /\ ScreenOk(u) /\ u.row = t.row /\ u.cells = d
    BY <1>2, <1>41, NewCells DEF ScreenOk, InOrder
<1>6. u.col = t.col /\ u.cols = t.cols
    BY <1>2 DEF ScreenOk, InOrder
<1> HIDE DEF u
<1>7. /\ ScreenOk(PutChar(s, ch)) /\ PutChar(s, ch).row = t.row
      /\ PutChar(s, ch).cells = u.cells
    <2>1. CASE t.col + 1 >= t.cols
        BY <1>3, <1>5, <2>1, WrapSet
    <2>2. CASE ~(t.col + 1 >= t.cols)
        <3>1. t.col + 1 \in Nat /\ t.col + 1 < t.cols
            BY <1>2, <2>2, Fields
        <3> QED BY <1>3, <1>5, <1>6, <2>2, <3>1, ColSet
    <2> QED BY <2>1, <2>2
<1>8. PutChar(s, ch).cells = d
    BY <1>5, <1>7
<1>9. ASSUME NEW i \in 0..(s.rows - 1), NEW j \in 0..(s.cols - 1), i \notin s.top..s.bottom
      PROVE  d[i][j] \in {s.cells[i][j], " "} \/ i = t.row
    <2>1. t.cells[i][j] \in {s.cells[i][j], " "} \/ i = t.row
        BY <1>2, <1>9 DEF Kept
    <2>2. i \in 0..(t.rows - 1) /\ j \in 0..(t.cols - 1)
        BY <1>22
    <2> QED BY <1>42, <2>1, <2>2
<1>10. Kept(s, PutChar(s, ch))
    BY <1>7, <1>8, <1>9 DEF Kept
<1> QED BY <1>7, <1>10

LEMMA ClearLineOk ==
    ASSUME NEW s, ScreenOk(s), NEW from, NEW to
    PROVE  ScreenOk(ClearLine(s, from, to)) /\ Kept(s, ClearLine(s, from, to))
<1> DEFINE row == [j \in DOMAIN s.cells[s.row] |->
                      IF j \in from..to THEN " " ELSE s.cells[s.row][j]]
<1>0. ~(s.row >= s.rows)
    BY Fields
<1>1. ClearLine(s, from, to) = [s EXCEPT !.cells[s.row] = row]
    BY <1>0 DEF ClearLine
<1>2. DOMAIN row = 0..(s.cols - 1)
    BY DEF ScreenOk, InOrder, Shaped
<1> HIDE DEF row
<1> QED BY <1>1, <1>2, RowReplaced

LEMMA ClearDisplayOk ==
    ASSUME NEW s, ScreenOk(s), NEW mode
    PROVE  ScreenOk(ClearDisplay(s, mode)) /\ Kept(s, ClearDisplay(s, mode))
<1> DEFINE here == s.row * s.cols + s.col
           Cleared(i, j) == LET pos == i * s.cols + j
                            IN  CASE mode \in {2, 3} -> TRUE
                                  [] mode = 0        -> pos >= here
                                  [] mode = 1        -> pos <= here
                                  [] OTHER           -> FALSE
           c == [i \in DOMAIN s.cells |-> [j \in DOMAIN s.cells[i] |->
                    IF Cleared(i, j) THEN " " ELSE s.cells[i][j]]]
<1>1. ClearDisplay(s, mode) = [s EXCEPT !.cells = c]
    BY DEF ClearDisplay
<1> HIDE DEF Cleared
<1>2. DOMAIN s.cells = 0..(s.rows - 1)
      /\ \A i \in 0..(s.rows - 1) : DOMAIN s.cells[i] = 0..(s.cols - 1)
    BY DEF ScreenOk, InOrder, Shaped
<1>3. Shaped(c, s)
    BY <1>2 DEF Shaped
<1>4. \A i \in 0..(s.rows - 1), j \in 0..(s.cols - 1) : c[i][j] \in {s.cells[i][j], " "}
    BY <1>2
<1> HIDE DEF c
<1>5. ScreenOk([s EXCEPT !.cells = c]) /\ [s EXCEPT !.cells = c].cells = c
    BY <1>3, NewCells DEF ScreenOk, InOrder
<1> QED BY <1>1, <1>4, <1>5 DEF Kept

LEMMA LinesOk ==
    ASSUME NEW s, ScreenOk(s), NEW n \in Nat
    PROVE  /\ ScreenOk(InsertLines(s, n)) /\ Kept(s, InsertLines(s, n))
           /\ ScreenOk(DeleteLines(s, n)) /\ Kept(s, DeleteLines(s, n))
<1>1. CASE s.row \notin s.top..s.bottom
    BY <1>1 DEF InsertLines, DeleteLines, Kept
<1>2. CASE s.row \in s.top..s.bottom
    <2> DEFINE k == Least(n, s.bottom - s.row + 1)
    <2>1. s.row \in Int /\ s.bottom \in Int /\ 0 <= s.row /\ s.bottom < s.rows
          /\ s.top \in Int /\ s.top <= s.row /\ s.rows \in Nat
        BY <1>2 DEF ScreenOk, InOrder
    <2>2. k \in Int /\ -k \in Int
        BY <2>1 DEF Least
    <2> HIDE DEF k
    <2>3. ASSUME NEW d \in Int
          PROVE  ScreenOk([s EXCEPT !.cells = MovedRows(s, s.row, s.bottom, d)])
                 /\ Kept(s, [s EXCEPT !.cells = MovedRows(s, s.row, s.bottom, d)])
        <3> DEFINE c == MovedRows(s, s.row, s.bottom, d)
        <3>1. /\ Shaped(c, s)
              /\ \A i \in 0..(s.rows - 1) : i \notin s.row..s.bottom => c[i] = s.cells[i]
            BY <2>1, MovedShape
        <3> HIDE DEF c
        <3>2. ScreenOk([s EXCEPT !.cells = c]) /\ [s EXCEPT !.cells = c].cells = c
            BY <3>1, NewCells DEF ScreenOk, InOrder
        <3>3. \A i \in 0..(s.rows - 1) : i \notin s.top..s.bottom => i \notin s.row..s.bottom
            BY <2>1
        <3>4. Kept(s, [s EXCEPT !.cells = c])
            BY <3>1, <3>2, <3>3 DEF Kept
        <3> QED BY <3>2, <3>4 DEF c
    <2>4. InsertLines(s, n) = [s EXCEPT !.cells = MovedRows(s, s.row, s.bottom, -k)]
        BY <1>2 DEF InsertLines, k
    <2>5. DeleteLines(s, n) = [s EXCEPT !.cells = MovedRows(s, s.row, s.bottom, k)]
        BY <1>2 DEF DeleteLines, k
    <2> QED BY <2>2, <2>3, <2>4, <2>5
<1> QED BY <1>1, <1>2

LEMMA CharsOk ==
    ASSUME NEW s, ScreenOk(s), NEW n \in Nat
    PROVE  /\ ScreenOk(InsertChars(s, n)) /\ Kept(s, InsertChars(s, n))
           /\ ScreenOk(DeleteChars(s, n)) /\ Kept(s, DeleteChars(s, n))
           /\ ScreenOk(EraseChars(s, n)) /\ Kept(s, EraseChars(s, n))
<1>1. ASSUME NEW d PROVE ScreenOk(MovedCells(s, d)) /\ Kept(s, MovedCells(s, d))
    <2> DEFINE row == [j \in DOMAIN s.cells[s.row] |->
                          IF j < s.col THEN s.cells[s.row][j]
                          ELSE IF j + d \in s.col..(s.cols - 1)
                               THEN s.cells[s.row][j + d] ELSE " "]
    <2>0. ~(s.col >= s.cols \/ s.row >= s.rows)
        BY Fields
    <2>1. MovedCells(s, d) = [s EXCEPT !.cells[s.row] = row]
        BY <2>0 DEF MovedCells
    <2>2. DOMAIN row = 0..(s.cols - 1)
        BY DEF ScreenOk, InOrder, Shaped
    <2> HIDE DEF row
    <2> QED BY <2>1, <2>2, RowReplaced
<1>2. ScreenOk(EraseChars(s, n)) /\ Kept(s, EraseChars(s, n))
    <2>1. CASE n = 0
        BY <2>1 DEF EraseChars, Kept
    <2>2. CASE n # 0
        <3>1. ~(s.col >= s.cols)
            BY Fields
        <3> QED BY <2>2, <3>1, ClearLineOk DEF EraseChars
    <2> QED BY <2>1, <2>2
<1> QED BY <1>1, <1>2 DEF InsertChars, DeleteChars

\* A screen that scrolls stays one with the same outside.
ScrolledFrom(s) ==
    {[s EXCEPT !.cells = c] :
        c \in {c \in [0..(s.rows - 1) -> {s.cells[i] : i \in 0..(s.rows - 1)} \cup {BlankRow(s)}] :
                 \A i \in 0..(s.rows - 1) : i \notin s.top..s.bottom => c[i] = s.cells[i]}}

LEMMA ScrolledFromOk ==
    ASSUME NEW s, ScreenOk(s), NEW t \in ScrolledFrom(s)
    PROVE  ScreenOk(t) /\ Kept(s, t) /\ Scrolled(t, 1) \in ScrolledFrom(s)
           /\ Scrolled(t, -1) \in ScrolledFrom(s)
<1> DEFINE R == {s.cells[i] : i \in 0..(s.rows - 1)} \cup {BlankRow(s)}
<1>1. PICK c \in [0..(s.rows - 1) -> R] :
          /\ t = [s EXCEPT !.cells = c]
          /\ \A i \in 0..(s.rows - 1) : i \notin s.top..s.bottom => c[i] = s.cells[i]
    BY DEF ScrolledFrom
<1>2. \A r \in R : DOMAIN r = 0..(s.cols - 1)
    <2>1. \A i \in 0..(s.rows - 1) : DOMAIN s.cells[i] = 0..(s.cols - 1)
        BY DEF ScreenOk, Shaped
    <2>2. DOMAIN BlankRow(s) = 0..(s.cols - 1)
        BY DEF BlankRow
    <2> QED BY <2>1, <2>2
<1>3. BlankRow(s) \in R
    OBVIOUS
<1> HIDE DEF R
<1>4. Shaped(c, s)
    BY <1>2 DEF Shaped
<1>5. ScreenOk(t)
    BY <1>1, <1>4, NewCells
<1>6. /\ t.cells = c /\ t.rows = s.rows /\ t.cols = s.cols /\ t.top = s.top
      /\ t.bottom = s.bottom
    BY <1>1 DEF ScreenOk, InOrder
<1>7. Kept(s, t)
    BY <1>1, <1>6 DEF Kept
<1>8. ASSUME NEW n \in Int PROVE Scrolled(t, n) \in ScrolledFrom(s)
    <2> DEFINE d == MovedRows(t, t.top, t.bottom, n)
    <2>1. Scrolled(t, n) = [s EXCEPT !.cells = d]
        <3> HIDE DEF d
        <3>1. Scrolled(t, n) = [t EXCEPT !.cells = d]
            BY DEF Scrolled, d
        <3> QED BY <1>1, <3>1
    <2>2. d = [i \in 0..(s.rows - 1) |->
                 IF i \notin s.top..s.bottom THEN c[i]
                 ELSE IF i + n \in s.top..s.bottom THEN c[i + n] ELSE BlankRow(s)]
        BY <1>6 DEF MovedRows, BlankRow
    <2>3. \A i \in 0..(s.rows - 1) : i + n \in s.top..s.bottom => i + n \in 0..(s.rows - 1)
        BY Fields
    <2> HIDE DEF d
    <2>4. d \in [0..(s.rows - 1) -> R]
        BY <1>3, <2>2, <2>3
    <2>5. \A i \in 0..(s.rows - 1) : i \notin s.top..s.bottom => d[i] = s.cells[i]
        BY <1>1, <2>2
    <2> QED BY <2>1, <2>4, <2>5 DEF ScrolledFrom, R
<1> QED BY <1>5, <1>7, <1>8

LEMMA ScrolledTimes ==
    ASSUME NEW s, ScreenOk(s), NEW n \in Nat
    PROVE  /\ Times(ScrollUp, n, s) \in ScrolledFrom(s)
           /\ Times(ScrollDown, n, s) \in ScrolledFrom(s)
<1> DEFINE S == ScrolledFrom(s)
<1>1. s \in S
    <2> DEFINE R == {s.cells[i] : i \in 0..(s.rows - 1)} \cup {BlankRow(s)}
    <2>1. s.cells \in [0..(s.rows - 1) -> R]
        BY DEF ScreenOk, Shaped
    <2>2. s = [s EXCEPT !.cells = s.cells]
        BY DEF ScreenOk, InOrder
    <2> QED BY <2>1, <2>2 DEF ScrolledFrom
<1>2. \A t \in S : ScrollUp(t) \in S /\ ScrollDown(t) \in S
    BY ScrolledFromOk, ScrollsAre
<1> HIDE DEF S
<1>3. Times(ScrollUp, n, s) \in S
    <2> DEFINE F(g) == [i \in 0..n |-> IF i = 0 THEN s ELSE ScrollUp(g[i - 1])]
               f == [k \in Nat |-> [t \in S |-> ScrollUp(t)]]
    <2>1. \A k \in Nat : f[k] \in [S -> S]
        BY <1>2
    <2>2. f \in [Nat -> [S -> S]]
        BY <2>1
    <2>3. ASSUME NEW k \in Nat, NEW t \in S PROVE f[k][t] = ScrollUp(t)
        OBVIOUS
    <2> HIDE DEF f
    <2>4. PICK g : g \in Runs(S, s, f, n)
        BY <1>1, <2>2, Iteration
    <2>5. /\ g \in [0..n -> S] /\ g[0] = s
          /\ \A i \in 1..n : g[i] = f[i - 1][g[i - 1]]
        BY <2>4 DEF Runs
    <2>6. ASSUME NEW i \in 1..n PROVE g[i] = ScrollUp(g[i - 1])
        <3>1. i - 1 \in Nat /\ i - 1 \in 0..n
            OBVIOUS
        <3>2. g[i - 1] \in S
            BY <3>1, <2>5
        <3> QED BY <3>1, <3>2, <2>3, <2>5
    <2>7. \A i \in 0..n : i = 0 \/ i \in 1..n
        OBVIOUS
    <2>8. g = F(g)
        BY <2>5, <2>6, <2>7
    <2> DEFINE h == Rounds(ScrollUp, n, s)
               T == {i \in 0..n : h[i] \in S}
    <2>9. h = CHOOSE x : x = F(x)
        BY DEF Rounds
    <2>10. h = F(h)
        <3> HIDE DEF F, h
        <3> QED BY <2>8, <2>9
    <2>11. Times(ScrollUp, n, s) = h[n]
        BY DEF Times
    <2> HIDE DEF h
    <2>12. 0 \in T
        BY <1>1, <2>10
    <2>13. ASSUME NEW i \in 1..n, i - 1 \in T PROVE i \in T
        <3>1. i \in 0..n /\ i # 0
            OBVIOUS
        <3>2. h[i] = ScrollUp(h[i - 1])
            BY <2>10, <3>1
        <3> QED BY <3>1, <3>2, <2>13, <1>2
    <2>14. n \in T
        <3> HIDE DEF T
        <3>1. \A i \in 0..n : i \in T
            BY <2>12, <2>13, RoundByRound
        <3> QED BY <3>1
    <2> QED BY <2>11, <2>14
<1>4. Times(ScrollDown, n, s) \in S
    <2> DEFINE F(g) == [i \in 0..n |-> IF i = 0 THEN s ELSE ScrollDown(g[i - 1])]
               f == [k \in Nat |-> [t \in S |-> ScrollDown(t)]]
    <2>1. \A k \in Nat : f[k] \in [S -> S]
        BY <1>2
    <2>2. f \in [Nat -> [S -> S]]
        BY <2>1
    <2>3. ASSUME NEW k \in Nat, NEW t \in S PROVE f[k][t] = ScrollDown(t)
        OBVIOUS
    <2> HIDE DEF f
    <2>4. PICK g : g \in Runs(S, s, f, n)
        BY <1>1, <2>2, Iteration
    <2>5. /\ g \in [0..n -> S] /\ g[0] = s
          /\ \A i \in 1..n : g[i] = f[i - 1][g[i - 1]]
        BY <2>4 DEF Runs
    <2>6. ASSUME NEW i \in 1..n PROVE g[i] = ScrollDown(g[i - 1])
        <3>1. i - 1 \in Nat /\ i - 1 \in 0..n
            OBVIOUS
        <3>2. g[i - 1] \in S
            BY <3>1, <2>5
        <3> QED BY <3>1, <3>2, <2>3, <2>5
    <2>7. \A i \in 0..n : i = 0 \/ i \in 1..n
        OBVIOUS
    <2>8. g = F(g)
        BY <2>5, <2>6, <2>7
    <2> DEFINE h == Rounds(ScrollDown, n, s)
               T == {i \in 0..n : h[i] \in S}
    <2>9. h = CHOOSE x : x = F(x)
        BY DEF Rounds
    <2>10. h = F(h)
        <3> HIDE DEF F, h
        <3> QED BY <2>8, <2>9
    <2>11. Times(ScrollDown, n, s) = h[n]
        BY DEF Times
    <2> HIDE DEF h
    <2>12. 0 \in T
        BY <1>1, <2>10
    <2>13. ASSUME NEW i \in 1..n, i - 1 \in T PROVE i \in T
        <3>1. i \in 0..n /\ i # 0
            OBVIOUS
        <3>2. h[i] = ScrollDown(h[i - 1])
            BY <2>10, <3>1
        <3> QED BY <3>1, <3>2, <2>13, <1>2
    <2>14. n \in T
        <3> HIDE DEF T
        <3>1. \A i \in 0..n : i \in T
            BY <2>12, <2>13, RoundByRound
        <3> QED BY <3>1
    <2> QED BY <2>11, <2>14
<1> QED BY <1>3, <1>4 DEF S

LEMMA SaveOk ==
    ASSUME NEW s, ScreenOk(s)
    PROVE  /\ ScreenOk(Save(s)) /\ Kept(s, Save(s))
           /\ ScreenOk(Restore(s)) /\ Kept(s, Restore(s))
<1>1. /\ InOrder(Save(s)) /\ Save(s).cells = s.cells
      /\ Save(s).rows = s.rows /\ Save(s).cols = s.cols
    BY DEF Save, ScreenOk, InOrder
<1>2. /\ InOrder(Restore(s)) /\ Restore(s).cells = s.cells
      /\ Restore(s).rows = s.rows /\ Restore(s).cols = s.cols
    BY DEF Restore, ScreenOk, InOrder
<1> QED BY <1>1, <1>2, CellsStay

LEMMA SetRegionOk ==
    ASSUME NEW s, ScreenOk(s), NEW n \in Nat, NEW m \in Nat
    PROVE  ScreenOk(SetRegion(s, n, m)) /\ Kept(s, SetRegion(s, n, m))
<1> DEFINE from == IF n < 1 THEN 1 ELSE n
           to == IF m < 1 THEN s.rows ELSE m
<1>1. CASE from < to /\ to <= s.rows
    <2> DEFINE t == [s EXCEPT !.top = from - 1, !.bottom = to - 1, !.col = 0, !.row = 0]
    <2>1. SetRegion(s, n, m) = t
        BY <1>1 DEF SetRegion
    <2>2. /\ from - 1 \in Nat /\ to - 1 \in Nat /\ from - 1 < to - 1 /\ to - 1 < s.rows
          /\ 0 < s.rows /\ 0 < s.cols
        BY <1>1, Fields
    <2> HIDE DEF from, to
    <2>3. InOrder(t) /\ t.cells = s.cells /\ t.rows = s.rows /\ t.cols = s.cols
        BY <2>2 DEF ScreenOk, InOrder
    <2> HIDE DEF t
    <2> QED BY <2>1, <2>3, CellsStay
<1>2. CASE ~(from < to /\ to <= s.rows)
    BY <1>2 DEF SetRegion, Kept
<1> QED BY <1>1, <1>2

LEMMA AtOk ==
    ASSUME NEW n \in Nat, NEW size \in Nat \ {0}
    PROVE  At(n, size) \in Nat /\ At(n, size) < size
BY DEF At, Least

LEMMA BothSet ==
    ASSUME NEW s, ScreenOk(s), NEW i \in Nat, i < s.rows, NEW j \in Nat, j < s.cols
    PROVE  /\ ScreenOk([s EXCEPT !.row = i, !.col = j])
           /\ Kept(s, [s EXCEPT !.row = i, !.col = j])
<1> DEFINE t == [s EXCEPT !.row = i, !.col = j]
<1>1. InOrder(t) /\ t.cells = s.cells /\ t.rows = s.rows /\ t.cols = s.cols
    BY DEF ScreenOk, InOrder
<1> HIDE DEF t
<1>2. ScreenOk(t) /\ Kept(s, t)
    BY <1>1, CellsStay
<1> QED BY <1>2 DEF t

LEMMA CommandedOk ==
    ASSUME NEW s, ScreenOk(s), NEW final, ~Overflows(s)
    PROVE  ScreenOk(Commanded(s, final)) /\ Kept(s, Commanded(s, final))
<1> DEFINE n == CsiParam(s.csi, 0, 1)
           m == CsiParam(s.csi, 1, 1)
           mode == CsiParam(s.csi, 0, 0)
           t == Commanded(s, final)
<1>0. n \in Nat /\ m \in Nat /\ mode \in Nat
    <2>1. Len(s.csi) \in Nat
        BY Fields
    <2>2. ~(CsiNumber(s.csi, 0) > IntMax) /\ ~(CsiNumber(s.csi, 1) > IntMax)
        BY DEF Overflows
    <2> QED BY <2>1, <2>2, CsiParamNat
<1>00. Count(n) \in Nat
    BY <1>0, CountNat
<1>1. CASE final = "A"
    <2> DEFINE k == IF n > s.row THEN 0 ELSE s.row - n
    <2>1. t = [s EXCEPT !.row = k]
        BY <1>1 DEF Commanded
    <2> HIDE DEF n
    <2>2. k \in Nat /\ k < s.rows
        BY <1>0, Fields
    <2> HIDE DEF k, t
    <2>3. ScreenOk(t) /\ Kept(s, t)
        BY <2>1, <2>2, RowSet
    <2> QED BY <2>3 DEF t
<1>2. CASE final = "B"
    <2> DEFINE k == Forth(s.row, n, s.rows)
    <2>1. t = [s EXCEPT !.row = k]
        BY <1>2 DEF Commanded, CursorDown
    <2> HIDE DEF n
    <2>2. k \in Nat /\ k < s.rows
        BY <1>0, Fields DEF Forth, Least
    <2> HIDE DEF k, t
    <2>3. ScreenOk(t) /\ Kept(s, t)
        BY <2>1, <2>2, RowSet
    <2> QED BY <2>3 DEF t
<1>3. CASE final = "C"
    <2> DEFINE k == Forth(s.col, n, s.cols)
    <2>1. t = [s EXCEPT !.col = k]
        BY <1>3 DEF Commanded
    <2> HIDE DEF n
    <2>2. k \in Nat /\ k < s.cols
        BY <1>0, Fields DEF Forth, Least
    <2> HIDE DEF k, t
    <2>3. ScreenOk(t) /\ Kept(s, t)
        BY <2>1, <2>2, ColSet
    <2> QED BY <2>3 DEF t
<1>4. CASE final = "D"
    <2> DEFINE k == IF n > s.col THEN 0 ELSE s.col - n
    <2>1. t = [s EXCEPT !.col = k]
        BY <1>4 DEF Commanded
    <2> HIDE DEF n
    <2>2. k \in Nat /\ k < s.cols
        BY <1>0, Fields
    <2> HIDE DEF k, t
    <2>3. ScreenOk(t) /\ Kept(s, t)
        BY <2>1, <2>2, ColSet
    <2> QED BY <2>3 DEF t
<1>5. CASE final = "G"
    <2>1. t = [s EXCEPT !.col = At(n, s.cols)]
        BY <1>5 DEF Commanded
    <2>2. At(n, s.cols) \in Nat /\ At(n, s.cols) < s.cols
        BY <1>0, Fields, AtOk
    <2> HIDE DEF t, n
    <2>3. ScreenOk(t) /\ Kept(s, t)
        BY <2>1, <2>2, ColSet
    <2> QED BY <2>3 DEF t
<1>6. CASE final \in {"H", "f"}
    <2>1. t = [s EXCEPT !.row = At(n, s.rows), !.col = At(m, s.cols)]
        BY <1>6 DEF Commanded
    <2>2. /\ At(n, s.rows) \in Nat /\ At(n, s.rows) < s.rows
          /\ At(m, s.cols) \in Nat /\ At(m, s.cols) < s.cols
        BY <1>0, Fields, AtOk
    <2> HIDE DEF t, n, m
    <2>3. ScreenOk(t) /\ Kept(s, t)
        BY <2>1, <2>2, BothSet
    <2> QED BY <2>3 DEF t
<1>7. CASE final = "d"
    <2>1. t = [s EXCEPT !.row = At(n, s.rows)]
        BY <1>7 DEF Commanded
    <2>2. At(n, s.rows) \in Nat /\ At(n, s.rows) < s.rows
        BY <1>0, Fields, AtOk
    <2> HIDE DEF t, n
    <2>3. ScreenOk(t) /\ Kept(s, t)
        BY <2>1, <2>2, RowSet
    <2> QED BY <2>3 DEF t
<1>8. CASE final = "J"
    <2>1. t = ClearDisplay(s, mode)
        BY <1>8 DEF Commanded
    <2> QED BY <2>1, ClearDisplayOk
<1>9. CASE final = "K"
    <2>1. t = ClearLine(s, IF mode \in {1, 2} THEN 0 ELSE s.col,
                           IF mode = 1 THEN s.col ELSE s.cols - 1)
        BY <1>9 DEF Commanded
    <2> QED BY <2>1, ClearLineOk
<1>10. CASE final \in {"L", "M"}
    <2>1. t \in {InsertLines(s, Count(n)), DeleteLines(s, Count(n))}
        BY <1>10 DEF Commanded
    <2> QED BY <1>00, <2>1, LinesOk
<1>11. CASE final \in {"@", "P", "X"}
    <2>1. t \in {InsertChars(s, Count(n)), DeleteChars(s, Count(n)), EraseChars(s, Count(n))}
        BY <1>11 DEF Commanded
    <2> QED BY <1>00, <2>1, CharsOk
<1>12. CASE final \in {"S", "T"}
    <2> DEFINE k == IF n > 0 THEN n ELSE 0
    <2>1. t \in {Times(ScrollUp, k, s), Times(ScrollDown, k, s)}
        BY <1>12 DEF Commanded
    <2>2. k \in Nat
        BY <1>0
    <2> HIDE DEF k
    <2>3. t \in ScrolledFrom(s)
        BY <2>1, <2>2, ScrolledTimes
    <2> QED BY <2>3, ScrolledFromOk
<1>13. CASE final = "r"
    <2>1. t = SetRegion(s, n, m)
        BY <1>13 DEF Commanded
    <2> QED BY <1>0, <2>1, SetRegionOk
<1>14. CASE final \in {"s", "u"}
    <2>1. t \in {Save(s), Restore(s)}
        BY <1>14 DEF Commanded
    <2> QED BY <2>1, SaveOk
<1>15. CASE final \notin {"A", "B", "C", "D", "G", "H", "f", "d", "J", "K", "L", "M", "@",
                         "P", "X", "S", "T", "r", "s", "u"}
    <2>1. t = s
        BY <1>15 DEF Commanded
    <2> QED BY <2>1 DEF Kept
<1> QED BY <1>1, <1>2, <1>3, <1>4, <1>5, <1>6, <1>7, <1>8, <1>9, <1>10, <1>11, <1>12,
           <1>13, <1>14, <1>15

LEMMA FreshOk ==
    ASSUME NEW cols \in Nat \ {0}, NEW rows \in Nat \ {0}
    PROVE  /\ ScreenOk(Fresh(cols, rows))
           /\ \A i \in 0..(rows - 1), j \in 0..(cols - 1) : Fresh(cols, rows).cells[i][j] = " "
<1> DEFINE c == [i \in 0..(rows - 1) |-> [j \in 0..(cols - 1) |-> " "]]
           s == Fresh(cols, rows)
<1>1. s = [cols |-> cols, rows |-> rows, cells |-> c,
           row |-> 0, col |-> 0, srow |-> 0, scol |-> 0,
           top |-> 0, bottom |-> rows - 1, wrap |-> FALSE,
           esc |-> 0, csi |-> << >>, tab |-> 0]
    BY DEF Fresh
<1>2. << >> \in Seq(CsiBytes)
    OBVIOUS
<1>3. rows - 1 \in Nat /\ rows - 1 < rows /\ (0 < rows - 1 \/ (rows = 1 /\ 0 = rows - 1))
    OBVIOUS
<1>4. /\ c = [i \in 0..(rows - 1) |-> c[i]]
      /\ \A i \in 0..(rows - 1) : DOMAIN c[i] = 0..(cols - 1)
      /\ \A i \in 0..(rows - 1), j \in 0..(cols - 1) : c[i][j] = " "
    OBVIOUS
<1> HIDE DEF c, s
<1>5. InOrder(s)
    BY <1>1, <1>2, <1>3 DEF InOrder
<1>6. Shaped(s.cells, s)
    BY <1>1, <1>4 DEF Shaped
<1>7. s.cells = c
    BY <1>1
<1> QED BY <1>4, <1>5, <1>6, <1>7 DEF ScreenOk, s

\* The escape state changes and nothing of the screen.
LEMMA EscSet ==
    ASSUME NEW s, ScreenOk(s), NEW e \in {0, 1, 2}, NEW q \in Seq(CsiBytes), NEW r \in Nat,
           NEW t, t \in {[s EXCEPT !.esc = e], [s EXCEPT !.csi = q], [s EXCEPT !.tab = r],
                        [s EXCEPT !.esc = e, !.csi = q]}
    PROVE  ScreenOk(t) /\ Kept(s, t) /\ t.cells = s.cells /\ t.row = s.row
<1>1. InOrder(t) /\ t.cells = s.cells /\ t.rows = s.rows /\ t.cols = s.cols /\ t.row = s.row
    BY DEF ScreenOk, InOrder
<1> QED BY <1>1, CellsStay

LEMMA ApplyCsiOk ==
    ASSUME NEW s, ScreenOk(s), NEW final, ~Overflows(s)
    PROVE  ScreenOk(ApplyCsi(s, final)) /\ Kept(s, ApplyCsi(s, final))
<1> DEFINE c == Commanded(s, final)
           t == ApplyCsi(s, final)
<1>1. ScreenOk(c) /\ Kept(s, c)
    BY CommandedOk
<1>2. t = [c EXCEPT !.wrap = FALSE]
    BY DEF ApplyCsi
<1> HIDE DEF c, t
<1>3. ScreenOk(t) /\ t.cells = c.cells /\ t.row = c.row
    BY <1>1, <1>2, WrapSet
<1>4. Kept(s, t)
    BY <1>1, <1>3 DEF Kept
<1> QED BY <1>3, <1>4 DEF t

LEMMA EscapedOk ==
    ASSUME NEW s, ScreenOk(s), NEW b
    PROVE  ScreenOk(Escaped(s, b)) /\ Kept(s, Escaped(s, b))
<1>1. CASE b \in {"7", "8"}
    BY <1>1, SaveOk DEF Escaped
<1>2. CASE b = "c"
    <2>1. Escaped(s, b) = Fresh(s.cols, s.rows)
        BY <1>2 DEF Escaped
    <2>2. s.cols \in Nat \ {0} /\ s.rows \in Nat \ {0}
        BY Fields
    <2>3. \A i \in 0..(s.rows - 1), j \in 0..(s.cols - 1) : Fresh(s.cols, s.rows).cells[i][j] = " "
        BY <2>2, FreshOk
    <2>4. ScreenOk(Fresh(s.cols, s.rows))
        BY <2>2, FreshOk
    <2> QED BY <2>1, <2>3, <2>4 DEF Kept
<1>3. CASE b = "D"
    BY <1>3, NewlineOk DEF Escaped
<1>4. CASE b = "M"
    BY <1>4, ReverseIndexOk DEF Escaped
<1>5. CASE b = "E"
    <2> DEFINE z == [s EXCEPT !.col = 0]
    <2>1. Escaped(s, b) = Newline(z)
        BY <1>5 DEF Escaped
    <2>2. 0 \in Nat /\ 0 < s.cols /\ z = [s EXCEPT !.col = 0]
        BY Fields
    <2> HIDE DEF z
    <2>3. /\ ScreenOk(z) /\ z.cells = s.cells /\ z.top = s.top /\ z.bottom = s.bottom
          /\ z.rows = s.rows /\ z.cols = s.cols
        BY <2>2, ColSet
    <2>4. ScreenOk(Newline(z)) /\ Kept(z, Newline(z))
        BY <2>3, NewlineOk
    <2> QED BY <2>1, <2>3, <2>4 DEF Kept
<1>6. CASE b \notin {"7", "8", "c", "D", "M", "E"}
    <2>1. Escaped(s, b) = s
        BY <1>6 DEF Escaped
    <2> QED BY <2>1 DEF Kept
<1> QED BY <1>1, <1>2, <1>3, <1>4, <1>5, <1>6

LEMMA WithinCsi ==
    ASSUME NEW s, s.esc = 2
    PROVE  TaskBytes(s) = Numbers \cup {";", "?"} \cup Finals
BY DEF TaskBytes

LEMMA FeedOk ==
    ASSUME NEW s, ScreenOk(s), NEW b \in TaskBytes(s),
           ~(s.esc = 2 /\ b \in Finals /\ Overflows(s))
    PROVE  ScreenOk(Feed(s, b)) /\ Kept(s, Feed(s, b))
<1> DEFINE t == Feed(s, b)
<1>0. /\ s.esc \in {0, 1, 2} /\ s.csi \in Seq(CsiBytes) /\ s.tab \in Nat
      /\ << >> \in Seq(CsiBytes)
    BY Fields
<1>1. CASE s.esc = 1 /\ b = "["
    <2>1. t = [s EXCEPT !.esc = 2, !.csi = << >>]
        BY <1>1 DEF Feed
    <2> HIDE DEF t
    <2>2. ScreenOk(t) /\ Kept(s, t)
        BY <1>0, <2>1, EscSet
    <2> QED BY <2>2 DEF t
<1>2. CASE s.esc = 1 /\ b # "["
    <2> DEFINE c == Escaped(s, b)
    <2>1. t = [c EXCEPT !.esc = 0]
        BY <1>2 DEF Feed
    <2>2. ScreenOk(c) /\ Kept(s, c)
        BY EscapedOk
    <2> HIDE DEF c, t
    <2>3. ScreenOk(t) /\ t.cells = c.cells /\ t.row = c.row
        BY <1>0, <2>1, <2>2, EscSet
    <2>4. Kept(s, t)
        BY <2>2, <2>3 DEF Kept
    <2> QED BY <2>3, <2>4 DEF t
<1>3. CASE s.esc = 2 /\ b \in Finals
    <2> DEFINE c == ApplyCsi(s, b)
    <2>1. t = [c EXCEPT !.esc = 0, !.csi = << >>]
        BY <1>3 DEF Feed
    <2>2. ScreenOk(c) /\ Kept(s, c)
        BY <1>3, ApplyCsiOk
    <2> HIDE DEF c, t
    <2>3. ScreenOk(t) /\ t.cells = c.cells /\ t.row = c.row
        BY <1>0, <2>1, <2>2, EscSet
    <2>4. Kept(s, t)
        BY <2>2, <2>3 DEF Kept
    <2> QED BY <2>3, <2>4 DEF t
<1>4. CASE s.esc = 2 /\ b \notin Finals
    <2>1. b \in CsiBytes
        <3>1. b \in Numbers \cup {";", "?"} \cup Finals
            <4>1. TaskBytes(s) = Numbers \cup {";", "?"} \cup Finals
                BY <1>4, WithinCsi
            <4> QED BY <4>1
        <3> QED BY <1>4, <3>1 DEF CsiBytes
    <2>2. Append(s.csi, b) \in Seq(CsiBytes)
        BY <1>0, <2>1
    <2>3. t = IF Len(s.csi) < CsiMax THEN [s EXCEPT !.csi = Append(s.csi, b)] ELSE s
        BY <1>4 DEF Feed
    <2> DEFINE q == Append(s.csi, b)
    <2> HIDE DEF t, q
    <2>4. CASE Len(s.csi) < CsiMax
        <3>1. t = [s EXCEPT !.csi = q] /\ q \in Seq(CsiBytes)
            BY <2>2, <2>3, <2>4 DEF q
        <3>2. ScreenOk(t) /\ Kept(s, t)
            BY <1>0, <3>1, EscSet
        <3> QED BY <3>2 DEF t
    <2>5. CASE ~(Len(s.csi) < CsiMax)
        <3>1. t = s
            BY <2>3, <2>5
        <3>2. Kept(s, s)
            BY DEF Kept
        <3> QED BY <3>1, <3>2 DEF t
    <2> QED BY <2>4, <2>5
<1>5. CASE s.esc = 0
    <2>1. t = CASE b = "esc" -> [s EXCEPT !.esc = 1]
                [] b = "cr"  -> [s EXCEPT !.col = 0, !.wrap = FALSE]
                [] b = "lf"  -> Newline(s)
                [] b = "bs"  -> [s EXCEPT !.col = IF s.col = 0 THEN 0 ELSE s.col - 1,
                                          !.wrap = FALSE]
                [] b = "tab" -> [s EXCEPT !.tab = ((s.col + TabStop) \div TabStop) * TabStop]
                [] OTHER     -> PutChar(s, b)
        BY <1>5 DEF Feed
    <2> HIDE DEF t
    <2> SUFFICES ScreenOk(t) /\ Kept(s, t)
        BY DEF t
    <2>2. CASE b = "esc"
        <3>1. t = [s EXCEPT !.esc = 1]
            BY <2>1, <2>2
        <3> QED BY <1>0, <3>1, EscSet
    <2>3. ASSUME NEW k \in Nat, k < s.cols, t = [s EXCEPT !.col = k, !.wrap = FALSE]
          PROVE  ScreenOk(t) /\ Kept(s, t)
        <3>1. InOrder(t) /\ t.cells = s.cells /\ t.rows = s.rows /\ t.cols = s.cols
            BY <2>3 DEF ScreenOk, InOrder
        <3> QED BY <3>1, CellsStay
    <2>4. CASE b = "cr"
        <3>1. t = [s EXCEPT !.col = 0, !.wrap = FALSE]
            BY <2>1, <2>4
        <3>2. 0 \in Nat /\ 0 < s.cols
            BY Fields
        <3> QED BY <2>3, <3>1, <3>2
    <2>5. CASE b = "lf"
        <3>1. t = Newline(s)
            BY <2>1, <2>5
        <3> QED BY <3>1, NewlineOk
    <2>6. CASE b = "bs"
        <3> DEFINE k == IF s.col = 0 THEN 0 ELSE s.col - 1
        <3>1. t = [s EXCEPT !.col = k, !.wrap = FALSE]
            BY <2>1, <2>6
        <3>2. k \in Nat /\ k < s.cols
            BY Fields
        <3> HIDE DEF k
        <3> QED BY <2>3, <3>1, <3>2
    <2>7. CASE b = "tab"
        <3> DEFINE k == ((s.col + TabStop) \div TabStop) * TabStop
        <3>1. t = [s EXCEPT !.tab = k]
            BY <2>1, <2>7
        <3>2. s.col + TabStop \in Nat /\ TabStop \in Nat \ {0}
            BY Fields, ScreenAssumption
        <3>3. (s.col + TabStop) \div TabStop \in Nat
            BY <3>2
        <3>4. k \in Nat
            BY <3>2, <3>3
        <3> HIDE DEF k
        <3> QED BY <1>0, <3>1, <3>4, EscSet
    <2>8. CASE b \notin {"esc", "cr", "lf", "bs", "tab"}
        <3>1. t = PutChar(s, b)
            BY <2>1, <2>8
        <3> QED BY <3>1, PutCharOk
    <2> QED BY <2>2, <2>4, <2>5, <2>6, <2>7, <2>8
<1> QED BY <1>0, <1>1, <1>2, <1>3, <1>4, <1>5

LEMMA FeedTabOk ==
    ASSUME NEW s, ScreenOk(s)
    PROVE  ScreenOk(FeedTab(s)) /\ Kept(s, FeedTab(s))
<1> DEFINE t == FeedTab(s)
<1>1. CASE s.col < s.tab /\ s.col < s.cols
    BY <1>1, PutCharOk DEF FeedTab
<1>2. CASE ~(s.col < s.tab /\ s.col < s.cols)
    <2>1. t = [s EXCEPT !.tab = 0]
        BY <1>2 DEF FeedTab
    <2>2. s.esc \in {0, 1, 2} /\ s.csi \in Seq(CsiBytes) /\ 0 \in Nat
        BY Fields
    <2> HIDE DEF t
    <2>3. ScreenOk(t) /\ Kept(s, t)
        BY <2>1, <2>2, EscSet
    <2> QED BY <2>3 DEF t
<1> QED BY <1>1, <1>2

-----------------------------------------------------------------------------
(* The steps.                                                              *)

LEMMA ScreenStarts == ScreenInit => ScreenOk(scr)
<1> SUFFICES ASSUME ScreenInit PROVE ScreenOk(scr)
    OBVIOUS
<1> DEFINE s == Fresh(FirstSize[1], FirstSize[2])
<1>1. FirstSize[1] \in Nat \ {0} /\ FirstSize[2] \in Nat \ {0}
    BY ScreenAssumption
<1>2. ScreenOk(s)
    BY <1>1, FreshOk
<1>3. s.rows = FirstSize[2] /\ s.cols = FirstSize[1]
    BY DEF Fresh
<1>4. PICK i \in 0..(s.rows - 1), j \in 0..(s.cols - 1), from \in 0..(s.rows - 1),
           to \in 0..(s.rows - 1), w \in BOOLEAN :
          /\ scr = [s EXCEPT !.cells = Text, !.row = i, !.col = j,
                             !.top = from, !.bottom = to, !.wrap = w]
          /\ from < to
    BY DEF ScreenInit
<1> HIDE DEF s
<1>5. scr.rows = s.rows /\ scr.cols = s.cols /\ scr.cells = Text
    BY <1>2, <1>4 DEF ScreenOk, InOrder
<1>6. /\ i \in Nat /\ i < s.rows /\ j \in Nat /\ j < s.cols
      /\ from \in Nat /\ to \in Nat /\ to < s.rows
    BY <1>1, <1>3
<1>7. InOrder(scr)
    BY <1>2, <1>4, <1>6 DEF ScreenOk, InOrder
<1>8. Shaped(scr.cells, scr)
    BY <1>3, <1>5, ScreenAssumption DEF Shaped
<1> QED BY <1>7, <1>8 DEF ScreenOk

\* Every step of the program leaves a screen in order, and what is outside
\* the region in place unless the screen is another, as long as the numbers it
\* is given fit in an int.
LEMMA ScreenSteps ==
    ASSUME ~over => ScreenOk(scr), [ScreenNext]_screenVars, ~over'
    PROVE  /\ ScreenOk(scr')
           /\ \/ <<scr'.cols, scr'.rows>> # <<scr.cols, scr.rows>>
              \/ Kept(scr, scr')
<1>0. ScreenOk(scr)
    <2>1. Output \/ over' = over
        BY DEF ScreenNext, FillTab, Arrive, Attach, Read, Resize, Leave, screenVars
    <2>2. ASSUME Output PROVE ~over
        <3>1. \E q : over' = (over \/ q)
            BY <2>2 DEF Output
        <3> QED BY <3>1
    <2> QED BY <2>1, <2>2
<1>1. CASE Output
    <2>1. PICK b \in TaskBytes(scr) :
              /\ scr' = Feed(scr, b)
              /\ over' = (over \/ (scr.esc = 2 /\ b \in Finals /\ Overflows(scr)))
        BY <1>1 DEF Output
    <2>2. ~(scr.esc = 2 /\ b \in Finals /\ Overflows(scr))
        BY <2>1
    <2>3. scr' = Feed(scr, b)
        BY <2>1
    <2> QED BY <1>0, <2>2, <2>3, FeedOk
<1>2. CASE FillTab
    <2>1. scr' = FeedTab(scr)
        BY <1>2 DEF FillTab
    <2> QED BY <1>0, <2>1, FeedTabOk
<1>3. ASSUME NEW size \in Sizes, scr' = Fresh(size[1], size[2])
      PROVE  /\ ScreenOk(scr')
             /\ <<scr'.cols, scr'.rows>> # <<scr.cols, scr.rows>> \/ Kept(scr, scr')
    <2>1. scr' = Fresh(size[1], size[2])
        BY <1>3
    <2>2. size[1] \in Nat \ {0} /\ size[2] \in Nat \ {0}
        BY ScreenAssumption
    <2>3. ScreenOk(scr')
        BY <2>1, <2>2, FreshOk
    <2>4. scr'.cols = size[1] /\ scr'.rows = size[2]
        BY <2>1 DEF Fresh
    <2>5. <<scr'.cols, scr'.rows>> = <<scr.cols, scr.rows>> => Kept(scr, scr')
        <3>1. \A i \in 0..(size[2] - 1), j \in 0..(size[1] - 1) :
                  Fresh(size[1], size[2]).cells[i][j] = " "
            BY <2>2, FreshOk
        <3> SUFFICES ASSUME scr.cols = size[1], scr.rows = size[2] PROVE Kept(scr, scr')
            BY <2>4
        <3> QED BY <2>1, <3>1 DEF Kept
    <2> QED BY <2>3, <2>5
<1>4. CASE scr' = scr
    BY <1>0, <1>4 DEF Kept
<1>5. \/ Output \/ FillTab \/ scr' = scr
      \/ \E size \in Sizes : scr' = Fresh(size[1], size[2])
    BY DEF ScreenNext, screenVars, Arrive, Attach, Read, Resize, Leave
<1> QED BY <1>1, <1>2, <1>3, <1>4, <1>5

ScreenInv == ~over => ScreenOk(scr)

LEMMA ScreenInvariance == ScreenSpec => []ScreenInv
<1>1. ScreenInit => ScreenInv
    BY ScreenStarts DEF ScreenInv
<1>2. ScreenInv /\ [ScreenNext]_screenVars => ScreenInv'
    BY ScreenSteps DEF ScreenInv
<1> QED BY <1>1, <1>2, PTL DEF ScreenSpec

\* The cursor, the saved cursor and the region stay on the screen, for every
\* size of it, every length of a control sequence and every number in it that
\* fits in an int, of whatever width.
THEOREM OnScreenSafe == ScreenSpec => []OnScreen
<1>1. ScreenInv => OnScreen
    <2> SUFFICES ASSUME ScreenInv, ~over PROVE OnScreen
        BY DEF OnScreen
    <2>1. /\ scr.cols \in Nat \ {0} /\ scr.rows \in Nat \ {0}
          /\ scr.row \in Nat /\ scr.row < scr.rows /\ scr.col \in Nat /\ scr.col < scr.cols
          /\ scr.srow \in Nat /\ scr.srow < scr.rows
          /\ scr.scol \in Nat /\ scr.scol < scr.cols
          /\ scr.bottom \in Nat /\ scr.bottom < scr.rows
          /\ scr.top < scr.bottom \/ scr.rows = 1
        BY Fields DEF ScreenInv
    <2> QED BY <2>1 DEF OnScreen
<1> QED BY <1>1, ScreenInvariance, PTL

\* What is outside the region stays where it is, through every byte the task
\* writes, as long as its numbers fit in an int.
THEOREM OutsideSafe == ScreenSpec => OutsideKept
<1>1. ScreenInv /\ [ScreenNext]_screenVars => [OutsideStep]_scr
    <2> SUFFICES ASSUME ScreenInv, [ScreenNext]_screenVars, ~over' PROVE OutsideStep
        BY DEF OutsideStep
    <2>1. <<scr'.cols, scr'.rows>> # <<scr.cols, scr.rows>> \/ Kept(scr, scr')
        BY ScreenSteps DEF ScreenInv
    <2>2. SUFFICES ASSUME NEW i \in 0..(scr.rows - 1), NEW j \in 0..(scr.cols - 1)
                   PROVE  \/ i \in scr.top..scr.bottom
                          \/ <<scr'.cols, scr'.rows>> # <<scr.cols, scr.rows>>
                          \/ scr'.cells[i][j] \in {scr.cells[i][j], " "}
                          \/ i = scr'.row
        BY DEF OutsideStep, Cells
    <2> QED BY <2>1 DEF Kept
<1> QED BY <1>1, ScreenInvariance, PTL DEF ScreenSpec, OutsideKept
=============================================================================
