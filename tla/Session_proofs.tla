--------------------------- MODULE Session_proofs ---------------------------
(***************************************************************************)
(* Proofs about Session, for every set of users, every configuration of    *)
(* the server and every value of its limits: who gets a channel, what a    *)
(* request is answered, what a session that has returned still holds.      *)
(* Each has an inductive invariant of its own; the stages the session goes *)
(* through are common to the three.                                        *)
(*                                                                         *)
(* And about the program that runs the sessions (ServerProgram), for every *)
(* number of connections and workers and every content the configuration   *)
(* file may take: the slots of its pool are counted exactly; the file is   *)
(* read as it is written, which rests on what the loop over a pattern with *)
(* wildcards keeps true and on what has been read after each line; nobody  *)
(* logs in whom the file refuses at that moment.                           *)
(***************************************************************************)
EXTENDS Session, ServerProgram, TLAPS, FiniteSetTheorems, WellFoundedInduction

EarlyPCs == {"service", "userauth", "open"}
Stages == EarlyPCs \cup AcceptPCs \cup RunningPCs \cup {"ended"}
ChannelPCs == AcceptPCs \cup RunningPCs
ProvenPCs == {"open"} \cup ChannelPCs

\* The configuration is one of those the server was given, the stage is a stage.
StageInv == config \in Config /\ pc \in Stages

-----------------------------------------------------------------------------
(* The stages.                                                             *)

\* What follows the confirmation of an open is a loop over channel requests.
LEMMA AfterOpenAccepts == ASSUME StageInv PROVE AfterOpen \in AcceptPCs
<1>1. config.run \in {"auto", "sftp", "terminal"}
  BY DEF StageInv, Config
<1> QED BY <1>1 DEF AfterOpen, AcceptPCs

\* One request of a terminal leaves the session in the terminal's loop, with a
\* running terminal, or ended.
LEMMA TerminalStages ==
    ASSUME NEW r, NEW from, TerminalRequest(r, from)
    PROVE  pc' \in {"term_accept", "terminal", "ended"}
<1>1. CASE ReturnOn(r, "BUFFER_TOO_SMALL", FALSE)
  BY <1>1 DEF ReturnOn, Return
<1>2. CASE Grant(r, from)
  BY <1>2 DEF Grant, ReturnOn, Return
<1>3. CASE SpawnFails(r, from)
  BY <1>3 DEF SpawnFails
<1>4. CASE Start(r, "terminal", "process")
  BY <1>4 DEF Start, Return
<1> QED BY <1>1, <1>2, <1>3, <1>4 DEF TerminalRequest

\* A channel request moves the session on from one of the loops, or ends it.
LEMMA RequestStages ==
    ASSUME NEW r \in ChannelRequest, ReceiveChannelRequest(r)
    PROVE  pc \in AcceptPCs /\ pc' \in ChannelPCs \cup {"ended"}
<1>1. pc \in AcceptPCs
  BY DEF ReceiveChannelRequest
<1>2. CASE \E s \in {"MALFORMED_PACKET", "SECURITY", "PLATFORM", "UNSUPPORTED"} : ReturnOn(r, s, FALSE)
  BY <1>1, <1>2 DEF ReturnOn, Return
<1>3. CASE RefuseNew(r)
  BY <1>1, <1>3 DEF RefuseNew, Refuse, ChannelPCs
<1>4. CASE Start(r, "sftp", "sftp")
  BY <1>1, <1>4 DEF Start, Return, ChannelPCs, RunningPCs
<1>5. CASE \E from \in {0, attempts} : TerminalRequest(r, from)
  BY <1>1, <1>5, TerminalStages DEF ChannelPCs, AcceptPCs, RunningPCs
<1> QED BY <1>1, <1>2, <1>3, <1>4, <1>5 DEF ReceiveChannelRequest

\* The outcome of one step, as far as the stages and the proof of the user go.
Moves ==
    \/ pc' = pc
    \/ pc' = "ended"
    \/ pc = "service" /\ pc' = "userauth"
    \/ pc = "open" /\ pc' \in AcceptPCs
    \/ pc \in AcceptPCs /\ pc' \in ChannelPCs

\* Every step but an authentication request keeps the user and the proof, and
\* moves the session forward without passing the authentication.
LEMMA StepMoves ==
    ASSUME StageInv, [Next]_vars
    PROVE  /\ config' = config
           /\ \/ Moves /\ UNCHANGED <<user, proof>>
              \/ \E r \in AuthRequest : ReceiveUserauthRequest(r)
<1> USE DEF authVars
<1>1. CASE \E b \in BOOLEAN : ReceiveServiceRequest(b)
  BY <1>1 DEF ReceiveServiceRequest, Return, Moves
<1>2. CASE \E b \in BOOLEAN : ReceiveGlobalRequest(b)
  BY <1>2 DEF ReceiveGlobalRequest, Return, Moves
<1>3. CASE \E b \in BOOLEAN : ReceiveChannelOpen(b)
  <2>1. config' = config /\ UNCHANGED <<user, proof>>
    BY <1>3 DEF ReceiveChannelOpen
  <2>2. pc = "open" /\ (pc' = "ended" \/ pc' = AfterOpen)
    BY <1>3 DEF ReceiveChannelOpen, Return, OpenStage
  <2> QED BY <2>1, <2>2, AfterOpenAccepts DEF Moves
<1>4. CASE \E b \in BOOLEAN : ReceiveSkipped(b)
  BY <1>4 DEF ReceiveSkipped, RefuseStale, Refuse, Moves
<1>5. CASE \E r \in AuthRequest : ReceiveUserauthRequest(r)
  BY <1>5 DEF ReceiveUserauthRequest
<1>6. CASE \E r \in ChannelRequest : ReceiveChannelRequest(r)
  <2>1. config' = config /\ UNCHANGED <<user, proof>>
    BY <1>6 DEF ReceiveChannelRequest
  <2> QED BY <1>6, <2>1, RequestStages DEF Moves
<1>7. CASE NoFileSystem
  BY <1>7 DEF NoFileSystem, Return, Moves
<1>8. CASE ReceiveRefused
  BY <1>8 DEF ReceiveRefused, RefuseStale, Refuse, Return, Moves
<1>9. CASE ReceiveUnknownMessage
  BY <1>9 DEF ReceiveUnknownMessage, RefuseStale, Refuse, Moves
<1>10. CASE ReceiveMalformed
  BY <1>10 DEF ReceiveMalformed, Return, Moves
<1>11. CASE ReceiveEnd
  BY <1>11 DEF ReceiveEnd, Return, Moves
<1>12. CASE \E s \in {"OK", "CLOSED", "PLATFORM"} : Process(s)
  BY <1>12 DEF Process, Return, Moves
<1>13. CASE \E s \in {"NOT_FOUND", "MALFORMED_PACKET", "CLOSED"} : ReceiveFails(s)
  BY <1>13 DEF ReceiveFails, Return, Moves
<1>14. CASE ConnectionLost
  BY <1>14 DEF ConnectionLost, Moves
<1>15. CASE MessageBegins
  BY <1>15 DEF MessageBegins, Moves
<1>16. CASE UNCHANGED vars
  BY <1>16 DEF vars, Moves
<1> QED BY <1>1, <1>2, <1>3, <1>4, <1>5, <1>6, <1>7, <1>8, <1>9, <1>10, <1>11, <1>12,
           <1>13, <1>14, <1>15, <1>16 DEF Next, Served, Handles

\* The stages hold from the start and every step keeps them.
LEMMA StageStep ==
    /\ Init => StageInv
    /\ StageInv /\ [Next]_vars => StageInv'
<1>1. Init => StageInv
  BY ConstantsAssumption DEF Init, StageInv, Stages, EarlyPCs
<1>2. ASSUME StageInv, [Next]_vars PROVE StageInv'
  <2>1. CASE Moves /\ config' = config
    BY <1>2, <2>1 DEF Moves, StageInv, Stages, EarlyPCs, ChannelPCs
  <2>2. ASSUME NEW r \in AuthRequest, ReceiveUserauthRequest(r) PROVE StageInv'
    <3>1. pc' \in {pc, "open", "ended"}
      BY <2>2 DEF ReceiveUserauthRequest, Return
    <3>2. config' = config
      BY <2>2 DEF ReceiveUserauthRequest
    <3> QED BY <1>2, <3>1, <3>2 DEF StageInv, Stages, EarlyPCs
  <2> QED BY <1>2, <2>1, <2>2, StepMoves
<1> QED BY <1>1, <1>2

\* The stages as an invariant.
LEMMA StagesHold == Spec => []StageInv
BY StageStep, PTL DEF Spec

-----------------------------------------------------------------------------
(* Only proven users.                                                      *)

\* What the server knows of a request it answers with SUCCESS.
LEMMA SuccessProves ==
    ASSUME StageInv, NEW r \in AuthRequest, Decision(r) = "SUCCESS"
    PROVE  /\ r.user \in config.allow /\ r.right
           /\ \/ r.method = "publickey" /\ r.sig = "good"
              \/ r.method = "password" /\ ~r.change
                 /\ "hash" \in {config.passwd[CString[r.user]], config.shadow[CString[r.user]]}
           /\ r.user = Root => config.root # "no"
           /\ r.user = Root /\ r.method = "password" => config.root = "yes"
<1>1. r.method \in Methods /\ r.sig \in {"none", "good", "bad", "unsupported"}
  BY DEF AuthRequest, AuthFields
<1>2. CASE r.method = "password"
  <2>1. ~r.change /\ PasswordOk(r) /\ Allowed(r)
    BY <1>2 DEF Decision
  <2> QED BY <1>2, <2>1 DEF PasswordOk, HashMatches, Field, Allowed
<1>3. CASE r.method = "publickey"
  <2>1. SignatureAccepted(r)
    BY <1>3 DEF Decision
  <2> QED BY <1>3, <2>1 DEF SignatureAccepted, KeyAcceptable, Allowed
<1>4. CASE r.method \in {"none", "other"}
  BY <1>4 DEF Decision
<1> QED BY <1>1, <1>2, <1>3, <1>4 DEF Methods

\* A step keeps the rule: only an authentication request answered with SUCCESS
\* enters the stages it speaks of, and no later step touches what it rests on.
LEMMA ProvenStep ==
    ASSUME StageInv, OnlyProvenUsers, [Next]_vars PROVE OnlyProvenUsers'
<1>1. config' = config
  BY StepMoves
<1>2. CASE Moves /\ UNCHANGED <<user, proof>>
  <2>1. pc' \in ProvenPCs => pc \in ProvenPCs
    BY <1>2 DEF Moves, ProvenPCs, ChannelPCs, AcceptPCs, RunningPCs
  <2> QED BY <1>1, <1>2, <2>1 DEF OnlyProvenUsers, ProvenPCs, ChannelPCs
<1>3. ASSUME NEW r \in AuthRequest, ReceiveUserauthRequest(r) PROVE OnlyProvenUsers'
  <2>1. pc = "userauth" /\ decision' = Decision(r)
    BY <1>3 DEF ReceiveUserauthRequest
  <2>2. CASE Decision(r) = "SUCCESS"
    <3>1. user' = CString[r.user] /\ proof' = r
      BY <1>3, <2>1, <2>2 DEF ReceiveUserauthRequest
    <3> QED BY <1>1, <2>2, <3>1, SuccessProves DEF OnlyProvenUsers
  <2>3. CASE Decision(r) # "SUCCESS"
    <3>1. pc' \in {"userauth", "ended"}
      BY <1>3, <2>1, <2>3 DEF ReceiveUserauthRequest, Return
    <3> QED BY <3>1 DEF OnlyProvenUsers, AcceptPCs, RunningPCs
  <2> QED BY <2>2, <2>3
<1> QED BY <1>2, <1>3, StepMoves

\* ssh_server_run_userauth lets a channel be opened only for a user who gave a
\* right password or a right signature and whom the configuration lets in.
THEOREM ProvenUsersSafe == Spec => []OnlyProvenUsers
<1>1. Init => OnlyProvenUsers
  BY DEF Init, OnlyProvenUsers, AcceptPCs, RunningPCs
<1>2. OnlyProvenUsers /\ StageInv /\ [Next]_vars => OnlyProvenUsers'
  BY ProvenStep
<1> QED BY <1>1, <1>2, StagesHold, PTL DEF Spec

-----------------------------------------------------------------------------
(* Nothing is left.                                                        *)

\* A process or an SFTP session is held by a running channel only.
HandleInv ==
    /\ handle \in {"none", "sftp", "process", "closed"}
    /\ pc \notin RunningPCs => handle \in {"none", "closed"}

\* The channel is taken down on the way out, or left as it is on the way round.
LEMMA DeinitFrees == ASSUME HandleInv, Deinit PROVE handle' \in {"none", "closed"}
BY DEF HandleInv, Deinit

\* What a request of a loop does to what the channel holds: it starts the channel,
\* or leaves nothing held.
LEMMA RequestHolds ==
    ASSUME HandleInv, NEW r \in ChannelRequest, ReceiveChannelRequest(r) PROVE HandleInv'
<1>1. handle \in {"none", "closed"}
  BY DEF HandleInv, ReceiveChannelRequest, AcceptPCs, RunningPCs
<1>2. ASSUME NEW s, ReturnOn(r, s, FALSE) PROVE HandleInv'
  BY <1>2, DeinitFrees DEF ReturnOn, HandleInv
<1>3. CASE RefuseNew(r)
  <2>1. UNCHANGED handle \/ Deinit
    BY <1>3 DEF RefuseNew, Refuse
  <2> QED BY <1>1, <2>1, DeinitFrees DEF HandleInv
<1>4. ASSUME NEW stage \in RunningPCs, NEW h \in {"sftp", "process"}, Start(r, stage, h)
      PROVE  HandleInv'
  BY <1>4 DEF Start, Return, HandleInv
<1>5. ASSUME NEW from, TerminalRequest(r, from) PROVE HandleInv'
  <2>1. CASE Grant(r, from)
    <3>1. UNCHANGED handle \/ Deinit
      BY <2>1 DEF Grant, ReturnOn
    <3> QED BY <1>1, <3>1, DeinitFrees DEF HandleInv
  <2>2. CASE SpawnFails(r, from)
    <3>1. UNCHANGED handle \/ Deinit
      BY <2>2 DEF SpawnFails
    <3> QED BY <1>1, <3>1, DeinitFrees DEF HandleInv
  <2> QED BY <1>2, <1>4, <1>5, <2>1, <2>2 DEF TerminalRequest, RunningPCs
<1> QED BY <1>2, <1>3, <1>4, <1>5 DEF ReceiveChannelRequest, RunningPCs

\* Every step keeps the rule of what is held.
LEMMA HandleStep ==
    ASSUME StageInv, HandleInv, [Next]_vars PROVE HandleInv'
<1>1. CASE UNCHANGED handle /\ (pc \in RunningPCs => pc' = pc)
  BY <1>1 DEF HandleInv
<1>2. CASE Deinit
  BY <1>2, DeinitFrees DEF HandleInv
<1> USE DEF channelVars, AcceptPCs, RunningPCs
<1>3. CASE \E b \in BOOLEAN : \/ ReceiveServiceRequest(b) \/ ReceiveGlobalRequest(b)
                              \/ ReceiveChannelOpen(b)
  BY <1>1, <1>3 DEF ReceiveServiceRequest, ReceiveGlobalRequest, ReceiveChannelOpen, OpenStage
<1>4. CASE \E b \in BOOLEAN : ReceiveSkipped(b)
  BY <1>1, <1>2, <1>4 DEF ReceiveSkipped, RefuseStale, Refuse
<1>5. CASE \E r \in AuthRequest : ReceiveUserauthRequest(r)
  BY <1>1, <1>5 DEF ReceiveUserauthRequest
<1>6. CASE \E r \in ChannelRequest : ReceiveChannelRequest(r)
  BY <1>6, RequestHolds
<1>7. CASE NoFileSystem
  BY <1>1, <1>7 DEF NoFileSystem
<1>8. CASE ReceiveRefused
  BY <1>1, <1>2, <1>8 DEF ReceiveRefused, RefuseStale, Refuse
<1>9. CASE ReceiveUnknownMessage
  BY <1>1, <1>2, <1>9 DEF ReceiveUnknownMessage, RefuseStale, Refuse
<1>10. CASE ReceiveMalformed
  BY <1>1, <1>2, <1>10 DEF ReceiveMalformed
<1>11. CASE ReceiveEnd
  BY <1>2, <1>11 DEF ReceiveEnd
<1>12. CASE \E s \in {"OK", "CLOSED", "PLATFORM"} : Process(s)
  BY <1>1, <1>2, <1>12 DEF Process
<1>13. CASE \E s \in {"NOT_FOUND", "MALFORMED_PACKET", "CLOSED"} : ReceiveFails(s)
  BY <1>2, <1>13 DEF ReceiveFails
<1>14. CASE ConnectionLost
  BY <1>1, <1>14 DEF ConnectionLost
<1>15. CASE UNCHANGED vars
  BY <1>1, <1>15 DEF vars
<1>16. CASE MessageBegins
  BY <1>1, <1>16 DEF MessageBegins
<1> QED BY <1>3, <1>4, <1>5, <1>6, <1>7, <1>8, <1>9, <1>10, <1>11, <1>12, <1>13, <1>14,
           <1>15, <1>16 DEF Next, Served, Handles

\* Whatever way a session function returns, a reply that could not be sent after
\* the spawn included, no process and no SFTP session of it stays behind.
THEOREM NothingLeftSafe == Spec => []NothingLeft
<1>1. Init => HandleInv
  BY DEF Init, HandleInv
<1>2. HandleInv /\ StageInv /\ [Next]_vars => HandleInv'
  BY HandleStep
<1>3. HandleInv => NothingLeft
  BY DEF HandleInv, NothingLeft, RunningPCs
<1> QED BY <1>1, <1>2, <1>3, StagesHold, PTL DEF Spec

-----------------------------------------------------------------------------
(* One reply to each request.                                              *)

\* Nothing is owed: even, or one reply too many after an odd turn.
Settled(o, b) == o = 0 \/ (b /\ o < 0)

(***************************************************************************)
(* Nothing is owed before the first channel request, and as long as the    *)
(* connection works a turn of a loop settles what it takes up.             *)
(***************************************************************************)
ReplyInv ==
    /\ owed \in Int /\ odd \in BOOLEAN /\ up \in BOOLEAN
    /\ pc \in EarlyPCs => owed = 0
    /\ pc \in ChannelPCs /\ up => Settled(owed, odd)

\* The answer to a request that decodes is due exactly if the client asked for it.
LEMMA DueOf ==
    ASSUME NEW r \in ChannelRequest
    PROVE  /\ r.reply \in BOOLEAN /\ WantsRefusal(r) \in BOOLEAN
           /\ Due(r) = IF WantsRefusal(r) THEN 1 ELSE 0
           /\ r.type # "putty" => (WantsRefusal(r) <=> r.reply)
<1>1. r.reply \in BOOLEAN
  BY DEF ChannelRequest, RequestFields
<1> QED BY <1>1 DEF WantsRefusal, Due

\* A step that leaves the account alone keeps the rule.
LEMMA AccountKept ==
    ASSUME StageInv, ReplyInv, Moves, UNCHANGED <<owed, odd>>, up' \in {up, FALSE}
    PROVE  ReplyInv'
<1>1. pc' \in EarlyPCs => pc \in EarlyPCs
  BY DEF Moves, EarlyPCs, ChannelPCs, AcceptPCs, RunningPCs
<1>2. pc' \in ChannelPCs => pc \in ChannelPCs \/ pc \in EarlyPCs
  BY DEF Moves, StageInv, Stages, EarlyPCs, ChannelPCs, AcceptPCs, RunningPCs
<1>3. owed' = owed /\ odd' = odd /\ up' \in BOOLEAN /\ (up' => up)
  <2>1. up \in BOOLEAN
    BY DEF ReplyInv
  <2>2. up' = up \/ up' = FALSE
    OBVIOUS
  <2>3. CASE up' = up
    BY <2>1, <2>3, Zenon
  <2>4. CASE up' = FALSE
    BY <2>4, Zenon
  <2> QED BY <2>2, <2>3, <2>4
<1>4. Settled(owed', odd') <=> Settled(owed, odd)
  BY <1>3 DEF Settled
<1>5. pc \in EarlyPCs => Settled(owed, odd)
  BY DEF ReplyInv, Settled
<1> QED BY <1>1, <1>2, <1>3, <1>4, <1>5 DEF ReplyInv

\* A turn of a loop that settles what it takes up, or ends the session.
LEMMA TurnSettles ==
    ASSUME ReplyInv, pc \in AcceptPCs, up' = up, owed' \in Int, odd' \in BOOLEAN,
           pc' \in ChannelPCs \cup {"ended"},
           up /\ Settled(owed, odd) => pc' = "ended" \/ Settled(owed', odd')
    PROVE  ReplyInv'
<1>1. pc' \notin EarlyPCs
  BY DEF EarlyPCs, ChannelPCs, AcceptPCs, RunningPCs
<1>2. pc' \in ChannelPCs => pc' # "ended"
  BY DEF ChannelPCs, AcceptPCs, RunningPCs
<1>3. pc' \in ChannelPCs /\ up' => Settled(owed', odd')
  BY <1>2 DEF ReplyInv, ChannelPCs
<1> QED BY <1>1, <1>3 DEF ReplyInv

\* A turn without a new request: it repeats a refusal, or sends nothing.
LEMMA StaleSettles ==
    ASSUME ReplyInv, pc \in AcceptPCs, up' = up, RefuseStale
    PROVE  ReplyInv'
<1>1. owed \in Int /\ odd' = TRUE
  BY DEF ReplyInv, RefuseStale
<1>2. owed' = owed + (0 - (IF request /\ up THEN 1 ELSE 0))
  BY DEF RefuseStale, Refuse
<1>3. owed' \in Int /\ owed' <= owed
  BY <1>1, <1>2
<1>4. Settled(owed, odd) => Settled(owed', odd')
  BY <1>1, <1>3 DEF Settled
<1>5. pc' \in ChannelPCs \cup {"ended"}
  BY DEF RefuseStale, Refuse, ChannelPCs
<1> QED BY <1>1, <1>3, <1>4, <1>5, TurnSettles

\* A request gets the one reply it is due, or the session ends with it.
LEMMA RequestSettles ==
    ASSUME ReplyInv, NEW r \in ChannelRequest, ReceiveChannelRequest(r)
    PROVE  ReplyInv'
<1>1. pc \in AcceptPCs /\ up' = up /\ pc' \in ChannelPCs \cup {"ended"}
  BY RequestStages DEF ReceiveChannelRequest
<1>2. owed \in Int /\ odd \in BOOLEAN /\ up \in BOOLEAN
  BY DEF ReplyInv
<1>3. Due(r) \in {0, 1} /\ (WantsRefusal(r) => Due(r) = 1) /\ (~WantsRefusal(r) => Due(r) = 0)
  BY DEF Due
<1>4. ASSUME UNCHANGED odd, owed' \in Int, up => pc' = "ended" \/ owed' = owed
      PROVE  ReplyInv'
  <2>1. up /\ Settled(owed, odd) => pc' = "ended" \/ Settled(owed', odd')
    BY <1>4
  <2> QED BY <1>1, <1>2, <1>4, <2>1, TurnSettles
<1>5. ASSUME NEW s, ReturnOn(r, s, FALSE) PROVE ReplyInv'
  <2>1. pc' = "ended" /\ odd' = odd /\ owed' = owed + (Due(r) - 0)
    BY <1>5 DEF ReturnOn, Return
  <2>2. owed' \in Int
    BY <1>2, <1>3, <2>1
  <2> QED BY <1>4, <2>1, <2>2
<1>6. CASE RefuseNew(r)
  <2>1. odd' = odd /\ owed' = owed + (Due(r) - (IF WantsRefusal(r) /\ up THEN 1 ELSE 0))
    BY <1>6 DEF RefuseNew, Refuse
  <2>2. owed' \in Int /\ (up => owed' = owed)
    BY <1>2, <1>3, <2>1
  <2> QED BY <1>4, <2>1, <2>2
<1>7. ASSUME NEW stage, NEW h, Start(r, stage, h) PROVE ReplyInv'
  <2>1. odd' = odd /\ (owed' = owed \/ (owed' = owed + Due(r) /\ pc' = "ended"))
    BY <1>7 DEF Start, Return
  <2>2. owed' \in Int
    BY <1>2, <1>3, <2>1
  <2> QED BY <1>4, <2>1, <2>2
<1>8. ASSUME NEW from, r.type \in TerminalTypes, TerminalRequest(r, from) PROVE ReplyInv'
  <2>1. CASE Grant(r, from)
    <3>1. odd' = odd /\ (owed' = owed \/ ReturnOn(r, "PLATFORM", FALSE))
      BY <2>1 DEF Grant, ReturnOn
    <3> QED BY <1>2, <1>4, <1>5, <3>1
  <2>2. CASE SpawnFails(r, from)
    <3>1. odd' = odd /\ owed' = owed + (Due(r) - (IF r.reply /\ up THEN 1 ELSE 0))
      BY <2>2 DEF SpawnFails
    <3>2. WantsRefusal(r) <=> r.reply
      BY <1>8, DueOf DEF TerminalTypes
    <3>3. owed' \in Int /\ (up => owed' = owed)
      BY <1>2, <1>3, <3>1, <3>2
    <3> QED BY <1>4, <3>1, <3>3
  <2> QED BY <1>5, <1>7, <1>8, <2>1, <2>2 DEF TerminalRequest
<1> QED BY <1>5, <1>6, <1>7, <1>8 DEF ReceiveChannelRequest

\* Every step keeps the account.
LEMMA ReplyStep ==
    ASSUME StageInv, ReplyInv, [Next]_vars PROVE ReplyInv'
<1> USE DEF channelVars
<1>1. CASE Moves /\ UNCHANGED <<owed, odd>> /\ up' \in {up, FALSE}
  BY <1>1, AccountKept
<1>2. CASE pc \in AcceptPCs /\ RefuseStale /\ up' = up
  BY <1>2, StaleSettles
<1>3. ASSUME NEW r \in AuthRequest, ReceiveUserauthRequest(r) PROVE ReplyInv'
  <2>1. pc = "userauth" /\ pc' \in {pc, "open", "ended"}
    BY <1>3 DEF ReceiveUserauthRequest, Return
  <2>2. UNCHANGED <<owed, odd, up>>
    BY <1>3 DEF ReceiveUserauthRequest
  <2> QED BY <2>1, <2>2 DEF ReplyInv, EarlyPCs, ChannelPCs, AcceptPCs, RunningPCs
<1>4. CASE \E r \in ChannelRequest : ReceiveChannelRequest(r)
  BY <1>4, RequestSettles
<1>5. ASSUME Moves PROVE ReplyInv' \/ ~UNCHANGED <<owed, odd>> \/ up' \notin {up, FALSE}
  BY <1>1, <1>5
<1>6. ASSUME ~(\E r \in AuthRequest : ReceiveUserauthRequest(r)) PROVE Moves
  BY <1>6, StepMoves
<1>7. CASE \E b \in BOOLEAN : \/ ReceiveServiceRequest(b) \/ ReceiveGlobalRequest(b)
                              \/ ReceiveChannelOpen(b)
  <2>1. UNCHANGED <<owed, odd, up>>
    BY <1>7 DEF ReceiveServiceRequest, ReceiveGlobalRequest, ReceiveChannelOpen
  <2> QED BY <1>3, <1>5, <1>6, <2>1
<1>8. CASE \E b \in BOOLEAN : ReceiveSkipped(b)
  <2>1. pc \in AcceptPCs /\ up' = up /\ (RefuseStale \/ UNCHANGED <<owed, odd>>)
    BY <1>8 DEF ReceiveSkipped
  <2> QED BY <1>2, <1>3, <1>5, <1>6, <2>1
<1>9. CASE ReceiveRefused
  <2>1. pc \in AcceptPCs /\ up' = up /\ (RefuseStale \/ UNCHANGED <<owed, odd>>)
    BY <1>9 DEF ReceiveRefused
  <2> QED BY <1>2, <1>3, <1>5, <1>6, <2>1
<1>10. CASE ReceiveUnknownMessage
  BY <1>2, <1>10 DEF ReceiveUnknownMessage
<1>11. CASE \/ NoFileSystem \/ ReceiveMalformed \/ ReceiveEnd \/ MessageBegins
             \/ ConnectionLost \/ UNCHANGED vars
  <2>1. UNCHANGED <<owed, odd>> /\ up' \in {up, FALSE}
    BY <1>11 DEF NoFileSystem, ReceiveMalformed, ReceiveEnd, MessageBegins, ConnectionLost, vars
  <2> QED BY <1>3, <1>5, <1>6, <2>1
<1>12. CASE \E s \in {"OK", "CLOSED", "PLATFORM"} : Process(s)
  <2>1. UNCHANGED <<owed, odd, up>>
    BY <1>12 DEF Process
  <2> QED BY <1>3, <1>5, <1>6, <2>1
<1>13. CASE \E s \in {"NOT_FOUND", "MALFORMED_PACKET", "CLOSED"} : ReceiveFails(s)
  <2>1. UNCHANGED <<owed, odd, up>>
    BY <1>13 DEF ReceiveFails
  <2> QED BY <1>3, <1>5, <1>6, <2>1
<1> QED BY <1>3, <1>4, <1>7, <1>8, <1>9, <1>10, <1>11, <1>12, <1>13
        DEF Next, Served, Handles

\* Until the channel runs, each request that wants a reply gets one, and one too
\* many only after a turn without a new request.
THEOREM OneReplySafe == Spec => []OneReplyEach
<1>1. ASSUME Init PROVE ReplyInv
  <2>1. owed = 0 /\ odd \in BOOLEAN /\ up \in BOOLEAN
    BY <1>1 DEF Init
  <2>2. pc \notin ChannelPCs
    BY <1>1 DEF Init, ChannelPCs, AcceptPCs, RunningPCs
  <2> QED BY <2>1, <2>2 DEF ReplyInv
<1>2. ReplyInv /\ StageInv /\ [Next]_vars => ReplyInv'
  BY ReplyStep
<1>3. ReplyInv => OneReplyEach
  BY DEF ReplyInv, OneReplyEach, ChannelPCs, Settled
<1> QED BY <1>1, <1>2, <1>3, StagesHold, PTL DEF Spec

-----------------------------------------------------------------------------
(* Loops over numbers and sequences.                                       *)

\* What holds at first and is kept by every round holds after the last one.
LEMMA RoundByRound ==
    ASSUME NEW n \in Nat, NEW T, 0 \in T, \A i \in 1..n : i - 1 \in T => i \in T
    PROVE  \A i \in 0..n : i \in T
<1> DEFINE B == {i \in Nat : i \in 0..n /\ i \notin T}
<1>1. SUFFICES ASSUME B # {} PROVE FALSE
    BY DEF B
<1>2. B \subseteq Nat
    BY DEF B
<1> HIDE DEF B
<1>3. PICK i \in B : \A m \in B : ~(<<m, i>> \in OpToRel(<, Nat))
    BY <1>1, <1>2, NatLessThanWellFounded, WFMin
<1>4. i \in Nat /\ i \in 0..n /\ i \notin T
    BY <1>3 DEF B
<1>5. i \in 1..n /\ i - 1 \in Nat /\ i - 1 \in 0..n /\ i - 1 < i
    BY <1>4
<1>6. <<i - 1, i>> \in OpToRel(<, Nat)
    BY <1>4, <1>5 DEF OpToRel
<1>7. i - 1 \notin B
    BY <1>3, <1>6
<1>8. i - 1 \in T
    BY <1>5, <1>7 DEF B
<1> QED BY <1>4, <1>5, <1>8

-----------------------------------------------------------------------------
(* Patterns.                                                               *)

\* The pattern from its i-th character on is like the name from its j-th on.
LikeFrom(pat, val, i, j) ==
    \E cut \in [i..(Len(pat) + 1) -> 0..Len(val)] :
        /\ cut[i] = j - 1 /\ cut[Len(pat) + 1] = Len(val)
        /\ \A k \in i..Len(pat) : Part(pat, val, cut, k)

LEMMA LikeIs ==
    ASSUME NEW pat, NEW val
    PROVE  Like(pat, val) <=> LikeFrom(pat, val, 1, 1)
<1>1. 1 - 1 = 0
    OBVIOUS
<1> QED BY <1>1 DEF Like, LikeFrom

LEMMA LikeBounds ==
    ASSUME NEW pat, NEW val, Len(pat) \in Nat, Len(val) \in Nat,
           NEW i \in 1..(Len(pat) + 1), NEW j \in Nat, LikeFrom(pat, val, i, j)
    PROVE  j \in 1..(Len(val) + 1)
BY DEF LikeFrom

\* Nothing is left of the pattern.
LEMMA LikeEnd ==
    ASSUME NEW pat, NEW val, Len(pat) \in Nat, Len(val) \in Nat,
           NEW j \in 1..(Len(val) + 1)
    PROVE  LikeFrom(pat, val, Len(pat) + 1, j) <=> j = Len(val) + 1
<1> DEFINE m == Len(pat)
           n == Len(val)
           c == [k \in (m + 1)..(m + 1) |-> j - 1]
<1>1. ASSUME LikeFrom(pat, val, m + 1, j) PROVE j = n + 1
    BY <1>1 DEF LikeFrom
<1>2. ASSUME j = n + 1 PROVE LikeFrom(pat, val, m + 1, j)
    <2>1. /\ c \in [(m + 1)..(m + 1) -> 0..n] /\ c[m + 1] = j - 1 /\ c[m + 1] = n
        BY <1>2
    <2>2. \A k \in (m + 1)..m : FALSE
        OBVIOUS
    <2> HIDE DEF c
    <2> QED BY <2>1, <2>2 DEF LikeFrom
<1> QED BY <1>1, <1>2

\* The first cut can be put in front of the others, or taken away.
LEMMA LikeNext ==
    ASSUME NEW pat, NEW val, Len(pat) \in Nat, Len(val) \in Nat,
           NEW i \in 1..Len(pat), NEW j \in 1..(Len(val) + 1)
    PROVE  LikeFrom(pat, val, i, j) <=>
             \E w \in 1..(Len(val) + 1) :
                 /\ LikeFrom(pat, val, i + 1, w)
                 /\ IF pat[i] = "*" THEN j <= w
                    ELSE w = j + 1 /\ pat[i] \in {"?", val[j]}
<1> DEFINE m == Len(pat)
           n == Len(val)
<1>1. ASSUME LikeFrom(pat, val, i, j)
      PROVE  \E w \in 1..(n + 1) : /\ LikeFrom(pat, val, i + 1, w)
                                   /\ IF pat[i] = "*" THEN j <= w
                                      ELSE w = j + 1 /\ pat[i] \in {"?", val[j]}
    <2>1. PICK cut \in [i..(m + 1) -> 0..n] :
              /\ cut[i] = j - 1 /\ cut[m + 1] = n
              /\ \A k \in i..m : Part(pat, val, cut, k)
        BY <1>1 DEF LikeFrom
    <2> DEFINE d == [k \in (i + 1)..(m + 1) |-> cut[k]]
               w == cut[i + 1] + 1
    <2>2. i + 1 \in i..(m + 1) /\ i \in i..m /\ i + 1 \in (i + 1)..(m + 1)
          /\ m + 1 \in (i + 1)..(m + 1)
        OBVIOUS
    <2>3. cut[i + 1] \in 0..n
        BY <2>2
    <2>4. w \in 1..(n + 1) /\ cut[i + 1] = w - 1
        BY <2>3
    <2>5. \A k \in (i + 1)..(m + 1) : k \in i..(m + 1)
        OBVIOUS
    <2>6. d \in [(i + 1)..(m + 1) -> 0..n] /\ d[i + 1] = w - 1 /\ d[m + 1] = n
        BY <2>1, <2>2, <2>4, <2>5
    <2>7. ASSUME NEW k \in (i + 1)..m PROVE Part(pat, val, d, k)
        <3>1. k \in i..m /\ k \in (i + 1)..(m + 1) /\ k + 1 \in (i + 1)..(m + 1)
            OBVIOUS
        <3>2. d[k] = cut[k] /\ d[k + 1] = cut[k + 1]
            BY <3>1
        <3>3. Part(pat, val, cut, k)
            BY <2>1, <3>1
        <3> HIDE DEF d
        <3> QED BY <3>2, <3>3 DEF Part
    <2> HIDE DEF d
    <2>8. LikeFrom(pat, val, i + 1, w)
        BY <2>6, <2>7 DEF LikeFrom
    <2>9. IF pat[i] = "*" THEN j <= w ELSE w = j + 1 /\ pat[i] \in {"?", val[j]}
        <3>1. Part(pat, val, cut, i)
            BY <2>1, <2>2
        <3>2. cut[i] = j - 1 /\ (j - 1) + 1 = j
            BY <2>1
        <3> QED BY <2>3, <3>1, <3>2 DEF Part
    <2> QED BY <2>4, <2>8, <2>9
<1>2. ASSUME NEW w \in 1..(n + 1), LikeFrom(pat, val, i + 1, w),
             IF pat[i] = "*" THEN j <= w ELSE w = j + 1 /\ pat[i] \in {"?", val[j]}
      PROVE  LikeFrom(pat, val, i, j)
    <2>1. PICK cut \in [(i + 1)..(m + 1) -> 0..n] :
              /\ cut[i + 1] = w - 1 /\ cut[m + 1] = n
              /\ \A k \in (i + 1)..m : Part(pat, val, cut, k)
        BY <1>2 DEF LikeFrom
    <2> DEFINE d == [k \in i..(m + 1) |-> IF k = i THEN j - 1 ELSE cut[k]]
    <2>2. \A k \in i..(m + 1) : k # i => k \in (i + 1)..(m + 1)
        OBVIOUS
    <2>3. j - 1 \in 0..n /\ (j - 1) + 1 = j
        OBVIOUS
    <2>4. d \in [i..(m + 1) -> 0..n]
        BY <2>2, <2>3
    <2>5. i \in i..(m + 1) /\ i + 1 \in i..(m + 1) /\ i + 1 # i
          /\ m + 1 \in i..(m + 1) /\ m + 1 # i
        OBVIOUS
    <2>6. d[i] = j - 1 /\ d[m + 1] = n /\ d[i + 1] = w - 1
        BY <2>1, <2>5
    <2>7. ASSUME NEW k \in i..m PROVE Part(pat, val, d, k)
        <3>1. CASE k = i
            <4> HIDE DEF d
            <4> QED BY <3>1, <2>3, <2>6, <1>2 DEF Part
        <3>2. CASE k # i
            <4>1. k \in (i + 1)..m /\ k \in i..(m + 1) /\ k + 1 \in i..(m + 1) /\ k + 1 # i
                BY <3>2
            <4>2. d[k] = cut[k] /\ d[k + 1] = cut[k + 1]
                BY <4>1, <3>2
            <4>3. Part(pat, val, cut, k)
                BY <2>1, <4>1
            <4> HIDE DEF d
            <4> QED BY <4>2, <4>3 DEF Part
        <3> QED BY <3>1, <3>2
    <2> HIDE DEF d
    <2> QED BY <2>4, <2>6, <2>7 DEF LikeFrom
<1> QED BY <1>1, <1>2

\* A star takes any number of characters.
LEMMA LikeStar ==
    ASSUME NEW pat, NEW val, Len(pat) \in Nat, Len(val) \in Nat,
           NEW i \in 1..Len(pat), NEW j \in 1..(Len(val) + 1), pat[i] = "*"
    PROVE  LikeFrom(pat, val, i, j) <=>
             \E w \in 1..(Len(val) + 1) : j <= w /\ LikeFrom(pat, val, i + 1, w)
BY LikeNext

\* Any other character takes one.
LEMMA LikeChar ==
    ASSUME NEW pat, NEW val, Len(pat) \in Nat, Len(val) \in Nat,
           NEW i \in 1..Len(pat), NEW j \in 1..(Len(val) + 1), pat[i] # "*"
    PROVE  LikeFrom(pat, val, i, j) <=>
             /\ j <= Len(val) /\ pat[i] \in {"?", val[j]}
             /\ LikeFrom(pat, val, i + 1, j + 1)
BY LikeNext

\* With no star in between, what is like stays like further on.
LEMMA LikeSegment ==
    ASSUME NEW pat, NEW val, Len(pat) \in Nat, Len(val) \in Nat,
           NEW i \in 1..(Len(pat) + 1), NEW k \in i..(Len(pat) + 1),
           \A q \in i..(k - 1) : pat[q] # "*",
           NEW w \in 1..(Len(val) + 1), LikeFrom(pat, val, i, w)
    PROVE  LikeFrom(pat, val, k, w + (k - i)) /\ w + (k - i) <= Len(val) + 1
<1> DEFINE T == {d \in 0..(k - i) : LikeFrom(pat, val, i + d, w + d)}
<1>1. k - i \in Nat
    OBVIOUS
<1>2. 0 \in T
    <2>1. i + 0 = i /\ w + 0 = w /\ 0 \in 0..(k - i)
        BY <1>1
    <2> QED BY <2>1
<1>3. ASSUME NEW d \in 1..(k - i), d - 1 \in T PROVE d \in T
    <2>1. /\ i + (d - 1) \in 1..Len(pat) /\ i + (d - 1) \in i..(k - 1)
          /\ i + (d - 1) \in 1..(Len(pat) + 1) /\ w + (d - 1) \in Nat
          /\ (i + (d - 1)) + 1 = i + d /\ (w + (d - 1)) + 1 = w + d /\ d \in 0..(k - i)
        BY <1>1
    <2>2. LikeFrom(pat, val, i + (d - 1), w + (d - 1))
        BY <1>3
    <2>3. w + (d - 1) \in 1..(Len(val) + 1)
        BY <2>1, <2>2, LikeBounds
    <2>4. pat[i + (d - 1)] # "*"
        BY <2>1
    <2>5. LikeFrom(pat, val, (i + (d - 1)) + 1, (w + (d - 1)) + 1)
        BY <2>1, <2>2, <2>3, <2>4, LikeChar
    <2>6. LikeFrom(pat, val, i + d, w + d)
        BY <2>1, <2>5
    <2> QED BY <2>1, <2>6
<1>4. k - i \in T
    <2> HIDE DEF T
    <2>1. \A d \in 0..(k - i) : d \in T
        BY <1>1, <1>2, <1>3, RoundByRound
    <2> QED BY <1>1, <2>1
<1>5. i + (k - i) = k
    OBVIOUS
<1>6. LikeFrom(pat, val, k, w + (k - i))
    BY <1>4, <1>5
<1>7. k \in 1..(Len(pat) + 1) /\ w + (k - i) \in Nat
    BY <1>1
<1>8. w + (k - i) \in 1..(Len(val) + 1)
    BY <1>6, <1>7, LikeBounds
<1> QED BY <1>6, <1>8

\* At the end of the name only stars may be left.
LEMMA LikeStars ==
    ASSUME NEW pat, NEW val, Len(pat) \in Nat, Len(val) \in Nat,
           NEW i \in 1..(Len(pat) + 1)
    PROVE  LikeFrom(pat, val, i, Len(val) + 1) <=> \A k \in i..Len(pat) : pat[k] = "*"
<1> DEFINE m == Len(pat)
           n == Len(val)
           r == m + 1 - i
<1>0. r \in Nat /\ n + 1 \in 1..(n + 1)
    OBVIOUS
<1>1. ASSUME \A k \in i..m : pat[k] = "*" PROVE LikeFrom(pat, val, i, n + 1)
    <2> DEFINE T == {d \in 0..r : LikeFrom(pat, val, (m + 1) - d, n + 1)}
    <2>1. 0 \in T
        <3>1. (m + 1) - 0 = m + 1 /\ 0 \in 0..r
            BY <1>0
        <3>2. LikeFrom(pat, val, m + 1, n + 1)
            BY <1>0, LikeEnd
        <3> QED BY <3>1, <3>2
    <2>2. ASSUME NEW d \in 1..r, d - 1 \in T PROVE d \in T
        <3>1. /\ (m + 1) - d \in 1..m /\ (m + 1) - d \in i..m
              /\ ((m + 1) - d) + 1 = (m + 1) - (d - 1) /\ d \in 0..r
            BY <1>0
        <3>2. LikeFrom(pat, val, ((m + 1) - d) + 1, n + 1)
            BY <2>2, <3>1
        <3>3. pat[(m + 1) - d] = "*"
            BY <1>1, <3>1
        <3>4. n + 1 <= n + 1
            OBVIOUS
        <3>5. LikeFrom(pat, val, (m + 1) - d, n + 1)
            BY <1>0, <3>1, <3>2, <3>3, <3>4, LikeStar
        <3> QED BY <3>1, <3>5
    <2>3. r \in T
        <3> HIDE DEF T, r
        <3>1. \A d \in 0..r : d \in T
            BY <1>0, <2>1, <2>2, RoundByRound
        <3> QED BY <1>0, <3>1
    <2>4. (m + 1) - r = i
        OBVIOUS
    <2> QED BY <2>3, <2>4
<1>2. ASSUME LikeFrom(pat, val, i, n + 1), NEW k \in i..m PROVE pat[k] = "*"
    <2> DEFINE T == {d \in 0..r : LikeFrom(pat, val, i + d, n + 1)}
    <2>0. ASSUME NEW q \in 1..m, LikeFrom(pat, val, q, n + 1) PROVE pat[q] = "*"
        <3>1. ~(n + 1 <= n)
            OBVIOUS
        <3> QED BY <1>0, <2>0, <3>1, LikeChar
    <2>1. 0 \in T
        <3>1. i + 0 = i /\ 0 \in 0..r
            BY <1>0
        <3> QED BY <1>2, <3>1
    <2>2. ASSUME NEW d \in 1..r, d - 1 \in T PROVE d \in T
        <3>1. /\ i + (d - 1) \in 1..m /\ (i + (d - 1)) + 1 = i + d /\ d \in 0..r
            BY <1>0
        <3>2. LikeFrom(pat, val, i + (d - 1), n + 1)
            BY <2>2
        <3>3. pat[i + (d - 1)] = "*"
            BY <2>0, <3>1, <3>2
        <3>4. PICK w \in 1..(n + 1) : n + 1 <= w /\ LikeFrom(pat, val, (i + (d - 1)) + 1, w)
            BY <1>0, <3>1, <3>2, <3>3, LikeStar
        <3>5. w = n + 1
            BY <3>4
        <3>6. LikeFrom(pat, val, i + d, n + 1)
            BY <3>1, <3>4, <3>5
        <3> QED BY <3>1, <3>6
    <2>3. \A d \in 0..r : d \in T
        <3> HIDE DEF T, r
        <3> QED BY <1>0, <2>1, <2>2, RoundByRound
    <2>4. k - i \in 0..r /\ i + (k - i) = k /\ k \in 1..m
        OBVIOUS
    <2>5. LikeFrom(pat, val, k, n + 1)
        BY <2>3, <2>4
    <2> QED BY <2>0, <2>4, <2>5
<1> QED BY <1>1, <1>2

-----------------------------------------------------------------------------
(* The loop over a pattern.                                                *)

ScanRecords == [p : Int, v : Int, sp : Int, sv : Int, at : {"loop", "lost"}]
ScanStart == [p |-> 1, v |-> 1, sp |-> 0, sv |-> 0, at |-> "loop"]

ScanEnded(val, s) == s.at = "lost" \/ s.v > Len(val)

(***************************************************************************)
(* What the loop keeps true: since the last star no other star was passed  *)
(* and the same number of characters of both; the pattern is like the name *)
(* exactly when what is left of it is like what is left of the name, here  *)
(* or with the last star taking more than it has.                          *)
(***************************************************************************)
ScanInv(pat, val, s) ==
    /\ s \in ScanRecords
    /\ s.p \in 1..(Len(pat) + 1) /\ s.v \in 1..(Len(val) + 1)
    /\ s.sp \in 0..(Len(pat) + 1) /\ s.sv \in 0..(Len(val) + 1) /\ s.sv <= s.v
    /\ s.sp # 0 => /\ s.sp <= s.p /\ s.p - s.sp = s.v - s.sv /\ s.sv # 0
                   /\ \A k \in s.sp..(s.p - 1) : pat[k] # "*"
    /\ s.at = "lost" => ~Like(pat, val)
    /\ s.at # "lost" =>
          (Like(pat, val) <=>
             \/ LikeFrom(pat, val, s.p, s.v)
             \/ s.sp # 0 /\ \E w \in 1..(Len(val) + 1) :
                                 w > s.sv /\ LikeFrom(pat, val, s.sp, w))

\* Rounds that may still come.
Left(pat, val, s) ==
    ((Len(val) + 2) - s.sv) * (Len(pat) + Len(val) + 3)
        + ((Len(pat) + 1) - s.p) + ((Len(val) + 1) - s.v)

LEMMA ProductDrops ==
    ASSUME NEW a \in Nat, NEW b \in Nat, NEW K \in Nat, b < a
    PROVE  b * K + K <= a * K
<1> DEFINE d == a - (b + 1)
<1>1. d \in Nat /\ a = (b + 1) + d
    OBVIOUS
<1>2. d * K \in Nat /\ b * K \in Nat
    BY <1>1
<1>3. ((b + 1) + d) * K = b * K + K + d * K
    BY <1>1
<1> HIDE DEF d
<1> QED BY <1>1, <1>2, <1>3

\* The loop's variables after a round.
Stepped(s, p, v) == [s EXCEPT !.p = p, !.v = v]
Starred(s, p, sp, sv) == [s EXCEPT !.p = p, !.sp = sp, !.sv = sv]
GoneBack(s, p, v, sv) == [s EXCEPT !.p = p, !.v = v, !.sv = sv]

LEMMA SteppedIs ==
    ASSUME NEW s \in ScanRecords, NEW p \in Int, NEW v \in Int
    PROVE  LET t == Stepped(s, p, v)
           IN  /\ t \in ScanRecords
               /\ t.p = p /\ t.v = v /\ t.sp = s.sp /\ t.sv = s.sv /\ t.at = s.at
BY DEF ScanRecords, Stepped

LEMMA StarredIs ==
    ASSUME NEW s \in ScanRecords, NEW p \in Int, NEW sp \in Int, NEW sv \in Int
    PROVE  LET t == Starred(s, p, sp, sv)
           IN  /\ t \in ScanRecords
               /\ t.p = p /\ t.v = s.v /\ t.sp = sp /\ t.sv = sv /\ t.at = s.at
BY DEF ScanRecords, Starred

LEMMA GoneBackIs ==
    ASSUME NEW s \in ScanRecords, NEW p \in Int, NEW v \in Int, NEW sv \in Int
    PROVE  LET t == GoneBack(s, p, v, sv)
           IN  /\ t \in ScanRecords
               /\ t.p = p /\ t.v = v /\ t.sp = s.sp /\ t.sv = sv /\ t.at = s.at
BY DEF ScanRecords, GoneBack

\* The arithmetic of a round.
LEMMA LeftSmaller ==
    ASSUME NEW m \in Nat, NEW n \in Nat, NEW a \in Int, NEW b \in Int, NEW p \in Int, NEW v \in Int,
           b <= a 
    PROVE  /\ b + ((m + 1) - (p + 1)) + ((n + 1) - (v + 1)) < a + ((m + 1) - p) + ((n + 1) - v)
           /\ b + ((m + 1) - (p + 1)) + ((n + 1) - v) < a + ((m + 1) - p) + ((n + 1) - v)
OBVIOUS

LEMMA LeftBack ==
    ASSUME NEW m \in Nat, NEW n \in Nat, NEW a \in Int, NEW b \in Int,
           NEW p \in 1..(m + 1), NEW v \in 1..(n + 1),
           NEW sp \in 1..(m + 1), NEW sv \in 0..n,
           b + (m + n + 3) <= a
    PROVE  b + ((m + 1) - sp) + ((n + 1) - (sv + 1)) < a + ((m + 1) - p) + ((n + 1) - v)
OBVIOUS

LEMMA RoundOk ==
    ASSUME NEW pat, NEW val, Len(pat) \in Nat, Len(val) \in Nat, Plain(val),
           NEW s, ScanInv(pat, val, s), ~ScanEnded(val, s)
    PROVE  /\ ScanInv(pat, val, Round(pat, val, s))
           /\ \/ ScanEnded(val, Round(pat, val, s))
              \/ Left(pat, val, Round(pat, val, s)) < Left(pat, val, s)
<1> DEFINE m == Len(pat)
           n == Len(val)
           K == m + n + 3
           t == Round(pat, val, s)
<1>0. /\ s \in ScanRecords /\ s.p \in 1..(m + 1) /\ s.v \in 1..n
      /\ s.sp \in 0..(m + 1) /\ s.sv \in 0..(n + 1) /\ s.sv <= s.v /\ s.at # "lost"
      /\ s.sp # 0 => /\ s.sp <= s.p /\ s.p - s.sp = s.v - s.sv /\ s.sv # 0
                     /\ \A k \in s.sp..(s.p - 1) : pat[k] # "*"
    BY DEF ScanInv, ScanEnded
<1>10. /\ m \in Nat /\ n \in Nat /\ s.p \in Int /\ s.v \in Int /\ s.sp \in Int /\ s.sv \in Int
       /\ 1 <= s.p /\ s.p <= m + 1 /\ 1 <= s.v /\ s.v <= n /\ 0 <= s.sp /\ s.sp <= m + 1
       /\ 0 <= s.sv /\ s.sv <= s.v
       /\ s.sp # 0 => s.sp <= s.p /\ s.p - s.sp = s.v - s.sv /\ s.sv # 0
    BY <1>0
<1>11. s \in ScanRecords /\ s.at # "lost"
    BY <1>0
<1>1. Like(pat, val) <=>
         \/ LikeFrom(pat, val, s.p, s.v)
         \/ s.sp # 0 /\ \E w \in 1..(n + 1) : w > s.sv /\ LikeFrom(pat, val, s.sp, w)
    BY <1>0 DEF ScanInv
<1>2. K \in Nat
    OBVIOUS
<1>3. CASE s.p <= m /\ pat[s.p] \in {"?", val[s.v]}
    <2>1. t = Stepped(s, s.p + 1, s.v + 1)
        BY <1>0, <1>3 DEF Round, ScanEnded, Stepped
    <2> HIDE DEF t
    <2>2. /\ t \in ScanRecords /\ t.p = s.p + 1 /\ t.v = s.v + 1 /\ t.sp = s.sp
          /\ t.sv = s.sv /\ t.at # "lost"
        <3>1. s.p + 1 \in Int /\ s.v + 1 \in Int
            BY <1>10
        <3> QED BY <1>11, <2>1, <3>1, SteppedIs
    <2>3. pat[s.p] # "*"
        BY <1>0, <1>3 DEF Plain
    <2>4. s.p \in 1..m /\ s.v \in 1..(n + 1) /\ s.v <= n
        BY <1>0, <1>3
    <2>5. LikeFrom(pat, val, s.p, s.v) <=> LikeFrom(pat, val, s.p + 1, s.v + 1)
        BY <1>3, <2>3, <2>4, LikeChar
    <2>6. ASSUME s.sp # 0 PROVE \A k \in s.sp..((s.p + 1) - 1) : pat[k] # "*"
        <3>1. \A k \in s.sp..((s.p + 1) - 1) : k \in s.sp..(s.p - 1) \/ k = s.p
            BY <1>0
        <3> QED BY <1>0, <2>3, <2>6, <3>1
    <2>7. /\ t.p \in 1..(m + 1) /\ t.v \in 1..(n + 1) /\ t.sv <= t.v
          /\ t.sp # 0 => t.sp <= t.p /\ t.p - t.sp = t.v - t.sv /\ t.sv # 0
        <3>1. /\ s.p \in 1..m /\ s.v \in 1..n /\ s.sp \in Int /\ s.sv \in Int /\ s.sv <= s.v
              /\ s.sp # 0 => s.sp <= s.p /\ s.p - s.sp = s.v - s.sv /\ s.sv # 0
            BY <1>10, <2>4
        <3>2. s.p + 1 \in 1..(m + 1) /\ s.v + 1 \in 1..(n + 1) /\ s.sv <= s.v + 1
            BY <3>1
        <3>3. ASSUME s.sp # 0
              PROVE  s.sp <= s.p + 1 /\ (s.p + 1) - s.sp = (s.v + 1) - s.sv /\ s.sv # 0
            <4>1. s.sp <= s.p /\ s.p - s.sp = s.v - s.sv /\ s.sv # 0
                BY <3>1, <3>3
            <4>2. s.p \in Int /\ s.v \in Int /\ s.sp \in Int /\ s.sv \in Int
                BY <1>10
            <4> QED BY <4>1, <4>2
        <3> QED BY <2>2, <3>2, <3>3, Zenon
    <2>8. ScanInv(pat, val, t)
        BY <1>0, <1>1, <2>2, <2>5, <2>6, <2>7 DEF ScanInv
    <2>9. Left(pat, val, t) < Left(pat, val, s)
        <3> DEFINE a == ((n + 2) - s.sv) * K
        <3>1. a \in Int
            BY <1>0, <1>2
        <3>2. Left(pat, val, s) = a + ((m + 1) - s.p) + ((n + 1) - s.v)
            BY DEF Left
        <3>3. Left(pat, val, t) = a + ((m + 1) - (s.p + 1)) + ((n + 1) - (s.v + 1))
            BY <2>2 DEF Left
        <3> HIDE DEF a
        <3>4. s.p \in Int /\ s.v \in Int /\ a <= a
            BY <1>10, <3>1
        <3> QED BY <3>1, <3>2, <3>3, <3>4, LeftSmaller
    <2> QED BY <2>8, <2>9 DEF t
<1>4. CASE ~(s.p <= m /\ pat[s.p] \in {"?", val[s.v]}) /\ s.p <= m /\ pat[s.p] = "*"
    <2>1. t = Starred(s, s.p + 1, s.p + 1, s.v)
        BY <1>0, <1>4 DEF Round, ScanEnded, Starred
    <2> HIDE DEF t
    <2>2. /\ t \in ScanRecords /\ t.p = s.p + 1 /\ t.v = s.v /\ t.sp = s.p + 1
          /\ t.sv = s.v /\ t.at # "lost"
        <3>1. s.p + 1 \in Int /\ s.v \in Int
            BY <1>10
        <3> QED BY <1>11, <2>1, <3>1, StarredIs
    <2>3. s.p \in 1..m /\ s.v \in 1..(n + 1)
        BY <1>0, <1>4
    <2>4. LikeFrom(pat, val, s.p, s.v) <=>
            \E w \in 1..(n + 1) : s.v <= w /\ LikeFrom(pat, val, s.p + 1, w)
        BY <1>4, <2>3, LikeStar
    <2>5. \A w \in 1..(n + 1) : s.v <= w <=> (w = s.v \/ w > s.v)
        BY <2>3
    <2>6. LikeFrom(pat, val, s.p, s.v) <=>
            \/ LikeFrom(pat, val, s.p + 1, s.v)
            \/ \E w \in 1..(n + 1) : w > s.v /\ LikeFrom(pat, val, s.p + 1, w)
        BY <2>3, <2>4, <2>5
    <2>7. ASSUME s.sp # 0, NEW w \in 1..(n + 1), w > s.sv, LikeFrom(pat, val, s.sp, w)
          PROVE  \E x \in 1..(n + 1) : x > s.v /\ LikeFrom(pat, val, s.p + 1, x)
        <3> DEFINE u == w + (s.p - s.sp)
        <3>1. s.sp \in 1..(m + 1) /\ s.p \in s.sp..(m + 1)
            BY <1>0, <2>7
        <3>2. LikeFrom(pat, val, s.p, u) /\ u <= n + 1
            BY <1>0, <2>7, <3>1, LikeSegment
        <3>3. u > s.v /\ u \in 1..(n + 1)
            BY <1>0, <2>7, <3>1, <3>2
        <3> HIDE DEF u
        <3>4. PICK x \in 1..(n + 1) : u <= x /\ LikeFrom(pat, val, s.p + 1, x)
            BY <1>4, <2>3, <3>2, <3>3, LikeStar
        <3>5. x > s.v
            BY <1>0, <3>3, <3>4
        <3> QED BY <3>4, <3>5
    <2>8. Like(pat, val) <=>
            \/ LikeFrom(pat, val, s.p + 1, s.v)
            \/ \E w \in 1..(n + 1) : w > s.v /\ LikeFrom(pat, val, s.p + 1, w)
        BY <1>1, <2>6, <2>7
    <2>9. /\ t.p \in 1..(m + 1) /\ t.v \in 1..(n + 1) /\ t.sv <= t.v
          /\ t.sp \in 0..(m + 1) /\ t.sv \in 0..(n + 1) /\ t.sp # 0
          /\ t.sp <= t.p /\ t.p - t.sp = t.v - t.sv /\ t.sv # 0
          /\ \A k \in t.sp..(t.p - 1) : FALSE
        BY <1>0, <2>2, <2>3
    <2>10. ScanInv(pat, val, t)
        BY <2>2, <2>8, <2>9 DEF ScanInv
    <2>11. Left(pat, val, t) < Left(pat, val, s)
        <3> DEFINE a == ((n + 2) - s.sv) * K
                   b == ((n + 2) - s.v) * K
        <3>1. a \in Int /\ b \in Int
            BY <1>0, <1>2
        <3>2. Left(pat, val, s) = a + ((m + 1) - s.p) + ((n + 1) - s.v)
            BY DEF Left
        <3>3. Left(pat, val, t) = b + ((m + 1) - (s.p + 1)) + ((n + 1) - s.v)
            BY <2>2 DEF Left
        <3>4. b <= a
            <4>1. CASE s.v = s.sv
                BY <3>1, <4>1
            <4>2. CASE s.v # s.sv
                <5>1. /\ (n + 2) - s.sv \in Nat /\ (n + 2) - s.v \in Nat
                      /\ (n + 2) - s.v < (n + 2) - s.sv
                    BY <1>0, <4>2
                <5>2. b + K <= a
                    BY <1>2, <5>1, ProductDrops
                <5> HIDE DEF a, b
                <5> QED BY <1>2, <3>1, <5>2
            <4> QED BY <4>1, <4>2
        <3>5. s.p \in Int /\ s.v \in Int
            BY <1>10
        <3> HIDE DEF a, b
        <3> QED BY <3>1, <3>2, <3>3, <3>4, <3>5, LeftSmaller
    <2> QED BY <2>10, <2>11 DEF t
<1>5. CASE /\ ~(s.p <= m /\ pat[s.p] \in {"?", val[s.v]})
           /\ ~(s.p <= m /\ pat[s.p] = "*")
    <2>1. ~LikeFrom(pat, val, s.p, s.v)
        <3>1. CASE s.p <= m
            <4>1. s.p \in 1..m /\ s.v \in 1..(n + 1) /\ pat[s.p] # "*"
                  /\ pat[s.p] \notin {"?", val[s.v]}
                BY <1>0, <1>5, <3>1
            <4> QED BY <4>1, LikeChar
        <3>2. CASE ~(s.p <= m)
            <4>1. s.p = m + 1 /\ s.v \in 1..(n + 1) /\ s.v # n + 1
                BY <1>0, <3>2
            <4> QED BY <4>1, LikeEnd
        <3> QED BY <3>1, <3>2
    <2>2. CASE s.sp # 0
        <3>1. t = GoneBack(s, s.sp, s.sv + 1, s.sv + 1)
            BY <1>0, <1>5, <2>2 DEF Round, ScanEnded, GoesBack, GoneBack
        <3> HIDE DEF t
        <3>2. /\ t \in ScanRecords /\ t.p = s.sp /\ t.v = s.sv + 1 /\ t.sp = s.sp
              /\ t.sv = s.sv + 1 /\ t.at # "lost"
            <4>1. s.sp \in Int /\ s.sv + 1 \in Int
                BY <1>10
            <4> QED BY <1>11, <3>1, <4>1, GoneBackIs
        <3>3. /\ t.p \in 1..(m + 1) /\ t.v \in 1..(n + 1) /\ t.sv <= t.v
              /\ t.sp \in 0..(m + 1) /\ t.sv \in 0..(n + 1)
              /\ t.sp <= t.p /\ t.p - t.sp = t.v - t.sv /\ t.sv # 0
              /\ \A k \in t.sp..(t.p - 1) : FALSE
            BY <1>0, <2>2, <3>2
        <3>4. \A w \in 1..(n + 1) : w > s.sv <=> (w = s.sv + 1 \/ w > s.sv + 1)
            BY <1>0
        <3>5. s.sv + 1 \in 1..(n + 1)
            BY <1>0
        <3>6. Like(pat, val) <=>
                \/ LikeFrom(pat, val, s.sp, s.sv + 1)
                \/ \E w \in 1..(n + 1) : w > s.sv + 1 /\ LikeFrom(pat, val, s.sp, w)
            BY <1>1, <2>1, <2>2, <3>4, <3>5
        <3>7. ScanInv(pat, val, t)
            BY <2>2, <3>2, <3>3, <3>6 DEF ScanInv
        <3>8. Left(pat, val, t) < Left(pat, val, s)
            <4> DEFINE a == ((n + 2) - s.sv) * K
                       b == ((n + 2) - (s.sv + 1)) * K
            <4>1. a \in Int /\ b \in Int
                BY <1>0, <1>2
            <4>2. Left(pat, val, s) = a + ((m + 1) - s.p) + ((n + 1) - s.v)
                BY DEF Left
            <4>3. Left(pat, val, t) = b + ((m + 1) - s.sp) + ((n + 1) - (s.sv + 1))
                BY <3>2 DEF Left
            <4>4. /\ (n + 2) - s.sv \in Nat /\ (n + 2) - (s.sv + 1) \in Nat
                  /\ (n + 2) - (s.sv + 1) < (n + 2) - s.sv
                BY <1>0
            <4>5. b + K <= a
                BY <1>2, <4>4, ProductDrops
            <4>6. K = m + n + 3
                OBVIOUS
            <4>7. s.p \in 1..(m + 1) /\ s.v \in 1..(n + 1) /\ s.sp \in 1..(m + 1) /\ s.sv \in 0..n
                BY <1>10, <2>2
            <4>8. b + (m + n + 3) <= a
                BY <4>5, <4>6
            <4> HIDE DEF a, b
            <4> QED BY <4>1, <4>2, <4>3, <4>7, <4>8, LeftBack
        <3> QED BY <3>7, <3>8 DEF t
    <2>3. CASE s.sp = 0
        <3>1. t = [s EXCEPT !.at = "lost"]
            BY <1>0, <1>5, <2>3 DEF Round, ScanEnded, GoesBack
        <3> HIDE DEF t
        <3>2. /\ t \in ScanRecords /\ t.p = s.p /\ t.v = s.v /\ t.sp = s.sp
              /\ t.sv = s.sv /\ t.at = "lost"
            BY <1>0, <3>1 DEF ScanRecords
        <3>3. ~Like(pat, val)
            BY <1>1, <2>1, <2>3
        <3>4. ScanInv(pat, val, t)
            BY <1>0, <2>3, <3>2, <3>3 DEF ScanInv
        <3>5. ScanEnded(val, t)
            BY <3>2 DEF ScanEnded
        <3> QED BY <3>4, <3>5 DEF t
    <2> QED BY <2>2, <2>3
<1> QED BY <1>3, <1>4, <1>5

LEMMA TurnsNat ==
    ASSUME NEW pat, NEW val, Len(pat) \in Nat, Len(val) \in Nat
    PROVE  Turns(pat, val) \in Nat
<1>1. Len(val) + 3 \in Nat /\ Len(pat) + Len(val) + 3 \in Nat
    OBVIOUS
<1>2. \A a, b \in Nat : a * b \in Nat
    OBVIOUS
<1> QED BY <1>1, <1>2 DEF Turns

\* The loop goes round by round.
LEMMA ScanSteps ==
    ASSUME NEW pat, NEW val, Len(pat) \in Nat, Len(val) \in Nat
    PROVE  /\ Scan(pat, val)[0] = ScanStart
           /\ \A i \in 1..Turns(pat, val) :
                 Scan(pat, val)[i] = Round(pat, val, Scan(pat, val)[i - 1])
<1> DEFINE n == Turns(pat, val)
           Step(a) == Round(pat, val, a)
           To(k, g) == [i \in 0..k |-> IF i = 0 THEN ScanStart ELSE Step(g[i - 1])]
           T == {k \in 0..n : \E g : g = To(k, g)}
<1>0. n \in Nat
    BY TurnsNat
<1> HIDE DEF n
<1>1. 0 \in T
    <2> DEFINE g == [i \in 0..0 |-> ScanStart]
    <2>1. g = To(0, g)
        OBVIOUS
    <2> HIDE DEF g
    <2>2. \E h : h = To(0, h)
        BY <2>1
    <2>3. 0 \in 0..n
        BY <1>0
    <2> HIDE DEF To
    <2> QED BY <2>2, <2>3
<1>2. ASSUME NEW k \in 1..n, k - 1 \in T PROVE k \in T
    <2>1. PICK g : g = To(k - 1, g)
        BY <1>2
    <2> DEFINE h == [i \in 0..k |-> IF i = k THEN Step(g[k - 1]) ELSE g[i]]
    <2>0. k \in Nat /\ k # 0 /\ k \in 0..n
        BY <1>0
    <2> HIDE DEF Step
    <2>2. ASSUME NEW i \in 0..k PROVE h[i] = IF i = 0 THEN ScanStart ELSE Step(h[i - 1])
        <3>1. CASE i = k
            <4>1. k - 1 \in 0..k /\ k - 1 # k
                BY <2>0
            <4>2. h[k - 1] = g[k - 1]
                BY <4>1
            <4> QED BY <2>0, <3>1, <4>2
        <3>2. CASE i # k
            <4>1. i \in 0..(k - 1)
                BY <2>0, <3>2
            <4>2. g[i] = IF i = 0 THEN ScanStart ELSE Step(g[i - 1])
                BY <2>1, <4>1
            <4>3. i # 0 => i - 1 \in 0..k /\ i - 1 # k
                BY <2>0, <4>1
            <4> QED BY <3>2, <4>2, <4>3
        <3> QED BY <3>1, <3>2
    <2>3. h = [i \in 0..k |-> h[i]]
        OBVIOUS
    <2> HIDE DEF h
    <2>4. h = To(k, h)
        BY <2>2, <2>3
    <2> QED BY <2>0, <2>4 DEF Step
<1>3. \E g : g = To(n, g)
    <2>1. n \in T
        <3> HIDE DEF T
        <3>1. \A i \in 0..n : i \in T
            BY <1>0, <1>1, <1>2, RoundByRound
        <3> QED BY <1>0, <3>1
    <2> QED BY <2>1
<1>4. Scan(pat, val) = CHOOSE g : g = To(n, g)
    BY DEF Scan, ScanStart, n
<1> DEFINE g == Scan(pat, val)
<1>5. g = To(n, g)
    <2> HIDE DEF To
    <2> QED BY <1>3, <1>4
<1> HIDE DEF g, Step
<1>6. g[0] = ScanStart
    BY <1>0, <1>5
<1>7. \A i \in 1..n : g[i] = Step(g[i - 1])
    BY <1>0, <1>5
<1> QED BY <1>6, <1>7 DEF g, Step, n

\* The rounds left are a number.
LEMMA LeftNat ==
    ASSUME NEW pat, NEW val, Len(pat) \in Nat, Len(val) \in Nat,
           NEW s, ScanInv(pat, val, s)
    PROVE  Left(pat, val, s) \in Nat
<1>1. /\ s.p \in 1..(Len(pat) + 1) /\ s.v \in 1..(Len(val) + 1)
      /\ s.sv \in 0..(Len(val) + 1)
    BY DEF ScanInv
<1>2. (Len(val) + 2) - s.sv \in Nat /\ Len(pat) + Len(val) + 3 \in Nat
    BY <1>1
<1>3. \A a, b \in Nat : a * b \in Nat
    OBVIOUS
<1>4. ((Len(val) + 2) - s.sv) * (Len(pat) + Len(val) + 3) \in Nat
    BY <1>2, <1>3
<1>5. (Len(pat) + 1) - s.p \in Nat /\ (Len(val) + 1) - s.v \in Nat
    BY <1>1
<1>6. \A a, b, c \in Nat : a + b + c \in Nat
    OBVIOUS
<1> QED BY <1>4, <1>5, <1>6 DEF Left

LEMMA ScanStarts ==
    ASSUME NEW pat, NEW val, Len(pat) \in Nat, Len(val) \in Nat
    PROVE  /\ ScanInv(pat, val, ScanStart)
           /\ Left(pat, val, ScanStart) <= Turns(pat, val) - 1
<1> DEFINE m == Len(pat)
           n == Len(val)
           K == m + n + 3
<1>1. /\ ScanStart \in ScanRecords /\ ScanStart.p = 1 /\ ScanStart.v = 1
      /\ ScanStart.sp = 0 /\ ScanStart.sv = 0 /\ ScanStart.at # "lost"
    BY DEF ScanStart, ScanRecords
<1>2. Like(pat, val) <=> LikeFrom(pat, val, 1, 1)
    BY LikeIs
<1>3. 1 \in 1..(m + 1) /\ 1 \in 1..(n + 1) /\ 0 \in 0..(m + 1) /\ 0 \in 0..(n + 1) /\ 0 <= 1
    OBVIOUS
<1>4. ScanInv(pat, val, ScanStart)
    BY <1>1, <1>2, <1>3 DEF ScanInv
<1>5. Left(pat, val, ScanStart) = ((n + 2) - 0) * K + ((m + 1) - 1) + ((n + 1) - 1)
    BY <1>1 DEF Left
<1>6. Turns(pat, val) = (n + 3) * K
    BY DEF Turns
<1>7. n + 2 \in Nat /\ n + 3 \in Nat /\ K \in Nat /\ n + 2 < n + 3 /\ (n + 2) - 0 = n + 2
    OBVIOUS
<1>8. (n + 2) * K + K <= (n + 3) * K
    BY <1>7, ProductDrops
<1> DEFINE a == (n + 2) * K
           b == (n + 3) * K
<1>9. a \in Int /\ b \in Int
    BY <1>7
<1>10. a + K <= b /\ Left(pat, val, ScanStart) = a + ((m + 1) - 1) + ((n + 1) - 1)
       /\ Turns(pat, val) = b
    BY <1>5, <1>6, <1>7, <1>8
<1> HIDE DEF a, b
<1>11. a + ((m + 1) - 1) + ((n + 1) - 1) <= b - 1
    BY <1>9, <1>10
<1> QED BY <1>4, <1>10, <1>11

\* The loop has ended by its last turn.
LEMMA ScanEnds ==
    ASSUME NEW pat, NEW val, Len(pat) \in Nat, Len(val) \in Nat, Plain(val)
    PROVE  LET s == Scan(pat, val)[Turns(pat, val)]
           IN  ScanInv(pat, val, s) /\ ScanEnded(val, s)
<1> DEFINE N == Turns(pat, val)
           g == Scan(pat, val)
           T == {i \in 0..N : /\ ScanInv(pat, val, g[i])
                              /\ ScanEnded(val, g[i]) \/ i + Left(pat, val, g[i]) <= N - 1}
<1>0. N \in Nat
    BY TurnsNat
<1>1. g[0] = ScanStart /\ \A i \in 1..N : g[i] = Round(pat, val, g[i - 1])
    BY ScanSteps
<1> HIDE DEF N, g
<1>2. 0 \in T
    <2>1. ScanInv(pat, val, g[0]) /\ Left(pat, val, g[0]) <= N - 1
        BY <1>1, ScanStarts DEF N
    <2>2. Left(pat, val, g[0]) \in Nat
        BY <2>1, LeftNat
    <2>3. 0 + Left(pat, val, g[0]) <= N - 1 /\ 0 \in 0..N
        BY <1>0, <2>1, <2>2
    <2> QED BY <2>1, <2>3
<1>3. ASSUME NEW i \in 1..N, i - 1 \in T PROVE i \in T
    <2> DEFINE s == g[i - 1]
    <2>1. g[i] = Round(pat, val, s) /\ i \in 0..N
        BY <1>0, <1>1
    <2>2. /\ ScanInv(pat, val, s)
          /\ ScanEnded(val, s) \/ (i - 1) + Left(pat, val, s) <= N - 1
        BY <1>3
    <2> HIDE DEF s
    <2>3. CASE ScanEnded(val, s)
        <3>1. g[i] = s
            BY <2>1, <2>3 DEF Round, ScanEnded
        <3> QED BY <2>1, <2>2, <2>3, <3>1
    <2>4. CASE ~ScanEnded(val, s)
        <3>1. /\ ScanInv(pat, val, g[i])
              /\ ScanEnded(val, g[i]) \/ Left(pat, val, g[i]) < Left(pat, val, s)
            BY <2>1, <2>2, <2>4, RoundOk
        <3>2. Left(pat, val, g[i]) \in Nat /\ Left(pat, val, s) \in Nat
            BY <2>2, <3>1, LeftNat
        <3>3. (i - 1) + Left(pat, val, s) <= N - 1
            BY <2>2, <2>4
        <3>4. Left(pat, val, g[i]) < Left(pat, val, s) => i + Left(pat, val, g[i]) <= N - 1
            BY <1>0, <3>2, <3>3
        <3> QED BY <2>1, <3>1, <3>4
    <2> QED BY <2>3, <2>4
<1>4. N \in T
    <2> HIDE DEF T
    <2>1. \A i \in 0..N : i \in T
        BY <1>0, <1>2, <1>3, RoundByRound
    <2> QED BY <1>0, <2>1
<1>5. Left(pat, val, g[N]) \in Nat
    BY <1>4, LeftNat
<1>6. ScanEnded(val, g[N])
    BY <1>0, <1>4, <1>5
<1> QED BY <1>4, <1>6 DEF g, N

\* The wildcard loop decides exactly what a pattern says of a name.
LEMMA WildcardsExact ==
    ASSUME NEW pat, NEW val, Len(pat) \in Nat, Len(val) \in Nat, Plain(val)
    PROVE  pattern_matches_wildcards(pat, val) <=> Like(pat, val)
<1> DEFINE m == Len(pat)
           n == Len(val)
           s == Scan(pat, val)[Turns(pat, val)]
<1>1. ScanInv(pat, val, s) /\ ScanEnded(val, s)
    BY ScanEnds
<1>2. pattern_matches_wildcards(pat, val) <=>
        s.at # "lost" /\ \A i \in s.p..m : pat[i] = "*"
    BY DEF pattern_matches_wildcards
<1> HIDE DEF s
<1>3. CASE s.at = "lost"
    BY <1>1, <1>2, <1>3 DEF ScanInv
<1>4. CASE s.at # "lost"
    <2>1. /\ s.p \in 1..(m + 1) /\ s.v \in 1..(n + 1)
          /\ s.sp \in 0..(m + 1) /\ s.sv \in 0..(n + 1)
          /\ s.sp # 0 => /\ s.sp <= s.p /\ s.p - s.sp = s.v - s.sv
                         /\ \A k \in s.sp..(s.p - 1) : pat[k] # "*"
          /\ Like(pat, val) <=>
                 \/ LikeFrom(pat, val, s.p, s.v)
                 \/ s.sp # 0 /\ \E w \in 1..(n + 1) : w > s.sv /\ LikeFrom(pat, val, s.sp, w)
        BY <1>1, <1>4 DEF ScanInv
    <2>2. s.v = n + 1
        BY <1>1, <1>4, <2>1 DEF ScanEnded
    <2>3. ASSUME s.sp # 0, NEW w \in 1..(n + 1), w > s.sv, LikeFrom(pat, val, s.sp, w)
          PROVE  FALSE
        <3>1. s.sp \in 1..(m + 1) /\ s.p \in s.sp..(m + 1) /\ s.p - s.sp = (n + 1) - s.sv
            BY <2>1, <2>2, <2>3
        <3>2. \A k \in s.sp..(s.p - 1) : pat[k] # "*"
            BY <2>1, <2>3
        <3>3. w + (s.p - s.sp) <= n + 1
            BY <2>3, <3>1, <3>2, LikeSegment
        <3>4. w + ((n + 1) - s.sv) <= n + 1 /\ s.sv \in Int
            BY <2>1, <3>1, <3>3
        <3> QED BY <2>3, <3>4
    <2>4. Like(pat, val) <=> LikeFrom(pat, val, s.p, n + 1)
        BY <2>1, <2>2, <2>3
    <2>5. LikeFrom(pat, val, s.p, n + 1) <=> \A k \in s.p..m : pat[k] = "*"
        BY <2>1, LikeStars
    <2> QED BY <1>2, <1>4, <2>4, <2>5
<1> QED BY <1>3, <1>4

\* A record with exactly these fields.
IsRecord(r, fields) == DOMAIN r = fields /\ r = [x \in DOMAIN r |-> r[x]]

-----------------------------------------------------------------------------
(* Match lines.                                                            *)

LEMMA PicksExact ==
    ASSUME NEW c, NEW val, Len(val) \in Nat, Plain(val),
           \A i \in DOMAIN c.list : Len(c.list[i].pat) \in Nat
    PROVE  list_pattern_matches(c.list, val) = Picks(c, val)
<1>1. \A i \in DOMAIN c.list : pattern_matches_wildcards(c.list[i].pat, val)
                                 <=> Like(c.list[i].pat, val)
    BY WildcardsExact
<1>2. list_pattern_matches(c.list, val) \in BOOLEAN /\ Picks(c, val) \in BOOLEAN
    BY DEF list_pattern_matches, Picks
<1>3. list_pattern_matches(c.list, val) <=> Picks(c, val)
    BY <1>1 DEF list_pattern_matches, Picks
<1> QED BY <1>2, <1>3

\* The context's texts are such that patterns are read as documented.
Readable(ctx) == \A k \in TextCriteria : Len(ctx[k]) \in Nat /\ Plain(ctx[k])

LEMMA CriterionExact ==
    ASSUME NEW c, NEW ctx, Readable(ctx), c.key \in Criteria,
           c.key \in TextCriteria => \A i \in DOMAIN c.list : Len(c.list[i].pat) \in Nat
    PROVE  (evaluate_match_criterion(c, ctx) # c.neg) <=> Holds(c, ctx)
<1>1. CASE c.key \in TextCriteria
    <2>1. list_pattern_matches(c.list, ctx[c.key]) = Picks(c, ctx[c.key])
        BY <1>1, PicksExact DEF Readable
    <2>2. c.key # "LocalPort"
        BY <1>1 DEF TextCriteria
    <2>3. evaluate_match_criterion(c, ctx) = list_pattern_matches(c.list, ctx[c.key])
        BY <2>2 DEF evaluate_match_criterion
    <2>4. Holds(c, ctx) = (Picks(c, ctx[c.key]) # c.neg)
        BY <2>2 DEF Holds
    <2> QED BY <2>1, <2>3, <2>4
<1>2. CASE c.key = "LocalPort"
    <2>1. evaluate_match_criterion(c, ctx) = match_local_port_list(c.list, ctx.LocalPort)
        BY <1>2 DEF evaluate_match_criterion
    <2>2. Holds(c, ctx) = (match_local_port_list(c.list, ctx.LocalPort) # c.neg)
        BY <1>2 DEF Holds
    <2> QED BY <2>1, <2>2
<1> QED BY <1>1, <1>2 DEF Criteria

\* A Match line holds as its criteria do.
LEMMA ExpressionExact ==
    ASSUME NEW criteria, NEW ctx, Readable(ctx),
           \A n \in DOMAIN criteria :
               /\ criteria[n].key \in Criteria
               /\ criteria[n].key \in TextCriteria =>
                     \A i \in DOMAIN criteria[n].list : Len(criteria[n].list[i].pat) \in Nat
    PROVE  evaluate_match_expression(criteria, ctx)
             <=> \A n \in DOMAIN criteria : Holds(criteria[n], ctx)
<1>1. ASSUME NEW n \in DOMAIN criteria
      PROVE  (evaluate_match_criterion(criteria[n], ctx) # criteria[n].neg)
                <=> Holds(criteria[n], ctx)
    BY CriterionExact
<1> QED BY <1>1 DEF evaluate_match_expression

-----------------------------------------------------------------------------
(* The lines in force.                                                     *)

Above(f, i) == {j \in 1..(i - 1) : f[j].k = "match"}

LEMMA FirstInForce == ASSUME NEW f, NEW ctx PROVE InForce(f, 1, ctx)
<1>1. {j \in 1..(1 - 1) : f[j].k = "match"} = {}
    OBVIOUS
<1> QED BY <1>1 DEF InForce

\* The line after a Match line is in force as that says.
LEMMA MatchInForce ==
    ASSUME NEW f, NEW ctx, NEW i \in Nat \ {0}, f[i].k = "match"
    PROVE  InForce(f, i + 1, ctx) <=> \A n \in DOMAIN f[i].criteria : Holds(f[i].criteria[n], ctx)
<1> DEFINE A == Above(f, i + 1)
           m == CHOOSE j \in A : \A n \in A : n <= j
<1>1. i \in A /\ (\A n \in A : n <= i) /\ A \subseteq Nat
    BY DEF Above
<1>2. m \in A /\ \A n \in A : n <= m
    <2> HIDE DEF A
    <2> QED BY <1>1
<1>3. m = i
    <2>1. i <= m /\ m <= i /\ m \in Nat
        BY <1>1, <1>2
    <2> HIDE DEF m
    <2> QED BY <2>1
<1>4. InForce(f, i + 1, ctx) <=>
        (A # {} => \A n \in DOMAIN f[m].criteria : Holds(f[m].criteria[n], ctx))
    BY DEF InForce, Above
<1> HIDE DEF A, m
<1> QED BY <1>1, <1>3, <1>4

\* The line after another one is in force when that is.
LEMMA OtherInForce ==
    ASSUME NEW f, NEW ctx, NEW i \in Nat \ {0}, f[i].k # "match"
    PROVE  InForce(f, i + 1, ctx) <=> InForce(f, i, ctx)
<1>1. {j \in 1..((i + 1) - 1) : f[j].k = "match"} = {j \in 1..(i - 1) : f[j].k = "match"}
    <2>1. \A j \in 1..((i + 1) - 1) : j \in 1..(i - 1) \/ j = i
        OBVIOUS
    <2>2. \A j \in 1..(i - 1) : j \in 1..((i + 1) - 1)
        OBVIOUS
    <2> QED BY <2>1, <2>2
<1> QED BY <1>1 DEF InForce

-----------------------------------------------------------------------------
(* The last value.                                                         *)

\* The lines up to n that set key and are in force, and the last of them.
SetLines(f, ctx, key, n) ==
    {i \in 1..n : f[i].k = "set" /\ f[i].key = key /\ InForce(f, i, ctx)}
SaysTo(f, ctx, key, n) ==
    LET lines == SetLines(f, ctx, key, n)
    IN  IF lines = {} THEN Unset
        ELSE f[CHOOSE i \in lines : \A j \in lines : j <= i].v

LEMMA SaysNothing ==
    ASSUME NEW f, NEW ctx, NEW key PROVE SaysTo(f, ctx, key, 0) = Unset
<1>1. SetLines(f, ctx, key, 0) = {}
    BY DEF SetLines
<1> QED BY <1>1 DEF SaysTo

LEMMA SaysAll ==
    ASSUME NEW f, NEW ctx, NEW key, DOMAIN f = 1..Len(f)
    PROVE  SaysTo(f, ctx, key, Len(f)) = Says(f, ctx, key)
BY DEF SaysTo, Says, SetLines

LEMMA SaysNew ==
    ASSUME NEW f, NEW ctx, NEW key, NEW n \in Nat \ {0},
           f[n].k = "set", f[n].key = key, InForce(f, n, ctx)
    PROVE  SaysTo(f, ctx, key, n) = f[n].v
<1> DEFINE L == SetLines(f, ctx, key, n)
           m == CHOOSE i \in L : \A j \in L : j <= i
<1>1. n \in L /\ (\A j \in L : j <= n) /\ L \subseteq Nat
    BY DEF SetLines
<1>2. m \in L /\ \A j \in L : j <= m
    <2> HIDE DEF L
    <2> QED BY <1>1
<1>3. m = n
    <2>1. n <= m /\ m <= n /\ m \in Nat
        BY <1>1, <1>2
    <2> HIDE DEF m
    <2> QED BY <2>1
<1>4. SaysTo(f, ctx, key, n) = IF L = {} THEN Unset ELSE f[m].v
    BY DEF SaysTo
<1> HIDE DEF L, m
<1> QED BY <1>1, <1>3, <1>4

LEMMA SaysOld ==
    ASSUME NEW f, NEW ctx, NEW key, NEW n \in Nat \ {0},
           ~(f[n].k = "set" /\ f[n].key = key /\ InForce(f, n, ctx))
    PROVE  SaysTo(f, ctx, key, n) = SaysTo(f, ctx, key, n - 1)
<1>1. \A i \in 1..n : i \in 1..(n - 1) \/ i = n
    OBVIOUS
<1>2. \A i \in 1..(n - 1) : i \in 1..n
    OBVIOUS
<1>3. SetLines(f, ctx, key, n) = SetLines(f, ctx, key, n - 1)
    BY <1>1, <1>2 DEF SetLines
<1> QED BY <1>3 DEF SaysTo

\* What a file says is nothing or what a line of it says.
LEMMA SaysLine ==
    ASSUME NEW f, NEW ctx, NEW key, Len(f) \in Nat, DOMAIN f = 1..Len(f),
           Says(f, ctx, key) # Unset
    PROVE  \E i \in 1..Len(f) : f[i].k = "set" /\ f[i].key = key /\ f[i].v = Says(f, ctx, key)
<1> DEFINE T == {n \in 0..Len(f) :
                   \/ SaysTo(f, ctx, key, n) = Unset
                   \/ \E i \in 1..Len(f) : /\ f[i].k = "set" /\ f[i].key = key
                                           /\ f[i].v = SaysTo(f, ctx, key, n)}
<1>1. 0 \in T
    BY SaysNothing
<1>2. ASSUME NEW n \in 1..Len(f), n - 1 \in T PROVE n \in T
    <2>1. n \in Nat \ {0} /\ n \in 0..Len(f)
        OBVIOUS
    <2>2. CASE f[n].k = "set" /\ f[n].key = key /\ InForce(f, n, ctx)
        <3>1. SaysTo(f, ctx, key, n) = f[n].v
            BY <2>1, <2>2, SaysNew
        <3> QED BY <2>1, <2>2, <3>1
    <2>3. CASE ~(f[n].k = "set" /\ f[n].key = key /\ InForce(f, n, ctx))
        <3>1. SaysTo(f, ctx, key, n) = SaysTo(f, ctx, key, n - 1)
            BY <2>1, <2>3, SaysOld
        <3> QED BY <1>2, <2>1, <3>1
    <2> QED BY <2>2, <2>3
<1>3. Len(f) \in T
    <2> HIDE DEF T
    <2>1. \A n \in 0..Len(f) : n \in T
        BY <1>1, <1>2, RoundByRound
    <2> QED BY <2>1
<1>4. SaysTo(f, ctx, key, Len(f)) = Says(f, ctx, key)
    BY SaysAll
<1> QED BY <1>3, <1>4

-----------------------------------------------------------------------------
(* Reading line by line.                                                   *)

ReadFields == {"config", "active", "ok"}
ReadStart == [config |-> ssh_sshd_config_file_defaults, active |-> TRUE, ok |-> TRUE]

LEMMA ReadingSteps ==
    ASSUME NEW f, NEW ctx, Len(f) \in Nat
    PROVE  /\ Reading(f, ctx)[0] = ReadStart
           /\ \A i \in 1..Len(f) :
                 Reading(f, ctx)[i] = parse_line_inplace(Reading(f, ctx)[i - 1], f[i], ctx)
<1> DEFINE n == Len(f)
           Step(a, i) == parse_line_inplace(a, f[i], ctx)
           To(k, g) == [i \in 0..k |-> IF i = 0 THEN ReadStart ELSE Step(g[i - 1], i)]
           T == {k \in 0..n : \E g : g = To(k, g)}
<1>1. 0 \in T
    <2> DEFINE g == [i \in 0..0 |-> ReadStart]
    <2>1. g = To(0, g)
        OBVIOUS
    <2> HIDE DEF g
    <2>2. \E h : h = To(0, h)
        BY <2>1
    <2>3. 0 \in 0..n
        OBVIOUS
    <2> HIDE DEF To
    <2> QED BY <2>2, <2>3
<1>2. ASSUME NEW k \in 1..n, k - 1 \in T PROVE k \in T
    <2>1. PICK g : g = To(k - 1, g)
        BY <1>2
    <2> DEFINE h == [i \in 0..k |-> IF i = k THEN Step(g[k - 1], k) ELSE g[i]]
    <2> HIDE DEF Step
    <2>2. ASSUME NEW i \in 0..k PROVE h[i] = IF i = 0 THEN ReadStart ELSE Step(h[i - 1], i)
        <3>1. CASE i = k
            <4>1. k # 0 /\ k - 1 \in 0..k /\ k - 1 # k
                OBVIOUS
            <4>2. h[k - 1] = g[k - 1]
                BY <4>1
            <4> QED BY <3>1, <4>1, <4>2
        <3>2. CASE i # k
            <4>1. i \in 0..(k - 1)
                BY <3>2
            <4>2. g[i] = IF i = 0 THEN ReadStart ELSE Step(g[i - 1], i)
                BY <2>1, <4>1
            <4>3. i # 0 => i - 1 \in 0..k /\ i - 1 # k
                BY <4>1
            <4> QED BY <3>2, <4>2, <4>3
        <3> QED BY <3>1, <3>2
    <2>3. h = [i \in 0..k |-> h[i]]
        OBVIOUS
    <2> HIDE DEF h
    <2>4. h = To(k, h)
        BY <2>2, <2>3
    <2>5. k \in 0..n
        OBVIOUS
    <2> QED BY <2>4, <2>5 DEF Step
<1>3. \E g : g = To(n, g)
    <2>1. n \in T
        <3> HIDE DEF T
        <3>1. \A i \in 0..n : i \in T
            BY <1>1, <1>2, RoundByRound
        <3> QED BY <3>1
    <2> QED BY <2>1
<1>4. Reading(f, ctx) = CHOOSE g : g = To(n, g)
    BY DEF Reading, ReadStart
<1> DEFINE g == Reading(f, ctx)
<1>5. g = To(n, g)
    <2> HIDE DEF To
    <2> QED BY <1>3, <1>4
<1> HIDE DEF g, Step
<1>6. g[0] = ReadStart
    BY <1>5
<1>7. \A i \in 1..n : g[i] = Step(g[i - 1], i)
    BY <1>5
<1> QED BY <1>6, <1>7 DEF g, Step

(***************************************************************************)
(* After line i: the next lines count exactly when they are in force, and  *)
(* every directive has the last value in force so far.                     *)
(***************************************************************************)
ReadInv(f, ctx, i, r) ==
    /\ IsRecord(r, ReadFields)
    /\ r.ok => /\ IsRecord(r.config, Keys)
               /\ r.active <=> InForce(f, i + 1, ctx)
               /\ \A key \in Keys \ {"listen", "port"} :
                     r.config[key] = SaysTo(f, ctx, key, i)

LEMMA FailedRecord ==
    ASSUME NEW r, IsRecord(r, ReadFields)
    PROVE  IsRecord(Failed(r), ReadFields) /\ ~Failed(r).ok
BY DEF IsRecord, ReadFields, Failed

LEMMA ActiveRecord ==
    ASSUME NEW r, IsRecord(r, ReadFields), NEW a \in BOOLEAN
    PROVE  LET t == [r EXCEPT !.active = a]
           IN  IsRecord(t, ReadFields) /\ t.config = r.config /\ t.active = a
BY DEF IsRecord, ReadFields

LEMMA ConfigRecord ==
    ASSUME NEW r, IsRecord(r, ReadFields), NEW c
    PROVE  LET t == [r EXCEPT !.config = c]
           IN  IsRecord(t, ReadFields) /\ t.config = c /\ (t.active <=> r.active)
BY DEF IsRecord, ReadFields

\* A directive in force.
LEMMA DirectiveSets ==
    ASSUME NEW r, IsRecord(r, ReadFields), r.ok, IsRecord(r.config, Keys), NEW key, NEW v
    PROVE  LET t == parse_one_directive(r, key, v)
           IN  /\ IsRecord(t, ReadFields)
               /\ t.ok => /\ IsRecord(t.config, Keys) /\ (t.active <=> r.active)
                          /\ \A k \in Keys \ {"listen", "port"} :
                                t.config[k] = IF k = key THEN v ELSE r.config[k]
<1> DEFINE t == parse_one_directive(r, key, v)
<1>1. CASE key \notin Keys
    <2>1. t = r
        BY <1>1 DEF parse_one_directive
    <2> QED BY <1>1, <2>1
<1>2. CASE key \in Keys /\ v = Bad
    <2>1. t = Failed(r)
        BY <1>2 DEF parse_one_directive
    <2> QED BY <2>1, FailedRecord
<1>3. CASE key \in Keys /\ v # Bad /\ key = "listen"
    <2> DEFINE c == parse_listen_address(r.config, v)
    <2>1. t = [r EXCEPT !.config = c]
        BY <1>3 DEF parse_one_directive
    <2>2. IsRecord(c, Keys) /\ \A k \in Keys \ {"listen", "port"} : c[k] = r.config[k]
        BY DEF parse_listen_address, IsRecord, Keys
    <2> HIDE DEF c, t
    <2>3. IsRecord(t, ReadFields) /\ t.config = c /\ (t.active <=> r.active)
        BY <2>1, ConfigRecord
    <2> QED BY <1>3, <2>2, <2>3 DEF t
<1>4. CASE key \in Keys /\ v # Bad /\ key # "listen"
    <2> DEFINE c == [r.config EXCEPT ![key] = v]
    <2>1. t = [r EXCEPT !.config = c]
        BY <1>4 DEF parse_one_directive
    <2>2. IsRecord(c, Keys) /\ \A k \in Keys : c[k] = IF k = key THEN v ELSE r.config[k]
        BY <1>4 DEF IsRecord
    <2> HIDE DEF c, t
    <2>3. IsRecord(t, ReadFields) /\ t.config = c /\ (t.active <=> r.active)
        BY <2>1, ConfigRecord
    <2> QED BY <2>2, <2>3 DEF t
<1> QED BY <1>1, <1>2, <1>3, <1>4

\* One line.
LEMMA LineRead ==
    ASSUME NEW f, NEW ctx, Readable(ctx), NEW i \in Nat \ {0},
           f[i].k \in {"other", "empty", "match", "set"},
           f[i].k = "match" =>
               \A n \in DOMAIN f[i].criteria :
                   f[i].criteria[n].key \in TextCriteria =>
                       \A j \in DOMAIN f[i].criteria[n].list :
                           Len(f[i].criteria[n].list[j].pat) \in Nat,
           NEW r, ReadInv(f, ctx, i - 1, r)
    PROVE  ReadInv(f, ctx, i, parse_line_inplace(r, f[i], ctx))
<1> DEFINE t == parse_line_inplace(r, f[i], ctx)
           W == Keys \ {"listen", "port"}
<1>0. (i - 1) + 1 = i
    OBVIOUS
<1>1. IsRecord(r, ReadFields)
    BY DEF ReadInv
<1>2. CASE ~r.ok
    <2>1. t = r
        BY <1>2 DEF parse_line_inplace
    <2> QED BY <1>1, <1>2, <2>1 DEF ReadInv
<1>3. CASE r.ok
    <2>0. /\ IsRecord(r.config, Keys)
          /\ r.active <=> InForce(f, i, ctx)
          /\ \A key \in W : r.config[key] = SaysTo(f, ctx, key, i - 1)
        BY <1>0, <1>3 DEF ReadInv
    <2>1. CASE f[i].k = "other"
        <3>1. t = r
            BY <1>3, <2>1 DEF parse_line_inplace
        <3>2. InForce(f, i + 1, ctx) <=> InForce(f, i, ctx)
            BY <2>1, OtherInForce
        <3>3. \A key \in W : SaysTo(f, ctx, key, i) = SaysTo(f, ctx, key, i - 1)
            BY <2>1, SaysOld
        <3> QED BY <1>1, <2>0, <3>1, <3>2, <3>3 DEF ReadInv
    <2>2. CASE f[i].k = "empty"
        <3>1. t = Failed(r)
            BY <1>3, <2>2 DEF parse_line_inplace
        <3> QED BY <1>1, <3>1, FailedRecord DEF ReadInv
    <2>3. CASE f[i].k = "match"
        <3>1. t = MatchLine(r, f[i].criteria, ctx)
            BY <1>3, <2>3 DEF parse_line_inplace
        <3>2. CASE \E n \in DOMAIN f[i].criteria : f[i].criteria[n].key \notin Criteria
            <4>1. t = Failed(r)
                BY <3>1, <3>2 DEF MatchLine
            <4> QED BY <1>1, <4>1, FailedRecord DEF ReadInv
        <3>3. CASE \A n \in DOMAIN f[i].criteria : f[i].criteria[n].key \in Criteria
            <4> DEFINE a == evaluate_match_expression(f[i].criteria, ctx)
            <4>1. t = [r EXCEPT !.active = a]
                BY <3>1, <3>3 DEF MatchLine
            <4>2. a <=> \A n \in DOMAIN f[i].criteria : Holds(f[i].criteria[n], ctx)
                BY <2>3, <3>3, ExpressionExact
            <4>3. a <=> InForce(f, i + 1, ctx)
                BY <2>3, <4>2, MatchInForce
            <4>4. a \in BOOLEAN
                BY DEF evaluate_match_expression
            <4> HIDE DEF a, t
            <4>5. IsRecord(t, ReadFields) /\ t.config = r.config /\ t.active = a
                BY <1>1, <4>1, <4>4, ActiveRecord
            <4>6. \A key \in W : SaysTo(f, ctx, key, i) = SaysTo(f, ctx, key, i - 1)
                BY <2>3, SaysOld
            <4>7. t.active <=> InForce(f, i + 1, ctx)
                BY <4>3, <4>5
            <4> QED BY <2>0, <4>5, <4>6, <4>7 DEF ReadInv, t
        <3> QED BY <3>2, <3>3
    <2>4. CASE f[i].k = "set"
        <3>0. InForce(f, i + 1, ctx) <=> InForce(f, i, ctx)
            BY <2>4, OtherInForce
        <3>1. CASE ~r.active
            <4>1. t = r
                BY <1>3, <2>4, <3>1 DEF parse_line_inplace
            <4>2. \A key \in W : SaysTo(f, ctx, key, i) = SaysTo(f, ctx, key, i - 1)
                BY <2>0, <3>1, SaysOld
            <4> QED BY <1>1, <2>0, <3>0, <4>1, <4>2 DEF ReadInv
        <3>2. CASE r.active
            <4>1. t = parse_one_directive(r, f[i].key, f[i].v)
                BY <1>3, <2>4, <3>2 DEF parse_line_inplace
            <4> HIDE DEF t
            <4>2. /\ IsRecord(t, ReadFields)
                  /\ t.ok => /\ IsRecord(t.config, Keys) /\ (t.active <=> r.active)
                             /\ \A k \in W :
                                   t.config[k] = IF k = f[i].key THEN f[i].v ELSE r.config[k]
                BY <1>1, <1>3, <2>0, <4>1, DirectiveSets
            <4>3. ASSUME NEW k \in W, t.ok PROVE t.config[k] = SaysTo(f, ctx, k, i)
                <5>1. CASE k = f[i].key
                    <6>1. SaysTo(f, ctx, k, i) = f[i].v
                        BY <2>0, <2>4, <3>2, <5>1, SaysNew
                    <6> QED BY <4>2, <4>3, <5>1, <6>1
                <5>2. CASE k # f[i].key
                    <6>1. SaysTo(f, ctx, k, i) = SaysTo(f, ctx, k, i - 1)
                        BY <5>2, SaysOld
                    <6> QED BY <2>0, <4>2, <4>3, <5>2, <6>1
                <5> QED BY <5>1, <5>2
            <4> QED BY <2>0, <3>0, <4>2, <4>3 DEF ReadInv, t
        <3> QED BY <3>1, <3>2
    <2> QED BY <2>1, <2>2, <2>3, <2>4
<1> QED BY <1>2, <1>3

\* A file is read as it is written.
LEMMA LoadExact ==
    ASSUME FilesAssumption, NEW f \in Files, NEW ctx, Readable(ctx), Load(f, ctx).ok
    PROVE  \A key \in Keys \ {"listen", "port"} :
               Load(f, ctx).config[key] = Says(f, ctx, key)
<1> DEFINE n == Len(f)
           g == Reading(f, ctx)
           T == {i \in 0..n : ReadInv(f, ctx, i, g[i])}
<1>1. f # Missing
    BY DEF Load
<1>2. n \in Nat /\ DOMAIN f = 1..n
    BY <1>1 DEF FilesAssumption
<1>3. g[0] = ReadStart /\ \A i \in 1..n : g[i] = parse_line_inplace(g[i - 1], f[i], ctx)
    BY <1>2, ReadingSteps
<1> HIDE DEF g
<1>4. 0 \in T
    <2>1. IsRecord(ReadStart, ReadFields) /\ IsRecord(ReadStart.config, Keys) /\ ReadStart.active
        BY DEF IsRecord, ReadFields, ReadStart, ssh_sshd_config_file_defaults
    <2>2. \A key \in Keys : ReadStart.config[key] = Unset
        BY DEF ReadStart, ssh_sshd_config_file_defaults
    <2>3. InForce(f, 0 + 1, ctx)
        <3>1. 0 + 1 = 1
            OBVIOUS
        <3> QED BY <3>1, FirstInForce
    <2>4. \A key \in Keys \ {"listen", "port"} : ReadStart.config[key] = SaysTo(f, ctx, key, 0)
        BY <2>2, SaysNothing
    <2>5. ReadInv(f, ctx, 0, ReadStart)
        BY <2>1, <2>3, <2>4 DEF ReadInv
    <2> QED BY <1>2, <1>3, <2>5
<1>5. ASSUME NEW i \in 1..n, i - 1 \in T PROVE i \in T
    <2>1. i \in Nat \ {0} /\ i \in 0..n
        BY <1>2
    <2>2. f[i].k \in {"other", "empty", "match", "set"}
        BY <1>1 DEF FilesAssumption
    <2>3. f[i].k = "match" =>
            \A m \in DOMAIN f[i].criteria :
                f[i].criteria[m].key \in TextCriteria =>
                    \A j \in DOMAIN f[i].criteria[m].list :
                        Len(f[i].criteria[m].list[j].pat) \in Nat
        BY <1>1 DEF FilesAssumption
    <2>4. ReadInv(f, ctx, i - 1, g[i - 1])
        BY <1>5
    <2>5. ReadInv(f, ctx, i, parse_line_inplace(g[i - 1], f[i], ctx))
        BY <2>1, <2>2, <2>3, <2>4, LineRead
    <2> QED BY <1>3, <2>1, <2>5
<1>6. ReadInv(f, ctx, n, g[n])
    <2>1. n \in T
        <3> HIDE DEF T, n
        <3>1. \A i \in 0..n : i \in T
            BY <1>2, <1>4, <1>5, RoundByRound
        <3> QED BY <1>2, <3>1
    <2> QED BY <2>1
<1>7. Load(f, ctx) = g[n]
    BY <1>1 DEF Load, g
<1>8. \A key \in Keys \ {"listen", "port"} : SaysTo(f, ctx, key, n) = Says(f, ctx, key)
    BY <1>2, SaysAll
<1> QED BY <1>6, <1>7, <1>8 DEF ReadInv

-----------------------------------------------------------------------------
(* The server program.                                                     *)

WorkerFields == {"at", "config", "user", "by"}
ServerFields == {"listen", "tries", "password", "pubkey", "root", "allow", "keysfile"}

Workers(w) == w = [c \in Clients |-> w[c]] /\ \A c \in Clients : IsRecord(w[c], WorkerFields)

(***************************************************************************)
(* A slot is taken from reserving to the end of the thread. The thread is  *)
(* that of a connection the loop has accepted: the loop never starts one   *)
(* for a connection that has one already.                                  *)
(***************************************************************************)
SlotInv ==
    /\ active \in Nat /\ loop \in {"reserve", "accept", "start"}
    /\ client = [c \in Clients |-> client[c]] /\ Workers(worker)
    /\ SlotsExact
    /\ loop = "start" => /\ taken \in Clients /\ client[taken] = "accepted"
                         /\ worker[taken].at = "none"
    /\ \A c \in Clients : client[c] \in {"out", "waiting"} => worker[c].at = "none"

\* The threads of a program that has started have a configuration each, which
\* comes from the one it started with.
PolicyInv ==
    /\ file \in Files
    /\ program = "up" => IsRecord(base, ServerFields)
    /\ loop # "reserve" => program = "up"
    /\ \A c \in Clients : worker[c].at # "none" => program = "up"
    /\ \A c \in Clients : worker[c].at = "session" => IsRecord(worker[c].config, ServerFields)

LEMMA ApplyRecord ==
    ASSUME NEW s, IsRecord(s, ServerFields), NEW c
    PROVE  IsRecord(ssh_sshd_config_file_apply(c, s), ServerFields)
BY DEF IsRecord, ssh_sshd_config_file_apply, ServerFields

LEMMA OverriddenRecord ==
    ASSUME NEW s, IsRecord(s, ServerFields)
    PROVE  IsRecord(Overridden(s), ServerFields)
BY DEF IsRecord, Overridden, ServerFields

LEMMA DefaultsRecord == IsRecord(Defaults, ServerFields)
BY DEF IsRecord, ServerFields, Defaults

LEMMA NoWorkerRecord == IsRecord(NoWorker, WorkerFields) /\ NoWorker.at = "none"
BY DEF IsRecord, WorkerFields, NoWorker

\* What a thread does next.
LEMMA AtRecord ==
    ASSUME NEW w, IsRecord(w, WorkerFields), NEW at
    PROVE  /\ IsRecord([w EXCEPT !.at = at], WorkerFields)
           /\ [w EXCEPT !.at = at].at = at /\ [w EXCEPT !.at = at].config = w.config
BY DEF IsRecord, WorkerFields

\* The threads after that of one connection has changed.
Put(f, c, w) == [f EXCEPT ![c] = w]

LEMMA PutWorker ==
    ASSUME NEW f, Workers(f), NEW c \in Clients, NEW w, IsRecord(w, WorkerFields)
    PROVE  /\ Workers(Put(f, c, w)) /\ Put(f, c, w)[c] = w
           /\ \A d \in Clients : d # c => Put(f, c, w)[d] = f[d]
BY DEF Workers, Put

\* The slots in use, when the thread of one connection changes.
LEMMA RunningChanges ==
    ASSUME IsFiniteSet(Clients), NEW c \in Clients,
           \A d \in Clients : d # c => worker'[d] = worker[d]
    PROVE  /\ Cardinality(Running) \in Nat
           /\ worker[c].at = "none" /\ worker'[c].at # "none" =>
                  Cardinality(Running') = Cardinality(Running) + 1
           /\ worker[c].at # "none" /\ worker'[c].at = "none" =>
                  Cardinality(Running') = Cardinality(Running) - 1
           /\ (worker[c].at = "none") = (worker'[c].at = "none") => Running' = Running
<1>1. Running \subseteq Clients /\ Running' \subseteq Clients
    BY DEF Running
<1>2. IsFiniteSet(Running) /\ IsFiniteSet(Running')
    BY <1>1, FS_Subset
<1>3. Cardinality(Running) \in Nat /\ Cardinality(Running') \in Nat
    BY <1>2, FS_CardinalityType
<1>4. ASSUME worker[c].at = "none", worker'[c].at # "none"
      PROVE  Cardinality(Running') = Cardinality(Running) + 1
    <2>1. Running' = Running \cup {c} /\ c \notin Running
        BY <1>4 DEF Running
    <2> QED BY <1>2, <2>1, FS_AddElement
<1>5. ASSUME worker[c].at # "none", worker'[c].at = "none"
      PROVE  Cardinality(Running') = Cardinality(Running) - 1
    <2>1. Running = Running' \cup {c} /\ c \notin Running'
        BY <1>5 DEF Running
    <2>2. Cardinality(Running) = Cardinality(Running') + 1
        BY <1>2, <2>1, FS_AddElement
    <2> QED BY <1>3, <2>2
<1>6. ASSUME (worker[c].at = "none") = (worker'[c].at = "none") PROVE Running' = Running
    BY <1>6 DEF Running
<1> QED BY <1>3, <1>4, <1>5, <1>6

LEMMA ProgramStarts == ProgramInit => SlotInv /\ PolicyInv
<1>1. SUFFICES ASSUME ProgramInit PROVE SlotInv /\ PolicyInv
    OBVIOUS
<1>2. \A c \in Clients : client[c] = "out" /\ worker[c] = NoWorker
    BY <1>1 DEF ProgramInit
<1>3. \A c \in Clients : worker[c].at = "none" /\ IsRecord(worker[c], WorkerFields)
    BY <1>2, NoWorkerRecord
<1>4. Workers(worker) /\ client = [c \in Clients |-> client[c]]
    BY <1>1, <1>3 DEF ProgramInit, Workers
<1>5. Running = {}
    BY <1>3 DEF Running
<1>6. SlotsExact
    BY <1>1, <1>5, FS_EmptySet DEF SlotsExact, ProgramInit
<1> QED BY <1>1, <1>2, <1>3, <1>4, <1>6 DEF ProgramInit, SlotInv, PolicyInv

\* A step that changes no thread and no connection.
LEMMA SlotsLoop ==
    ASSUME ProgramAssumption, SlotInv, Reserve \/ AcceptFails
    PROVE  SlotInv'
<1>1. worker' = worker /\ client' = client /\ taken' = taken
    BY DEF Reserve, AcceptFails
<1>2. Running' = Running
    BY <1>1 DEF Running
<1>3. Cardinality(Running) \in Nat
    <2>1. Running \subseteq Clients
        BY DEF Running
    <2> QED BY <2>1, FS_Subset, FS_CardinalityType DEF ProgramAssumption
<1>4. active \in Nat /\ active = Cardinality(Running) + (IF loop = "reserve" THEN 0 ELSE 1)
    BY DEF SlotInv, SlotsExact
<1>5. /\ active' \in Nat /\ loop' \in {"reserve", "accept"}
      /\ active' = Cardinality(Running) + (IF loop' = "reserve" THEN 0 ELSE 1)
    BY <1>3, <1>4 DEF Reserve, AcceptFails, Released
<1>6. SlotsExact'
    BY <1>2, <1>5 DEF SlotsExact
<1>7. client' = [c \in Clients |-> client'[c]] /\ Workers(worker')
    BY <1>1 DEF SlotInv
<1>8. \A c \in Clients : client'[c] \in {"out", "waiting"} => worker'[c].at = "none"
    BY <1>1 DEF SlotInv
<1> QED BY <1>5, <1>6, <1>7, <1>8 DEF SlotInv

\* A connection comes in or is accepted.
LEMMA SlotsClient ==
    ASSUME SlotInv, NEW c \in Clients, Accept(c) \/ Connect(c)
    PROVE  SlotInv'
<1>1. worker' = worker /\ active' = active
    BY DEF Accept, Connect
<1>2. Running' = Running
    BY <1>1 DEF Running
<1>3. /\ client' = [d \in Clients |-> client'[d]]
      /\ \A d \in Clients : d # c => client'[d] = client[d]
    BY DEF Accept, Connect, SlotInv
<1>4. worker[c].at = "none" /\ client'[c] \in {"accepted", "waiting"}
    BY DEF Accept, Connect, SlotInv
<1>5. SlotsExact' /\ loop' \in {"reserve", "accept", "start"}
    BY <1>1, <1>2 DEF SlotInv, SlotsExact, Accept, Connect
<1>6. loop' = "start" => /\ taken' \in Clients /\ client'[taken'] = "accepted"
                         /\ worker'[taken'].at = "none"
    <2>1. CASE Accept(c)
        <3>1. taken' = c /\ client'[c] = "accepted"
            BY <2>1 DEF Accept, SlotInv
        <3> QED BY <1>1, <1>4, <3>1
    <2>2. CASE Connect(c)
        <3>1. taken' = taken /\ loop' = loop /\ client[c] = "out"
            BY <2>2 DEF Connect
        <3>2. ASSUME loop = "start"
              PROVE  taken \in Clients /\ client[taken] = "accepted" /\ worker[taken].at = "none"
            BY <3>2 DEF SlotInv
        <3>3. ASSUME loop = "start" PROVE taken # c
            BY <3>1, <3>2, <3>3
        <3> QED BY <1>1, <1>3, <3>1, <3>2, <3>3
    <2> QED BY <2>1, <2>2
<1>7. \A d \in Clients : client'[d] \in {"out", "waiting"} => worker'[d].at = "none"
    BY <1>1, <1>3, <1>4 DEF SlotInv
<1> QED BY <1>1, <1>3, <1>5, <1>6, <1>7 DEF SlotInv

\* The loop starts the thread, or closes the connection.
LEMMA SlotsStart ==
    ASSUME ProgramAssumption, SlotInv, StartWorker
    PROVE  SlotInv'
<1>1. /\ taken \in Clients /\ client[taken] = "accepted" /\ worker[taken].at = "none"
      /\ Workers(worker) /\ IsRecord(worker[taken], WorkerFields)
    BY DEF SlotInv, StartWorker, Workers
<1> DEFINE w == [worker[taken] EXCEPT !.at = "start"]
<1>2. IsRecord(w, WorkerFields) /\ w.at = "start"
    BY <1>1, AtRecord
<1>3. worker' = Put(worker, taken, w)
    BY DEF StartWorker, Put
<1> HIDE DEF w
<1>4. /\ Workers(worker') /\ worker'[taken] = w
      /\ \A d \in Clients : d # taken => worker'[d] = worker[d]
    BY <1>1, <1>2, <1>3, PutWorker
<1>5. /\ Cardinality(Running) \in Nat
      /\ Cardinality(Running') = Cardinality(Running) + 1
    BY <1>1, <1>2, <1>4, RunningChanges DEF ProgramAssumption
<1>6. active = Cardinality(Running) + 1 /\ active \in Nat
    BY DEF SlotInv, SlotsExact, StartWorker
<1>7. loop' = "reserve" /\ active' = active /\ client' = client
    BY DEF StartWorker
<1>8. SlotsExact'
    BY <1>5, <1>6, <1>7 DEF SlotsExact
<1>9. \A d \in Clients : client'[d] \in {"out", "waiting"} => worker'[d].at = "none"
    BY <1>1, <1>4, <1>7 DEF SlotInv
<1>10. client' = [c \in Clients |-> client'[c]]
    BY <1>7 DEF SlotInv
<1> QED BY <1>4, <1>6, <1>7, <1>8, <1>9, <1>10 DEF SlotInv

LEMMA SlotsNoStart ==
    ASSUME ProgramAssumption, SlotInv, StartWorkerFails
    PROVE  SlotInv'
<1>1. taken \in Clients /\ Workers(worker)
    BY DEF SlotInv, StartWorkerFails
<1>2. worker' = worker /\ loop' = "reserve"
    BY DEF StartWorkerFails
<1>3. Running' = Running /\ Running \subseteq Clients
    BY <1>2 DEF Running
<1>4. Cardinality(Running) \in Nat
    BY <1>3, FS_Subset, FS_CardinalityType DEF ProgramAssumption
<1>5. active = Cardinality(Running) + 1 /\ active' = Released
    BY DEF SlotInv, SlotsExact, StartWorkerFails
<1>6. active' = Cardinality(Running) /\ active' \in Nat
    BY <1>4, <1>5 DEF Released
<1>7. SlotsExact'
    BY <1>2, <1>3, <1>4, <1>6 DEF SlotsExact
<1>8. /\ client' = [d \in Clients |-> client'[d]] /\ client'[taken] = "gone"
      /\ \A d \in Clients : d # taken => client'[d] = client[d]
    BY <1>1 DEF StartWorkerFails, SlotInv
<1>9. \A d \in Clients : client'[d] \in {"out", "waiting"} => worker'[d].at = "none"
    BY <1>2, <1>8 DEF SlotInv
<1> QED BY <1>1, <1>2, <1>6, <1>7, <1>8, <1>9 DEF SlotInv

\* A thread goes on.
LEMMA SlotsGoOn ==
    ASSUME ProgramAssumption, SlotInv, NEW c \in Clients, NEW w,
           IsRecord(w, WorkerFields), w.at # "none", worker[c].at # "none",
           worker' = Put(worker, c, w), UNCHANGED <<loop, taken, active, client>>
    PROVE  SlotInv'
<1>1. /\ Workers(worker') /\ worker'[c] = w
      /\ \A d \in Clients : d # c => worker'[d] = worker[d]
    BY PutWorker DEF SlotInv
<1>2. Running' = Running
    <2>1. (worker[c].at = "none") = (worker'[c].at = "none")
        BY <1>1
    <2> QED BY <1>1, <2>1, RunningChanges DEF ProgramAssumption
<1>3. SlotsExact' /\ active' \in Nat /\ loop' \in {"reserve", "accept", "start"}
      /\ client' = [d \in Clients |-> client'[d]]
    BY <1>2 DEF SlotInv, SlotsExact
<1>4. ASSUME loop' = "start"
      PROVE  taken' \in Clients /\ client'[taken'] = "accepted" /\ worker'[taken'].at = "none"
    <2>1. taken \in Clients /\ client[taken] = "accepted" /\ worker[taken].at = "none"
        BY <1>4 DEF SlotInv
    <2>2. taken # c
        BY <2>1
    <2> QED BY <1>1, <2>1, <2>2
<1>5. \A d \in Clients : client'[d] \in {"out", "waiting"} => worker'[d].at = "none"
    BY <1>1 DEF SlotInv
<1> QED BY <1>1, <1>3, <1>4, <1>5 DEF SlotInv

\* A thread ends.
LEMMA SlotsEnd ==
    ASSUME ProgramAssumption, SlotInv, NEW c \in Clients, WorkerEnds(c)
    PROVE  SlotInv'
<1>1. worker' = Put(worker, c, NoWorker) /\ Workers(worker) /\ worker[c].at # "none"
    BY DEF WorkerEnds, Put, SlotInv
<1>2. /\ Workers(worker') /\ worker'[c].at = "none"
      /\ \A d \in Clients : d # c => worker'[d] = worker[d]
    BY <1>1, NoWorkerRecord, PutWorker
<1>3. /\ Cardinality(Running) \in Nat
      /\ Cardinality(Running') = Cardinality(Running) - 1
    BY <1>1, <1>2, RunningChanges DEF ProgramAssumption
<1>4. Cardinality(Running') \in Nat
    <2>1. Running' \subseteq Clients
        BY DEF Running
    <2> QED BY <2>1, FS_Subset, FS_CardinalityType DEF ProgramAssumption
<1>5. /\ active = Cardinality(Running) + (IF loop = "reserve" THEN 0 ELSE 1)
      /\ active' = Released /\ loop' = loop /\ taken' = taken /\ active \in Nat
      /\ loop \in {"reserve", "accept", "start"}
    BY DEF SlotInv, SlotsExact, WorkerEnds
<1>6. /\ active' = Cardinality(Running') + (IF loop = "reserve" THEN 0 ELSE 1)
      /\ active' \in Nat
    BY <1>3, <1>4, <1>5 DEF Released
<1>7. SlotsExact'
    BY <1>5, <1>6 DEF SlotsExact
<1>8. /\ client' = [d \in Clients |-> client'[d]]
      /\ \A d \in Clients : d # c => client'[d] = client[d]
    BY DEF WorkerEnds, SlotInv
<1>9. ASSUME loop' = "start"
      PROVE  taken' \in Clients /\ client'[taken'] = "accepted" /\ worker'[taken'].at = "none"
    <2>1. taken \in Clients /\ client[taken] = "accepted" /\ worker[taken].at = "none"
        BY <1>5, <1>9 DEF SlotInv
    <2>2. taken # c
        BY <1>1, <2>1
    <2> QED BY <1>2, <1>5, <1>8, <2>1, <2>2
<1>10. \A d \in Clients : client'[d] \in {"out", "waiting"} => worker'[d].at = "none"
    BY <1>2, <1>8 DEF SlotInv
<1> QED BY <1>2, <1>5, <1>6, <1>7, <1>8, <1>9, <1>10 DEF SlotInv

LEMMA SlotsNext ==
    ASSUME ProgramAssumption, SlotInv, [ProgramNext]_programVars
    PROVE  SlotInv'
<1>0. \A c \in Clients : IsRecord(worker[c], WorkerFields)
    BY DEF SlotInv, Workers
<1>1. CASE Reserve \/ AcceptFails
    BY <1>1, SlotsLoop
<1>2. CASE StartWorker
    BY <1>2, SlotsStart
<1>3. CASE StartWorkerFails
    BY <1>3, SlotsNoStart
<1>4. CASE \/ StartProgram \/ Edit \/ UNCHANGED programVars
    <2>1. UNCHANGED <<loop, taken, active, client, worker>>
        BY <1>4 DEF StartProgram, Edit, programVars
    <2> QED BY <2>1 DEF SlotInv, SlotsExact, Running, Workers
<1>5. ASSUME NEW c \in Clients, Accept(c) \/ Connect(c) PROVE SlotInv'
    BY <1>5, SlotsClient
<1>6. ASSUME NEW c \in Clients, RunSession(c) PROVE SlotInv'
    <2> DEFINE r == Load(file, Context(<< >>))
               v == Overridden(ssh_sshd_config_file_apply(r.config, base))
    <2>1. \/ worker' = Put(worker, c, [worker[c] EXCEPT !.at = "session", !.config = v])
          \/ worker' = Put(worker, c, [worker[c] EXCEPT !.at = "end"])
        BY <1>6 DEF RunSession, Put
    <2>2. worker[c].at # "none" /\ UNCHANGED <<loop, taken, active, client>>
        BY <1>6 DEF RunSession
    <2> HIDE DEF v
    <2>3. LET w == [worker[c] EXCEPT !.at = "session", !.config = v]
          IN  IsRecord(w, WorkerFields) /\ w.at # "none"
        <3>1. IsRecord(worker[c], WorkerFields)
            BY <1>0
        <3> QED BY <3>1 DEF IsRecord, WorkerFields
    <2>4. LET w == [worker[c] EXCEPT !.at = "end"]
          IN  IsRecord(w, WorkerFields) /\ w.at # "none"
        BY <1>0, AtRecord
    <2>5. PICK w : worker' = Put(worker, c, w) /\ IsRecord(w, WorkerFields) /\ w.at # "none"
        BY <2>1, <2>3, <2>4
    <2> QED BY <2>2, <2>5, SlotsGoOn
<1>7. ASSUME NEW c \in Clients, EndSession(c) PROVE SlotInv'
    <2> DEFINE w == [worker[c] EXCEPT !.at = "end"]
    <2>1. worker' = Put(worker, c, w)
        BY <1>7 DEF EndSession, Put
    <2>2. worker[c].at # "none" /\ UNCHANGED <<loop, taken, active, client>>
        BY <1>7 DEF EndSession
    <2>3. IsRecord(w, WorkerFields) /\ w.at # "none"
        BY <1>0, AtRecord
    <2> HIDE DEF w
    <2> QED BY <2>1, <2>2, <2>3, SlotsGoOn
<1>8. ASSUME NEW c \in Clients, NEW name, NEW shown, LogIn(c, name, shown) PROVE SlotInv'
    <2> DEFINE w == [worker[c] EXCEPT !.user = name, !.by = shown]
    <2>1. worker' = Put(worker, c, w)
        BY <1>8 DEF LogIn, Put
    <2>2. worker[c].at = "session" /\ UNCHANGED <<loop, taken, active, client>>
        BY <1>8 DEF LogIn
    <2>3. IsRecord(w, WorkerFields) /\ w.at = worker[c].at
        <3>1. IsRecord(worker[c], WorkerFields)
            BY <1>0
        <3> QED BY <3>1 DEF IsRecord, WorkerFields
    <2> HIDE DEF w
    <2> QED BY <2>1, <2>2, <2>3, SlotsGoOn
<1>9. ASSUME NEW c \in Clients, WorkerEnds(c) PROVE SlotInv'
    BY <1>9, SlotsEnd
<1> QED BY <1>1, <1>2, <1>3, <1>4, <1>5, <1>6, <1>7, <1>8, <1>9 DEF ProgramNext

\* The pool counts its slots exactly.
THEOREM SlotsExactSafe == ProgramSpec => []SlotsExact
<1>1. ProgramInit => SlotInv
    BY ProgramStarts
<1>2. SlotInv /\ [ProgramNext]_programVars => SlotInv'
    BY ProgramAssumption, SlotsNext
<1>3. SlotInv => SlotsExact
    BY DEF SlotInv
<1> QED BY <1>1, <1>2, <1>3, PTL DEF ProgramSpec

\* A thread goes on, with a configuration as long as its session lasts.
LEMMA PolicyGoesOn ==
    ASSUME SlotInv, PolicyInv, NEW c \in Clients, NEW w,
           IsRecord(w, WorkerFields), worker' = Put(worker, c, w), program = "up",
           w.at = "session" => IsRecord(w.config, ServerFields),
           UNCHANGED <<file, program, base>>
    PROVE  PolicyInv'
<1>1. /\ worker'[c] = w
      /\ \A d \in Clients : d # c => worker'[d] = worker[d]
    BY PutWorker DEF SlotInv
<1>2. \A d \in Clients : worker'[d].at = "session" => IsRecord(worker'[d].config, ServerFields)
    BY <1>1 DEF PolicyInv
<1>3. program' = "up" /\ file' \in Files /\ IsRecord(base', ServerFields)
    BY DEF PolicyInv
<1> QED BY <1>2, <1>3 DEF PolicyInv

LEMMA PolicyNext ==
    ASSUME SlotInv, PolicyInv, [ProgramNext]_programVars
    PROVE  PolicyInv'
<1>0. \A c \in Clients : IsRecord(worker[c], WorkerFields)
    BY DEF SlotInv, Workers
<1>1. CASE StartProgram
    <2>1. /\ program = "off" /\ loop' = loop /\ worker' = worker /\ file' = file
          /\ loop = "reserve" /\ \A c \in Clients : worker[c].at = "none"
        BY <1>1 DEF StartProgram, PolicyInv
    <2>2. program' = "up" => base' = Template(Load(file, NoContext).config)
        BY <1>1 DEF StartProgram
    <2>3. program' = "up" => IsRecord(base', ServerFields)
        BY <2>2, DefaultsRecord, ApplyRecord, OverriddenRecord DEF Template
    <2> QED BY <2>1, <2>3 DEF PolicyInv
<1>2. CASE StartWorker
    <2> DEFINE w == [worker[taken] EXCEPT !.at = "start"]
    <2>1. taken \in Clients /\ worker' = Put(worker, taken, w) /\ program = "up"
        BY <1>2 DEF StartWorker, Put, SlotInv, PolicyInv
    <2>2. IsRecord(w, WorkerFields) /\ w.at # "session"
        BY <1>0, <2>1, AtRecord
    <2>3. UNCHANGED <<file, program, base>>
        BY <1>2 DEF StartWorker
    <2> HIDE DEF w
    <2> QED BY <2>1, <2>2, <2>3, PolicyGoesOn
<1>3. CASE Reserve \/ AcceptFails \/ StartWorkerFails \/ UNCHANGED programVars
    <2>1. /\ UNCHANGED <<file, program, base, worker>>
          /\ loop' # "reserve" => program = "up"
        BY <1>3 DEF Reserve, AcceptFails, StartWorkerFails, programVars, PolicyInv
    <2> QED BY <2>1 DEF PolicyInv
<1>4. CASE Edit
    <2>1. file' \in Files /\ UNCHANGED <<program, base, loop, worker>>
        BY <1>4 DEF Edit
    <2> QED BY <2>1 DEF PolicyInv
<1>5. ASSUME NEW c \in Clients, Accept(c) \/ Connect(c) PROVE PolicyInv'
    <2>1. /\ UNCHANGED <<file, program, base, worker>>
          /\ loop' # "reserve" => program = "up"
        BY <1>5 DEF Accept, Connect, PolicyInv
    <2> QED BY <2>1 DEF PolicyInv
<1>6. ASSUME NEW c \in Clients, RunSession(c) PROVE PolicyInv'
    <2> DEFINE r == Load(file, Context(<< >>))
               v == Overridden(ssh_sshd_config_file_apply(r.config, base))
    <2>1. \/ worker' = Put(worker, c, [worker[c] EXCEPT !.at = "session", !.config = v])
          \/ worker' = Put(worker, c, [worker[c] EXCEPT !.at = "end"])
        BY <1>6 DEF RunSession, Put
    <2>2. program = "up" /\ UNCHANGED <<file, program, base>>
        BY <1>6 DEF RunSession, PolicyInv
    <2>3. IsRecord(v, ServerFields)
        BY <2>2, ApplyRecord, OverriddenRecord DEF PolicyInv
    <2> HIDE DEF v
    <2>4. IsRecord(worker[c], WorkerFields)
        BY <1>0
    <2>5. LET w == [worker[c] EXCEPT !.at = "session", !.config = v]
          IN  IsRecord(w, WorkerFields) /\ w.config = v
        BY <2>4 DEF IsRecord, WorkerFields
    <2>6. LET w == [worker[c] EXCEPT !.at = "end"]
          IN  IsRecord(w, WorkerFields) /\ w.at # "session"
        BY <2>4, AtRecord
    <2>7. PICK w : /\ worker' = Put(worker, c, w) /\ IsRecord(w, WorkerFields)
                   /\ w.at = "session" => IsRecord(w.config, ServerFields)
        BY <2>1, <2>3, <2>5, <2>6
    <2> QED BY <2>2, <2>7, PolicyGoesOn
<1>7. ASSUME NEW c \in Clients, EndSession(c) PROVE PolicyInv'
    <2> DEFINE w == [worker[c] EXCEPT !.at = "end"]
    <2>1. worker' = Put(worker, c, w)
        BY <1>7 DEF EndSession, Put
    <2>2. program = "up" /\ UNCHANGED <<file, program, base>>
        BY <1>7 DEF EndSession, PolicyInv
    <2>3. IsRecord(w, WorkerFields) /\ w.at # "session"
        BY <1>0, AtRecord
    <2> HIDE DEF w
    <2> QED BY <2>1, <2>2, <2>3, PolicyGoesOn
<1>8. ASSUME NEW c \in Clients, NEW name, NEW shown, LogIn(c, name, shown) PROVE PolicyInv'
    <2> DEFINE w == [worker[c] EXCEPT !.user = name, !.by = shown]
    <2>1. worker' = Put(worker, c, w)
        BY <1>8 DEF LogIn, Put
    <2>2. /\ program = "up" /\ UNCHANGED <<file, program, base>>
          /\ IsRecord(worker[c].config, ServerFields)
        BY <1>8 DEF LogIn, PolicyInv
    <2>3. IsRecord(w, WorkerFields) /\ w.config = worker[c].config
        <3>1. IsRecord(worker[c], WorkerFields)
            BY <1>0
        <3> QED BY <3>1 DEF IsRecord, WorkerFields
    <2> HIDE DEF w
    <2> QED BY <2>1, <2>2, <2>3, PolicyGoesOn
<1>9. ASSUME NEW c \in Clients, WorkerEnds(c) PROVE PolicyInv'
    <2>1. worker' = Put(worker, c, NoWorker)
        BY <1>9 DEF WorkerEnds, Put
    <2>2. program = "up" /\ UNCHANGED <<file, program, base>>
        BY <1>9 DEF WorkerEnds, PolicyInv
    <2>3. IsRecord(NoWorker, WorkerFields) /\ NoWorker.at # "session"
        BY NoWorkerRecord
    <2> QED BY <2>1, <2>2, <2>3, PolicyGoesOn
<1> QED BY <1>1, <1>2, <1>3, <1>4, <1>5, <1>6, <1>7, <1>8, <1>9 DEF ProgramNext

LEMMA ProgramInvs == ProgramSpec => [](SlotInv /\ PolicyInv)
<1>1. ProgramInit => SlotInv /\ PolicyInv
    BY ProgramStarts
<1>2. SlotInv /\ PolicyInv /\ [ProgramNext]_programVars => SlotInv' /\ PolicyInv'
    BY ProgramAssumption, SlotsNext, PolicyNext
<1> QED BY <1>1, <1>2, PTL DEF ProgramSpec

\* Every name a policy is read for.
LEMMA ContextReadable ==
    ASSUME ProgramAssumption, NEW name \in {Text(n) : n \in Names} \cup {<< >>}, Plain(name)
    PROVE  Readable(NoContext) /\ Readable(Context(name))
<1>1. Len(<< >>) = 0 /\ Plain(<< >>)
    BY DEF Plain
<1>2. Len(name) \in Nat
    BY <1>1 DEF ProgramAssumption
<1>3. \A k \in TextCriteria : NoContext[k] = << >>
    BY DEF NoContext, TextCriteria
<1>4. \A k \in TextCriteria : Context(name)[k] \in {name, << >>, Address, LocalAddress}
    BY DEF Context, TextCriteria
<1>5. /\ Len(Address) \in Nat /\ Plain(Address)
      /\ Len(LocalAddress) \in Nat /\ Plain(LocalAddress)
    BY DEF ProgramAssumption
<1>6. Readable(NoContext)
    BY <1>1, <1>3 DEF Readable
<1>7. Readable(Context(name))
    BY <1>1, <1>2, <1>4, <1>5 DEF Readable
<1> QED BY <1>6, <1>7

\* The file is read as it is written, whatever the administrator makes of it.
THEOREM ReadAsWrittenSafe == ProgramSpec => []ReadAsWritten
<1>1. PolicyInv => ReadAsWritten
    <2>1. SUFFICES ASSUME PolicyInv,
                          NEW name \in {Text(n) : n \in Names} \cup {<< >>}, Plain(name),
                          NEW ctx \in {NoContext, Context(name)}, Load(file, ctx).ok,
                          NEW key \in Keys \ {"listen", "port"}
                   PROVE  Load(file, ctx).config[key] = Says(file, ctx, key)
        BY DEF ReadAsWritten
    <2>2. Readable(ctx)
        BY ContextReadable, ProgramAssumption, <2>1
    <2>3. file \in Files
        BY <2>1 DEF PolicyInv
    <2> QED BY <2>1, <2>2, <2>3, FilesAssumption, LoadExact
<1> QED BY <1>1, ProgramInvs, PTL

-----------------------------------------------------------------------------
(* Who logs in.                                                            *)

\* What the configuration of a user's attempt keeps of the file.
LEMMA PolicyKeeps ==
    ASSUME NEW s, IsRecord(s, ServerFields), NEW c
    PROVE  LET t == Overridden(ssh_sshd_config_file_apply(c, s))
           IN  /\ t.root = Over(CliRoot, Over(c.root, s.root))
               /\ t.allow = Over(c.allow, s.allow)
               /\ t.keysfile = Over(c.keysfile, s.keysfile)
               /\ t.pubkey => c.pubkey # "no"
               /\ t.password => \/ CliPassword = Unset /\ c.password # "no"
                                \/ CliPassword = "yes"
<1> DEFINE a == ssh_sshd_config_file_apply(c, s)
<1>1. /\ a.root = Over(c.root, s.root) /\ a.allow = Over(c.allow, s.allow)
      /\ a.keysfile = Over(c.keysfile, s.keysfile)
    BY DEF IsRecord, ServerFields, ssh_sshd_config_file_apply
<1>2. (a.password => c.password # "no") /\ (a.pubkey => c.pubkey # "no")
    BY DEF IsRecord, ServerFields, ssh_sshd_config_file_apply
<1>3. IsRecord(a, ServerFields)
    BY ApplyRecord
<1> HIDE DEF a
<1> DEFINE t == Overridden(a)
<1>4. t.root = Over(CliRoot, a.root) /\ t.allow = a.allow /\ t.keysfile = a.keysfile
    BY <1>3 DEF IsRecord, ServerFields, Overridden
<1>5. t.pubkey => a.pubkey
    BY <1>3 DEF IsRecord, ServerFields, Overridden
<1>6. t.password => (CliPassword = Unset /\ a.password) \/ CliPassword = "yes"
    BY <1>3 DEF IsRecord, ServerFields, Overridden
<1> HIDE DEF t
<1> QED BY <1>1, <1>2, <1>4, <1>5, <1>6 DEF t, a

LEMMA LoggedInAsWritten ==
    ASSUME ProgramAssumption, FilesAssumption, SlotInv, PolicyInv,
           NEW c \in Clients, NEW name \in Names, NEW shown \in Proofs,
           LogIn(c, name, shown), Ordinary(name)
    PROVE  WrittenPermits(name, shown, worker[c].config.root)
<1> DEFINE ctx == Context(name)
           r == Load(file, ctx)
           s == worker[c].config
           t == Overridden(ssh_sshd_config_file_apply(r.config, s))
           Now(key) == Says(file, ctx, key)
<1>0. Text(name) = name /\ Plain(name) /\ name \in {Text(n) : n \in Names}
    BY DEF Ordinary
<1>1. /\ r.ok /\ Permits(t, name, shown.method)
      /\ shown.method = "publickey" => AuthorizedBy(KeysFileOf(t), name, shown.key)
    BY <1>0 DEF LogIn, Admits, PolicyFor
<1>2. IsRecord(s, ServerFields) /\ file \in Files
    BY DEF LogIn, PolicyInv
<1>3. Readable(ctx)
    BY <1>0, ContextReadable
<1>4. \A key \in Keys \ {"listen", "port"} : r.config[key] = Now(key)
    BY <1>1, <1>2, <1>3, LoadExact
<1>5. /\ r.config.password = Now("password") /\ r.config.pubkey = Now("pubkey")
      /\ r.config.root = Now("root") /\ r.config.allow = Now("allow")
      /\ r.config.keysfile = Now("keysfile")
    BY <1>4 DEF Keys
<1> HIDE DEF r, s
<1>6. /\ t.root = Over(CliRoot, Over(Now("root"), s.root))
      /\ t.allow = Over(Now("allow"), s.allow)
      /\ t.keysfile = Over(Now("keysfile"), s.keysfile)
      /\ t.pubkey => Now("pubkey") # "no"
      /\ t.password => \/ CliPassword = Unset /\ Now("password") # "no"
                       \/ CliPassword = "yes"
    BY <1>2, <1>5, PolicyKeeps
<1> HIDE DEF t, Now
<1>7. /\ Offered(t, shown.method) /\ UserAllowed(t.allow, name)
      /\ RootAllows(t.root, name, shown.method)
    BY <1>1 DEF Permits
<1>8. Now(IF shown.method = "password" THEN "password" ELSE "pubkey") = "no"
         => shown.method = "password" /\ CliPassword = "yes"
    <2>1. CASE shown.method = "password"
        BY <1>6, <1>7, <2>1 DEF Offered
    <2>2. CASE shown.method # "password"
        BY <1>6, <1>7, <2>2 DEF Offered
    <2> QED BY <2>1, <2>2
<1>9. ASSUME Now("allow") # Unset
      PROVE  \E i \in DOMAIN Now("allow") :
                 UserPart(Now("allow")[i]) # << >> /\ Like(UserPart(Now("allow")[i]), name)
    <2>1. t.allow = Now("allow")
        BY <1>6, <1>9 DEF Over
    <2>2. PICK i \in DOMAIN Now("allow") :
              /\ UserPart(Now("allow")[i]) # << >>
              /\ pattern_matches_wildcards(UserPart(Now("allow")[i]), name)
        BY <1>7, <1>9, <2>1 DEF UserAllowed
    <2>3. file # Missing
        BY <1>1 DEF Load, r
    <2>4. Len(file) \in Nat /\ DOMAIN file = 1..Len(file)
        BY <1>2, <2>3 DEF FilesAssumption
    <2>5. PICK j \in 1..Len(file) :
              file[j].k = "set" /\ file[j].key = "allow" /\ file[j].v = Now("allow")
        BY <1>9, <2>4, SaysLine DEF Now
    <2>6. Len(UserPart(Now("allow")[i])) \in Nat
        BY <1>2, <2>2, <2>3, <2>5 DEF FilesAssumption, UserPart
    <2>7. Len(name) \in Nat
        BY DEF ProgramAssumption
    <2>8. Like(UserPart(Now("allow")[i]), name)
        BY <1>0, <2>2, <2>6, <2>7, WildcardsExact
    <2> QED BY <2>2, <2>8
<1>10. name = RootName => /\ t.root # "no"
                          /\ shown.method = "password" => t.root = "yes"
    BY <1>7 DEF RootAllows
<1>11. ASSUME shown.method = "publickey", Now("keysfile") # Unset
       PROVE  \E token \in Range(Now("keysfile")) :
                 /\ Expanded(token, name) \in DOMAIN KeyFiles
                 /\ \E line \in Range(KeyFiles[Expanded(token, name)]) :
                        LineHolds(line, shown.key)
    <2>1. KeysFileOf(t) = Now("keysfile")
        BY <1>6, <1>11 DEF KeysFileOf, Over
    <2>2. PICK i \in DOMAIN Now("keysfile") :
              ContainsKey(Expanded(Now("keysfile")[i], name), shown.key)
        BY <1>1, <1>11, <2>1 DEF AuthorizedBy
    <2> DEFINE path == Expanded(Now("keysfile")[i], name)
    <2>3. path \in DOMAIN KeyFiles
        BY <2>2 DEF ContainsKey
    <2>4. PICK j \in DOMAIN KeyFiles[path] : LineHolds(KeyFiles[path][j], shown.key)
        BY <2>2 DEF ContainsKey
    <2>5. KeyFiles[path][j] \in Range(KeyFiles[path])
        BY <2>4 DEF Range
    <2>6. Now("keysfile")[i] \in Range(Now("keysfile"))
        BY <2>2 DEF Range
    <2> QED BY <2>3, <2>4, <2>5, <2>6
<1> QED BY <1>6, <1>8, <1>9, <1>10, <1>11 DEF WrittenPermits, Now, s

\* A step that is not a login gives no thread a user.
LEMMA OnlyLogIn ==
    ASSUME SlotInv, NEW c \in Clients, [ProgramNext]_programVars,
           worker[c].user = << >>, worker'[c].user # << >>
    PROVE  \E name \in Names, shown \in Proofs :
               /\ LogIn(c, name, shown)
               /\ worker'[c].user = name /\ worker'[c].by = shown
<1>0. Workers(worker) /\ IsRecord(worker[c], WorkerFields)
    BY DEF SlotInv, Workers
<1>1. worker' # worker
    OBVIOUS
<1>2. ASSUME NEW d \in Clients, NEW w, worker' = Put(worker, d, w), IsRecord(w, WorkerFields),
             w.user = worker[d].user \/ w.user = << >>
      PROVE  FALSE
    <2>1. worker'[d] = w /\ (c # d => worker'[c] = worker[c])
        BY <1>0, <1>2, PutWorker
    <2> QED BY <1>2, <2>1
<1>3. \A d \in Clients : IsRecord(worker[d], WorkerFields)
    BY DEF SlotInv, Workers
<1>4. ASSUME StartWorker PROVE FALSE
    <2> DEFINE w == [worker[taken] EXCEPT !.at = "start"]
    <2>1. taken \in Clients /\ worker' = Put(worker, taken, w)
        BY <1>4 DEF StartWorker, Put, SlotInv
    <2>2. IsRecord(worker[taken], WorkerFields)
        BY <1>3, <2>1
    <2>3. IsRecord(w, WorkerFields) /\ w.user = worker[taken].user
        BY <2>2 DEF IsRecord, WorkerFields
    <2> HIDE DEF w
    <2> QED BY <1>2, <2>1, <2>3
<1>5. ASSUME NEW d \in Clients, RunSession(d) PROVE FALSE
    <2> DEFINE r == Load(file, Context(<< >>))
               v == Overridden(ssh_sshd_config_file_apply(r.config, base))
    <2>1. \/ worker' = Put(worker, d, [worker[d] EXCEPT !.at = "session", !.config = v])
          \/ worker' = Put(worker, d, [worker[d] EXCEPT !.at = "end"])
        BY <1>5 DEF RunSession, Put
    <2> HIDE DEF v
    <2>2. IsRecord(worker[d], WorkerFields)
        BY <1>3
    <2>3. LET w == [worker[d] EXCEPT !.at = "session", !.config = v]
          IN  IsRecord(w, WorkerFields) /\ w.user = worker[d].user
        BY <2>2 DEF IsRecord, WorkerFields
    <2>4. LET w == [worker[d] EXCEPT !.at = "end"]
          IN  IsRecord(w, WorkerFields) /\ w.user = worker[d].user
        BY <2>2 DEF IsRecord, WorkerFields
    <2>5. PICK w : worker' = Put(worker, d, w) /\ IsRecord(w, WorkerFields)
                   /\ w.user = worker[d].user
        BY <2>1, <2>3, <2>4
    <2> QED BY <1>2, <2>5
<1>6. ASSUME NEW d \in Clients, EndSession(d) PROVE FALSE
    <2> DEFINE w == [worker[d] EXCEPT !.at = "end"]
    <2>1. worker' = Put(worker, d, w)
        BY <1>6 DEF EndSession, Put
    <2>2. IsRecord(worker[d], WorkerFields)
        BY <1>3
    <2>3. IsRecord(w, WorkerFields) /\ w.user = worker[d].user
        BY <2>2 DEF IsRecord, WorkerFields
    <2> HIDE DEF w
    <2> QED BY <1>2, <2>1, <2>3
<1>7. ASSUME NEW d \in Clients, WorkerEnds(d) PROVE FALSE
    <2>1. worker' = Put(worker, d, NoWorker)
        BY <1>7 DEF WorkerEnds, Put
    <2>2. IsRecord(NoWorker, WorkerFields) /\ NoWorker.user = << >>
        BY NoWorkerRecord DEF NoWorker
    <2> QED BY <1>2, <2>1, <2>2
<1>8. ASSUME NEW d \in Clients, NEW name \in Names, NEW shown \in Proofs, LogIn(d, name, shown)
      PROVE  d = c /\ worker'[c].user = name /\ worker'[c].by = shown
    <2> DEFINE w == [worker[d] EXCEPT !.user = name, !.by = shown]
    <2>1. worker' = Put(worker, d, w)
        BY <1>8 DEF LogIn, Put
    <2>2. IsRecord(worker[d], WorkerFields)
        BY <1>3
    <2>3. IsRecord(w, WorkerFields) /\ w.user = name /\ w.by = shown
        BY <2>2 DEF IsRecord, WorkerFields
    <2> HIDE DEF w
    <2>4. worker'[d] = w /\ (c # d => worker'[c] = worker[c])
        BY <1>0, <2>1, <2>3, PutWorker
    <2> QED BY <2>3, <2>4
<1>9. ASSUME \/ StartProgram \/ Reserve \/ AcceptFails \/ StartWorkerFails \/ Edit
             \/ UNCHANGED programVars \/ \E d \in Clients : Accept(d) \/ Connect(d)
      PROVE  FALSE
    <2>1. worker' = worker
        BY <1>9 DEF StartProgram, Reserve, AcceptFails, StartWorkerFails, Edit, programVars,
                    Accept, Connect
    <2> QED BY <1>1, <2>1
<1>10. \E d \in Clients : \E name \in Names, shown \in Proofs : LogIn(d, name, shown)
    BY <1>4, <1>5, <1>6, <1>7, <1>9 DEF ProgramNext
<1> QED BY <1>8, <1>10

\* Nobody logs in whom the file refuses.
THEOREM AdmittedAsWrittenSafe == ProgramSpec => AdmittedAsWritten
<1>1. SlotInv /\ PolicyInv /\ [ProgramNext]_programVars => LogInStep
    <2>1. SUFFICES ASSUME SlotInv, PolicyInv, [ProgramNext]_programVars, NEW c \in Clients,
                          worker[c].user = << >>, worker'[c].user # << >>,
                          Ordinary(worker'[c].user)
                   PROVE  WrittenPermits(worker'[c].user, worker'[c].by, worker[c].config.root)
        BY DEF LogInStep
    <2>2. PICK name \in Names, shown \in Proofs :
              LogIn(c, name, shown) /\ worker'[c].user = name /\ worker'[c].by = shown
        BY <2>1, OnlyLogIn
    <2>3. Ordinary(name)
        BY <2>1, <2>2
    <2>4. WrittenPermits(name, shown, worker[c].config.root)
        BY <2>1, <2>2, <2>3, ProgramAssumption, FilesAssumption, LoggedInAsWritten
    <2> QED BY <2>2, <2>4
<1> QED BY <1>1, ProgramInvs, PTL DEF ProgramSpec, AdmittedAsWritten
=============================================================================
