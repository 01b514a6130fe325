-------------------------- MODULE AgentRunsProofs --------------------------
(***************************************************************************)
(* Proofs about AgentRuns: for any number of runs, agents and concurrent   *)
(* polls, and whatever is lost or crashes, a run is handed out once, is    *)
(* pruned, retried and notified at most once, and never both retried and   *)
(* notified; and AgentRuns implements RunLifecycle.                        *)
(*                                                                         *)
(* The argument follows a run from the claim to the end of finalize: it is *)
(* in one place at a time (an answer to a poll, an agent, a result, a call *)
(* of finalize), it gets there only by the guarded UPDATE of a queued row, *)
(* and what becomes of it (a prune, a notification, a retry) is recorded   *)
(* in the step that takes it out of its last place.                        *)
(***************************************************************************)
EXTENDS AgentRuns, TLAPS

-----------------------------------------------------------------------------
(* The handlers of RunTable, whoever executes the runs.                      *)

(* Some later run retries r.                                                 *)
Retried(r) == \E q \in Runs : retryOf[q] = r

(* A run that is retried, or on its way to be, ended other than by success   *)
(* and has an attempt left.                                                  *)
Deciding ==
  \A r \in Runs :
    (Retried(r) \/ \E c \in Callers : fin[c][r] \in {"active", "insert"}) =>
      status[r] \in {"failed", "cancelled", "gone"} /\ attempt[r] <= RetryMax

-----------------------------------------------------------------------------
(* Inserting a first run, the operator and the clock keep the types.         *)
LEMMA TableTypeStep ==
  ASSUME TableTypeOK,
         \/ \E r \in Runs : CreateRun(r) \/ CancelRead(r) \/ CancelUpdate(r)
         \/ DeleteRows \/ Tick \/ FailStaleQueuedRuns \/ LoseHandlers
  PROVE  TableTypeOK'
<1> USE RunTableAssumption
<1>1. ASSUME NEW r \in Runs, CreateRun(r) \/ CancelRead(r) \/ CancelUpdate(r)
      PROVE  TableTypeOK'
  BY <1>1 DEF CreateRun, CancelRead, CancelUpdate, TableTypeOK, RowStatus, Horizon
<1>2. CASE DeleteRows
  <2>1. jobExists' \in BOOLEAN
    BY <1>2 DEF DeleteRows
  <2> QED
    BY <1>2, <2>1 DEF DeleteRows, TableTypeOK, RowStatus, Horizon
<1>3. CASE Tick
  <2>1. age' \in [Runs -> 0 .. Horizon]
    BY <1>3 DEF Tick, Ageing, TableTypeOK, Horizon
  <2> QED
    BY <1>3, <2>1 DEF Tick, TableTypeOK
<1>4. CASE FailStaleQueuedRuns
  BY <1>4 DEF FailStaleQueuedRuns, TableTypeOK, RowStatus, Horizon, Callers, FinPc
<1>5. CASE LoseHandlers
  BY <1>5 DEF LoseHandlers, Fault, TableTypeOK, FinPc
<1> QED
  BY <1>1, <1>2, <1>3, <1>4, <1>5

(* The steps of finalize keep the types, the count of attempts included.     *)
LEMMA FinalizeTypeStep ==
  ASSUME TableTypeOK, NEW c \in Callers, NEW r \in Runs, FinalizeStep(c, r),
         fin[c][r] = "insert" => attempt[r] <= RetryMax
  PROVE  TableTypeOK'
<1> USE RunTableAssumption
<1>1. ASSUME NEW to \in FinPc, FinalizeTo(c, r, to)
      PROVE  fin' \in [Callers -> [Runs -> FinPc]]
  BY <1>1 DEF FinalizeTo, TableTypeOK
<1>2. CASE FinalizeRead(c, r) \/ FinalizeActive(c, r) \/ FinalizeFails(c, r)
  <2>1. fin' \in [Callers -> [Runs -> FinPc]]
    BY <1>1, <1>2 DEF FinalizeRead, FinalizeActive, FinalizeFails, FinPc
  <2> QED
    BY <1>2, <2>1 DEF FinalizeRead, FinalizeActive, FinalizeFails, Fault,
                      TableTypeOK
<1>3. ASSUME NEW q \in Runs, FinalizeInsert(c, r, q)
      PROVE  TableTypeOK'
  <2>1. fin' \in [Callers -> [Runs -> FinPc]]
    BY <1>1, <1>3 DEF FinalizeInsert, InsertRetry, FinPc
  <2>2. attempt[r] + 1 \in 1 .. RetryMax + 1
    BY <1>3 DEF FinalizeInsert, InsertRetry, TableTypeOK
  <2> QED
    BY <1>3, <2>1, <2>2 DEF FinalizeInsert, InsertRetry, TableTypeOK, RowStatus
<1>4. CASE Notify(c, r)
  <2>1. fin' \in [Callers -> [Runs -> FinPc]]
    BY <1>1, <1>4 DEF Notify, FinPc
  <2>2. notified' \in [Runs -> SUBSET {"success", "failed"}]
    BY <1>4 DEF Notify, TableTypeOK
  <2> QED
    BY <1>4, <2>1, <2>2 DEF Notify, TableTypeOK
<1> QED
  BY <1>2, <1>3, <1>4 DEF FinalizeStep

-----------------------------------------------------------------------------

(* Where a run may be after its claim.                                       *)
Answered(r) == \E h \in Handlers : r \in got[h]
WithAgent(r) == \E a \in Agents : r \in queue[a] \/ work[a] = r
Posted(r) == \E p \in posts : p.run = r
Settling(r) == \E c \in Callers : fin[c][r] # "idle"
Out(r) == Answered(r) \/ WithAgent(r) \/ Posted(r)

(* A run is in one place only, and there only once.                          *)
OneAnswer ==
  \A r \in Runs : \A h1, h2 \in Handlers : r \in got[h1] /\ r \in got[h2] => h1 = h2

OneAgent ==
  \A r \in Runs : \A a1, a2 \in Agents :
    (r \in queue[a1] \/ work[a1] = r) /\ (r \in queue[a2] \/ work[a2] = r) => a1 = a2

OneTask == \A r \in Runs, a \in Agents : r \in queue[a] => work[a] # r

OnePost == \A p1, p2 \in posts : p1.run = p2.run => p1 = p2

OneCaller ==
  \A r \in Runs : \A c1, c2 \in Callers :
    fin[c1][r] # "idle" /\ fin[c2][r] # "idle" => c1 = c2

Apart ==
  \A r \in Runs :
    /\ Answered(r) => ~WithAgent(r) /\ ~Posted(r) /\ ~Settling(r)
    /\ WithAgent(r) => ~Posted(r) /\ ~Settling(r)
    /\ Posted(r) => ~Settling(r)

OnePlace == OneAnswer /\ OneAgent /\ OneTask /\ OnePost /\ OneCaller /\ Apart

(* A run that is not claimed yet is nowhere, and nothing has come of it.     *)
Fresh ==
  \A r \in Runs : status[r] \in {"none", "queued"} =>
    /\ ~Out(r) /\ ~Settling(r)
    /\ notified[r] = {} /\ prunes[r] = 0
    /\ status[r] = "none" =>
         retryOf[r] = NoRun /\ cancelling[r] = "idle" /\ attempt[r] = 1

(* A run that is still somewhere has no outcome, and a retried one is not    *)
(* notified.                                                                 *)
History ==
  \A r \in Runs :
    /\ prunes[r] <= 1
    /\ Out(r) => prunes[r] = 0
    /\ Out(r) \/ Settling(r) => notified[r] = {} /\ ~Retried(r)
    /\ Retried(r) => notified[r] = {}

(* A worker past "idle" has a task.                                          *)
Working == \A a \in Agents : phase[a] # "idle" => work[a] # NoRun

Inv ==
  /\ TypeOK
  /\ OnePlace
  /\ Fresh
  /\ History
  /\ Deciding
  /\ Working
  /\ RetryChain

-----------------------------------------------------------------------------
(* Type correctness is kept by every step.                                   *)
LEMMA TypeStep ==
  ASSUME TypeOK, Deciding, Working, Next
  PROVE  TypeOK'
<1> USE AgentsAssumption, RunTableAssumption
<1>1. CASE TableStep
  <2>1. TableTypeOK'
    BY <1>1, TableTypeStep, FinalizeTypeStep DEF TableStep, TypeOK, Deciding
  <2> QED
    BY <1>1, <2>1 DEF TableStep, TypeOK, pollVars, agentVars
<1>2. ASSUME NEW r \in Runs, CancelNoProcess(r)
      PROVE  TypeOK'
  BY <1>2 DEF CancelNoProcess, TypeOK, TableTypeOK, pollVars, agentVars
<1>3. ASSUME NEW a \in Agents, Reassign(a) \/ PollTimeout(a) \/ AgentCrash(a)
      PROVE  TypeOK'
  <2>1. TableTypeOK'
    BY <1>3 DEF Reassign, PollTimeout, AgentCrash, TypeOK, TableTypeOK, tableVars,
                Fault
  <2> QED
    BY <1>3, <2>1 DEF Reassign, PollTimeout, AgentCrash, TypeOK, pollVars,
                      agentVars, Phases
<1>4. ASSUME NEW a \in Agents, NEW h \in Handlers, PollSelect(a, h)
      PROVE  TypeOK'
  BY <1>4 DEF PollSelect, TypeOK, TableTypeOK, tableVars, agentVars
<1>5. ASSUME NEW h \in Handlers, PollReturn(h) \/ PollFails(h)
      PROVE  TypeOK'
  <2>1. TableTypeOK'
    BY <1>5 DEF PollReturn, PollFails, TypeOK, TableTypeOK, tableVars, Fault
  <2>2. /\ asker' \in [Handlers -> Agents \union {NoAgent}]
        /\ todo' \in [Handlers -> SUBSET Runs]
        /\ got' \in [Handlers -> SUBSET Runs]
    BY <1>5 DEF PollReturn, PollFails, EndHandler, TypeOK
  <2>3. CASE PollReturn(h)
    <3>1. asker[h] \in Agents
      BY <2>3 DEF PollReturn, TypeOK
    <3>2. /\ queue' \in [Agents -> SUBSET Runs]
          /\ waiting' \in [Agents -> Handlers \union {NoAgent}]
      BY <2>3, <3>1 DEF PollReturn, TypeOK
    <3> QED
      BY <2>1, <2>2, <2>3, <3>2 DEF PollReturn, TypeOK
  <2>4. CASE PollFails(h)
    BY <2>1, <2>2, <2>4 DEF PollFails, TypeOK, agentVars
  <2> QED
    BY <1>5, <2>3, <2>4
<1>6. ASSUME NEW h \in Handlers, NEW r \in Runs, PollClaim(h, r)
      PROVE  TypeOK'
  <2>1. CASE status[r] = "queued"
    <3>1. TableTypeOK'
      <4>1. status' \in [Runs -> RowStatus] /\ age' \in [Runs -> 0 .. Horizon]
        BY <1>6, <2>1 DEF PollClaim, TypeOK, TableTypeOK, RowStatus, Horizon
      <4> QED
        BY <1>6, <4>1 DEF PollClaim, TypeOK, TableTypeOK
    <3>2. /\ owner' \in [Runs -> Agents \union {NoAgent}]
          /\ todo' \in [Handlers -> SUBSET Runs]
          /\ got' \in [Handlers -> SUBSET Runs]
      BY <1>6, <2>1 DEF PollClaim, TypeOK
    <3> QED
      BY <1>6, <3>1, <3>2 DEF PollClaim, TypeOK, agentVars
  <2>2. CASE status[r] # "queued"
    BY <1>6, <2>2 DEF PollClaim, TypeOK, TableTypeOK, agentVars
  <2> QED
    BY <2>1, <2>2
<1>7. ASSUME NEW a \in Agents, WorkerStep(a)
      PROVE  TypeOK'
  <2>1. ASSUME NEW r \in Runs, Take(a, r)
        PROVE  TypeOK'
    BY <2>1 DEF Take, TypeOK, TableTypeOK, tableVars, pollVars, Phases
  <2>2. ASSUME NEW result \in {"success", "failed", "cancelled"},
               NEW prune \in BOOLEAN, phase[a] # "idle",
               PostResult(a, result, prune)
        PROVE  TypeOK'
    <3>1. work[a] \in Runs
      BY <2>2 DEF Working, TypeOK
    <3>2. posts' \subseteq Posts
      BY <2>2, <3>1 DEF PostResult, TypeOK, Posts
    <3>3. work' \in [Agents -> Runs \union {NoRun}]
      BY <2>2 DEF PostResult, TypeOK
    <3> QED
      BY <2>2, <3>2, <3>3 DEF PostResult, TypeOK, TableTypeOK, tableVars, pollVars,
                              Phases
  <2>3. ASSUME NEW next \in Phases, GoOn(a, next)
        PROVE  TypeOK'
    BY <2>3 DEF GoOn, TypeOK, TableTypeOK, tableVars, pollVars
  <2>4. CASE PrecheckLost(a)
    BY <2>4 DEF PrecheckLost, Fault, TypeOK, TableTypeOK, pollVars, Phases
  <2>5. CASE Watch(a)
    BY <2>5 DEF Watch, TypeOK, TableTypeOK, tableVars, pollVars
  <2>6. CASE SkipCancelled(a) \/ BackupFails(a) \/ Stopped(a) \/ ReportSuccess(a)
    BY <2>2, <2>6 DEF SkipCancelled, BackupFails, Stopped, ReportSuccess
  <2>7. CASE StartBackup(a) \/ BackupOk(a) \/ RetentionDone(a)
    BY <2>3, <2>7 DEF StartBackup, BackupOk, RetentionDone, Phases
  <2> QED
    BY <1>7, <2>1, <2>4, <2>5, <2>6, <2>7 DEF WorkerStep
<1>8. ASSUME NEW p \in posts, SubmitStep(p) \/ LoseResult(p)
      PROVE  TypeOK'
  <2>1. p \in Posts /\ p.run \in Runs /\ posts \ {p} \subseteq Posts
    BY DEF TypeOK, Posts
  <2>2. ASSUME NEW at \in {"sent", "found", "recorded"}, MovePost(p, at)
        PROVE  posts' \subseteq Posts
    <3>1. [p EXCEPT !.at = at] \in Posts
      BY <2>1, <2>2 DEF Posts
    <3> QED
      BY <2>1, <2>2, <3>1 DEF MovePost
  <2>3. CASE SubmitFind(p)
    <3>1. posts' \subseteq Posts
      BY <2>1, <2>2, <2>3 DEF SubmitFind
    <3> QED
      BY <2>3, <3>1 DEF SubmitFind, TypeOK, TableTypeOK, tableVars, pollVars, agentVars
  <2>4. CASE SubmitCancelled(p)
    <3>1. posts' \subseteq Posts
      BY <2>1, <2>4 DEF SubmitCancelled
    <3>2. status' \in [Runs -> RowStatus]
      BY <2>1, <2>4 DEF SubmitCancelled, TypeOK, TableTypeOK, RowStatus
    <3> QED
      BY <2>4, <3>1, <3>2 DEF SubmitCancelled, TypeOK, TableTypeOK, pollVars, agentVars
  <2>5. CASE SubmitRecord(p)
    <3>1. posts' \subseteq Posts
      BY <2>2, <2>5 DEF SubmitRecord
    <3>2. status' \in [Runs -> RowStatus]
      <4>1. p.result \in RowStatus
        BY <2>1 DEF Posts, RowStatus
      <4> QED
        BY <2>1, <2>5, <4>1 DEF SubmitRecord, TypeOK, TableTypeOK
    <3> QED
      BY <2>5, <3>1, <3>2 DEF SubmitRecord, TypeOK, TableTypeOK, pollVars, agentVars
  <2>6. CASE SubmitSettle(p)
    <3>1. posts' \subseteq Posts
      BY <2>1, <2>6 DEF SubmitSettle
    <3>2. /\ prunes' \in [Runs -> Nat]
          /\ fin' \in [Callers -> [Runs -> FinPc]]
      BY <2>1, <2>6 DEF SubmitSettle, FinalizeTo, TypeOK, TableTypeOK, FinPc, Callers
    <3> QED
      BY <2>6, <3>1, <3>2 DEF SubmitSettle, TypeOK, TableTypeOK, pollVars, agentVars
  <2>7. CASE LoseResult(p)
    BY <2>1, <2>7 DEF LoseResult, Fault, TypeOK, TableTypeOK, pollVars, agentVars
  <2> QED
    BY <1>8, <2>3, <2>4, <2>5, <2>6, <2>7 DEF SubmitStep
<1>9. CASE ServerCrash
  <2>1. TableTypeOK'
    BY <1>9, TableTypeStep DEF ServerCrash, TypeOK
  <2> QED
    BY <1>9, <2>1 DEF ServerCrash, TypeOK, agentVars
<1> QED
  BY <1>1, <1>2, <1>3, <1>4, <1>5, <1>6, <1>7, <1>8, <1>9 DEF Next

-----------------------------------------------------------------------------
(* Steps that only take runs out of places (answers, crashes, losses, ends   *)
(* of finalize) keep them apart.                                             *)
LEMMA PlacesShrink ==
  ASSUME OnePlace,
         \A h \in Handlers : got'[h] \subseteq got[h],
         \A a \in Agents : /\ queue'[a] \subseteq queue[a]
                           /\ work'[a] \in {work[a], NoRun},
         posts' \subseteq posts,
         \A c \in Callers, r \in Runs : fin'[c][r] # "idle" => fin[c][r] # "idle"
  PROVE  /\ OnePlace'
         /\ \A r \in Runs : Out(r)' => Out(r)
         /\ \A r \in Runs : Settling(r)' => Settling(r)
<1>1. \A r \in Runs : r # NoRun
  BY DEF Runs, NoRun
<1>2. \A r \in Runs : /\ Answered(r)' => Answered(r)
                      /\ WithAgent(r)' => WithAgent(r)
                      /\ Posted(r)' => Posted(r)
                      /\ Settling(r)' => Settling(r)
  BY <1>1 DEF Answered, WithAgent, Posted, Settling
<1>3. OneAnswer' /\ OnePost' /\ OneCaller'
  BY DEF OnePlace, OneAnswer, OnePost, OneCaller
<1>4. OneAgent' /\ OneTask'
  BY <1>1 DEF OnePlace, OneAgent, OneTask
<1>5. Apart'
  BY <1>2 DEF OnePlace, Apart
<1> QED
  BY <1>2, <1>3, <1>4, <1>5 DEF OnePlace, Out

(* What a step has to show that records no outcome: it brings no run back to *)
(* the queue, revives none that failed, takes runs to a place from the queue *)
(* or from another place only, and decides on a retry only for a failed run. *)
LEMMA RestKept ==
  ASSUME TypeOK, Fresh, History, Deciding, RetryChain,
         UNCHANGED <<attempt, retryOf, notified, prunes>>,
         \A r \in Runs :
           /\ status'[r] \in {"none", "queued"} => status[r] \in {"none", status'[r]}
           /\ status[r] \in {"failed", "cancelled", "gone"} =>
                status'[r] \in {"failed", "cancelled", "gone"}
           /\ status'[r] = "none" => cancelling'[r] = "idle"
           /\ Out(r)' => \/ Out(r)
                         \/ status[r] = "queued" /\ status'[r] \notin {"none", "queued"}
           /\ Settling(r)' => \/ Out(r) \/ Settling(r)
                              \/ status[r] = "queued" /\ status'[r] \notin {"none", "queued"}
           /\ \A c \in Callers :
                fin'[c][r] \in {"active", "insert"} =>
                  \/ fin[c][r] \in {"active", "insert"}
                  \/ status[r] = "failed" /\ attempt[r] <= RetryMax
  PROVE  Fresh' /\ History' /\ Deciding' /\ RetryChain'
<1>1. \A r \in Runs : Retried(r)' <=> Retried(r)
  BY DEF Retried
<1>2. \A r \in Runs : Retried(r) => status[r] \in {"failed", "cancelled", "gone"}
  BY DEF Deciding
<1>3. Fresh'
  <2> SUFFICES ASSUME NEW r \in Runs, status'[r] \in {"none", "queued"}
               PROVE  /\ ~Out(r)' /\ ~Settling(r)'
                      /\ notified[r] = {} /\ prunes[r] = 0
                      /\ status'[r] = "none" =>
                           retryOf[r] = NoRun /\ cancelling'[r] = "idle" /\ attempt[r] = 1
    BY DEF Fresh
  <2>1. status[r] \in {"none", "queued"} /\ (status'[r] = "none" => status[r] = "none")
    OBVIOUS
  <2> QED
    BY <2>1 DEF Fresh
<1>4. History'
  <2> SUFFICES ASSUME NEW r \in Runs
               PROVE  /\ prunes[r] <= 1
                      /\ Out(r)' => prunes[r] = 0
                      /\ Out(r)' \/ Settling(r)' => notified[r] = {} /\ ~Retried(r)
                      /\ Retried(r) => notified[r] = {}
    BY <1>1 DEF History
  <2>1. CASE status[r] = "queued"
    BY <1>2, <2>1 DEF Fresh, History
  <2>2. CASE status[r] # "queued"
    BY <2>2 DEF History
  <2> QED
    BY <2>1, <2>2
<1>5. Deciding'
  BY <1>1 DEF Deciding
<1>6. RetryChain'
  <2> SUFFICES ASSUME NEW q \in Runs, retryOf[q] # NoRun
               PROVE  /\ attempt[q] = attempt[retryOf[q]] + 1
                      /\ status'[retryOf[q]] \in {"failed", "cancelled", "gone"}
                      /\ \A p \in Runs : retryOf[p] = retryOf[q] => p = q
    BY DEF RetryChain
  <2>1. retryOf[q] \in Runs
    BY DEF TypeOK, TableTypeOK
  <2> QED
    BY <2>1 DEF RetryChain
<1> QED
  BY <1>3, <1>4, <1>5, <1>6

-----------------------------------------------------------------------------
(* Steps that take runs from one place to the next.                          *)

(* A step that moves no run and writes no row keeps where runs are.          *)
LEMMA PlacesUnchanged ==
  ASSUME OnePlace, UNCHANGED <<got, queue, work, posts, fin>>
  PROVE  /\ OnePlace'
         /\ \A r \in Runs : (Out(r)' <=> Out(r)) /\ (Settling(r)' <=> Settling(r))
BY DEF OnePlace, OneAnswer, OneAgent, OneTask, OnePost, OneCaller, Apart, Out,
       Answered, WithAgent, Posted, Settling

(* The guarded UPDATE finds a queued row, so the run was nowhere before.     *)
LEMMA PlacesClaim ==
  ASSUME Inv, NEW h \in Handlers, NEW r \in Runs, PollClaim(h, r),
         status[r] = "queued"
  PROVE  /\ OnePlace'
         /\ \A s \in Runs : (Out(s)' => Out(s) \/ s = r) /\ (Settling(s)' <=> Settling(s))
<1>1. /\ got' = [got EXCEPT ![h] = @ \union {r}]
      /\ UNCHANGED <<queue, work, posts, fin>>
  BY DEF PollClaim, agentVars
<1>2. ~Out(r) /\ ~Settling(r)
  BY DEF Inv, Fresh
<1>3. \A s \in Runs : /\ Answered(s)' => Answered(s) \/ s = r
                      /\ WithAgent(s)' <=> WithAgent(s)
                      /\ Posted(s)' <=> Posted(s)
                      /\ Settling(s)' <=> Settling(s)
  BY <1>1 DEF Answered, WithAgent, Posted, Settling, Inv, TypeOK
<1>4. OneAnswer'
  BY <1>1, <1>2 DEF Inv, TypeOK, OnePlace, OneAnswer, Out, Answered
<1>5. OneAgent' /\ OneTask' /\ OnePost' /\ OneCaller'
  BY <1>1 DEF Inv, OnePlace, OneAgent, OneTask, OnePost, OneCaller
<1>6. Apart'
  BY <1>2, <1>3 DEF Inv, OnePlace, Apart, Out
<1> QED
  BY <1>3, <1>4, <1>5, <1>6 DEF OnePlace, Out

(* An answer reaches the agent that waits for it.                            *)
LEMMA PlacesReturn ==
  ASSUME Inv, NEW h \in Handlers, PollReturn(h), waiting[asker[h]] = h
  PROVE  /\ OnePlace'
         /\ \A s \in Runs : (Out(s)' => Out(s)) /\ (Settling(s)' <=> Settling(s))
<1> DEFINE a == asker[h]
<1>1. /\ got' = [got EXCEPT ![h] = {}]
      /\ queue' = [queue EXCEPT ![a] = @ \union (got[h] \ Inflight(a))]
      /\ UNCHANGED <<work, posts, fin>>
  BY DEF PollReturn, EndHandler, tableVars
<1>2. a \in Agents
  BY DEF PollReturn, Inv, TypeOK
<1>3. \A b \in Agents : queue'[b] \subseteq queue[b] \union (IF b = a THEN got[h] ELSE {})
  BY <1>1, <1>2 DEF Inv, TypeOK
<1>4. /\ \A g \in Handlers : got'[g] \subseteq got[g]
      /\ got'[h] = {}
  BY <1>1 DEF Inv, TypeOK
<1>5. \A s \in got[h] : Answered(s)
  BY DEF Answered
<1> HIDE DEF a
<1>6. \A s \in Runs : /\ Answered(s)' => Answered(s) /\ s \notin got[h]
                      /\ WithAgent(s)' => WithAgent(s) \/ s \in got[h]
                      /\ Posted(s)' <=> Posted(s)
                      /\ Settling(s)' <=> Settling(s)
  <2>1. \A s \in Runs : Answered(s)' => Answered(s) /\ s \notin got[h]
    BY <1>4 DEF Answered, Inv, OnePlace, OneAnswer
  <2>2. \A s \in Runs : WithAgent(s)' => WithAgent(s) \/ s \in got[h]
    BY <1>1, <1>3 DEF WithAgent
  <2>3. \A s \in Runs : (Posted(s)' <=> Posted(s)) /\ (Settling(s)' <=> Settling(s))
    BY <1>1 DEF Posted, Settling
  <2> QED
    BY <2>1, <2>2, <2>3
<1>7. \A s \in Runs : s \in got[h] =>
        \A b \in Agents : s \notin queue[b] /\ work[b] # s
  BY <1>5 DEF Inv, OnePlace, Apart, WithAgent
<1>8. OneAnswer'
  BY <1>4 DEF Inv, OnePlace, OneAnswer
<1>9. OneAgent' /\ OneTask'
  BY <1>1, <1>3, <1>7 DEF Inv, OnePlace, OneAgent, OneTask
<1>10. OnePost' /\ OneCaller'
  BY <1>1 DEF Inv, OnePlace, OnePost, OneCaller
<1>11. Apart'
  BY <1>5, <1>6 DEF Inv, OnePlace, Apart
<1> QED
  BY <1>5, <1>6, <1>8, <1>9, <1>10, <1>11 DEF OnePlace, Out

(* The worker takes a task off its queue.                                    *)
LEMMA PlacesTake ==
  ASSUME Inv, NEW a \in Agents, NEW r \in Runs, Take(a, r)
  PROVE  /\ OnePlace'
         /\ \A s \in Runs : (Out(s)' => Out(s)) /\ (Settling(s)' <=> Settling(s))
<1>1. /\ r \in queue[a] /\ work[a] = NoRun
      /\ queue' = [queue EXCEPT ![a] = @ \ {r}]
      /\ work' = [work EXCEPT ![a] = r]
      /\ UNCHANGED <<got, posts, fin>>
  BY DEF Take, pollVars, tableVars
<1>2. \A b \in Agents, s \in Runs : (s \in queue'[b] \/ work'[b] = s) =>
                                      (s \in queue[b] \/ work[b] = s)
  BY <1>1 DEF Inv, TypeOK
<1>3. \A s \in Runs : /\ Answered(s)' <=> Answered(s)
                      /\ WithAgent(s)' => WithAgent(s)
                      /\ Posted(s)' <=> Posted(s)
                      /\ Settling(s)' <=> Settling(s)
  BY <1>1, <1>2 DEF Answered, WithAgent, Posted, Settling
<1>4. OneAgent'
  BY <1>2 DEF Inv, OnePlace, OneAgent
<1>5. OneTask'
  BY <1>1 DEF Inv, OnePlace, OneTask, OneAgent, TypeOK
<1>6. OneAnswer' /\ OnePost' /\ OneCaller'
  BY <1>1 DEF Inv, OnePlace, OneAnswer, OnePost, OneCaller
<1>7. Apart'
  BY <1>3 DEF Inv, OnePlace, Apart
<1> QED
  BY <1>3, <1>4, <1>5, <1>6, <1>7 DEF OnePlace, Out

(* The worker posts the result of its task and is done with it.              *)
LEMMA PlacesPost ==
  ASSUME Inv, NEW a \in Agents, NEW result, NEW prune, phase[a] # "idle",
         PostResult(a, result, prune)
  PROVE  /\ OnePlace'
         /\ \A s \in Runs : (Out(s)' => Out(s)) /\ (Settling(s)' <=> Settling(s))
<1> DEFINE r == work[a]
           new == [run |-> r, from |-> a, result |-> result, prune |-> prune,
                   at |-> "sent"]
<1>1. /\ posts' = posts \union {new}
      /\ work' = [work EXCEPT ![a] = NoRun]
      /\ UNCHANGED <<got, queue, fin>>
  BY DEF PostResult, pollVars, tableVars
<1>2. r \in Runs /\ WithAgent(r)
  BY DEF Inv, Working, TypeOK, WithAgent
<1>3. \A s \in Runs : s # NoRun
  BY DEF Runs, NoRun
<1>4. new.run = r
  OBVIOUS
<1>5. \A b \in Agents : work'[b] = IF b = a THEN NoRun ELSE work[b]
  BY <1>1 DEF Inv, TypeOK
<1>6. r \notin queue[a] /\ \A b \in Agents \ {a} : r \notin queue[b] /\ work[b] # r
  BY <1>2 DEF Inv, OnePlace, OneAgent, OneTask
<1> HIDE DEF new
<1>7. \A s \in Runs : /\ Answered(s)' <=> Answered(s)
                      /\ WithAgent(s)' => WithAgent(s) /\ s # r
                      /\ Posted(s)' => Posted(s) \/ s = r
                      /\ Settling(s)' <=> Settling(s)
  <2>1. \A s \in Runs : WithAgent(s)' => WithAgent(s) /\ s # r
    BY <1>1, <1>3, <1>5, <1>6 DEF WithAgent
  <2>2. \A s \in Runs : Posted(s)' => Posted(s) \/ s = r
    BY <1>1, <1>4 DEF Posted
  <2> QED
    BY <1>1, <2>1, <2>2 DEF Answered, Settling
<1>8. OnePost'
  <2>1. \A p \in posts : p.run # r
    BY <1>2 DEF Inv, OnePlace, Apart, Posted
  <2> QED
    BY <1>1, <1>4, <2>1 DEF Inv, OnePlace, OnePost
<1>9. OneAgent' /\ OneTask'
  BY <1>1, <1>3, <1>5 DEF Inv, OnePlace, OneAgent, OneTask
<1>10. OneAnswer' /\ OneCaller'
  BY <1>1 DEF Inv, OnePlace, OneAnswer, OneCaller
<1>11. Apart'
  BY <1>2, <1>7 DEF Inv, OnePlace, Apart
<1> QED
  BY <1>2, <1>7, <1>8, <1>9, <1>10, <1>11 DEF OnePlace, Out

(* The handler of a result gets on.                                          *)
LEMMA PlacesMovePost ==
  ASSUME Inv, NEW p \in posts, NEW at, MovePost(p, at),
         UNCHANGED <<got, queue, work, fin>>
  PROVE  /\ OnePlace'
         /\ \A s \in Runs : (Out(s)' => Out(s)) /\ (Settling(s)' <=> Settling(s))
<1> DEFINE new == [p EXCEPT !.at = at]
<1>1. posts' = (posts \ {p}) \union {new}
  BY DEF MovePost
<1>2. new.run = p.run
  BY DEF Inv, TypeOK, Posts
<1> HIDE DEF new
<1>3. \A s \in Runs : /\ Answered(s)' <=> Answered(s)
                      /\ WithAgent(s)' <=> WithAgent(s)
                      /\ Posted(s)' => Posted(s)
                      /\ Settling(s)' <=> Settling(s)
  BY <1>1, <1>2 DEF Answered, WithAgent, Posted, Settling
<1>4. OnePost'
  BY <1>1, <1>2 DEF Inv, OnePlace, OnePost
<1>5. OneAnswer' /\ OneAgent' /\ OneTask' /\ OneCaller'
  BY DEF Inv, OnePlace, OneAnswer, OneAgent, OneTask, OneCaller
<1>6. Apart'
  BY <1>3 DEF Inv, OnePlace, Apart
<1> QED
  BY <1>3, <1>4, <1>5, <1>6 DEF OnePlace, Out

(* The handler of a result calls finalize and ends.                          *)
LEMMA PlacesSettle ==
  ASSUME Inv, NEW p \in posts, posts' = posts \ {p},
         FinalizeTo("settle", p.run, "read"),
         UNCHANGED <<got, queue, work>>
  PROVE  /\ OnePlace'
         /\ \A s \in Runs : /\ Out(s)' => Out(s) /\ s # p.run
                            /\ Settling(s)' => Settling(s) \/ s = p.run
<1> DEFINE r == p.run
<1>1. r \in Runs /\ Posted(r)
  BY DEF Inv, TypeOK, Posts, Posted
<1>2. ~Answered(r) /\ ~WithAgent(r) /\ ~Settling(r)
  BY <1>1 DEF Inv, OnePlace, Apart
<1>3. \A c \in Callers, s \in Runs :
        fin'[c][s] # "idle" => fin[c][s] # "idle" \/ (s = r /\ c = "settle")
  BY <1>1 DEF FinalizeTo, Inv, TypeOK, TableTypeOK
<1>4. \A q \in posts' : q \in posts /\ q.run # r
  BY DEF Inv, OnePlace, OnePost
<1> HIDE DEF r
<1>5. \A s \in Runs : /\ Answered(s)' <=> Answered(s)
                      /\ WithAgent(s)' <=> WithAgent(s)
                      /\ Posted(s)' => Posted(s) /\ s # r
                      /\ Settling(s)' => Settling(s) \/ s = r
  BY <1>3, <1>4 DEF Answered, WithAgent, Posted, Settling
<1>6. OnePost'
  BY <1>4 DEF Inv, OnePlace, OnePost
<1>7. OneCaller'
  BY <1>2, <1>3 DEF Inv, OnePlace, OneCaller, Settling
<1>8. OneAnswer' /\ OneAgent' /\ OneTask'
  BY DEF Inv, OnePlace, OneAnswer, OneAgent, OneTask
<1>9. Apart'
  BY <1>2, <1>5 DEF Inv, OnePlace, Apart
<1> QED
  BY <1>2, <1>5, <1>6, <1>7, <1>8, <1>9 DEF OnePlace, Out, r

(* The sweep finalizes runs that were queued, and so were nowhere.           *)
LEMMA PlacesSweep ==
  ASSUME Inv, FailStaleQueuedRuns, UNCHANGED <<got, queue, work, posts>>
  PROVE  /\ OnePlace'
         /\ \A s \in Runs : /\ Out(s)' <=> Out(s)
                            /\ Settling(s)' => Settling(s) \/ s \in StaleRuns
<1>1. \A r \in StaleRuns : r \in Runs /\ ~Out(r) /\ ~Settling(r)
  BY DEF StaleRuns, Inv, Fresh
<1>2. \A c \in Callers, s \in Runs :
        fin'[c][s] # "idle" => fin[c][s] # "idle" \/ (s \in StaleRuns /\ c = "sweep")
  BY DEF FailStaleQueuedRuns, Inv, TypeOK, TableTypeOK
<1>3. \A s \in Runs : /\ Answered(s)' <=> Answered(s)
                      /\ WithAgent(s)' <=> WithAgent(s)
                      /\ Posted(s)' <=> Posted(s)
                      /\ Settling(s)' => Settling(s) \/ s \in StaleRuns
  BY <1>2 DEF Answered, WithAgent, Posted, Settling
<1>4. OneCaller'
  BY <1>1, <1>2 DEF Inv, OnePlace, OneCaller, Settling
<1>5. OneAnswer' /\ OneAgent' /\ OneTask' /\ OnePost'
  BY DEF Inv, OnePlace, OneAnswer, OneAgent, OneTask, OnePost
<1>6. Apart'
  BY <1>1, <1>3 DEF Inv, OnePlace, Apart, Out
<1> QED
  BY <1>3, <1>4, <1>5, <1>6 DEF OnePlace, Out

-----------------------------------------------------------------------------
(* The steps that record an outcome.                                         *)

(* The INSERT of a retry ends the call of finalize that decided on it.       *)
LEMMA InsertKeeps ==
  ASSUME Inv, NEW c \in Callers, NEW r \in Runs, NEW q \in Runs,
         FinalizeInsert(c, r, q), UNCHANGED <<got, queue, work, posts, prunes>>
  PROVE  OnePlace' /\ Fresh' /\ History' /\ Deciding' /\ RetryChain'
<1>1. /\ fin[c][r] = "insert" /\ status[q] = "none"
      /\ status' = [status EXCEPT ![q] = "queued"]
      /\ attempt' = [attempt EXCEPT ![q] = attempt[r] + 1]
      /\ retryOf' = [retryOf EXCEPT ![q] = r]
      /\ fin' = [fin EXCEPT ![c][r] = "idle"]
      /\ UNCHANGED <<notified, cancelling>>
  BY DEF FinalizeInsert, InsertRetry, NextRow, FinalizeTo
<1>2. /\ Settling(r) /\ ~Out(r) /\ notified[r] = {} /\ ~Retried(r)
      /\ status[r] \in {"failed", "cancelled", "gone"} /\ attempt[r] <= RetryMax
      /\ q # r
  <2>1. Settling(r)
    BY <1>1 DEF Settling
  <2>2. status[r] \in {"failed", "cancelled", "gone"} /\ attempt[r] <= RetryMax
    BY <1>1 DEF Inv, Deciding
  <2>3. ~Out(r) /\ notified[r] = {} /\ ~Retried(r)
    BY <2>1 DEF Inv, History, OnePlace, Apart, Out
  <2> QED
    BY <1>1, <2>1, <2>2, <2>3
<1>3. /\ ~Out(q) /\ ~Settling(q) /\ notified[q] = {} /\ prunes[q] = 0
      /\ retryOf[q] = NoRun /\ ~Retried(q)
  BY <1>1 DEF Inv, Fresh, Deciding
<1>4. /\ \A d \in Callers, s \in Runs : fin'[d][s] # "idle" =>
            fin'[d][s] = fin[d][s] /\ (s = r => d # c)
      /\ \A s \in Runs : status'[s] = IF s = q THEN "queued" ELSE status[s]
      /\ \A s \in Runs : retryOf'[s] = IF s = q THEN r ELSE retryOf[s]
      /\ \A s \in Runs : attempt'[s] = IF s = q THEN attempt[r] + 1 ELSE attempt[s]
  BY <1>1 DEF Inv, TypeOK, TableTypeOK
<1>5. /\ OnePlace'
      /\ \A s \in Runs : Out(s)' => Out(s)
      /\ \A s \in Runs : Settling(s)' => Settling(s)
  BY <1>4, PlacesShrink DEF Inv
<1>6. ~Settling(r)'
  BY <1>1, <1>4 DEF Settling, Inv, OnePlace, OneCaller
<1>7. \A s \in Runs : Retried(s)' => Retried(s) \/ s = r
  BY <1>4 DEF Retried
<1>8. Fresh'
  BY <1>1, <1>3, <1>4, <1>5 DEF Inv, Fresh
<1>9. History'
  BY <1>1, <1>2, <1>5, <1>6, <1>7 DEF Inv, History
<1>10. Deciding'
  <2> SUFFICES ASSUME NEW s \in Runs,
                      \/ Retried(s)'
                      \/ \E d \in Callers : fin'[d][s] \in {"active", "insert"}
               PROVE  status'[s] \in {"failed", "cancelled", "gone"} /\ attempt'[s] <= RetryMax
    BY DEF Deciding
  <2>1. s # q
    <3>1. CASE Retried(s)'
      BY <1>2, <1>3, <1>7, <3>1
    <3>2. CASE \E d \in Callers : fin'[d][s] \in {"active", "insert"}
      BY <1>3, <1>4, <3>2 DEF Settling
    <3> QED
      BY <3>1, <3>2
  <2>2. status'[s] = status[s] /\ attempt'[s] = attempt[s]
    BY <1>4, <2>1
  <2>3. CASE s = r
    BY <1>2, <2>2, <2>3
  <2>4. CASE s # r
    <3>1. Retried(s) \/ \E d \in Callers : fin[d][s] \in {"active", "insert"}
      BY <1>4, <1>7, <2>4
    <3> QED
      BY <2>2, <3>1 DEF Inv, Deciding
  <2> QED
    BY <2>3, <2>4
<1>11. RetryChain'
  <2> SUFFICES ASSUME NEW s \in Runs, retryOf'[s] # NoRun
               PROVE  /\ attempt'[s] = attempt'[retryOf'[s]] + 1
                      /\ status'[retryOf'[s]] \in {"failed", "cancelled", "gone"}
                      /\ \A p \in Runs : retryOf'[p] = retryOf'[s] => p = s
    BY DEF RetryChain
  <2>1. CASE s = q
    BY <1>2, <1>4, <2>1 DEF Retried
  <2>2. CASE s # q
    <3>1. retryOf'[s] = retryOf[s] /\ retryOf[s] \in Runs /\ retryOf[s] # r
      BY <1>2, <1>4, <2>2 DEF Retried, Inv, TypeOK, TableTypeOK
    <3>2. Retried(retryOf[s]) /\ retryOf[s] # q
      BY <1>3, <3>1 DEF Retried
    <3>3. /\ attempt[s] = attempt[retryOf[s]] + 1
          /\ status[retryOf[s]] \in {"failed", "cancelled", "gone"}
          /\ \A p \in Runs : retryOf[p] = retryOf[s] => p = s
      BY <3>1 DEF Inv, RetryChain, Runs, NoRun
    <3> QED
      BY <1>4, <2>2, <3>1, <3>2, <3>3
  <2> QED
    BY <2>1, <2>2
<1> QED
  BY <1>5, <1>8, <1>9, <1>10, <1>11

(* The notification ends the call of finalize that found no retry.           *)
LEMMA NotifyKeeps ==
  ASSUME Inv, NEW c \in Callers, NEW r \in Runs, Notify(c, r),
         UNCHANGED <<got, queue, work, posts, prunes>>
  PROVE  OnePlace' /\ Fresh' /\ History' /\ Deciding' /\ RetryChain'
<1>1. /\ fin[c][r] = "notify"
      /\ fin' = [fin EXCEPT ![c][r] = "idle"]
      /\ \A s \in Runs \ {r} : notified'[s] = notified[s]
      /\ UNCHANGED <<status, attempt, retryOf, cancelling>>
  BY DEF Notify, FinalizeTo, Inv, TypeOK, TableTypeOK
<1>2. Settling(r) /\ ~Out(r) /\ ~Retried(r) /\ status[r] \notin {"none", "queued"}
  <2>1. Settling(r)
    BY <1>1 DEF Settling
  <2> QED
    BY <2>1 DEF Inv, Fresh, History, OnePlace, Apart, Out
<1>3. \A d \in Callers, s \in Runs : fin'[d][s] # "idle" =>
        fin'[d][s] = fin[d][s] /\ (s = r => d # c)
  BY <1>1 DEF Inv, TypeOK, TableTypeOK
<1>4. /\ OnePlace'
      /\ \A s \in Runs : Out(s)' => Out(s)
      /\ \A s \in Runs : Settling(s)' => Settling(s)
  BY <1>3, PlacesShrink DEF Inv
<1>5. ~Settling(r)'
  BY <1>1, <1>3 DEF Settling, Inv, OnePlace, OneCaller
<1>6. \A s \in Runs : Retried(s)' <=> Retried(s)
  BY <1>1 DEF Retried
<1>7. Fresh'
  BY <1>1, <1>2, <1>4 DEF Inv, Fresh
<1>8. History'
  BY <1>1, <1>2, <1>4, <1>5, <1>6 DEF Inv, History
<1>9. Deciding'
  BY <1>1, <1>3, <1>6 DEF Inv, Deciding
<1>10. RetryChain'
  BY <1>1 DEF Inv, RetryChain
<1> QED
  BY <1>4, <1>7, <1>8, <1>9, <1>10

(* The prune an agent reports is recorded while its result is handled.       *)
LEMMA SettleKeeps ==
  ASSUME Inv, NEW p \in posts, SubmitSettle(p)
  PROVE  OnePlace' /\ Fresh' /\ History' /\ Deciding' /\ RetryChain'
<1> DEFINE r == p.run
<1>1. /\ r \in Runs /\ Posted(r) /\ Out(r)
      /\ prunes[r] = 0 /\ status[r] \notin {"none", "queued"}
  <2>1. r \in Runs /\ Posted(r)
    BY DEF Inv, TypeOK, Posts, Posted
  <2> QED
    BY <2>1 DEF Out, Inv, History, Fresh
<1>2. /\ posts' = posts \ {p}
      /\ UNCHANGED <<got, queue, work, status, attempt, retryOf, notified, cancelling>>
  BY DEF SubmitSettle, pollVars, agentVars
<1>3. CASE p.prune /\ ~jobExists
  <2>1. UNCHANGED <<prunes, fin>>
    BY <1>3 DEF SubmitSettle
  <2>2. /\ OnePlace'
        /\ \A s \in Runs : Out(s)' => Out(s)
        /\ \A s \in Runs : Settling(s)' => Settling(s)
    BY <1>2, <2>1, PlacesShrink DEF Inv
  <2> QED
    BY <1>2, <2>1, <2>2, RestKept DEF Inv, Fresh
<1>4. CASE ~(p.prune /\ ~jobExists)
  <2>1. /\ FinalizeTo("settle", r, "read")
        /\ prunes' = [prunes EXCEPT ![r] = IF p.prune THEN @ + 1 ELSE @]
    BY <1>4 DEF SubmitSettle
  <2>2. /\ OnePlace'
        /\ \A s \in Runs : /\ Out(s)' => Out(s) /\ s # r
                           /\ Settling(s)' => Settling(s) \/ s = r
    BY <1>2, <2>1, PlacesSettle
  <2>3. \A s \in Runs : prunes'[s] = prunes[s] \/ (s = r /\ prunes'[s] \in {0, 1})
    BY <1>1, <2>1 DEF Inv, TypeOK
  <2>4. \A c \in Callers, s \in Runs :
          fin'[c][s] \in {"active", "insert"} => fin[c][s] \in {"active", "insert"}
    BY <1>1, <2>1 DEF FinalizeTo, Inv, TypeOK, TableTypeOK
  <2>5. \A s \in Runs : Retried(s)' <=> Retried(s)
    BY <1>2 DEF Retried
  <2> HIDE DEF r
  <2>6. Fresh'
    BY <1>1, <1>2, <2>2, <2>3 DEF Inv, Fresh
  <2>7. History'
    BY <1>1, <1>2, <2>2, <2>3, <2>5 DEF Inv, History
  <2>8. Deciding'
    BY <1>2, <2>4, <2>5 DEF Inv, Deciding
  <2>9. RetryChain'
    BY <1>2 DEF Inv, RetryChain
  <2> QED
    BY <2>2, <2>6, <2>7, <2>8, <2>9
<1> QED
  BY <1>3, <1>4

-----------------------------------------------------------------------------
(* Handlers of the table that settle nothing.                                *)
LEMMA TableKeeps ==
  ASSUME Inv, TableStep
  PROVE  OnePlace' /\ Fresh' /\ History' /\ Deciding' /\ RetryChain'
<1> DEFINE Goal == OnePlace' /\ Fresh' /\ History' /\ Deciding' /\ RetryChain'
<1>1. UNCHANGED <<got, queue, work, posts, prunes>>
  BY DEF TableStep, pollVars, agentVars
<1>2. ASSUME NEW r \in Runs, CreateRun(r)
      PROVE  Goal
  <2>1. /\ status[r] = "none" /\ status' = [status EXCEPT ![r] = "queued"]
        /\ UNCHANGED <<attempt, retryOf, notified, cancelling, fin>>
    BY <1>2 DEF CreateRun, NextRow
  <2>2. \A s \in Runs : status'[s] = IF s = r THEN "queued" ELSE status[s]
    BY <2>1 DEF Inv, TypeOK, TableTypeOK
  <2> QED
    BY <1>1, <2>1, <2>2, PlacesUnchanged, RestKept DEF Inv, Fresh
<1>3. ASSUME NEW r \in Runs, CancelRead(r)
      PROVE  Goal
  <2>1. /\ UNCHANGED <<status, attempt, retryOf, notified, fin>>
        /\ \A s \in Runs : cancelling'[s] # "idle" => cancelling[s] # "idle" \/ status[s] # "none"
    BY <1>3 DEF CancelRead, Active, Inv, TypeOK, TableTypeOK
  <2> QED
    BY <1>1, <2>1, PlacesUnchanged, RestKept DEF Inv, Fresh
<1>4. ASSUME NEW r \in Runs, CancelUpdate(r)
      PROVE  Goal
  <2>1. /\ UNCHANGED <<attempt, retryOf, notified, fin>>
        /\ \A s \in Runs : cancelling'[s] # "idle" => cancelling[s] # "idle"
        /\ \A s \in Runs : \/ status'[s] = status[s]
                           \/ status'[s] = "cancelled"
    BY <1>4 DEF CancelUpdate, Inv, TypeOK, TableTypeOK
  <2> QED
    BY <1>1, <2>1, PlacesUnchanged, RestKept DEF Inv, Fresh
<1>5. CASE DeleteRows
  <2>1. /\ UNCHANGED <<attempt, retryOf, notified, cancelling, fin>>
        /\ \A s \in Runs : status'[s] = IF status[s] = "none" THEN "none" ELSE "gone"
    BY <1>5 DEF DeleteRows
  <2> QED
    BY <1>1, <2>1, PlacesUnchanged, RestKept DEF Inv, Fresh
<1>6. CASE Tick
  <2>1. UNCHANGED <<status, attempt, retryOf, notified, cancelling, fin>>
    BY <1>6 DEF Tick
  <2> QED
    BY <1>1, <2>1, PlacesUnchanged, RestKept DEF Inv, Fresh
<1>7. CASE FailStaleQueuedRuns
  <2>1. /\ UNCHANGED <<attempt, retryOf, notified, cancelling>>
        /\ \A s \in Runs : status'[s] = IF s \in StaleRuns THEN "failed" ELSE status[s]
        /\ \A s \in StaleRuns : status[s] = "queued"
        /\ \A c \in Callers, s \in Runs :
             fin'[c][s] \in {"active", "insert"} => fin[c][s] \in {"active", "insert"}
    BY <1>7 DEF FailStaleQueuedRuns, StaleRuns, Inv, TypeOK, TableTypeOK
  <2>2. /\ OnePlace'
        /\ \A s \in Runs : /\ Out(s)' <=> Out(s)
                           /\ Settling(s)' => Settling(s) \/ s \in StaleRuns
    BY <1>1, <1>7, PlacesSweep
  <2> QED
    BY <1>1, <2>1, <2>2, RestKept DEF Inv, Fresh
<1>8. ASSUME NEW c \in Callers, NEW r \in Runs,
             FinalizeRead(c, r) \/ FinalizeActive(c, r) \/ FinalizeFails(c, r)
      PROVE  Goal
  <2>1. UNCHANGED <<status, attempt, retryOf, notified, cancelling>>
    BY <1>8 DEF FinalizeRead, FinalizeActive, FinalizeFails
  <2>2. \A d \in Callers, s \in Runs :
          /\ fin'[d][s] # "idle" => fin[d][s] # "idle"
          /\ fin'[d][s] \in {"active", "insert"} =>
               \/ fin[d][s] \in {"active", "insert"}
               \/ status[s] = "failed" /\ attempt[s] <= RetryMax
    <3>1. CASE FinalizeRead(c, r)
      BY <3>1 DEF FinalizeRead, FinalizeTo, Inv, TypeOK, TableTypeOK
    <3>2. CASE FinalizeActive(c, r)
      BY <3>2 DEF FinalizeActive, FinalizeTo, Inv, TypeOK, TableTypeOK
    <3>3. CASE FinalizeFails(c, r)
      BY <3>3 DEF FinalizeFails, FinalizeTo, Inv, TypeOK, TableTypeOK
    <3> QED
      BY <1>8, <3>1, <3>2, <3>3
  <2>3. /\ OnePlace'
        /\ \A s \in Runs : Out(s)' => Out(s)
        /\ \A s \in Runs : Settling(s)' => Settling(s)
    BY <1>1, <2>2, PlacesShrink DEF Inv
  <2> QED
    BY <1>1, <2>1, <2>2, <2>3, RestKept DEF Inv, Fresh
<1>9. ASSUME NEW c \in Callers, NEW r \in Runs, FinalizeStep(c, r)
      PROVE  Goal
  BY <1>1, <1>8, <1>9, InsertKeeps, NotifyKeeps DEF FinalizeStep
<1> QED
  BY <1>2, <1>3, <1>4, <1>5, <1>6, <1>7, <1>9 DEF TableStep

(* A step that changes no row, no outcome and no call of finalize.           *)
LEMMA QuietKeeps ==
  ASSUME Inv,
         UNCHANGED <<status, attempt, retryOf, notified, prunes, cancelling, fin>>,
         OnePlace', \A r \in Runs : Out(r)' => Out(r)
  PROVE  OnePlace' /\ Fresh' /\ History' /\ Deciding' /\ RetryChain'
<1>1. \A r \in Runs : Settling(r)' <=> Settling(r)
  BY DEF Settling
<1> QED
  BY <1>1, RestKept DEF Inv, Fresh

(* A step of an agent's worker.                                              *)
LEMMA WorkerKeeps ==
  ASSUME Inv, NEW a \in Agents, WorkerStep(a)
  PROVE  OnePlace' /\ Fresh' /\ History' /\ Deciding' /\ RetryChain'
<1> DEFINE Goal == OnePlace' /\ Fresh' /\ History' /\ Deciding' /\ RetryChain'
<1>1. UNCHANGED <<status, attempt, retryOf, notified, prunes, cancelling, fin, got>>
  BY DEF WorkerStep, Take, SkipCancelled, StartBackup, PrecheckLost, Watch, BackupOk,
         BackupFails, RetentionDone, Stopped, ReportSuccess, PostResult, GoOn,
         tableVars, pollVars
<1>2. ASSUME NEW r \in Runs, Take(a, r)
      PROVE  Goal
  BY <1>1, <1>2, PlacesTake, QuietKeeps
<1>3. ASSUME NEW result, NEW prune, phase[a] # "idle", PostResult(a, result, prune)
      PROVE  Goal
  BY <1>1, <1>3, PlacesPost, QuietKeeps
<1>4. ASSUME UNCHANGED <<queue, work, posts>>
      PROVE  Goal
  BY <1>1, <1>4, PlacesUnchanged, QuietKeeps DEF Inv
<1>5. CASE SkipCancelled(a) \/ BackupFails(a) \/ Stopped(a) \/ ReportSuccess(a)
  BY <1>3, <1>5 DEF SkipCancelled, BackupFails, Stopped, ReportSuccess
<1>6. CASE StartBackup(a) \/ PrecheckLost(a) \/ Watch(a) \/ BackupOk(a) \/ RetentionDone(a)
  BY <1>4, <1>6 DEF StartBackup, PrecheckLost, Watch, BackupOk, RetentionDone, GoOn
<1> QED
  BY <1>2, <1>5, <1>6 DEF WorkerStep

(* A step of a poll, up to the answer, its failure and its loss.             *)
LEMMA PollKeeps ==
  ASSUME Inv,
         \/ \E a \in Agents, h \in Handlers : PollSelect(a, h)
         \/ \E h \in Handlers : PollReturn(h) \/ PollFails(h)
         \/ \E h \in Handlers, r \in Runs : PollClaim(h, r)
  PROVE  OnePlace' /\ Fresh' /\ History' /\ Deciding' /\ RetryChain'
<1> DEFINE Goal == OnePlace' /\ Fresh' /\ History' /\ Deciding' /\ RetryChain'
<1>1. ASSUME UNCHANGED <<status, attempt, retryOf, notified, prunes, cancelling, fin,
                         queue, work, posts>>,
             \A g \in Handlers : got'[g] \subseteq got[g]
      PROVE  Goal
  <2>1. OnePlace' /\ \A r \in Runs : Out(r)' => Out(r)
    BY <1>1, PlacesShrink DEF Inv
  <2> QED
    BY <1>1, <2>1, QuietKeeps
<1>2. ASSUME NEW a \in Agents, NEW h \in Handlers, PollSelect(a, h)
      PROVE  Goal
  BY <1>1, <1>2 DEF PollSelect, tableVars, agentVars, Inv, TypeOK
<1>3. ASSUME NEW h \in Handlers, PollFails(h)
      PROVE  Goal
  BY <1>1, <1>3 DEF PollFails, EndHandler, agentVars, Inv, TypeOK
<1>4. ASSUME NEW h \in Handlers, PollReturn(h)
      PROVE  Goal
  <2>1. UNCHANGED <<status, attempt, retryOf, notified, prunes, cancelling, fin, work, posts>>
    BY <1>4 DEF PollReturn, tableVars
  <2>2. CASE waiting[asker[h]] = h
    BY <1>4, <2>1, <2>2, PlacesReturn, QuietKeeps
  <2>3. CASE waiting[asker[h]] # h
    BY <1>1, <1>4, <2>1, <2>3 DEF PollReturn, EndHandler, Inv, TypeOK
  <2> QED
    BY <2>2, <2>3
<1>5. ASSUME NEW h \in Handlers, NEW r \in Runs, PollClaim(h, r)
      PROVE  Goal
  <2>1. UNCHANGED <<attempt, retryOf, notified, prunes, cancelling, fin, queue, work, posts>>
    BY <1>5 DEF PollClaim, agentVars
  <2>2. CASE status[r] = "queued"
    <3>1. /\ OnePlace'
          /\ \A s \in Runs : (Out(s)' => Out(s) \/ s = r) /\ (Settling(s)' <=> Settling(s))
      BY <1>5, <2>2, PlacesClaim
    <3>2. \A s \in Runs : status'[s] = IF s = r THEN "running" ELSE status[s]
      BY <1>5, <2>2 DEF PollClaim, Inv, TypeOK, TableTypeOK
    <3> QED
      BY <2>1, <2>2, <3>1, <3>2, RestKept DEF Inv, Fresh
  <2>3. CASE status[r] # "queued"
    BY <1>1, <1>5, <2>1, <2>3 DEF PollClaim
  <2> QED
    BY <2>2, <2>3
<1> QED
  BY <1>2, <1>3, <1>4, <1>5

(* A step of the handler of a result, or its loss.                           *)
LEMMA SubmitKeeps ==
  ASSUME Inv, NEW p \in posts, SubmitStep(p) \/ LoseResult(p)
  PROVE  OnePlace' /\ Fresh' /\ History' /\ Deciding' /\ RetryChain'
<1> DEFINE Goal == OnePlace' /\ Fresh' /\ History' /\ Deciding' /\ RetryChain'
<1>1. p.run \in Runs
  BY DEF Inv, TypeOK, Posts
<1>2. ASSUME UNCHANGED <<attempt, retryOf, notified, prunes, cancelling, fin, got, queue, work>>,
             posts' = posts \ {p} \/ (\E at : MovePost(p, at)),
             \A s \in Runs : \/ status'[s] = status[s]
                             \/ /\ status[s] \in {"running", "cancelled"}
                                /\ status'[s] \in {"success", "failed", "cancelled"}
                                /\ status[s] = "cancelled" => status'[s] = "cancelled"
      PROVE  Goal
  <2>1. OnePlace' /\ \A s \in Runs : (Out(s)' => Out(s)) /\ (Settling(s)' => Settling(s))
    <3>1. CASE posts' = posts \ {p}
      BY <1>2, <3>1, PlacesShrink DEF Inv
    <3>2. CASE \E at : MovePost(p, at)
      BY <1>2, <3>2, PlacesMovePost
    <3> QED
      BY <1>2, <3>1, <3>2
  <2> QED
    BY <1>2, <2>1, RestKept DEF Inv, Fresh
<1>3. CASE SubmitFind(p) \/ LoseResult(p)
  BY <1>2, <1>3 DEF SubmitFind, LoseResult, tableVars, pollVars, agentVars
<1>4. CASE SubmitCancelled(p)
  BY <1>1, <1>2, <1>4 DEF SubmitCancelled, pollVars, agentVars, Inv, TypeOK, TableTypeOK
<1>5. CASE SubmitRecord(p)
  <2>1. p.result \in {"success", "failed", "cancelled"}
    BY DEF Inv, TypeOK, Posts
  <2> QED
    BY <1>1, <1>2, <1>5, <2>1 DEF SubmitRecord, pollVars, agentVars, Inv, TypeOK, TableTypeOK
<1>6. CASE SubmitSettle(p)
  BY <1>6, SettleKeeps
<1> QED
  BY <1>3, <1>4, <1>5, <1>6 DEF SubmitStep

(* The operator's other requests, timeouts and crashes.                      *)
LEMMA OutsideKeeps ==
  ASSUME Inv,
         \/ \E r \in Runs : CancelNoProcess(r)
         \/ \E a \in Agents : Reassign(a) \/ PollTimeout(a) \/ AgentCrash(a)
         \/ ServerCrash
  PROVE  OnePlace' /\ Fresh' /\ History' /\ Deciding' /\ RetryChain'
<1> DEFINE Goal == OnePlace' /\ Fresh' /\ History' /\ Deciding' /\ RetryChain'
<1>1. ASSUME NEW r \in Runs, CancelNoProcess(r)
      PROVE  Goal
  <2>1. /\ UNCHANGED <<status, attempt, retryOf, notified, prunes, fin, got, queue, work, posts>>
        /\ \A s \in Runs : cancelling'[s] # "idle" => cancelling[s] # "idle"
    BY <1>1 DEF CancelNoProcess, pollVars, agentVars, Inv, TypeOK, TableTypeOK
  <2> QED
    BY <2>1, PlacesUnchanged, RestKept DEF Inv, Fresh
<1>2. ASSUME NEW a \in Agents, Reassign(a) \/ PollTimeout(a) \/ AgentCrash(a)
      PROVE  Goal
  <2>1. /\ UNCHANGED <<status, attempt, retryOf, notified, prunes, cancelling, fin, got, posts>>
        /\ \A b \in Agents : queue'[b] \subseteq queue[b] /\ work'[b] \in {work[b], NoRun}
    BY <1>2 DEF Reassign, PollTimeout, AgentCrash, tableVars, pollVars, agentVars, Inv,
                TypeOK
  <2>2. OnePlace' /\ \A r \in Runs : Out(r)' => Out(r)
    BY <2>1, PlacesShrink DEF Inv
  <2> QED
    BY <2>1, <2>2, QuietKeeps
<1>3. CASE ServerCrash
  <2>1. /\ UNCHANGED <<status, attempt, retryOf, notified, prunes, queue, work>>
        /\ \A h \in Handlers : got'[h] = {}
        /\ posts' = {}
        /\ \A c \in Callers, r \in Runs : fin'[c][r] = "idle"
        /\ \A r \in Runs : cancelling'[r] = "idle"
    BY <1>3 DEF ServerCrash, LoseHandlers, agentVars
  <2>2. /\ OnePlace'
        /\ \A r \in Runs : Out(r)' => Out(r)
        /\ \A r \in Runs : Settling(r)' => Settling(r)
    BY <2>1, PlacesShrink DEF Inv
  <2> QED
    BY <2>1, <2>2, RestKept DEF Inv
<1> QED
  BY <1>1, <1>2, <1>3

(* A worker that has a phase keeps a task.                                   *)
LEMMA WorkingKept == ASSUME Inv, Next PROVE Working'
<1>1. ASSUME UNCHANGED <<phase, work>>
      PROVE  Working'
  BY <1>1 DEF Inv, Working
<1>2. ASSUME NEW a \in Agents, WorkerStep(a)
      PROVE  Working'
  <2>1. ASSUME NEW r \in Runs, Take(a, r)
        PROVE  Working'
    BY <2>1 DEF Take, Inv, Working, TypeOK, Runs, NoRun
  <2>2. ASSUME NEW result, NEW prune, PostResult(a, result, prune)
        PROVE  Working'
    BY <2>2 DEF PostResult, Inv, Working, TypeOK
  <2>3. ASSUME phase[a] # "idle", work' = work, NEW next,
               phase' = [phase EXCEPT ![a] = next]
        PROVE  Working'
    BY <2>3 DEF Inv, Working, TypeOK
  <2>4. CASE StartBackup(a) \/ PrecheckLost(a) \/ BackupOk(a) \/ RetentionDone(a)
    BY <2>3, <2>4 DEF StartBackup, PrecheckLost, BackupOk, RetentionDone, GoOn
  <2>5. CASE Watch(a)
    BY <1>1, <2>5 DEF Watch
  <2>6. CASE SkipCancelled(a) \/ BackupFails(a) \/ Stopped(a) \/ ReportSuccess(a)
    BY <2>2, <2>6 DEF SkipCancelled, BackupFails, Stopped, ReportSuccess
  <2> QED
    BY <1>2, <2>1, <2>4, <2>5, <2>6 DEF WorkerStep
<1>3. ASSUME NEW a \in Agents, AgentCrash(a)
      PROVE  Working'
  BY <1>3 DEF AgentCrash, Inv, Working, TypeOK
<1>4. ASSUME NEW p \in posts, SubmitStep(p) \/ LoseResult(p)
      PROVE  Working'
  BY <1>1, <1>4 DEF SubmitStep, SubmitFind, SubmitCancelled, SubmitRecord, SubmitSettle,
                    LoseResult, agentVars
<1> QED
  BY <1>1, <1>2, <1>3, <1>4 DEF Next, TableStep, CancelNoProcess, Reassign, PollTimeout,
     PollSelect, PollReturn, PollFails, PollClaim, ServerCrash, agentVars

-----------------------------------------------------------------------------
(* At first no run exists, so none is anywhere.                              *)
LEMMA InitInv == Init => Inv
<1> SUFFICES ASSUME Init
             PROVE  Inv
  OBVIOUS
<1> USE RunTableAssumption DEF Init, TableInit
<1>1. TableTypeOK
  <2>1. jobExists \in BOOLEAN /\ held \in [Runs -> BOOLEAN]
    OBVIOUS
  <2>2. fin \in [Callers -> [Runs -> FinPc]]
    BY DEF FinPc
  <2> QED
    BY <2>1, <2>2 DEF TableTypeOK, RowStatus, Horizon
<1>2. TypeOK
  <2>1. stop \in [Agents -> BOOLEAN]
    OBVIOUS
  <2> QED
    BY <1>1, <2>1 DEF TypeOK, Phases
<1>3. \A r \in Runs : r # NoRun
  BY DEF Runs, NoRun
<1>4. \A r \in Runs : ~Out(r) /\ ~Settling(r) /\ ~Retried(r)
  BY <1>3 DEF Out, Answered, WithAgent, Posted, Settling, Retried
<1>5. OnePlace
  BY <1>3, <1>4 DEF OnePlace, OneAnswer, OneAgent, OneTask, OnePost, OneCaller, Apart,
                    Out, Answered, WithAgent, Posted, Settling
<1>6. Fresh /\ History /\ Deciding /\ Working /\ RetryChain
  BY <1>3, <1>4 DEF Fresh, History, Deciding, Working, RetryChain, Retried, Settling
<1> QED
  BY <1>2, <1>5, <1>6 DEF Inv

(* Every step of the table, the server and the agents keeps the invariant.   *)
LEMMA NextInv == Inv /\ [Next]_vars => Inv'
<1> SUFFICES ASSUME Inv, [Next]_vars
             PROVE  Inv'
  OBVIOUS
<1>1. CASE Next
  <2>1. TypeOK' /\ Working'
    BY <1>1, TypeStep, WorkingKept DEF Inv
  <2>2. OnePlace' /\ Fresh' /\ History' /\ Deciding' /\ RetryChain'
    BY <1>1, TableKeeps, OutsideKeeps, WorkerKeeps, PollKeeps, SubmitKeeps DEF Next
  <2> QED
    BY <2>1, <2>2 DEF Inv
<1>2. CASE UNCHANGED vars
  <2>1. UNCHANGED <<jobExists, status, attempt, retryOf, held, age, fin, notified,
                    cancelling, faults, jobAgent, owner, asker, todo, got, waiting,
                    queue, work, phase, stop, posts, prunes>>
    BY <1>2 DEF vars, tableVars, pollVars, agentVars
  <2>2. TypeOK'
    BY <2>1 DEF Inv, TypeOK, TableTypeOK
  <2>3. Working'
    BY <2>1 DEF Inv, Working
  <2>4. OnePlace' /\ Fresh' /\ History' /\ Deciding' /\ RetryChain'
    BY <2>1, PlacesUnchanged, QuietKeeps DEF Inv
  <2> QED
    BY <2>2, <2>3, <2>4 DEF Inv
<1> QED
  BY <1>1, <1>2

(* The inductive invariant of the runs that agents execute.                  *)
THEOREM AgentRunsInvariant == Spec => []Inv
BY InitInv, NextInv, PTL DEF Spec

(* Every variable keeps its type.                                            *)
THEOREM TypeCorrect == Spec => []TypeOK
<1>1. Inv => TypeOK
  BY DEF Inv
<1> QED
  BY <1>1, AgentRunsInvariant, PTL

(* claimBackupTasks hands a run out once, however many agents poll at the    *)
(* same time, time out, crash and are reassigned.                            *)
THEOREM RunsAreHandedOutOnce == Spec => []HandedOutOnce
<1>1. Inv => HandedOutOnce
  <2> SUFFICES ASSUME Inv, NEW r \in Runs
               PROVE  LET answers == {h \in Handlers : r \in got[h]}
                          holders == {a \in Agents : r \in Inflight(a)}
                          results == {p \in posts : p.run = r}
                      IN  /\ \A h1, h2 \in answers : h1 = h2
                          /\ \A a1, a2 \in holders : a1 = a2
                          /\ \A p1, p2 \in results : p1 = p2
                          /\ answers # {} => holders = {} /\ results = {}
                          /\ holders # {} => results = {}
                          /\ status[r] \in {"none", "queued"} =>
                               answers = {} /\ holders = {} /\ results = {}
    BY DEF HandedOutOnce
  <2>1. \A a \in Agents : r \in Inflight(a) <=> r \in queue[a] \/ work[a] = r
    BY DEF Inflight, Runs, NoRun
  <2>2. /\ Answered(r) => ~WithAgent(r) /\ ~Posted(r)
        /\ WithAgent(r) => ~Posted(r)
        /\ status[r] \in {"none", "queued"} => ~Answered(r) /\ ~WithAgent(r) /\ ~Posted(r)
    BY DEF Inv, OnePlace, Apart, Fresh, Out
  <2> QED
    BY <2>1, <2>2 DEF Inv, OnePlace, OneAnswer, OneAgent, OnePost, Answered, WithAgent,
                      Posted
<1> QED
  BY <1>1, AgentRunsInvariant, PTL

(* submitBackupResult records the prune of a run at most once.               *)
THEOREM RunsArePrunedOnce == Spec => []PrunedOnce
<1>1. Inv => PrunedOnce
  BY DEF Inv, History, PrunedOnce
<1> QED
  BY <1>1, AgentRunsInvariant, PTL

(* scheduleRetry retries a run at most once, counts its attempts, and never  *)
(* retries a success, although the check and the INSERT are two statements.  *)
THEOREM RetriesFormAChain == Spec => []RetryChain
<1>1. Inv => RetryChain
  BY DEF Inv
<1> QED
  BY <1>1, AgentRunsInvariant, PTL

(* finalize never notifies an outcome that is retried.                       *)
THEOREM RetriedIsNotNotified == Spec => []NotifiedHasNoRetry
<1>1. Inv => NotifiedHasNoRetry
  <2> SUFFICES ASSUME Inv, NEW q \in Runs, retryOf[q] # NoRun
               PROVE  notified[retryOf[q]] = {}
    BY DEF NotifiedHasNoRetry
  <2>1. retryOf[q] \in Runs /\ Retried(retryOf[q])
    BY DEF Inv, TypeOK, TableTypeOK, Retried
  <2> QED
    BY <2>1 DEF Inv, History
<1> QED
  BY <1>1, AgentRunsInvariant, PTL

(* The rows of job_runs stay consistent, for any number of runs, agents,     *)
(* concurrent polls, faults and retries.                                     *)
THEOREM RunTableIsSound == Spec => []TableSound
<1>1. TypeOK /\ PrunedOnce /\ RetryChain /\ NotifiedHasNoRetry => TableSound
  BY DEF TableSound
<1> QED
  BY <1>1, TypeCorrect, RunsArePrunedOnce, RetriesFormAChain, RetriedIsNotNotified, PTL
-----------------------------------------------------------------------------
(* AgentRuns implements RunLifecycle, for any number of runs, agents and    *)
(* polls, and the two action properties that follow from what a step may do *)
(* to a row.                                                                *)


(* What a step may do to the status of one row.                              *)
RowMoves(r) ==
  \/ status'[r] = status[r]
  \/ status[r] = "none" /\ status'[r] = "queued"
  \/ status[r] = "queued" /\ status'[r] \in {"running", "failed"}
  \/ status[r] = "running" /\ status'[r] \in {"success", "failed", "cancelled"}
  \/ status[r] # "none" /\ status'[r] = "cancelled" /\ cancelling[r] = "update"
  \/ status[r] # "none" /\ status'[r] = "gone" /\ jobExists' = FALSE

(* The rows go only with their job.                                          *)
Open == jobExists => \A r \in Runs : status[r] # "gone"

(* Steps outside the table that leave all rows and attempts alone.           *)
RowsUnchanged == UNCHANGED <<jobExists, status, attempt, retryOf>>

-----------------------------------------------------------------------------
(* The steps that change rows, by what they do to them.                      *)
LEMMA StepKinds ==
  ASSUME Inv, [Next]_vars
  PROVE  \/ RowsUnchanged
         \/ \E r \in Runs : CreateRun(r) \/ CancelUpdate(r)
         \/ DeleteRows
         \/ FailStaleQueuedRuns
         \/ \E c \in Callers, r, q \in Runs : FinalizeInsert(c, r, q)
         \/ \E h \in Handlers, r \in Runs : PollClaim(h, r)
         \/ \E p \in posts : SubmitCancelled(p) \/ SubmitRecord(p)
<1>1. CASE TableStep
  <2>1. ASSUME NEW c \in Callers, NEW r \in Runs, FinalizeStep(c, r)
        PROVE  RowsUnchanged \/ \E q \in Runs : FinalizeInsert(c, r, q)
    BY <2>1 DEF FinalizeStep, FinalizeRead, FinalizeActive, FinalizeFails, Notify,
                RowsUnchanged
  <2> QED
    BY <1>1, <2>1 DEF TableStep, CancelRead, Tick, RowsUnchanged
<1>2. ASSUME NEW a \in Agents, WorkerStep(a)
      PROVE  RowsUnchanged
  BY <1>2 DEF WorkerStep, Take, SkipCancelled, StartBackup, PrecheckLost, Watch,
     BackupOk, BackupFails, RetentionDone, Stopped, ReportSuccess, PostResult, GoOn,
     tableVars, RowsUnchanged
<1>3. ASSUME NEW p \in posts, SubmitFind(p) \/ SubmitSettle(p) \/ LoseResult(p)
      PROVE  RowsUnchanged
  BY <1>3 DEF SubmitFind, SubmitSettle, LoseResult, tableVars, RowsUnchanged
<1>4. ASSUME \/ \E r \in Runs : CancelNoProcess(r)
             \/ \E a \in Agents : Reassign(a) \/ PollTimeout(a) \/ AgentCrash(a)
             \/ \E a \in Agents, h \in Handlers : PollSelect(a, h)
             \/ \E h \in Handlers : PollReturn(h) \/ PollFails(h)
             \/ ServerCrash
             \/ UNCHANGED vars
      PROVE  RowsUnchanged
  BY <1>4 DEF CancelNoProcess, Reassign, PollTimeout, AgentCrash, PollSelect,
     PollReturn, PollFails, ServerCrash, LoseHandlers, vars, tableVars, RowsUnchanged
<1> QED
  BY <1>1, <1>2, <1>3, <1>4 DEF Next, SubmitStep

(* No step changes a row in any other way.                                   *)
LEMMA RowsMove ==
  ASSUME Inv, [Next]_vars, NEW r \in Runs
  PROVE  RowMoves(r)
<1> USE DEF RowMoves, Inv, TypeOK, TableTypeOK
<1>1. CASE RowsUnchanged
  BY <1>1 DEF RowsUnchanged
<1>2. ASSUME NEW s \in Runs, CreateRun(s)
      PROVE  RowMoves(r)
  BY <1>2 DEF CreateRun, NextRow
<1>3. ASSUME NEW s \in Runs, CancelUpdate(s)
      PROVE  RowMoves(r)
  BY <1>3 DEF CancelUpdate, Fresh
<1>4. CASE DeleteRows
  BY <1>4 DEF DeleteRows
<1>5. CASE FailStaleQueuedRuns
  BY <1>5 DEF FailStaleQueuedRuns, StaleRuns
<1>6. ASSUME NEW c \in Callers, NEW s \in Runs, NEW q \in Runs, FinalizeInsert(c, s, q)
      PROVE  RowMoves(r)
  BY <1>6 DEF FinalizeInsert, InsertRetry, NextRow
<1>7. ASSUME NEW h \in Handlers, NEW s \in Runs, PollClaim(h, s)
      PROVE  RowMoves(r)
  BY <1>7 DEF PollClaim
<1>8. ASSUME NEW p \in posts, SubmitCancelled(p) \/ SubmitRecord(p)
      PROVE  RowMoves(r)
  <2>1. p.run \in Runs /\ p.result \in {"success", "failed", "cancelled"}
    BY DEF Posts
  <2> QED
    BY <1>8, <2>1 DEF SubmitCancelled, SubmitRecord
<1> QED
  BY <1>1, <1>2, <1>3, <1>4, <1>5, <1>6, <1>7, <1>8, StepKinds

(* Rows go only in the step that removes their job.                          *)
LEMMA OpenKept ==
  ASSUME Inv, Open, [Next]_vars
  PROVE  Open'
<1>1. jobExists' => jobExists
  BY StepKinds DEF RowsUnchanged, CreateRun, CancelUpdate, DeleteRows,
     FailStaleQueuedRuns, FinalizeInsert, InsertRetry, PollClaim, SubmitCancelled,
     SubmitRecord
<1>2. \A r \in Runs : RowMoves(r)
  BY RowsMove
<1> QED
  BY <1>1, <1>2 DEF Open, RowMoves

(* submitBackupResult and the sweep never overwrite the operator's cancel.   *)
THEOREM CancelledRunsStayCancelled == Spec => CancelledStays
<1>1. Inv /\ [Next]_vars =>
        [\A r \in Runs : status[r] = "cancelled" => status'[r] \in {"cancelled", "gone"}]_vars
  BY RowsMove DEF RowMoves
<1> QED
  BY <1>1, AgentRunsInvariant, PTL DEF Spec, CancelledStays

(* A run that ended is changed by RunsService.cancel only.                   *)
THEOREM EndedRunsOnlyCancelled == Spec => EndedOnlyCancelled
<1>1. Inv /\ [Next]_vars =>
        [\A r \in Runs : status[r] \in {"success", "failed"} =>
           \/ status'[r] \in {status[r], "gone"}
           \/ status'[r] = "cancelled" /\ cancelling[r] = "update"]_vars
  BY RowsMove DEF RowMoves
<1> QED
  BY <1>1, AgentRunsInvariant, PTL DEF Spec, EndedOnlyCancelled

-----------------------------------------------------------------------------
(* What one row shows in the list.                                           *)
LEMMA ShownRow ==
  ASSUME TypeOK, TypeOK'
  PROVE  /\ \A r \in Runs : Shown[r] = IF status[r] \in {"none", "gone"} THEN "absent"
                                       ELSE status[r]
         /\ \A r \in Runs : Shown'[r] = IF status'[r] \in {"none", "gone"} THEN "absent"
                                        ELSE status'[r]
         /\ DOMAIN Shown = Runs /\ DOMAIN Shown' = Runs
         /\ Shown = [r \in Runs |-> Shown[r]] /\ Shown' = [r \in Runs |-> Shown'[r]]
BY DEF Shown

(* A step that changes the status of one row changes the list there only.    *)
LEMMA ShownExcept ==
  ASSUME TypeOK, TypeOK', NEW r \in Runs,
         \A s \in Runs \ {r} : status'[s] = status[s]
  PROVE  Shown' = [Shown EXCEPT ![r] = Shown'[r]]
BY ShownRow

(* A row that was there stays used, and nothing else becomes used.           *)
LEMMA UsedKept ==
  ASSUME \A s \in Runs : status'[s] = "none" <=> status[s] = "none"
  PROVE  Used' = Used
BY DEF Used

(* The initial table is the empty list.                                      *)
LEMMA InitRefines == Init => Lifecycle!LInit
<1> SUFFICES ASSUME Init
             PROVE  Lifecycle!LInit
  OBVIOUS
<1>1. Used = {} /\ HasRetry = {}
  BY DEF Init, TableInit, Used, HasRetry, Runs, NoRun
<1>2. Shown = [r \in Runs |-> "absent"]
  BY DEF Init, TableInit, Shown
<1> QED
  BY <1>1, <1>2 DEF Init, TableInit, Lifecycle!LInit

(* A step that changes the status of one used row, and nothing else.         *)
LEMMA BecomeRefines ==
  ASSUME Inv, TypeOK', NEW r \in Runs, NEW from, NEW to,
         status[r] \notin {"none", "gone"}, status[r] \in from,
         status'[r] = to, to \notin {"none", "gone"},
         \A s \in Runs \ {r} : status'[s] = status[s],
         UNCHANGED <<jobExists, attempt, retryOf>>
  PROVE  Lifecycle!Become(r, from, to)
<1>1. Used' = Used /\ HasRetry' = HasRetry
  BY DEF Used, HasRetry
<1>2. Shown[r] = status[r] /\ Shown' = [Shown EXCEPT ![r] = to]
  BY ShownRow, ShownExcept DEF Inv
<1> QED
  BY <1>1, <1>2 DEF Lifecycle!Become

(* Every step of AgentRuns is a step of RunLifecycle or leaves it alone.     *)
LEMMA NextRefines ==
  ASSUME Inv, Inv', Open, [Next]_vars
  PROVE  [Lifecycle!LNext]_(Lifecycle!avars)
<1> DEFINE Goal == [Lifecycle!LNext]_(Lifecycle!avars)
<1>1. TypeOK /\ TypeOK' /\ \A r \in Runs : r # NoRun
  BY DEF Inv, Runs, NoRun
<1>2. CASE RowsUnchanged
  BY <1>2 DEF RowsUnchanged, Lifecycle!avars, Used, Shown, HasRetry
<1>3. ASSUME NEW r \in Runs, CreateRun(r)
      PROVE  Goal
  <2>1. /\ jobExists /\ jobExists' = jobExists
        /\ status[r] = "none" /\ status'[r] = "queued"
        /\ \A s \in Runs \ {r} : status'[s] = status[s]
        /\ attempt' = attempt /\ retryOf' = retryOf
    BY <1>1, <1>3 DEF CreateRun, NextRow, TypeOK, TableTypeOK
  <2>2. r \notin Used /\ Used' = Used \union {r} /\ HasRetry' = HasRetry
    BY <2>1 DEF Used, HasRetry
  <2>3. Shown' = [Shown EXCEPT ![r] = "queued"]
    BY <1>1, <2>1, ShownRow, ShownExcept
  <2>4. attempt' = [attempt EXCEPT ![r] = 1]
    BY <1>1, <2>1 DEF Inv, Fresh, TypeOK, TableTypeOK
  <2>5. Lifecycle!Trigger(r)
    BY <2>1, <2>2, <2>3, <2>4 DEF Lifecycle!Trigger, Lifecycle!Enter
  <2> QED
    BY <2>5 DEF Lifecycle!LNext
<1>4. ASSUME NEW r \in Runs, CancelUpdate(r)
      PROVE  Goal
  <2>1. /\ cancelling[r] = "update"
        /\ status'[r] = IF status[r] = "gone" THEN "gone" ELSE "cancelled"
        /\ \A s \in Runs \ {r} : status'[s] = status[s]
        /\ UNCHANGED <<jobExists, attempt, retryOf>>
    BY <1>1, <1>4 DEF CancelUpdate, TypeOK, TableTypeOK
  <2>2. status[r] # "none"
    BY <2>1 DEF Inv, Fresh
  <2>3. CASE status[r] \in {"gone", "cancelled"}
    <3>1. \A s \in Runs : status'[s] = status[s]
      BY <2>1, <2>3
    <3> QED
      BY <2>1, <3>1 DEF Lifecycle!avars, Used, Shown, HasRetry
  <2>4. CASE status[r] \notin {"gone", "cancelled"}
    <3>1. status[r] \in Lifecycle!States \ {"absent", "cancelled"}
      BY <1>1, <2>2, <2>4 DEF TypeOK, TableTypeOK, RowStatus, Lifecycle!States
    <3>2. Lifecycle!Become(r, Lifecycle!States \ {"absent", "cancelled"}, "cancelled")
      BY <1>1, <2>1, <2>2, <2>4, <3>1, BecomeRefines
    <3> QED
      BY <3>2 DEF Lifecycle!LNext, Lifecycle!Cancel
  <2> QED
    BY <2>3, <2>4
<1>5. CASE DeleteRows
  <2>1. /\ jobExists /\ jobExists' = FALSE
        /\ \A s \in Runs : status'[s] = IF status[s] = "none" THEN "none" ELSE "gone"
        /\ attempt' = attempt /\ retryOf' = retryOf
    BY <1>5 DEF DeleteRows
  <2>2. Used' = Used /\ HasRetry' = HasRetry
    BY <2>1 DEF Used, HasRetry
  <2>3. Shown' = [r \in Runs |-> "absent"]
    BY <1>1, <2>1, ShownRow
  <2> QED
    BY <2>1, <2>2, <2>3 DEF Lifecycle!LNext, Lifecycle!Close
<1>6. CASE FailStaleQueuedRuns
  <2>1. /\ \A s \in Runs : status'[s] = IF s \in StaleRuns THEN "failed" ELSE status[s]
        /\ \A s \in StaleRuns : s \in Runs /\ status[s] = "queued"
        /\ UNCHANGED <<jobExists, attempt, retryOf>>
    BY <1>6 DEF FailStaleQueuedRuns, StaleRuns
  <2>2. Used' = Used /\ HasRetry' = HasRetry
    BY <2>1 DEF Used, HasRetry
  <2>3. Shown' = [r \in Runs |-> IF r \in StaleRuns THEN "failed" ELSE Shown[r]]
    BY <1>1, <2>1, ShownRow
  <2>4. StaleRuns \in SUBSET {r \in Runs : Shown[r] = "queued"}
    BY <1>1, <2>1, ShownRow
  <2>5. Lifecycle!Expire
    BY <2>1, <2>2, <2>3, <2>4 DEF Lifecycle!Expire
  <2> QED
    BY <2>5 DEF Lifecycle!LNext
<1>7. ASSUME NEW c \in Callers, NEW r \in Runs, NEW q \in Runs, FinalizeInsert(c, r, q)
      PROVE  Goal
  <2>1. /\ fin[c][r] = "insert" /\ jobExists /\ jobExists' = jobExists
        /\ status[q] = "none" /\ status'[q] = "queued"
        /\ \A s \in Runs \ {q} : status'[s] = status[s]
        /\ attempt' = [attempt EXCEPT ![q] = attempt[r] + 1]
        /\ retryOf' = [retryOf EXCEPT ![q] = r]
    BY <1>1, <1>7 DEF FinalizeInsert, InsertRetry, NextRow, TypeOK, TableTypeOK
  <2>2. /\ status[r] \in {"failed", "cancelled", "gone"} /\ attempt[r] <= RetryMax
        /\ ~Retried(r)
    BY <2>1 DEF Inv, Deciding, History, Settling
  <2>3. status[r] # "gone"
    BY <2>1 DEF Open
  <2>4. Shown[r] \in {"failed", "cancelled"} /\ r \notin HasRetry
    BY <1>1, <2>2, <2>3, ShownRow DEF HasRetry, Retried
  <2>5. q \notin Used /\ Used' = Used \union {q}
    BY <2>1 DEF Used
  <2>6. HasRetry' = HasRetry \union {r}
    <3>1. retryOf[q] = NoRun
      BY <2>1 DEF Inv, Fresh
    <3>2. \A s \in Runs : retryOf'[s] = IF s = q THEN r ELSE retryOf[s]
      BY <1>1, <2>1 DEF TypeOK, TableTypeOK
    <3> QED
      BY <1>1, <3>1, <3>2 DEF HasRetry
  <2>7. Shown' = [Shown EXCEPT ![q] = "queued"]
    BY <1>1, <2>1, ShownRow, ShownExcept
  <2>8. Lifecycle!Retry(r, q)
    BY <2>1, <2>2, <2>4, <2>5, <2>6, <2>7 DEF Lifecycle!Retry, Lifecycle!Enter
  <2> QED
    BY <2>8 DEF Lifecycle!LNext
<1>8. ASSUME NEW h \in Handlers, NEW r \in Runs, PollClaim(h, r)
      PROVE  Goal
  <2>1. CASE status[r] = "queued"
    <3>1. /\ status'[r] = "running" /\ \A s \in Runs \ {r} : status'[s] = status[s]
          /\ UNCHANGED <<jobExists, attempt, retryOf>>
      BY <1>1, <1>8, <2>1 DEF PollClaim, TypeOK, TableTypeOK
    <3>2. Lifecycle!Become(r, {"queued"}, "running")
      BY <1>1, <2>1, <3>1, BecomeRefines
    <3> QED
      BY <3>2 DEF Lifecycle!LNext, Lifecycle!Start
  <2>2. CASE status[r] # "queued"
    BY <1>2, <1>8, <2>2 DEF PollClaim, RowsUnchanged
  <2> QED
    BY <2>1, <2>2
<1>9. ASSUME NEW p \in posts, SubmitCancelled(p) \/ SubmitRecord(p)
      PROVE  Goal
  <2> DEFINE r == p.run
  <2>1. r \in Runs /\ p.result \in {"success", "failed", "cancelled"}
    BY <1>1 DEF TypeOK, Posts
  <2>2. UNCHANGED <<jobExists, attempt, retryOf>>
    BY <1>9 DEF SubmitCancelled, SubmitRecord
  <2>3. CASE status[r] = "running"
    <3>1. /\ status'[r] \in {"success", "failed", "cancelled"}
          /\ \A s \in Runs \ {r} : status'[s] = status[s]
      BY <1>1, <1>9, <2>1, <2>3 DEF SubmitCancelled, SubmitRecord, TypeOK, TableTypeOK
    <3> HIDE DEF r
    <3>2. CASE status'[r] \in {"success", "failed"}
      <4>1. Lifecycle!Become(r, {"running"}, status'[r])
        BY <1>1, <2>1, <2>2, <2>3, <3>1, <3>2, BecomeRefines
      <4> QED
        BY <2>1, <3>2, <4>1 DEF Lifecycle!LNext, Lifecycle!End
    <3>3. CASE status'[r] = "cancelled"
      <4>1. Lifecycle!Become(r, Lifecycle!States \ {"absent", "cancelled"}, "cancelled")
        BY <1>1, <2>1, <2>2, <2>3, <3>1, <3>3, BecomeRefines DEF Lifecycle!States
      <4> QED
        BY <2>1, <4>1 DEF Lifecycle!LNext, Lifecycle!Cancel
    <3> QED
      BY <3>1, <3>2, <3>3
  <2>4. CASE status[r] # "running"
    <3>1. \A s \in Runs : status'[s] = status[s]
      BY <1>1, <1>9, <2>1, <2>4 DEF SubmitCancelled, SubmitRecord, TypeOK, TableTypeOK
    <3> QED
      BY <2>2, <3>1 DEF Lifecycle!avars, Used, Shown, HasRetry
  <2> QED
    BY <2>3, <2>4
<1> QED
  BY <1>2, <1>3, <1>4, <1>5, <1>6, <1>7, <1>8, <1>9, StepKinds

(* The server, the agents and everything that may fail between them keep the *)
(* promise of the list of runs.                                              *)
THEOREM AgentRunsImplementLifecycle == Spec => ImplementsLifecycle
<1>1. Init => Open
  BY DEF Init, TableInit, Open
<1>2. Inv /\ Open /\ [Next]_vars => Open'
  BY OpenKept
<1>3. Inv /\ Inv' /\ Open /\ [Next]_vars => [Lifecycle!LNext]_(Lifecycle!avars)
  BY NextRefines
<1> QED
  BY <1>1, <1>2, <1>3, InitRefines, AgentRunsInvariant, PTL
     DEF Spec, ImplementsLifecycle, Lifecycle!LSpec
=============================================================================
