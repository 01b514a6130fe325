----------------------------- MODULE AgentRuns -----------------------------
(***************************************************************************)
(* Backup runs of a job that agents execute.  An agent polls the server;   *)
(* the poll handler selects the due queued runs of the agent's job and     *)
(* claims them one by one (AgentsService.claimBackupTasks); the agent runs *)
(* its tasks one at a time (agent/main.go: worker, runTask, runBackup),    *)
(* asks now and then whether its task was cancelled (cancelWatch) and      *)
(* posts one result, which submitBackupResult records.                     *)
(*                                                                         *)
(* Polls and results time out at the agent while the server still works on *)
(* them, messages get lost, and either side may crash at any step.  The    *)
(* operator triggers, cancels, reassigns and deletes in between.           *)
(***************************************************************************)
EXTENDS RunTable

CONSTANTS
  Agents,      \* enrolled agents
  NoAgent,     \* agent_id is null
  Handlers     \* bound: poll requests the server works on at the same time

ASSUME AgentsAssumption == NoAgent \notin Agents /\ NoAgent \notin Handlers

VARIABLES
  jobAgent,  \* backup_jobs.agent_id
  owner,     \* job_runs.agent_id
  asker,     \* server: the agent whose poll a handler serves
  todo,      \* server: runs the handler has selected and not yet looked at
  got,       \* server: runs the handler has claimed, to be returned
  waiting,   \* agent: the poll it waits for an answer to
  queue,     \* agent: tasks enqueued and not started (inflight, tasks)
  work,      \* agent: the task its worker runs
  phase,     \* agent: where that task stands
  stop,      \* agent: the task's context is cancelled
  posts,     \* results on their way, or being recorded by the server
  prunes     \* job_runs rows of kind prune, by parent_run_id

agentVars == <<queue, work, phase, stop>>
pollVars == <<asker, todo, got, waiting>>
vars == <<tableVars, jobAgent, owner, pollVars, agentVars, posts, prunes>>

-----------------------------------------------------------------------------
Phases == {"idle", "precheck", "backup", "retention", "report"}

(* A TaskResult: its status, whether it carries the outcome of a prune, and  *)
(* how far the server has got with it.                                       *)
Posts == [run : Runs, from : Agents,
          result : {"success", "failed", "cancelled"}, prune : BOOLEAN,
          at : {"sent", "found", "recorded"}]

TypeOK ==
  /\ TableTypeOK
  /\ jobAgent \in Agents
  /\ owner \in [Runs -> Agents \union {NoAgent}]
  /\ asker \in [Handlers -> Agents \union {NoAgent}]
  /\ todo \in [Handlers -> SUBSET Runs]
  /\ got \in [Handlers -> SUBSET Runs]
  /\ waiting \in [Agents -> Handlers \union {NoAgent}]
  /\ queue \in [Agents -> SUBSET Runs]
  /\ work \in [Agents -> Runs \union {NoRun}]
  /\ phase \in [Agents -> Phases]
  /\ stop \in [Agents -> BOOLEAN]
  /\ posts \subseteq Posts
  /\ prunes \in [Runs -> Nat]

Init ==
  /\ TableInit
  /\ jobAgent \in Agents
  /\ owner = [r \in Runs |-> NoAgent]
  /\ asker = [h \in Handlers |-> NoAgent]
  /\ todo = [h \in Handlers |-> {}]
  /\ got = [h \in Handlers |-> {}]
  /\ waiting = [a \in Agents |-> NoAgent]
  /\ queue = [a \in Agents |-> {}]
  /\ work = [a \in Agents |-> NoRun]
  /\ phase = [a \in Agents |-> "idle"]
  /\ stop = [a \in Agents |-> FALSE]
  /\ posts = {}
  /\ prunes = [r \in Runs |-> 0]

-----------------------------------------------------------------------------
(* The operator and the clock, on the table alone.                           *)

TableStep ==
  /\ \/ \E r \in Runs : CreateRun(r) \/ CancelRead(r) \/ CancelUpdate(r)
     \/ DeleteRows
     \/ Tick
     \/ FailStaleQueuedRuns
     \/ \E c \in Callers, r \in Runs : FinalizeStep(c, r)
  /\ UNCHANGED <<jobAgent, owner, pollVars, agentVars, posts, prunes>>

(* No runner of the server process knows a run that an agent executes, so    *)
(* RunsService.cancel goes on to settle the row itself.                      *)
CancelNoProcess(r) ==
  /\ cancelling[r] = "read"
  /\ cancelling' = [cancelling EXCEPT ![r] = "update"]
  /\ UNCHANGED <<jobExists, status, attempt, retryOf, held, age, fin, notified,
                 faults, jobAgent, owner, pollVars, agentVars, posts, prunes>>

(* JobsService.update moves the job to another agent.                        *)
Reassign(a) ==
  /\ jobExists /\ a # jobAgent
  /\ jobAgent' = a
  /\ UNCHANGED <<tableVars, owner, pollVars, agentVars, posts, prunes>>

-----------------------------------------------------------------------------
(* Poll *)

(* The agent polls; the handler's SELECT of due queued runs.                 *)
PollSelect(a, h) ==
  /\ waiting[a] = NoAgent /\ asker[h] = NoAgent
  /\ waiting' = [waiting EXCEPT ![a] = h]
  /\ asker' = [asker EXCEPT ![h] = a]
  /\ todo' = [todo EXCEPT ![h] =
                {r \in Runs : jobAgent = a /\ status[r] = "queued" /\ Due(r)}]
  /\ got' = [got EXCEPT ![h] = {}]
  /\ UNCHANGED <<tableVars, jobAgent, owner, agentVars, posts, prunes>>

(* Mutant: the run is claimed by its id alone.                               *)
PollClaimById(h, r) ==
  /\ r \in todo[h]
  /\ todo' = [todo EXCEPT ![h] = @ \ {r}]
  /\ status' = [status EXCEPT ![r] = "running"]
  /\ owner' = [owner EXCEPT ![r] = asker[h]]
  /\ got' = [got EXCEPT ![h] = @ \union {r}]
  /\ age' = [age EXCEPT ![r] = 0]
  /\ UNCHANGED <<jobExists, attempt, retryOf, held, fin, notified,
                 cancelling, faults, jobAgent, asker, waiting, agentVars,
                 posts, prunes>>

(* The guarded UPDATE of one selected row, and the task built from it.  A    *)
(* row that is no longer queued is skipped.                                  *)
PollClaim(h, r) ==
  /\ r \in todo[h]
  /\ todo' = [todo EXCEPT ![h] = @ \ {r}]
  /\ IF status[r] = "queued"
     THEN /\ status' = [status EXCEPT ![r] = "running"]
          /\ owner' = [owner EXCEPT ![r] = asker[h]]
          /\ got' = [got EXCEPT ![h] = @ \union {r}]
          /\ age' = [age EXCEPT ![r] = 0]
     ELSE UNCHANGED <<status, owner, got, age>>
  /\ UNCHANGED <<jobExists, attempt, retryOf, held, fin, notified,
                 cancelling, faults, jobAgent, asker, waiting, agentVars,
                 posts, prunes>>

(* Mutant: what a poll has claimed is returned again by the next one.        *)
EndHandlerKeeps(h) ==
  /\ asker' = [asker EXCEPT ![h] = NoAgent]
  /\ todo' = [todo EXCEPT ![h] = {}]
  /\ got' = got

EndHandler(h) ==
  /\ asker' = [asker EXCEPT ![h] = NoAgent]
  /\ todo' = [todo EXCEPT ![h] = {}]
  /\ got' = [got EXCEPT ![h] = {}]

Inflight(a) == queue[a] \union ({work[a]} \ {NoRun})

(* The answer reaches the agent, which enqueues the tasks it does not have   *)
(* in flight.  An answer to a poll the agent has given up goes nowhere.      *)
PollReturn(h) ==
  /\ asker[h] # NoAgent /\ todo[h] = {}
  /\ EndHandler(h)
  /\ LET a == asker[h] IN
       IF waiting[a] = h
       THEN /\ queue' = [queue EXCEPT ![a] = @ \union (got[h] \ Inflight(a))]
            /\ waiting' = [waiting EXCEPT ![a] = NoAgent]
       ELSE UNCHANGED <<queue, waiting>>
  /\ UNCHANGED <<tableVars, jobAgent, owner, work, phase, stop, posts, prunes>>

(* Resolving a claimed run's repository throws (or a later statement of the  *)
(* poll does): the agent gets an error for all of it.                        *)
PollFails(h) ==
  /\ asker[h] # NoAgent
  /\ Fault
  /\ EndHandler(h)
  /\ waiting' = [a \in Agents |-> IF waiting[a] = h THEN NoAgent ELSE waiting[a]]
  /\ UNCHANGED <<jobExists, status, attempt, retryOf, held, age, fin, notified,
                 cancelling, jobAgent, owner, agentVars, posts, prunes>>

(* The agent's HTTP client gives up; the handler carries on.                 *)
PollTimeout(a) ==
  /\ waiting[a] # NoAgent
  /\ Fault
  /\ waiting' = [waiting EXCEPT ![a] = NoAgent]
  /\ UNCHANGED <<jobExists, status, attempt, retryOf, held, age, fin, notified,
                 cancelling, jobAgent, owner, asker, todo, got, agentVars, posts,
                 prunes>>

-----------------------------------------------------------------------------
(* The agent's worker *)

(* Mutant: a run that is not there any more is not reported as cancelled.    *)
SaysCancelledKnown(a, r) == status[r] = "cancelled" /\ owner[r] = a

(* AgentsService.taskState: a deleted run counts as cancelled.               *)
SaysCancelled(a, r) ==
  \/ status[r] = "gone"
  \/ status[r] = "cancelled" /\ owner[r] = a

Take(a, r) ==
  /\ work[a] = NoRun /\ r \in queue[a]
  /\ queue' = [queue EXCEPT ![a] = @ \ {r}]
  /\ work' = [work EXCEPT ![a] = r]
  /\ phase' = [phase EXCEPT ![a] = "precheck"]
  /\ stop' = [stop EXCEPT ![a] = FALSE]
  /\ UNCHANGED <<tableVars, jobAgent, owner, pollVars, posts, prunes>>

(* postResult: posted once, and the worker moves on whatever becomes of it.  *)
PostResult(a, result, prune) ==
  /\ posts' = posts \union
                {[run |-> work[a], from |-> a, result |-> result,
                  prune |-> prune, at |-> "sent"]}
  /\ work' = [work EXCEPT ![a] = NoRun]
  /\ phase' = [phase EXCEPT ![a] = "idle"]
  /\ stop' = [stop EXCEPT ![a] = FALSE]
  /\ UNCHANGED <<tableVars, jobAgent, owner, pollVars, queue, prunes>>

GoOn(a, next) ==
  /\ phase' = [phase EXCEPT ![a] = next]
  /\ UNCHANGED <<tableVars, jobAgent, owner, pollVars, queue, work, stop, posts,
                 prunes>>

(* runTask asks once before it starts: a task cancelled while it waited      *)
(* never starts.                                                             *)
SkipCancelled(a) ==
  /\ phase[a] = "precheck"
  /\ SaysCancelled(a, work[a])
  /\ PostResult(a, "cancelled", FALSE)

StartBackup(a) ==
  /\ phase[a] = "precheck"
  /\ ~SaysCancelled(a, work[a])
  /\ GoOn(a, "backup")

(* The question gets no answer, which counts as no.                          *)
PrecheckLost(a) ==
  /\ phase[a] = "precheck"
  /\ Fault
  /\ phase' = [phase EXCEPT ![a] = "backup"]
  /\ UNCHANGED <<jobExists, status, attempt, retryOf, held, age, fin, notified,
                 cancelling, jobAgent, owner, pollVars, queue, work, stop, posts,
                 prunes>>

(* The watcher's periodic check cancels the context.                         *)
Watch(a) ==
  /\ phase[a] \in {"backup", "retention", "report"}
  /\ ~stop[a]
  /\ SaysCancelled(a, work[a])
  /\ stop' = [stop EXCEPT ![a] = TRUE]
  /\ UNCHANGED <<tableVars, jobAgent, owner, pollVars, queue, work, phase,
                 posts, prunes>>

(* Pre-script, init and backup.  Once the context is cancelled restic is     *)
(* interrupted, and however it ended the run is reported cancelled.          *)
BackupOk(a) == phase[a] = "backup" /\ ~stop[a] /\ GoOn(a, "retention")

BackupFails(a) ==
  phase[a] = "backup" /\ ~stop[a] /\ PostResult(a, "failed", FALSE)

(* Forget and prune; their failures are only logged.                         *)
RetentionDone(a) == phase[a] = "retention" /\ ~stop[a] /\ GoOn(a, "report")

Stopped(a) ==
  /\ phase[a] \in {"backup", "retention"}
  /\ stop[a]
  /\ PostResult(a, "cancelled", FALSE)

(* Past the last look at the context: success, whatever the operator does.   *)
ReportSuccess(a) ==
  /\ phase[a] = "report"
  /\ \E prune \in BOOLEAN : PostResult(a, "success", prune)

(* The agent process dies, taking its tasks with it.                         *)
AgentCrash(a) ==
  /\ Fault
  /\ queue' = [queue EXCEPT ![a] = {}]
  /\ work' = [work EXCEPT ![a] = NoRun]
  /\ phase' = [phase EXCEPT ![a] = "idle"]
  /\ stop' = [stop EXCEPT ![a] = FALSE]
  /\ waiting' = [waiting EXCEPT ![a] = NoAgent]
  /\ UNCHANGED <<jobExists, status, attempt, retryOf, held, age, fin, notified,
                 cancelling, jobAgent, owner, asker, todo, got, posts, prunes>>

WorkerStep(a) ==
  \/ \E r \in Runs : Take(a, r)
  \/ SkipCancelled(a) \/ StartBackup(a) \/ PrecheckLost(a) \/ Watch(a)
  \/ BackupOk(a) \/ BackupFails(a) \/ RetentionDone(a)
  \/ Stopped(a) \/ ReportSuccess(a)

-----------------------------------------------------------------------------
(* AgentsService.submitResult and submitBackupResult *)

MovePost(p, at) == posts' = (posts \ {p}) \union {[p EXCEPT !.at = at]}

(* Mutant: the result must come from the agent the job has now.              *)
SubmitFindByJob(p) ==
  /\ p.at = "sent"
  /\ IF status[p.run] # "gone" /\ jobAgent = p.from
     THEN MovePost(p, "found")
     ELSE posts' = posts \ {p}
  /\ UNCHANGED <<tableVars, jobAgent, owner, pollVars, agentVars, prunes>>

(* The SELECTs: a run that is gone, or another agent's, is not found.        *)
SubmitFind(p) ==
  /\ p.at = "sent"
  /\ IF status[p.run] # "gone" /\ owner[p.run] = p.from
     THEN MovePost(p, "found")
     ELSE posts' = posts \ {p}
  /\ UNCHANGED <<tableVars, jobAgent, owner, pollVars, agentVars, prunes>>

(* A cancelled result only confirms a cancel; nothing is retried or sent.    *)
SubmitCancelled(p) ==
  /\ p.at = "found" /\ p.result = "cancelled"
  /\ posts' = posts \ {p}
  /\ status' = [status EXCEPT ![p.run] =
                  IF @ \in {"running", "cancelled"} THEN "cancelled" ELSE @]
  /\ UNCHANGED <<jobExists, attempt, retryOf, held, age, fin, notified,
                 cancelling, faults, jobAgent, owner, pollVars, agentVars,
                 prunes>>

(* Mutant: the UPDATE lacks its guard.                                       *)
SubmitRecordById(p) ==
  /\ p.at = "found" /\ p.result # "cancelled"
  /\ MovePost(p, "recorded")
  /\ status' = [status EXCEPT ![p.run] = IF @ = "gone" THEN @ ELSE p.result]
  /\ UNCHANGED <<jobExists, attempt, retryOf, held, age, fin, notified,
                 cancelling, faults, jobAgent, owner, pollVars, agentVars,
                 prunes>>

(* The UPDATE guarded by status = 'running'.                                 *)
SubmitRecord(p) ==
  /\ p.at = "found" /\ p.result # "cancelled"
  /\ MovePost(p, "recorded")
  /\ status' = [status EXCEPT ![p.run] = IF @ = "running" THEN p.result ELSE @]
  /\ UNCHANGED <<jobExists, attempt, retryOf, held, age, fin, notified,
                 cancelling, faults, jobAgent, owner, pollVars, agentVars,
                 prunes>>

(* PruneRunnerService.record, then finalize.  With the job deleted meanwhile *)
(* the prune row violates its foreign key and the handler ends there.        *)
SubmitSettle(p) ==
  /\ p.at = "recorded"
  /\ posts' = posts \ {p}
  /\ IF p.prune /\ ~jobExists
     THEN UNCHANGED <<prunes, fin>>
     ELSE /\ prunes' = [prunes EXCEPT ![p.run] = IF p.prune THEN @ + 1 ELSE @]
          /\ FinalizeTo("settle", p.run, "read")
  /\ UNCHANGED <<jobExists, status, attempt, retryOf, held, age, notified,
                 cancelling, faults, jobAgent, owner, pollVars, agentVars>>

SubmitStep(p) ==
  SubmitFind(p) \/ SubmitCancelled(p) \/ SubmitRecord(p) \/ SubmitSettle(p)

(* The request is lost, or a statement of its handler fails; nobody posts    *)
(* the result again.                                                         *)
LoseResult(p) ==
  /\ Fault
  /\ posts' = posts \ {p}
  /\ UNCHANGED <<jobExists, status, attempt, retryOf, held, age, fin, notified,
                 cancelling, jobAgent, owner, pollVars, agentVars, prunes>>

(* The server process dies and restarts: every handler is lost, and agents   *)
(* see their requests fail.                                                  *)
ServerCrash ==
  /\ LoseHandlers
  /\ asker' = [h \in Handlers |-> NoAgent]
  /\ todo' = [h \in Handlers |-> {}]
  /\ got' = [h \in Handlers |-> {}]
  /\ waiting' = [a \in Agents |-> NoAgent]
  /\ posts' = {}
  /\ UNCHANGED <<jobAgent, owner, agentVars, prunes>>

-----------------------------------------------------------------------------
Next ==
  \/ TableStep
  \/ \E r \in Runs : CancelNoProcess(r)
  \/ \E a \in Agents : Reassign(a) \/ PollTimeout(a) \/ AgentCrash(a) \/ WorkerStep(a)
  \/ \E a \in Agents, h \in Handlers : PollSelect(a, h)
  \/ \E h \in Handlers : PollReturn(h) \/ PollFails(h)
  \/ \E h \in Handlers, r \in Runs : PollClaim(h, r)
  \/ \E p \in posts : SubmitStep(p) \/ LoseResult(p)
  \/ ServerCrash

Spec == Init /\ [][Next]_vars

-----------------------------------------------------------------------------
(* Safety *)

(* "Claim the run so it is not handed out twice": at any moment a run is in  *)
(* at most one answer to a poll, or with one agent, or in one result, and    *)
(* none of those is a run that still waits to be handed out.                 *)
HandedOutOnce ==
  \A r \in Runs :
    LET answers == {h \in Handlers : r \in got[h]}
        holders == {a \in Agents : r \in Inflight(a)}
        results == {p \in posts : p.run = r}
    IN  /\ \A h1, h2 \in answers : h1 = h2
        /\ \A a1, a2 \in holders : a1 = a2
        /\ \A p1, p2 \in results : p1 = p2
        /\ answers # {} => holders = {} /\ results = {}
        /\ holders # {} => results = {}
        /\ status[r] \in {"none", "queued"} =>
             answers = {} /\ holders = {} /\ results = {}

(* The prune an agent ran after a backup shows up once in the activity feed, *)
(* however often polls, results and processes fail in between.               *)
PrunedOnce == \A r \in Runs : prunes[r] <= 1

(* The rows of job_runs stay consistent whatever the agents, the messages    *)
(* and the crashes do: well-formed, pruned once, retried once and in order,  *)
(* and no failure is both notified and retried.                              *)
TableSound == TypeOK /\ PrunedOnce /\ RetryChain /\ NotifiedHasNoRetry

(* A cancelled run stays cancelled, whatever an agent still reports.         *)
CancelledStays ==
  [][\A r \in Runs : status[r] = "cancelled" => status'[r] \in {"cancelled", "gone"}]_vars

(* A run that ended is settled for good: no late result, claim or sweep      *)
(* changes it.  Only RunsService.cancel may still overwrite it.              *)
EndedOnlyCancelled ==
  [][\A r \in Runs : status[r] \in {"success", "failed"} =>
       \/ status'[r] \in {status[r], "gone"}
       \/ status'[r] = "cancelled" /\ cancelling[r] = "update"]_vars

(* The refinement mapping to RunLifecycle.                                   *)
Used == {r \in Runs : status[r] # "none"}
Shown == [r \in Runs |-> IF status[r] \in {"none", "gone"} THEN "absent" ELSE status[r]]
HasRetry == {f \in Runs : \E q \in Runs : retryOf[q] = f}

Lifecycle == INSTANCE RunLifecycle WITH
  Ids <- Runs, open <- jobExists, used <- Used, state <- Shown, tries <- attempt,
  retried <- HasRetry

(* What the list of runs promises (RunLifecycle), whatever the agents, the   *)
(* messages and the crashes do.                                              *)
ImplementsLifecycle == Lifecycle!LSpec

-----------------------------------------------------------------------------
(* Liveness.  A live agent watches its task, and restic ends once it is       *)
(* interrupted (killed after stopGrace); the scripts have timeouts.          *)
AgentStops(a) ==
  \/ SkipCancelled(a) \/ Watch(a) \/ Stopped(a) \/ ReportSuccess(a)

(* The clock and the server's intervals go on, and what a live process has   *)
(* begun comes to its end.  No agent has to poll, and restic may run for     *)
(* ever unless it is interrupted.                                            *)
Fairness ==
  /\ WF_vars(Tick /\ TableStep)
  /\ WF_vars(FailStaleQueuedRuns /\ TableStep)
  /\ WF_vars((\E c \in Callers, r \in Runs : FinalizeStep(c, r)) /\ TableStep)
  /\ \A h \in Handlers : WF_vars(PollReturn(h) \/ \E r \in Runs : PollClaim(h, r))
  /\ \A a \in Agents : WF_vars(AgentStops(a))
  /\ WF_vars(\E p \in posts : SubmitStep(p))

FairSpec == Spec /\ Fairness

(* A run cancelled or deleted on the server is stopped on the agent, even if *)
(* restic by itself would never come to an end.                              *)
CancelStops ==
  \A r \in Runs :
    (status[r] \in {"cancelled", "gone"} /\ \E a \in Agents : work[a] = r)
      ~> ~ \E a \in Agents : work[a] = r

(* If restic always ends, every run comes to an end, across cancels,         *)
(* reassignments and sweeps, unless a message was lost or a process died.    *)
RunsEnd == (\A a \in Agents : WF_vars(WorkerStep(a))) => RunEnds
=============================================================================
