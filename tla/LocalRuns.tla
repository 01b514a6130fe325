----------------------------- MODULE LocalRuns -----------------------------
(***************************************************************************)
(* Backup runs of a job that the server executes itself                    *)
(* (JobRunnerService.executeLocal), with the prune that follows a backup   *)
(* (PruneRunnerService.run), the interval that starts due retries, the     *)
(* operator's cancel and the shutdown and crash of the server process.     *)
(*                                                                         *)
(* A run's program counter names the await it is suspended at: "load" and  *)
(* "mark" before the try block, "prepare" (resolve, pre-script, init),     *)
(* "backup" (the restic child runs), "forget" (forget, post-success        *)
(* script), "recorded" (the success UPDATE is through), "pruning",         *)
(* "failing" and "cancelling" (the catch block, which has looked at the    *)
(* abort signal), "settled" (before the finally block).                    *)
(***************************************************************************)
EXTENDS RunTable

VARIABLES
  pc,          \* where executeLocal(run) is suspended
  running,     \* keys of JobRunnerService.running
  aborted,     \* runs whose AbortController is aborted
  killed,      \* runs whose restic child got a SIGTERM
  pruning,     \* runs whose prune row shows running
  dispatched,  \* history: how often the run was dispatched
  stopping     \* the server is shutting down

localVars == <<pc, running, aborted, killed, pruning, dispatched, stopping>>
vars == <<tableVars, localVars>>

-----------------------------------------------------------------------------
InTry == {"prepare", "backup", "forget", "recorded", "pruning", "failing",
          "cancelling", "settled"}
Pcs == {"idle", "load", "mark"} \union InTry

TypeOK ==
  /\ TableTypeOK
  /\ pc \in [Runs -> Pcs]
  /\ running \subseteq Runs
  /\ aborted \subseteq Runs
  /\ killed \subseteq aborted
  /\ pruning \subseteq Runs
  /\ dispatched \in [Runs -> Nat]
  /\ stopping \in BOOLEAN

Init ==
  /\ TableInit
  /\ pc = [r \in Runs |-> "idle"]
  /\ running = {}
  /\ aborted = {}
  /\ killed = {}
  /\ pruning = {}
  /\ dispatched = [r \in Runs |-> 0]
  /\ stopping = FALSE

Goto(r, next) == pc' = [pc EXCEPT ![r] = next]

-----------------------------------------------------------------------------
(* Starting a run *)

(* POST /jobs/:id/run and SchedulerService.trigger: createRun, then dispatch. *)
Trigger(r) ==
  /\ ~stopping
  /\ CreateRun(r)
  /\ Goto(r, "load")
  /\ dispatched' = [dispatched EXCEPT ![r] = @ + 1]
  /\ UNCHANGED <<running, aborted, killed, pruning, stopping>>

(* JobRunnerService.startDueRetries: one UPDATE claims the due retries by     *)
(* clearing not_before, and each of them is dispatched.                       *)
DueRetries == {r \in Runs : status[r] = "queued" /\ held[r] /\ age[r] >= RetryDelay}

(* Mutant: the due retries are selected and dispatched, but not claimed.     *)
StartDueRetriesUnclaimed ==
  /\ ~stopping
  /\ DueRetries # {}
  /\ pc' = [r \in Runs |-> IF r \in DueRetries THEN "load" ELSE pc[r]]
  /\ dispatched' = [r \in Runs |-> IF r \in DueRetries THEN dispatched[r] + 1
                                                      ELSE dispatched[r]]
  /\ UNCHANGED <<tableVars, running, aborted, killed, pruning, stopping>>

StartDueRetries ==
  /\ ~stopping
  /\ DueRetries # {}
  /\ held' = [r \in Runs |-> IF r \in DueRetries THEN FALSE ELSE held[r]]
  /\ pc' = [r \in Runs |-> IF r \in DueRetries THEN "load" ELSE pc[r]]
  /\ dispatched' = [r \in Runs |-> IF r \in DueRetries THEN dispatched[r] + 1
                                                      ELSE dispatched[r]]
  /\ UNCHANGED <<jobExists, status, attempt, retryOf, age, fin, notified,
                 cancelling, faults, running, aborted, killed, pruning, stopping>>

(* dispatch and loadRunContext: a deleted run ends here; otherwise the run    *)
(* enters the map with a fresh AbortController.                               *)
Load(r) ==
  /\ pc[r] = "load"
  /\ IF status[r] = "gone"
     THEN Goto(r, "idle") /\ UNCHANGED running
     ELSE Goto(r, "mark") /\ running' = running \union {r}
  /\ UNCHANGED <<tableVars, aborted, killed, pruning, dispatched, stopping>>

(* One of the SELECTs fails; the run stays queued.  startDueRetries waits for *)
(* each dispatch in turn, so the retries after r are not dispatched either.   *)
LoadFails(r) ==
  /\ pc[r] = "load"
  /\ Fault
  /\ \E after \in SUBSET {q \in Runs \ {r} : pc[q] = "load" /\ retryOf[q] # NoRun} :
       /\ retryOf[r] = NoRun => after = {}
       /\ pc' = [q \in Runs |-> IF q \in after \union {r} THEN "idle" ELSE pc[q]]
  /\ UNCHANGED <<jobExists, status, attempt, retryOf, held, age, fin, notified,
                 cancelling, running, aborted, killed, pruning, dispatched,
                 stopping>>

(* UPDATE status = 'running', by id alone.                                    *)
MarkRunning(r) ==
  /\ pc[r] = "mark"
  /\ Goto(r, "prepare")
  /\ status' = [status EXCEPT ![r] = IF @ = "gone" THEN @ ELSE "running"]
  /\ age' = [age EXCEPT ![r] = 0]
  /\ UNCHANGED <<jobExists, attempt, retryOf, held, fin, notified,
                 cancelling, faults, running, aborted, killed, pruning,
                 dispatched, stopping>>

(* That UPDATE fails outside the try block: the run keeps its place in the    *)
(* map although nothing executes it.                                          *)
MarkFails(r) ==
  /\ pc[r] = "mark"
  /\ Fault
  /\ Goto(r, "idle")
  /\ UNCHANGED <<jobExists, status, attempt, retryOf, held, age, fin, notified,
                 cancelling, running, aborted, killed, pruning, dispatched,
                 stopping>>

-----------------------------------------------------------------------------
(* The try block *)

Advance(r, from, to) ==
  /\ pc[r] = from
  /\ Goto(r, to)
  /\ UNCHANGED <<tableVars, running, aborted, killed, pruning, dispatched,
                 stopping>>

(* An error reaches the catch block, which decides by the abort signal.       *)
Caught(r) == IF r \in aborted THEN "cancelling" ELSE "failing"

Prepared(r) == Advance(r, "prepare", "backup")
PrepareFails(r) == Advance(r, "prepare", Caught(r))

(* A restic that was signalled does not complete.                             *)
BackupOk(r) == r \notin killed /\ Advance(r, "backup", "forget")
BackupFails(r) == Advance(r, "backup", Caught(r))
ForgetFails(r) == Advance(r, "forget", Caught(r))

(* forget and the post-success script are through; UPDATE status = 'success'. *)
RecordSuccess(r) ==
  /\ pc[r] = "forget"
  /\ Goto(r, "recorded")
  /\ status' = [status EXCEPT ![r] = IF @ = "gone" THEN @ ELSE "success"]
  /\ UNCHANGED <<jobExists, attempt, retryOf, held, age, fin, notified,
                 cancelling, faults, running, aborted, killed, pruning,
                 dispatched, stopping>>

(* PruneRunnerService.createRow, when the retention asks for a prune.         *)
StartPrune(r) ==
  /\ pc[r] = "recorded" /\ jobExists
  /\ Goto(r, "pruning")
  /\ pruning' = pruning \union {r}
  /\ UNCHANGED <<tableVars, running, aborted, killed, dispatched, stopping>>

(* The INSERT is rejected (the job is gone, or the statement failed) and so   *)
(* is PruneRunnerService.run.                                                 *)
StartPruneFails(r) ==
  /\ pc[r] = "recorded"
  /\ \/ ~jobExists /\ UNCHANGED faults
     \/ Fault
  /\ Goto(r, Caught(r))
  /\ UNCHANGED <<jobExists, status, attempt, retryOf, held, age, fin, notified,
                 cancelling, running, aborted, killed, pruning, dispatched,
                 stopping>>

(* PruneRunnerService.execute settles the prune row, with the outcome restic  *)
(* or the operator's cancel gave it; it never rejects.                        *)
PruneEnds(r) ==
  /\ pc[r] = "pruning"
  /\ Goto(r, "settled")
  /\ pruning' = pruning \ {r}
  /\ UNCHANGED <<tableVars, running, aborted, killed, dispatched, stopping>>

(* The UPDATE in the catch block, by id alone.                                *)
RecordFailure(r) ==
  /\ pc[r] \in {"failing", "cancelling"}
  /\ Goto(r, "settled")
  /\ status' = [status EXCEPT ![r] = IF @ = "gone" THEN @
                                     ELSE IF pc[r] = "failing" THEN "failed"
                                     ELSE "cancelled"]
  /\ UNCHANGED <<jobExists, attempt, retryOf, held, age, fin, notified,
                 cancelling, faults, running, aborted, killed, pruning,
                 dispatched, stopping>>

(* An UPDATE of the run fails: the first one is caught, the second one goes   *)
(* on to the finally block.                                                   *)
RecordFails(r) ==
  /\ Fault
  /\ \/ pc[r] = "forget" /\ Goto(r, Caught(r))
     \/ pc[r] \in {"failing", "cancelling"} /\ Goto(r, "settled")
  /\ UNCHANGED <<jobExists, status, attempt, retryOf, held, age, fin, notified,
                 cancelling, running, aborted, killed, pruning, dispatched,
                 stopping>>

(* The finally block (no prune was asked for, or it is over).                 *)
Finally(r) ==
  /\ pc[r] \in {"recorded", "settled"}
  /\ Goto(r, "idle")
  /\ running' = running \ {r}
  /\ aborted' = aborted \ {r}
  /\ killed' = killed \ {r}
  /\ FinalizeTo("settle", r, "read")
  /\ UNCHANGED <<jobExists, status, attempt, retryOf, held, age, notified,
                 cancelling, faults, pruning, dispatched, stopping>>

ExecuteStep(r) ==
  \/ Load(r) \/ MarkRunning(r)
  \/ Prepared(r) \/ PrepareFails(r)
  \/ BackupOk(r) \/ BackupFails(r) \/ ForgetFails(r)
  \/ RecordSuccess(r) \/ StartPrune(r) \/ PruneEnds(r)
  \/ RecordFailure(r) \/ Finally(r)

ExecuteFault(r) ==
  LoadFails(r) \/ MarkFails(r) \/ StartPruneFails(r) \/ RecordFails(r)

-----------------------------------------------------------------------------
(* Cancel, delete, shutdown, crash *)

(* Aborting a run signals its restic child, if the backup has started.        *)
Signalled(rs) == killed \union {r \in rs : pc[r] = "backup"}

(* RunsService.cancel asks JobRunnerService.cancel: a run in the map is       *)
(* aborted and left to its executor, any other is settled by the UPDATE.      *)
CancelAsk(r) ==
  /\ cancelling[r] = "read"
  /\ IF r \in running
     THEN /\ cancelling' = [cancelling EXCEPT ![r] = "idle"]
          /\ aborted' = aborted \union {r}
          /\ killed' = Signalled({r})
     ELSE /\ cancelling' = [cancelling EXCEPT ![r] = "update"]
          /\ UNCHANGED <<aborted, killed>>
  /\ UNCHANGED <<jobExists, status, attempt, retryOf, held, age, fin, notified,
                 faults, pc, running, pruning, dispatched, stopping>>

(* The handlers of RunTable.  Nothing new starts while the server shuts down. *)
TableStep ==
  /\ \/ /\ ~stopping
        /\ \/ \E r \in Runs : CancelRead(r)
           \/ Tick
           \/ FailStaleQueuedRuns
     \/ \E r \in Runs : CancelUpdate(r)
     \/ \E c \in Callers, r \in Runs : FinalizeStep(c, r)
  /\ UNCHANGED localVars

DeleteJob ==
  /\ ~stopping
  /\ DeleteRows
  /\ pruning' = {}
  /\ UNCHANGED <<pc, running, aborted, killed, dispatched, stopping>>

(* onApplicationShutdown aborts every run in the map.                         *)
Shutdown ==
  /\ ~stopping
  /\ Fault
  /\ stopping' = TRUE
  /\ aborted' = aborted \union running
  /\ killed' = Signalled(running)
  /\ UNCHANGED <<jobExists, status, attempt, retryOf, held, age, fin, notified,
                 cancelling, pc, running, pruning, dispatched>>

ProcessEnds ==
  /\ pc' = [r \in Runs |-> "idle"]
  /\ running' = {}
  /\ aborted' = {}
  /\ killed' = {}
  /\ fin' = [c \in Callers |-> [r \in Runs |-> "idle"]]
  /\ cancelling' = [r \in Runs |-> "idle"]
  /\ stopping' = FALSE
  /\ UNCHANGED <<jobExists, status, attempt, retryOf, held, age, notified,
                 pruning, dispatched>>

(* A shutdown ends the process (at the latest by the 8 s failsafe of main.ts) *)
(* before or after the aborted runs were settled; the server then restarts    *)
(* and takes up nothing.                                                      *)
Exit == stopping /\ ProcessEnds /\ UNCHANGED faults

Crash == ~stopping /\ Fault /\ ProcessEnds

-----------------------------------------------------------------------------
Next ==
  \/ \E r \in Runs : Trigger(r) \/ ExecuteStep(r) \/ ExecuteFault(r) \/ CancelAsk(r)
  \/ StartDueRetries
  \/ TableStep
  \/ DeleteJob
  \/ Shutdown \/ Exit \/ Crash

Spec == Init /\ [][Next]_vars

-----------------------------------------------------------------------------
(* Safety *)

(* "a slow tick never starts the same retry twice": no run is dispatched     *)
(* twice, by its trigger or by startDueRetries, across cancels and crashes.  *)
DispatchedOnce == \A r \in Runs : dispatched[r] <= 1

(* While no statement fails and the process lives, a row that shows running  *)
(* has an executor of this process behind it, one that cancel can reach, and *)
(* a run in the map has an executor that will take it out again; and a prune *)
(* row that shows running is being worked on.                                *)
RunningHasExecutor ==
  faults = 0 =>
    /\ \A r \in Runs : status[r] = "running" => pc[r] \in InTry /\ r \in running
    /\ \A r \in running : pc[r] \in InTry \union {"mark"}
    /\ \A r \in pruning : pc[r] = "pruning"

(* JobRunnerService keeps its rows and its map of running backups in step.   *)
RunnerSound == TypeOK /\ DispatchedOnce /\ RunningHasExecutor

-----------------------------------------------------------------------------
(* Liveness.  The clock and the server's intervals go on, a shutdown comes   *)
(* to its end.                                                               *)
IntervalFairness ==
  /\ WF_vars(Tick /\ TableStep)
  /\ WF_vars(FailStaleQueuedRuns /\ TableStep)
  /\ WF_vars(Exit)

(* Everything the process awaits comes to an end, restic included.           *)
FairSpec ==
  /\ Spec /\ IntervalFairness
  /\ WF_vars(StartDueRetries)
  /\ WF_vars(\E r \in Runs : ExecuteStep(r))
  /\ WF_vars((\E c \in Callers, r \in Runs : FinalizeStep(c, r)) /\ TableStep)
=============================================================================
