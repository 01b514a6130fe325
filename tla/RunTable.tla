------------------------------ MODULE RunTable ------------------------------
(***************************************************************************)
(* The job_runs table of one backup job, and the server code that works on *)
(* it whoever executes the runs: inserting a run, the operator's cancel    *)
(* (RunsService.cancel), the sweep of stale queued runs                    *)
(* (JobRunnerService.failStaleQueuedRuns) and the settling of a finished   *)
(* run (RunRetryService.finalize and NotificationsService.notifyJobRun).   *)
(*                                                                         *)
(* One SQL statement is one atomic step.  A handler that awaits between    *)
(* two statements keeps what it has read in a program counter, so the      *)
(* steps of other handlers come in between.  LocalRuns and AgentRuns       *)
(* extend this module with the two kinds of executor.                      *)
(***************************************************************************)
EXTENDS Integers, FiniteSets

CONSTANTS
  MaxRuns,       \* bound: rows the job's history may hold
  MaxFirst,      \* bound: runs triggered by hand or by the schedule
  RetryMax,      \* backup_jobs.retry_max
  RetryDelay,    \* backup_jobs.retry_delay_seconds, in ticks
  QueueTimeout,  \* RUN_QUEUE_TIMEOUT_SECONDS, in ticks; 0 disables the sweep
  MaxFaults      \* bound: crashes, failed statements and lost messages

ASSUME RunTableAssumption ==
  /\ MaxRuns \in Nat
  /\ MaxFirst \in Nat
  /\ RetryMax \in Nat
  /\ RetryDelay \in Nat
  /\ QueueTimeout \in Nat
  /\ MaxFaults \in Nat

VARIABLES
  jobExists,   \* the backup_jobs row is there (its runs are deleted with it)
  status,      \* job_runs.status; "none": never inserted, "gone": deleted
  attempt,     \* job_runs.attempt
  retryOf,     \* job_runs.retry_of_run_id
  held,        \* job_runs.not_before is not null
  age,         \* now - created_at of a queued row, in ticks (else 0: unread)
  fin,         \* where each call of finalize(run) stands
  notified,    \* the outcomes of a run that were sent to its channels
  cancelling,  \* where RunsService.cancel(run) stands
  faults       \* faults so far

tableVars == <<jobExists, status, attempt, retryOf, held, age, fin, notified,
               cancelling, faults>>

-----------------------------------------------------------------------------
(* Row ids are opaque in the code (random UUIDs).  Numbering them in the     *)
(* order of insertion only picks one of the ids a step could have chosen.    *)
Runs == 1 .. MaxRuns
NoRun == 0

RowStatus == {"none", "queued", "running", "success", "failed", "cancelled",
              "gone"}
Active == {"queued", "running"}
Terminal == {"success", "failed", "cancelled"}

(* The handlers that call finalize: the sweep, and whoever records a result  *)
(* (the finally block of executeLocal, or submitBackupResult).               *)
Callers == {"sweep", "settle"}
FinPc == {"idle", "read", "active", "insert", "notify"}

(* Ages beyond the horizon are all equally stale.                            *)
Horizon == RetryDelay + QueueTimeout + 1

TableTypeOK ==
  /\ jobExists \in BOOLEAN
  /\ status \in [Runs -> RowStatus]
  /\ attempt \in [Runs -> 1 .. RetryMax + 1]
  /\ retryOf \in [Runs -> Runs \union {NoRun}]
  /\ held \in [Runs -> BOOLEAN]
  /\ age \in [Runs -> 0 .. Horizon]
  /\ fin \in [Callers -> [Runs -> FinPc]]
  /\ notified \in [Runs -> SUBSET {"success", "failed"}]
  /\ cancelling \in [Runs -> {"idle", "read", "update"}]
  /\ faults \in 0 .. MaxFaults

TableInit ==
  /\ jobExists = TRUE
  /\ status = [r \in Runs |-> "none"]
  /\ attempt = [r \in Runs |-> 1]
  /\ retryOf = [r \in Runs |-> NoRun]
  /\ held = [r \in Runs |-> FALSE]
  /\ age = [r \in Runs |-> 0]
  /\ fin = [c \in Callers |-> [r \in Runs |-> "idle"]]
  /\ notified = [r \in Runs |-> {}]
  /\ cancelling = [r \in Runs |-> "idle"]
  /\ faults = 0

Fault == faults < MaxFaults /\ faults' = faults + 1

-----------------------------------------------------------------------------
(* Rows *)

NextRow(r) == status[r] = "none" /\ \A q \in Runs : q < r => status[q] # "none"

(* INSERT INTO job_runs (JobsService.createRun): a first attempt, queued,    *)
(* due at once.                                                              *)
CreateRun(r) ==
  /\ jobExists /\ NextRow(r)
  /\ Cardinality({q \in Runs : status[q] # "none" /\ retryOf[q] = NoRun}) < MaxFirst
  /\ status' = [status EXCEPT ![r] = "queued"]
  /\ UNCHANGED <<jobExists, attempt, retryOf, held, age, fin, notified,
                 cancelling, faults>>

(* JobsService.remove: the job's rows go with it (ON DELETE CASCADE).        *)
DeleteRows ==
  /\ jobExists
  /\ jobExists' = FALSE
  /\ status' = [r \in Runs |-> IF status[r] = "none" THEN "none" ELSE "gone"]
  /\ age' = [r \in Runs |-> 0]
  /\ UNCHANGED <<attempt, retryOf, held, fin, notified, cancelling,
                 faults>>

(* not_before is null or has passed.                                         *)
Due(r) == ~held[r] \/ age[r] >= RetryDelay

(* Mutant: not_before < now - timeout, without the coalesce.                 *)
StaleNoCoalesce(r) == held[r] /\ age[r] > QueueTimeout + RetryDelay

(* coalesce(not_before, created_at) < now - timeout.                         *)
Stale(r) == age[r] > QueueTimeout + (IF held[r] THEN RetryDelay ELSE 0)

(* Time passes.                                                              *)
Ageing == {r \in Runs : status[r] = "queued" /\ age[r] < Horizon}

Tick ==
  /\ Ageing # {}
  /\ age' = [r \in Runs |-> IF r \in Ageing THEN age[r] + 1 ELSE age[r]]
  /\ UNCHANGED <<jobExists, status, attempt, retryOf, held, fin, notified,
                 cancelling, faults>>

-----------------------------------------------------------------------------
(* JobRunnerService.failStaleQueuedRuns: one UPDATE over all stale rows, then *)
(* finalize for each of them.                                                 *)
StaleRuns == {r \in Runs : status[r] = "queued" /\ Stale(r)}

FailStaleQueuedRuns ==
  /\ QueueTimeout > 0
  /\ StaleRuns # {}
  /\ status' = [r \in Runs |-> IF r \in StaleRuns THEN "failed" ELSE status[r]]
  /\ fin' = [fin EXCEPT !["sweep"] =
               [r \in Runs |-> IF r \in StaleRuns THEN "read" ELSE @[r]]]
  /\ age' = [r \in Runs |-> IF r \in StaleRuns THEN 0 ELSE age[r]]
  /\ UNCHANGED <<jobExists, attempt, retryOf, held, notified, cancelling,
                 faults>>

-----------------------------------------------------------------------------
(* RunRetryService.finalize(r), called by c: scheduleRetry's two SELECTs and  *)
(* its INSERT, and the notification when it returned null.                    *)

FinalizeTo(c, r, pc) == fin' = [fin EXCEPT ![c][r] = pc]

(* Mutant: whatever the outcome, a run is retried.                           *)
FinalizeReadAny(c, r) ==
  /\ fin[c][r] = "read"
  /\ FinalizeTo(c, r, IF attempt[r] <= RetryMax THEN "active" ELSE "notify")
  /\ UNCHANGED <<jobExists, status, attempt, retryOf, held, age, notified,
                 cancelling, faults>>

(* Mutant: a run past its last attempt is not notified.                      *)
FinalizeReadSilent(c, r) ==
  /\ fin[c][r] = "read"
  /\ FinalizeTo(c, r, IF status[r] = "failed" /\ attempt[r] <= RetryMax
                      THEN "active" ELSE "idle")
  /\ UNCHANGED <<jobExists, status, attempt, retryOf, held, age, notified,
                 cancelling, faults>>

FinalizeRead(c, r) ==
  /\ fin[c][r] = "read"
  /\ FinalizeTo(c, r, IF status[r] = "failed" /\ attempt[r] <= RetryMax
                      THEN "active" ELSE "notify")
  /\ UNCHANGED <<jobExists, status, attempt, retryOf, held, age, notified,
                 cancelling, faults>>

OtherActive(r) == \E q \in Runs \ {r} : status[q] \in Active

FinalizeActive(c, r) ==
  /\ fin[c][r] = "active"
  /\ FinalizeTo(c, r, IF OtherActive(r) THEN "notify" ELSE "insert")
  /\ UNCHANGED <<jobExists, status, attempt, retryOf, held, age, notified,
                 cancelling, faults>>

(* The INSERT of the retry q, and what finalize does next.                   *)
InsertRetry(c, r, q, count, next) ==
  /\ fin[c][r] = "insert"
  /\ jobExists /\ NextRow(q)
  /\ status' = [status EXCEPT ![q] = "queued"]
  /\ attempt' = [attempt EXCEPT ![q] = count]
  /\ retryOf' = [retryOf EXCEPT ![q] = r]
  /\ held' = [held EXCEPT ![q] = TRUE]
  /\ FinalizeTo(c, r, next)
  /\ UNCHANGED <<jobExists, age, notified, cancelling, faults>>

(* Mutant: the failure is notified although a retry follows.                *)
FinalizeInsertNotifies(c, r, q) == InsertRetry(c, r, q, attempt[r] + 1, "notify")

FinalizeInsert(c, r, q) == InsertRetry(c, r, q, attempt[r] + 1, "idle")

(* scheduleRetry rejected: the job is gone (foreign key), or a statement     *)
(* failed.  finalize carries on as if no retry were due.                     *)
FinalizeFails(c, r) ==
  /\ fin[c][r] \in {"read", "active", "insert"}
  /\ \/ fin[c][r] = "insert" /\ ~jobExists /\ UNCHANGED faults
     \/ Fault
  /\ FinalizeTo(c, r, "notify")
  /\ UNCHANGED <<jobExists, status, attempt, retryOf, held, age, notified,
                 cancelling>>

(* notifyJobRun reads the row again; only success and failed are sent.  The  *)
(* job is taken to want both, over an enabled channel.                       *)
Notify(c, r) ==
  /\ fin[c][r] = "notify"
  /\ notified' = [notified EXCEPT ![r] =
                    @ \union (IF jobExists THEN {status[r]} \cap {"success", "failed"}
                                           ELSE {})]
  /\ FinalizeTo(c, r, "idle")
  /\ UNCHANGED <<jobExists, status, attempt, retryOf, held, age, cancelling,
                 faults>>

FinalizeStep(c, r) ==
  \/ FinalizeRead(c, r)
  \/ FinalizeActive(c, r)
  \/ \E q \in Runs : FinalizeInsert(c, r, q)
  \/ FinalizeFails(c, r)
  \/ Notify(c, r)

-----------------------------------------------------------------------------
(* RunsService.cancel(r).  The SELECT and the status check; asking the       *)
(* runners of this process (each executor's own step, from "read" to         *)
(* "update" when none of them knows the run); the UPDATE by id alone.        *)
(* At most one cancel of a run is under way at a time.                       *)

CancelRead(r) ==
  /\ cancelling[r] = "idle"
  /\ status[r] \in Active
  /\ cancelling' = [cancelling EXCEPT ![r] = "read"]
  /\ UNCHANGED <<jobExists, status, attempt, retryOf, held, age, fin, notified,
                 faults>>

CancelUpdate(r) ==
  /\ cancelling[r] = "update"
  /\ status' = [status EXCEPT ![r] = IF @ = "gone" THEN @ ELSE "cancelled"]
  /\ age' = [age EXCEPT ![r] = 0]
  /\ cancelling' = [cancelling EXCEPT ![r] = "idle"]
  /\ UNCHANGED <<jobExists, attempt, retryOf, held, fin, notified, faults>>

(* The server process stops at any point: the handlers' progress is lost and *)
(* nothing resumes it after the restart.                                     *)
LoseHandlers ==
  /\ Fault
  /\ fin' = [c \in Callers |-> [r \in Runs |-> "idle"]]
  /\ cancelling' = [r \in Runs |-> "idle"]
  /\ UNCHANGED <<jobExists, status, attempt, retryOf, held, age, notified>>

-----------------------------------------------------------------------------
(* Properties of the table that either kind of executor is to keep.         *)

(* A failed run is retried by at most one later run, which counts one        *)
(* attempt more, within the job's limit; no run that succeeded is retried.   *)
RetryChain ==
  \A q \in Runs : retryOf[q] # NoRun =>
    /\ attempt[q] = attempt[retryOf[q]] + 1
    /\ status[retryOf[q]] \in {"failed", "cancelled", "gone"}
    /\ \A p \in Runs : retryOf[p] = retryOf[q] => p = q

(* "The failure is only notified once no retry follows": never both.         *)
NotifiedHasNoRetry ==
  \A q \in Runs : retryOf[q] # NoRun => notified[retryOf[q]] = {}

(* No run waits in the queue for ever, even if no agent ever polls and       *)
(* whatever crashes: the sweep fails it in the end.                          *)
QueuedLeaves ==
  \A r \in Runs : status[r] = "queued" ~> status[r] # "queued"

(* Every run comes to an end, unless a message was lost, a statement failed  *)
(* or a process died.                                                        *)
RunEnds ==
  \A r \in Runs : status[r] \in Active ~>
    status[r] \in Terminal \union {"gone"} \/ faults > 0

(* Every failure is retried or notified, with the same exception: finalize   *)
(* runs in the background, and a crash loses it.                             *)
FailureSettled ==
  \A r \in Runs : status[r] = "failed" ~>
    \/ status[r] # "failed"
    \/ "failed" \in notified[r]
    \/ \E q \in Runs : retryOf[q] = r
    \/ faults > 0
=============================================================================
