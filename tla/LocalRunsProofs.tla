-------------------------- MODULE LocalRunsProofs --------------------------
(***************************************************************************)
(* The server's own runner keeps its rows and its map of running backups   *)
(* in step, for any number of runs, retries, cancels, shutdowns and        *)
(* crashes.                                                                *)
(***************************************************************************)
EXTENDS LocalRuns, TLAPS

-----------------------------------------------------------------------------
(* The handlers of RunTable, whoever executes the runs.                      *)

(* Inserting a first run, the operator and the clock keep the types.         *)
LEMMA TableTypeStep ==
  ASSUME TableTypeOK,
         \/ \E r \in Runs : CreateRun(r) \/ CancelRead(r) \/ CancelUpdate(r)
         \/ DeleteRows \/ Tick \/ FailStaleQueuedRuns \/ LoseHandlers
  PROVE  TableTypeOK'
<1> USE RunTableAssumption
<1>1. ASSUME NEW r \in Runs, CreateRun(r) \/ CancelRead(r) \/ CancelUpdate(r)
      PROVE  TableTypeOK'
  BY <1>1 DEF CreateRun, CancelRead, CancelUpdate, TableTypeOK, RowStatus, Horizon
<1>2. CASE DeleteRows
  <2>1. jobExists' \in BOOLEAN
    BY <1>2 DEF DeleteRows
  <2> QED
    BY <1>2, <2>1 DEF DeleteRows, TableTypeOK, RowStatus, Horizon
<1>3. CASE Tick
  <2>1. age' \in [Runs -> 0 .. Horizon]
    BY <1>3 DEF Tick, Ageing, TableTypeOK, Horizon
  <2> QED
    BY <1>3, <2>1 DEF Tick, TableTypeOK
<1>4. CASE FailStaleQueuedRuns
  BY <1>4 DEF FailStaleQueuedRuns, TableTypeOK, RowStatus, Horizon, Callers, FinPc
<1>5. CASE LoseHandlers
  BY <1>5 DEF LoseHandlers, Fault, TableTypeOK, FinPc
<1> QED
  BY <1>1, <1>2, <1>3, <1>4, <1>5

(* The steps of finalize keep the types, the count of attempts included.     *)
LEMMA FinalizeTypeStep ==
  ASSUME TableTypeOK, NEW c \in Callers, NEW r \in Runs, FinalizeStep(c, r),
         fin[c][r] = "insert" => attempt[r] <= RetryMax
  PROVE  TableTypeOK'
<1> USE RunTableAssumption
<1>1. ASSUME NEW to \in FinPc, FinalizeTo(c, r, to)
      PROVE  fin' \in [Callers -> [Runs -> FinPc]]
  BY <1>1 DEF FinalizeTo, TableTypeOK
<1>2. CASE FinalizeRead(c, r) \/ FinalizeActive(c, r) \/ FinalizeFails(c, r)
  <2>1. fin' \in [Callers -> [Runs -> FinPc]]
    BY <1>1, <1>2 DEF FinalizeRead, FinalizeActive, FinalizeFails, FinPc
  <2> QED
    BY <1>2, <2>1 DEF FinalizeRead, FinalizeActive, FinalizeFails, Fault,
                      TableTypeOK
<1>3. ASSUME NEW q \in Runs, FinalizeInsert(c, r, q)
      PROVE  TableTypeOK'
  <2>1. fin' \in [Callers -> [Runs -> FinPc]]
    BY <1>1, <1>3 DEF FinalizeInsert, InsertRetry, FinPc
  <2>2. attempt[r] + 1 \in 1 .. RetryMax + 1
    BY <1>3 DEF FinalizeInsert, InsertRetry, TableTypeOK
  <2> QED
    BY <1>3, <2>1, <2>2 DEF FinalizeInsert, InsertRetry, TableTypeOK, RowStatus
<1>4. CASE Notify(c, r)
  <2>1. fin' \in [Callers -> [Runs -> FinPc]]
    BY <1>1, <1>4 DEF Notify, FinPc
  <2>2. notified' \in [Runs -> SUBSET {"success", "failed"}]
    BY <1>4 DEF Notify, TableTypeOK
  <2> QED
    BY <1>4, <2>1, <2>2 DEF Notify, TableTypeOK
<1> QED
  BY <1>2, <1>3, <1>4 DEF FinalizeStep

-----------------------------------------------------------------------------

LocalType ==
  /\ pc \in [Runs -> Pcs]
  /\ running \subseteq Runs /\ aborted \subseteq Runs /\ killed \subseteq aborted
  /\ pruning \subseteq Runs
  /\ dispatched \in [Runs -> Nat] /\ stopping \in BOOLEAN

(* Nothing is known of a row that was not inserted.                          *)
Unborn ==
  \A r \in Runs : status[r] = "none" =>
    dispatched[r] = 0 /\ ~held[r] /\ \A c \in Callers : fin[c][r] = "idle"

(* A run that waits for its delay was not dispatched, and one that was       *)
(* dispatched is never again: not_before is cleared by the UPDATE that       *)
(* claims it.                                                                *)
Dispatch ==
  \A r \in Runs :
    /\ dispatched[r] <= 1
    /\ held[r] => dispatched[r] = 0
    /\ pc[r] # "idle" => dispatched[r] = 1

(* finalize goes on to a retry only while an attempt is left.                *)
AttemptsLeft ==
  \A r \in Runs, c \in Callers : fin[c][r] \in {"active", "insert"} => attempt[r] <= RetryMax

(* Until something fails, the map, the rows and the executors agree; a run   *)
(* that is past its success or its catch block does not show running.        *)
Executor ==
  faults = 0 =>
    /\ ~stopping
    /\ \A r \in Runs : r \in running <=> pc[r] \in InTry \union {"mark"}
    /\ \A r \in Runs : status[r] = "running" => pc[r] \in InTry \ {"recorded", "pruning",
       "settled"}
    /\ \A r \in pruning : pc[r] = "pruning"

Inv == TableTypeOK /\ LocalType /\ Unborn /\ Dispatch /\ AttemptsLeft /\ Executor

-----------------------------------------------------------------------------
(* At first no run exists and the runner is idle.                            *)
LEMMA InitInv == Init => Inv
<1> SUFFICES ASSUME Init PROVE Inv
  OBVIOUS
<1> USE RunTableAssumption DEF Init, TableInit
<1>1. TableTypeOK
  BY DEF TableTypeOK, RowStatus, Horizon, FinPc, Callers
<1>2. LocalType
  BY DEF LocalType, Pcs
<1>3. Unborn /\ Dispatch /\ AttemptsLeft /\ Executor
  BY DEF Unborn, Dispatch, AttemptsLeft, Executor, InTry
<1>4. QED
  BY <1>1, <1>2, <1>3 DEF Inv

(* Every step of the table, the runner and the crashes keeps the invariant.  *)
LEMMA StepInv == Inv /\ [Next]_vars => Inv'
<1> SUFFICES ASSUME Inv, [Next]_vars PROVE Inv'
  OBVIOUS
<1> USE RunTableAssumption
<1>a. TableTypeOK /\ LocalType /\ Unborn /\ Dispatch /\ AttemptsLeft /\ Executor
  BY DEF Inv
<1>1. ASSUME NEW r \in Runs, Trigger(r)
      PROVE  Inv'
  <2> USE <1>1 DEF Trigger, CreateRun, NextRow, Goto
  <2>1. AttemptsLeft'
    BY <1>a DEF AttemptsLeft
  <2>2. TableTypeOK'
    BY <1>a, TableTypeStep
  <2>3. LocalType'
    BY <1>a DEF LocalType, Pcs, InTry
  <2>4. Unborn'
    BY <1>a DEF Unborn, TableTypeOK, LocalType, Dispatch, Callers
  <2>5. Dispatch'
    BY <1>a DEF Dispatch, TableTypeOK, LocalType, Unborn
  <2>6. Executor'
    BY <1>a DEF Executor, TableTypeOK, LocalType, Dispatch, InTry, Pcs, Unborn
  <2>7. QED
    BY <2>1, <2>2, <2>3, <2>4, <2>5, <2>6 DEF Inv
<1>2. CASE StartDueRetries
  <2> USE <1>2 DEF StartDueRetries, DueRetries
  <2>1. AttemptsLeft'
    BY <1>a DEF AttemptsLeft
  <2>2. TableTypeOK'
    BY <1>a DEF TableTypeOK, RowStatus, Horizon, FinPc, Callers
  <2>3. LocalType'
    BY <1>a DEF LocalType, Pcs, InTry
  <2>4. Unborn'
    BY <1>a DEF Unborn, TableTypeOK, LocalType, Dispatch, Callers
  <2>5. Dispatch'
    BY <1>a DEF Dispatch, TableTypeOK, LocalType, Unborn
  <2>6. Executor'
    BY <1>a DEF Executor, TableTypeOK, LocalType, Dispatch, InTry, Pcs
  <2>7. QED
    BY <2>1, <2>2, <2>3, <2>4, <2>5, <2>6 DEF Inv
<1>3. ASSUME NEW r \in Runs, Load(r)
      PROVE  Inv'
  <2> USE <1>3 DEF Load, Goto, tableVars
  <2>1. (TableTypeOK /\ Unborn /\ AttemptsLeft)'
    BY <1>a DEF TableTypeOK, Unborn, AttemptsLeft
  <2>2. LocalType'
    BY <1>a DEF LocalType, Pcs, InTry
  <2>3. Dispatch'
    BY <1>a DEF Dispatch, TableTypeOK, LocalType, Unborn
  <2>4. Executor'
    BY <1>a DEF Executor, TableTypeOK, LocalType, Dispatch, InTry, Pcs
  <2>5. QED
    BY <2>1, <2>2, <2>3, <2>4 DEF Inv
<1>4. ASSUME NEW r \in Runs, LoadFails(r)
      PROVE  Inv'
  <2> USE <1>4 DEF LoadFails, Fault
  <2>1. (Unborn /\ AttemptsLeft)'
    BY <1>a DEF Unborn, AttemptsLeft
  <2>2. TableTypeOK'
    BY <1>a DEF TableTypeOK, RowStatus, Horizon, FinPc, Callers
  <2>3. LocalType'
    BY <1>a DEF LocalType, Pcs, InTry
  <2>4. Dispatch'
    BY <1>a DEF Dispatch, TableTypeOK, LocalType, Unborn
  <2>5. Executor'
    BY <1>a DEF Executor, TableTypeOK, LocalType, Dispatch, InTry, Pcs
  <2>6. QED
    BY <2>1, <2>2, <2>3, <2>4, <2>5 DEF Inv
<1>5. ASSUME NEW r \in Runs, MarkRunning(r)
      PROVE  Inv'
  <2> USE <1>5 DEF MarkRunning, Goto
  <2>1. AttemptsLeft'
    BY <1>a DEF AttemptsLeft
  <2>2. TableTypeOK'
    BY <1>a DEF TableTypeOK, RowStatus, Horizon, FinPc, Callers
  <2>3. LocalType'
    BY <1>a DEF LocalType, Pcs, InTry
  <2>4. Unborn'
    BY <1>a DEF Unborn, TableTypeOK, LocalType, Dispatch, Callers
  <2>5. Dispatch'
    BY <1>a DEF Dispatch, TableTypeOK, LocalType, Unborn
  <2>6. Executor'
    BY <1>a DEF Executor, TableTypeOK, LocalType, Dispatch, InTry, Pcs
  <2>7. QED
    BY <2>1, <2>2, <2>3, <2>4, <2>5, <2>6 DEF Inv
<1>6. ASSUME NEW r \in Runs, MarkFails(r)
      PROVE  Inv'
  <2> USE <1>6 DEF MarkFails, Goto, Fault
  <2>1. (Unborn /\ AttemptsLeft)'
    BY <1>a DEF Unborn, AttemptsLeft
  <2>2. TableTypeOK'
    BY <1>a DEF TableTypeOK, RowStatus, Horizon, FinPc, Callers
  <2>3. LocalType'
    BY <1>a DEF LocalType, Pcs, InTry
  <2>4. Dispatch'
    BY <1>a DEF Dispatch, TableTypeOK, LocalType, Unborn
  <2>5. Executor'
    BY <1>a DEF Executor, TableTypeOK, LocalType, Dispatch, InTry, Pcs
  <2>6. QED
    BY <2>1, <2>2, <2>3, <2>4, <2>5 DEF Inv
<1>7. ASSUME NEW r \in Runs, Prepared(r)
      PROVE  Inv'
  <2> USE <1>7 DEF Prepared, Advance, Goto, tableVars
  <2>1. (TableTypeOK /\ Unborn /\ AttemptsLeft)'
    BY <1>a DEF TableTypeOK, Unborn, AttemptsLeft
  <2>2. LocalType'
    BY <1>a DEF LocalType, Pcs, InTry
  <2>3. Dispatch'
    BY <1>a DEF Dispatch, TableTypeOK, LocalType, Unborn
  <2>4. Executor'
    BY <1>a DEF Executor, TableTypeOK, LocalType, Dispatch, InTry, Pcs
  <2>5. QED
    BY <2>1, <2>2, <2>3, <2>4 DEF Inv
<1>8. ASSUME NEW r \in Runs, PrepareFails(r)
      PROVE  Inv'
  <2> USE <1>8 DEF PrepareFails, Advance, Goto, tableVars, Caught
  <2>1. (TableTypeOK /\ Unborn /\ AttemptsLeft)'
    BY <1>a DEF TableTypeOK, Unborn, AttemptsLeft
  <2>2. LocalType'
    BY <1>a DEF LocalType, Pcs, InTry
  <2>3. Dispatch'
    BY <1>a DEF Dispatch, TableTypeOK, LocalType, Unborn
  <2>4. Executor'
    BY <1>a DEF Executor, TableTypeOK, LocalType, Dispatch, InTry, Pcs
  <2>5. QED
    BY <2>1, <2>2, <2>3, <2>4 DEF Inv
<1>9. ASSUME NEW r \in Runs, BackupOk(r)
      PROVE  Inv'
  <2> USE <1>9 DEF BackupOk, Advance, Goto, tableVars
  <2>1. (TableTypeOK /\ Unborn /\ AttemptsLeft)'
    BY <1>a DEF TableTypeOK, Unborn, AttemptsLeft
  <2>2. LocalType'
    BY <1>a DEF LocalType, Pcs, InTry
  <2>3. Dispatch'
    BY <1>a DEF Dispatch, TableTypeOK, LocalType, Unborn
  <2>4. Executor'
    BY <1>a DEF Executor, TableTypeOK, LocalType, Dispatch, InTry, Pcs
  <2>5. QED
    BY <2>1, <2>2, <2>3, <2>4 DEF Inv
<1>10. ASSUME NEW r \in Runs, BackupFails(r)
      PROVE  Inv'
  <2> USE <1>10 DEF BackupFails, Advance, Goto, tableVars, Caught
  <2>1. (TableTypeOK /\ Unborn /\ AttemptsLeft)'
    BY <1>a DEF TableTypeOK, Unborn, AttemptsLeft
  <2>2. LocalType'
    BY <1>a DEF LocalType, Pcs, InTry
  <2>3. Dispatch'
    BY <1>a DEF Dispatch, TableTypeOK, LocalType, Unborn
  <2>4. Executor'
    BY <1>a DEF Executor, TableTypeOK, LocalType, Dispatch, InTry, Pcs
  <2>5. QED
    BY <2>1, <2>2, <2>3, <2>4 DEF Inv
<1>11. ASSUME NEW r \in Runs, ForgetFails(r)
      PROVE  Inv'
  <2> USE <1>11 DEF ForgetFails, Advance, Goto, tableVars, Caught
  <2>1. (TableTypeOK /\ Unborn /\ AttemptsLeft)'
    BY <1>a DEF TableTypeOK, Unborn, AttemptsLeft
  <2>2. LocalType'
    BY <1>a DEF LocalType, Pcs, InTry
  <2>3. Dispatch'
    BY <1>a DEF Dispatch, TableTypeOK, LocalType, Unborn
  <2>4. Executor'
    BY <1>a DEF Executor, TableTypeOK, LocalType, Dispatch, InTry, Pcs
  <2>5. QED
    BY <2>1, <2>2, <2>3, <2>4 DEF Inv
<1>12. ASSUME NEW r \in Runs, RecordSuccess(r)
      PROVE  Inv'
  <2> USE <1>12 DEF RecordSuccess, Goto
  <2>1. AttemptsLeft'
    BY <1>a DEF AttemptsLeft
  <2>2. TableTypeOK'
    BY <1>a DEF TableTypeOK, RowStatus, Horizon, FinPc, Callers
  <2>3. LocalType'
    BY <1>a DEF LocalType, Pcs, InTry
  <2>4. Unborn'
    BY <1>a DEF Unborn, TableTypeOK, LocalType, Dispatch, Callers
  <2>5. Dispatch'
    BY <1>a DEF Dispatch, TableTypeOK, LocalType, Unborn
  <2>6. Executor'
    BY <1>a DEF Executor, TableTypeOK, LocalType, Dispatch, InTry, Pcs
  <2>7. QED
    BY <2>1, <2>2, <2>3, <2>4, <2>5, <2>6 DEF Inv
<1>13. ASSUME NEW r \in Runs, StartPrune(r)
      PROVE  Inv'
  <2> USE <1>13 DEF StartPrune, Goto, tableVars
  <2>1. (TableTypeOK /\ Unborn /\ AttemptsLeft)'
    BY <1>a DEF TableTypeOK, Unborn, AttemptsLeft
  <2>2. LocalType'
    BY <1>a DEF LocalType, Pcs, InTry
  <2>3. Dispatch'
    BY <1>a DEF Dispatch, TableTypeOK, LocalType, Unborn
  <2>4. Executor'
    BY <1>a DEF Executor, TableTypeOK, LocalType, Dispatch, InTry, Pcs
  <2>5. QED
    BY <2>1, <2>2, <2>3, <2>4 DEF Inv
<1>14. ASSUME NEW r \in Runs, StartPruneFails(r)
      PROVE  Inv'
  <2> USE <1>14 DEF StartPruneFails, Goto, Fault, Caught
  <2>1. (Unborn /\ AttemptsLeft)'
    BY <1>a DEF Unborn, AttemptsLeft
  <2>2. TableTypeOK'
    BY <1>a DEF TableTypeOK, RowStatus, Horizon, FinPc, Callers
  <2>3. LocalType'
    BY <1>a DEF LocalType, Pcs, InTry
  <2>4. Dispatch'
    BY <1>a DEF Dispatch, TableTypeOK, LocalType, Unborn
  <2>5. Executor'
    BY <1>a DEF Executor, TableTypeOK, LocalType, Dispatch, InTry, Pcs
  <2>6. QED
    BY <2>1, <2>2, <2>3, <2>4, <2>5 DEF Inv
<1>15. ASSUME NEW r \in Runs, PruneEnds(r)
      PROVE  Inv'
  <2> USE <1>15 DEF PruneEnds, Goto, tableVars
  <2>1. (TableTypeOK /\ Unborn /\ AttemptsLeft)'
    BY <1>a DEF TableTypeOK, Unborn, AttemptsLeft
  <2>2. LocalType'
    BY <1>a DEF LocalType, Pcs, InTry
  <2>3. Dispatch'
    BY <1>a DEF Dispatch, TableTypeOK, LocalType, Unborn
  <2>4. Executor'
    BY <1>a DEF Executor, TableTypeOK, LocalType, Dispatch, InTry, Pcs
  <2>5. QED
    BY <2>1, <2>2, <2>3, <2>4 DEF Inv
<1>16. ASSUME NEW r \in Runs, RecordFailure(r)
      PROVE  Inv'
  <2> USE <1>16 DEF RecordFailure, Goto
  <2>1. AttemptsLeft'
    BY <1>a DEF AttemptsLeft
  <2>2. TableTypeOK'
    BY <1>a DEF TableTypeOK, RowStatus, Horizon, FinPc, Callers
  <2>3. LocalType'
    BY <1>a DEF LocalType, Pcs, InTry
  <2>4. Unborn'
    BY <1>a DEF Unborn, TableTypeOK, LocalType, Dispatch, Callers
  <2>5. Dispatch'
    BY <1>a DEF Dispatch, TableTypeOK, LocalType, Unborn
  <2>6. Executor'
    BY <1>a DEF Executor, TableTypeOK, LocalType, Dispatch, InTry, Pcs
  <2>7. QED
    BY <2>1, <2>2, <2>3, <2>4, <2>5, <2>6 DEF Inv
<1>17. ASSUME NEW r \in Runs, RecordFails(r)
      PROVE  Inv'
  <2> USE <1>17 DEF RecordFails, Goto, Fault, Caught
  <2>1. (Unborn /\ AttemptsLeft)'
    BY <1>a DEF Unborn, AttemptsLeft
  <2>2. TableTypeOK'
    BY <1>a DEF TableTypeOK, RowStatus, Horizon, FinPc, Callers
  <2>3. LocalType'
    BY <1>a DEF LocalType, Pcs, InTry
  <2>4. Dispatch'
    BY <1>a DEF Dispatch, TableTypeOK, LocalType, Unborn
  <2>5. Executor'
    BY <1>a DEF Executor, TableTypeOK, LocalType, Dispatch, InTry, Pcs
  <2>6. QED
    BY <2>1, <2>2, <2>3, <2>4, <2>5 DEF Inv
<1>18. ASSUME NEW r \in Runs, Finally(r)
      PROVE  Inv'
  <2> USE <1>18 DEF Finally, Goto, FinalizeTo
  <2>1. TableTypeOK'
    BY <1>a DEF TableTypeOK, RowStatus, Horizon, FinPc, Callers
  <2>2. LocalType'
    BY <1>a DEF LocalType, Pcs, InTry
  <2>3. Unborn'
    BY <1>a DEF Unborn, TableTypeOK, LocalType, Dispatch, Callers
  <2>4. Dispatch'
    BY <1>a DEF Dispatch, TableTypeOK, LocalType, Unborn
  <2>5. AttemptsLeft'
    BY <1>a DEF AttemptsLeft, TableTypeOK, Callers
  <2>6. Executor'
    BY <1>a DEF Executor, TableTypeOK, LocalType, Dispatch, InTry, Pcs
  <2>7. QED
    BY <2>1, <2>2, <2>3, <2>4, <2>5, <2>6 DEF Inv
<1>19. ASSUME NEW r \in Runs, CancelAsk(r)
      PROVE  Inv'
  <2> USE <1>19 DEF CancelAsk, Signalled
  <2>1. (Unborn /\ Dispatch /\ AttemptsLeft /\ Executor)'
    BY <1>a DEF Unborn, Dispatch, AttemptsLeft, Executor
  <2>2. TableTypeOK'
    BY <1>a DEF TableTypeOK, RowStatus, Horizon, FinPc, Callers
  <2>3. LocalType'
    BY <1>a DEF LocalType, Pcs, InTry
  <2>4. QED
    BY <2>1, <2>2, <2>3 DEF Inv
<1>20. CASE DeleteJob
  <2> USE <1>20 DEF DeleteJob, DeleteRows
  <2>1. (Dispatch /\ AttemptsLeft)'
    BY <1>a DEF Dispatch, AttemptsLeft
  <2>2. TableTypeOK'
    BY <1>a, TableTypeStep
  <2>3. LocalType'
    BY <1>a DEF LocalType, Pcs, InTry
  <2>4. Unborn'
    BY <1>a DEF Unborn, TableTypeOK, LocalType, Dispatch, Callers
  <2>5. Executor'
    BY <1>a DEF Executor, TableTypeOK, LocalType, Dispatch, InTry, Pcs
  <2>6. QED
    BY <2>1, <2>2, <2>3, <2>4, <2>5 DEF Inv
<1>21. CASE Shutdown
  <2> USE <1>21 DEF Shutdown, Fault, Signalled
  <2>1. (Unborn /\ Dispatch /\ AttemptsLeft)'
    BY <1>a DEF Unborn, Dispatch, AttemptsLeft
  <2>2. TableTypeOK'
    BY <1>a DEF TableTypeOK, RowStatus, Horizon, FinPc, Callers
  <2>3. LocalType'
    BY <1>a DEF LocalType, Pcs, InTry
  <2>4. Executor'
    BY <1>a DEF Executor, TableTypeOK, LocalType, Dispatch, InTry, Pcs
  <2>5. QED
    BY <2>1, <2>2, <2>3, <2>4 DEF Inv
<1>22. CASE Exit
  <2> USE <1>22 DEF Exit, ProcessEnds
  <2>1. TableTypeOK'
    BY <1>a DEF TableTypeOK, RowStatus, Horizon, FinPc, Callers
  <2>2. LocalType'
    BY <1>a DEF LocalType, Pcs, InTry
  <2>3. Unborn'
    BY <1>a DEF Unborn, TableTypeOK, LocalType, Dispatch, Callers
  <2>4. Dispatch'
    BY <1>a DEF Dispatch, TableTypeOK, LocalType, Unborn
  <2>5. AttemptsLeft'
    BY <1>a DEF AttemptsLeft, TableTypeOK, Callers
  <2>6. Executor'
    BY <1>a DEF Executor, TableTypeOK, LocalType, Dispatch, InTry, Pcs
  <2>7. QED
    BY <2>1, <2>2, <2>3, <2>4, <2>5, <2>6 DEF Inv
<1>23. CASE Crash
  <2> USE <1>23 DEF Crash, ProcessEnds, Fault
  <2>1. TableTypeOK'
    BY <1>a DEF TableTypeOK, RowStatus, Horizon, FinPc, Callers
  <2>2. LocalType'
    BY <1>a DEF LocalType, Pcs, InTry
  <2>3. Unborn'
    BY <1>a DEF Unborn, TableTypeOK, LocalType, Dispatch, Callers
  <2>4. Dispatch'
    BY <1>a DEF Dispatch, TableTypeOK, LocalType, Unborn
  <2>5. AttemptsLeft'
    BY <1>a DEF AttemptsLeft, TableTypeOK, Callers
  <2>6. Executor'
    BY <1>a DEF Executor, TableTypeOK, LocalType, Dispatch, InTry, Pcs
  <2>7. QED
    BY <2>1, <2>2, <2>3, <2>4, <2>5, <2>6 DEF Inv
<1>24. CASE TableStep
  <2>1. LocalType'
    BY <1>a, <1>24 DEF TableStep, localVars, LocalType
  <2>2. TableTypeOK'
    BY <1>a, <1>24, TableTypeStep, FinalizeTypeStep DEF TableStep, AttemptsLeft
  <2>3. ASSUME NEW r \in Runs,
     CancelRead(r) PROVE (Unborn /\ Dispatch /\ AttemptsLeft /\ Executor)'
    BY <1>a, <1>24, <2>3 DEF TableStep, localVars, CancelRead, Unborn, Dispatch, AttemptsLeft,
       Executor
  <2>4. CASE Tick
    BY <1>a, <1>24, <2>1, <2>2, <2>4 DEF TableStep, localVars, Tick, Unborn, Dispatch,
       AttemptsLeft, Executor, Inv
  <2>5. CASE FailStaleQueuedRuns
    <3>1. Dispatch'
      BY <1>a, <1>24, <2>5 DEF TableStep, localVars, FailStaleQueuedRuns, Dispatch
    <3>2. Unborn' /\ AttemptsLeft'
      BY <1>a, <2>5, <1>24 DEF TableStep, localVars, FailStaleQueuedRuns, StaleRuns, Unborn,
         AttemptsLeft, TableTypeOK, Callers
    <3>3. Executor'
      BY <1>a, <1>24, <2>5 DEF TableStep, localVars, FailStaleQueuedRuns, StaleRuns, Executor,
         TableTypeOK
    <3>4. QED
      BY <2>1, <2>2, <3>1, <3>2, <3>3 DEF Inv
  <2>6. ASSUME NEW r \in Runs,
     CancelUpdate(r) PROVE (Unborn /\ Dispatch /\ AttemptsLeft /\ Executor)'
    BY <1>a, <1>24, <2>6 DEF TableStep, localVars, CancelUpdate, Unborn, Dispatch,
       AttemptsLeft, Executor, TableTypeOK
  <2>7. ASSUME NEW c \in Callers, NEW r \in Runs, FinalizeStep(c, r)
        PROVE  (Unborn /\ Dispatch /\ AttemptsLeft /\ Executor)'
    <3> USE <1>24, <2>7 DEF TableStep, localVars
    <3>1. CASE FinalizeRead(c, r) \/ FinalizeActive(c, r) \/ FinalizeFails(c, r) \/ Notify(c, r)
      <4>1. /\ UNCHANGED <<status, held, attempt, localVars>> /\ (faults' = 0 => faults = 0)
            /\ fin[c][r] # "idle"
            /\ \E next \in {"idle", "active", "insert", "notify"} :
                 /\ fin' = [fin EXCEPT ![c][r] = next]
                 /\ next \in {"active", "insert"} => attempt[r] <= RetryMax
        BY <1>a, <3>1 DEF FinalizeRead, FinalizeActive, FinalizeFails, Notify, FinalizeTo,
           Fault, AttemptsLeft, TableTypeOK
      <4>2. Unborn'
        BY <1>a, <4>1 DEF Unborn, TableTypeOK
      <4>3. AttemptsLeft'
        BY <1>a, <4>1 DEF AttemptsLeft, TableTypeOK
      <4>4. Dispatch' /\ Executor'
        BY <1>a, <4>1 DEF Dispatch, Executor
      <4>5. QED
        BY <4>2, <4>3, <4>4
    <3>2. ASSUME NEW q \in Runs, FinalizeInsert(c, r, q)
          PROVE  (Unborn /\ Dispatch /\ AttemptsLeft /\ Executor)'
      <4> USE <3>2 DEF FinalizeInsert, InsertRetry, FinalizeTo
      <4>1. status[q] = "none" /\ dispatched[q] = 0 /\ pc[q] = "idle"
            /\ \A d \in Callers : fin[d][q] = "idle"
        BY <1>a DEF NextRow, Unborn, Dispatch, TableTypeOK, LocalType
      <4>2. Unborn'
        BY <1>a, <4>1 DEF Unborn, TableTypeOK
      <4>3. Dispatch'
        BY <1>a, <4>1 DEF Dispatch, TableTypeOK
      <4>4. AttemptsLeft'
        BY <1>a, <4>1 DEF AttemptsLeft, TableTypeOK
      <4>5. Executor'
        BY <1>a, <4>1 DEF Executor, TableTypeOK
      <4>6. QED
        BY <4>2, <4>3, <4>4, <4>5
    <3>3. QED
      BY <3>1, <3>2 DEF FinalizeStep
  <2>8. QED
    BY <1>24, <2>1, <2>2, <2>3, <2>4, <2>5, <2>6, <2>7 DEF TableStep, Inv
<1>25. CASE UNCHANGED vars
  BY <1>a, <1>25 DEF vars, tableVars, localVars, Inv, TableTypeOK, LocalType, Unborn, Dispatch,
     AttemptsLeft, Executor
<1>26. QED
  BY <1>1, <1>2, <1>3, <1>4, <1>5, <1>6, <1>7, <1>8, <1>9, <1>10, <1>11, <1>12, <1>13, <1>14,
     <1>15, <1>16, <1>17, <1>18, <1>19, <1>20, <1>21, <1>22, <1>23, <1>24, <1>25 DEF Next,
        ExecuteStep, ExecuteFault

(* No run is dispatched twice, and until something fails every row that      *)
(* shows running has an executor that cancel can reach.                      *)
THEOREM RunnerIsSound == Spec => []RunnerSound
<1>1. Inv => RunnerSound
  <2> SUFFICES ASSUME Inv PROVE RunnerSound
    OBVIOUS
  <2>1. TypeOK
    BY DEF Inv, LocalType, TypeOK
  <2>2. DispatchedOnce
    BY DEF Inv, Dispatch, DispatchedOnce
  <2>3. RunningHasExecutor
    BY DEF Inv, LocalType, Executor, RunningHasExecutor
  <2>4. QED
    BY <2>1, <2>2, <2>3 DEF RunnerSound
<1>2. QED
  BY <1>1, InitInv, StepInv, PTL DEF Spec
=============================================================================
