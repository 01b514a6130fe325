------------------------------- MODULE Checks -------------------------------
(***************************************************************************)
(* Integrity checks of one job's repository (CheckRunnerService), run by   *)
(* the server or by the job's agent.  A rotating check reads one part of   *)
(* the data at a time; the repository row remembers the next part of the   *)
(* split, the last verdict, and that all data was read back               *)
(* (data_verified_at).                                                     *)
(*                                                                         *)
(* start reads the job row, looks for other activity and inserts the run   *)
(* in three statements; settle finishes the run row and then updates the   *)
(* repository row.  The operator changes the split, moves the repository,  *)
(* cancels, and starts further checks in between.                          *)
(***************************************************************************)
EXTENDS Integers, FiniteSets

CONSTANTS
  Checks,     \* bound: ids of check runs
  Splits,     \* numbers of parts the operator may choose (subsetParts)
  Locations,  \* connections and paths the repository may point to
  MaxFaults   \* bound: crashes, failed statements and lost results

ASSUME ChecksAssumption ==
  /\ Splits \subseteq Nat \ {0}
  /\ Splits # {} /\ Locations # {}
  /\ MaxFaults \in Nat

VARIABLES
  onAgent,     \* backup_jobs.location is agent
  split,       \* backup_jobs.integrity_check.subsetParts
  location,    \* repositories.target_id and repo_config
  subsetNext,  \* repositories.check_subset_next
  subsetParts, \* repositories.check_subset_parts, 0 for null
  verdict,     \* repositories.check_status
  verified,    \* repositories.data_verified_at is set
  others,      \* a backup, prune or restore of the job is active
  status,      \* job_runs.status of the check
  plan,        \* job_runs.check_info (level, part, parts)
  readsAt,     \* the location the check's restic was resolved to
  pc,          \* where start, execute or settle of the check stands
  result,      \* the outcome settle has put on the run row
  aborted,     \* checks whose AbortController is aborted
  cancelling,  \* where RunsService.cancel(check) stands
  readBack,    \* history: the <<location, parts, part>> restic found intact
  faults       \* faults so far

jobVars == <<onAgent, split, location, others>>
repoVars == <<subsetNext, subsetParts, verdict, verified>>
runVars == <<status, plan, readsAt, pc, result>>
vars == <<jobVars, repoVars, runVars, aborted, cancelling, readBack, faults>>

-----------------------------------------------------------------------------
Levels == {"quick", "full", "rotating"}
Quick == [level |-> "quick", part |-> 0, parts |-> 0]
Full == [level |-> "full", part |-> 1, parts |-> 1]
Plans == [level : Levels, part : Nat, parts : Nat]
Pcs == {"new", "read", "clear", "inserted", "resolve", "check", "killed", "queued",
        "handed", "patch", "end"}
Outcomes == {"passed", "damaged", "failed"}

TypeOK ==
  /\ onAgent \in BOOLEAN
  /\ split \in Splits
  /\ location \in Locations
  /\ subsetNext \in Nat \ {0}
  /\ subsetParts \in Nat
  /\ verdict \in {"none", "passed", "damaged"}
  /\ verified \in BOOLEAN
  /\ others \in BOOLEAN
  /\ status \in [Checks -> {"none", "queued", "running", "success", "failed",
                            "cancelled"}]
  /\ plan \in [Checks -> Plans]
  /\ readsAt \in [Checks -> Locations]
  /\ pc \in [Checks -> Pcs]
  /\ result \in [Checks -> Outcomes]
  /\ aborted \subseteq Checks
  /\ cancelling \in [Checks -> {"idle", "read", "update"}]
  /\ readBack \subseteq Locations \X Nat \X Nat
  /\ faults \in 0 .. MaxFaults

Init ==
  /\ onAgent \in BOOLEAN
  /\ split \in Splits
  /\ location \in Locations
  /\ subsetNext = 1
  /\ subsetParts = 0
  /\ verdict = "none"
  /\ verified = FALSE
  /\ others = FALSE
  /\ status = [c \in Checks |-> "none"]
  /\ plan = [c \in Checks |-> Quick]
  /\ readsAt = [c \in Checks |-> location]
  /\ pc = [c \in Checks |-> "new"]
  /\ result = [c \in Checks |-> "failed"]
  /\ aborted = {}
  /\ cancelling = [c \in Checks |-> "idle"]
  /\ readBack = {}
  /\ faults = 0

Fault == faults < MaxFaults /\ faults' = faults + 1

-----------------------------------------------------------------------------
(* Mutant: the position is taken over whatever split it belongs to.           *)
PlannedPartAny == IF subsetNext \in 1 .. split THEN subsetNext ELSE 1

(* planCheck: a rotating check takes the part the rotation has come to, and   *)
(* starts over when the number of parts has changed.  A full check, which has *)
(* no part in the code, is written as the only part of one.                   *)
PlannedPart ==
  IF subsetParts = split /\ subsetNext \in 1 .. split THEN subsetNext ELSE 1

PlanCheck(level) ==
  CASE level = "rotating" ->
         [level |-> "rotating", part |-> PlannedPart, parts |-> split]
    [] level = "full" -> Full
    [] level = "quick" -> Quick

(* repositoryPatch: the part after p of n.                                    *)
NextPart(p, n) == (p % n) + 1

(* Mutant: a part that was not read counts as passed, too.                    *)
RepositoryPatchAlways(info, outcome) ==
  /\ verdict' = IF outcome = "damaged" THEN "damaged" ELSE "passed"
  /\ IF info.level = "rotating"
     THEN /\ subsetParts' = info.parts
          /\ subsetNext' = NextPart(info.part, info.parts)
     ELSE UNCHANGED <<subsetNext, subsetParts>>
  /\ verified' = (\/ verified
                  \/ info.level # "quick" /\ info.part = info.parts)

RepositoryPatch(info, outcome) ==
  CASE outcome = "damaged" ->
         verdict' = "damaged" /\ UNCHANGED <<subsetNext, subsetParts, verified>>
    [] outcome = "failed" -> UNCHANGED repoVars
    [] OTHER ->
         /\ verdict' = "passed"
         /\ IF info.level = "rotating"
            THEN /\ subsetParts' = info.parts
                 /\ subsetNext' = NextPart(info.part, info.parts)
            ELSE UNCHANGED <<subsetNext, subsetParts>>
         /\ verified' = (\/ verified
                         \/ info.level = "full"
                         \/ info.level = "rotating" /\ info.part = info.parts)

-----------------------------------------------------------------------------
(* CheckRunnerService.start *)

(* The job row is read; the plan made later is made from this row.            *)
StartRead(c, level) ==
  /\ pc[c] = "new"
  /\ pc' = [pc EXCEPT ![c] = "read"]
  /\ plan' = [plan EXCEPT ![c] = PlanCheck(level)]
  /\ readsAt' = [readsAt EXCEPT ![c] = location]
  /\ UNCHANGED <<jobVars, repoVars, status, result, aborted, cancelling,
                 readBack, faults>>

IsActive(c) == status[c] \in {"queued", "running"}

(* assertIdle: refuse while a run or a restore of the job is active (its two  *)
(* SELECTs as one: nothing the model tells apart lies between them).          *)
StartAssertIdle(c) ==
  /\ pc[c] = "read"
  /\ pc' = [pc EXCEPT ![c] =
              IF others \/ \E d \in Checks : IsActive(d) THEN "end" ELSE "clear"]
  /\ UNCHANGED <<jobVars, repoVars, status, plan, readsAt, result, aborted,
                 cancelling, readBack, faults>>

(* The INSERT: a local check's row shows running, an agent's waits in the     *)
(* queue.                                                                     *)
StartInsert(c) ==
  /\ pc[c] = "clear"
  /\ pc' = [pc EXCEPT ![c] = IF onAgent THEN "queued" ELSE "inserted"]
  /\ status' = [status EXCEPT ![c] = IF onAgent THEN "queued" ELSE "running"]
  /\ UNCHANGED <<jobVars, repoVars, plan, readsAt, result, aborted, cancelling,
                 readBack, faults>>

-----------------------------------------------------------------------------
(* settle *)

(* The first UPDATE, guarded by status = 'running'; a run that is no longer   *)
(* running changes nothing else.                                              *)
Settle(c, outcome) ==
  /\ result' = [result EXCEPT ![c] = outcome]
  /\ IF status[c] = "running"
     THEN /\ status' = [status EXCEPT ![c] =
                          IF outcome = "passed" THEN "success" ELSE "failed"]
          /\ pc' = [pc EXCEPT ![c] = "patch"]
     ELSE /\ UNCHANGED status
          /\ pc' = [pc EXCEPT ![c] = "end"]

SettleCancelled(c) ==
  /\ status' = [status EXCEPT ![c] = IF @ = "running" THEN "cancelled" ELSE @]
  /\ pc' = [pc EXCEPT ![c] = "end"]
  /\ UNCHANGED result

(* The UPDATE of the repository row.                                          *)
Patch(c) ==
  /\ pc[c] = "patch"
  /\ pc' = [pc EXCEPT ![c] = "end"]
  /\ RepositoryPatch(plan[c], result[c])
  /\ UNCHANGED <<jobVars, status, plan, readsAt, result, aborted, cancelling,
                 readBack, faults>>

(* What restic has read and found intact.                                     *)
RecordRead(c) ==
  readBack' = IF plan[c].level = "quick" THEN readBack
              ELSE readBack \union {<<readsAt[c], plan[c].parts, plan[c].part>>}

-----------------------------------------------------------------------------
(* CheckRunnerService.execute *)

(* The check enters the map, where cancel can find it from now on.            *)
Execute(c) ==
  /\ pc[c] = "inserted"
  /\ pc' = [pc EXCEPT ![c] = "resolve"]
  /\ UNCHANGED <<jobVars, repoVars, status, plan, readsAt, result, aborted,
                 cancelling, readBack, faults>>

(* The repository is resolved and restic is spawned.  A signal aborted before *)
(* that reaches no process.                                                   *)
Spawn(c) ==
  /\ pc[c] = "resolve"
  /\ pc' = [pc EXCEPT ![c] = "check"]
  /\ UNCHANGED <<jobVars, repoVars, status, plan, readsAt, result, aborted,
                 cancelling, readBack, faults>>

CheckPasses(c) ==
  /\ pc[c] = "check"
  /\ RecordRead(c)
  /\ Settle(c, "passed")
  /\ UNCHANGED <<jobVars, repoVars, plan, readsAt, aborted, cancelling, faults>>

CheckFindsDamage(c) ==
  /\ pc[c] \in {"check", "killed"}
  /\ Settle(c, "damaged")
  /\ UNCHANGED <<jobVars, repoVars, plan, readsAt, aborted, cancelling,
                 readBack, faults>>

(* The catch block.                                                           *)
CheckThrows(c) ==
  /\ pc[c] \in {"resolve", "check", "killed"}
  /\ IF c \in aborted THEN SettleCancelled(c) ELSE Settle(c, "failed")
  /\ UNCHANGED <<jobVars, repoVars, plan, readsAt, aborted, cancelling,
                 readBack, faults>>

-----------------------------------------------------------------------------
(* Checks that the job's agent runs *)

(* claimCheckTasks: the agent's poll claims the queued check; the repository  *)
(* is resolved only now.                                                      *)
AgentClaim(c) ==
  /\ pc[c] = "queued" /\ status[c] = "queued"
  /\ status' = [status EXCEPT ![c] = "running"]
  /\ pc' = [pc EXCEPT ![c] = "handed"]
  /\ readsAt' = [readsAt EXCEPT ![c] = location]
  /\ UNCHANGED <<jobVars, repoVars, plan, result, aborted, cancelling, readBack,
                 faults>>

(* recordAgentResult.                                                         *)
AgentPasses(c) ==
  /\ pc[c] = "handed"
  /\ RecordRead(c)
  /\ Settle(c, "passed")
  /\ UNCHANGED <<jobVars, repoVars, plan, readsAt, aborted, cancelling, faults>>

AgentFails(c) ==
  /\ pc[c] = "handed"
  /\ \E outcome \in {"damaged", "failed"} : Settle(c, outcome)
  /\ UNCHANGED <<jobVars, repoVars, plan, readsAt, aborted, cancelling,
                 readBack, faults>>

(* The agent noticed the cancel and stopped; no verdict.                      *)
AgentStopped(c) ==
  /\ pc[c] = "handed" /\ status[c] = "cancelled"
  /\ SettleCancelled(c)
  /\ UNCHANGED <<jobVars, repoVars, plan, readsAt, aborted, cancelling,
                 readBack, faults>>

(* failStaleQueuedRuns: no agent picked the check up in time.                 *)
SweepFails(c) ==
  /\ status[c] = "queued"
  /\ status' = [status EXCEPT ![c] = "failed"]
  /\ pc' = [pc EXCEPT ![c] = "end"]
  /\ UNCHANGED <<jobVars, repoVars, plan, readsAt, result, aborted, cancelling,
                 readBack, faults>>

-----------------------------------------------------------------------------
(* The operator, other activities, faults *)

SetSplit(n) ==
  /\ n # split
  /\ split' = n
  /\ UNCHANGED <<onAgent, location, others, repoVars, runVars, aborted,
                 cancelling, readBack, faults>>

(* JobsService.update points the repository elsewhere; its check columns stay *)
(* as they are.                                                               *)
MoveRepository(l) ==
  /\ l # location
  /\ location' = l
  /\ UNCHANGED <<onAgent, split, others, repoVars, runVars, aborted, cancelling,
                 readBack, faults>>

OtherActivity ==
  /\ others' = ~others
  /\ UNCHANGED <<onAgent, split, location, repoVars, runVars, aborted,
                 cancelling, readBack, faults>>

CancelRead(c) ==
  /\ cancelling[c] = "idle" /\ IsActive(c)
  /\ cancelling' = [cancelling EXCEPT ![c] = "read"]
  /\ UNCHANGED <<jobVars, repoVars, runVars, aborted, readBack, faults>>

(* A check in this process's map is aborted and left to settle itself; the    *)
(* abort kills a restic that runs.                                            *)
CancelAsk(c) ==
  /\ cancelling[c] = "read"
  /\ IF ~onAgent /\ pc[c] \in {"resolve", "check", "killed", "patch"}
     THEN /\ aborted' = aborted \union {c}
          /\ pc' = [pc EXCEPT ![c] = IF @ = "check" THEN "killed" ELSE @]
          /\ cancelling' = [cancelling EXCEPT ![c] = "idle"]
     ELSE /\ UNCHANGED <<aborted, pc>>
          /\ cancelling' = [cancelling EXCEPT ![c] = "update"]
  /\ UNCHANGED <<jobVars, repoVars, status, plan, readsAt, result, readBack,
                 faults>>

(* UPDATE status = 'cancelled', by id alone.                                  *)
CancelUpdate(c) ==
  /\ cancelling[c] = "update"
  /\ status' = [status EXCEPT ![c] = "cancelled"]
  /\ cancelling' = [cancelling EXCEPT ![c] = "idle"]
  /\ UNCHANGED <<jobVars, repoVars, plan, readsAt, pc, result, aborted,
                 readBack, faults>>

(* A result that never arrives (an agent that dies with its task), an UPDATE  *)
(* of the repository row that fails (the second attempt to settle finds the   *)
(* run row settled), or both attempts to settle a local check failing.        *)
LoseResult(c) ==
  /\ pc[c] \in {"resolve", "check", "killed", "handed", "patch"}
  /\ Fault
  /\ pc' = [pc EXCEPT ![c] = "end"]
  /\ UNCHANGED <<jobVars, repoVars, status, plan, readsAt, result, aborted,
                 cancelling, readBack>>

(* The server process dies; queued checks and those with the agent survive.   *)
Crash ==
  /\ Fault
  /\ pc' = [c \in Checks |-> IF pc[c] \in {"new", "queued", "handed"} THEN pc[c]
                             ELSE "end"]
  /\ aborted' = {}
  /\ cancelling' = [c \in Checks |-> "idle"]
  /\ UNCHANGED <<jobVars, repoVars, status, plan, readsAt, result, readBack>>

-----------------------------------------------------------------------------
CheckStep(c) ==
  \/ StartAssertIdle(c) \/ StartInsert(c)
  \/ Execute(c) \/ Spawn(c) \/ CheckPasses(c) \/ CheckFindsDamage(c) \/ CheckThrows(c)
  \/ AgentPasses(c) \/ AgentFails(c) \/ AgentStopped(c)
  \/ Patch(c)

Next ==
  \/ \E c \in Checks :
       \/ \E level \in Levels : StartRead(c, level)
       \/ CheckStep(c)
       \/ AgentClaim(c) \/ SweepFails(c) \/ LoseResult(c)
       \/ CancelRead(c) \/ CancelAsk(c) \/ CancelUpdate(c)
  \/ \E n \in Splits : SetSplit(n)
  \/ \E l \in Locations : MoveRepository(l)
  \/ OtherActivity
  \/ Crash

Spec == Init /\ [][Next]_vars

-----------------------------------------------------------------------------
(* Safety *)

WasRead(n, k) == \E l \in Locations : <<l, n, k>> \in readBack
AllRead(n) == \A k \in 1 .. n : WasRead(n, k)

(* "a rotating check advances to its next part only once the current one has *)
(* passed": the parts before the next one have all been read back, whatever  *)
(* cancels, changed splits, lost results and crashes came in between.        *)
RotationSound ==
  subsetParts # 0 =>
    /\ subsetNext \in 1 .. subsetParts
    /\ \A k \in 1 .. subsetNext - 1 : WasRead(subsetParts, k)

(* "passing the last one completes a rotation in which every part was read   *)
(* back": data_verified_at is set only after a full check or every part of   *)
(* one split has passed.                                                     *)
VerifiedSound == verified => \E n \in Splits \union {1} : AllRead(n)
=============================================================================
