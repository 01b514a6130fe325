---------------------------- MODULE ChecksProofs ----------------------------
(***************************************************************************)
(* Proofs about Checks: for any number of checks, any splits and any       *)
(* locations, the rotation advances only over parts that were read back,   *)
(* and the repository counts as verified only after all of its data was.   *)
(*                                                                         *)
(* Neither property is inductive: what the next check reads and what the   *)
(* pending UPDATE of the repository row will write are decided when the    *)
(* job row is read and when restic ends.  PlanSound and PatchSound carry   *)
(* that knowledge from the one step to the other.                          *)
(***************************************************************************)
EXTENDS Checks, TLAPS

(* Every part before the planned one has been read back, from the moment the *)
(* plan is made.                                                             *)
PlanSound ==
  \A c \in Checks :
    /\ plan[c].level = "full" => plan[c].part = 1 /\ plan[c].parts = 1
    /\ plan[c].level = "rotating" =>
         /\ plan[c].parts \in Splits
         /\ plan[c].part \in 1 .. plan[c].parts
         /\ \A k \in 1 .. plan[c].part - 1 : WasRead(plan[c].parts, k)

(* A check about to update the repository as passed has read its part.       *)
PatchSound ==
  \A c \in Checks :
    (pc[c] = "patch" /\ result[c] = "passed" /\ plan[c].level # "quick") =>
      WasRead(plan[c].parts, plan[c].part)

Sound ==
  /\ subsetParts \in Splits \union {0}
  /\ RotationSound
  /\ VerifiedSound
  /\ PlanSound
  /\ PatchSound

IInv == TypeOK /\ Sound

-----------------------------------------------------------------------------
(* The parts of a split follow each other, and the last one is followed by   *)
(* the first.                                                                *)
LEMMA NextPartCycles ==
  ASSUME NEW n \in Nat, NEW p \in 1 .. n
  PROVE  /\ NextPart(p, n) \in 1 .. n
         /\ NextPart(p, n) = IF p = n THEN 1 ELSE p + 1
<1>1. CASE p = n
  BY <1>1 DEF NextPart
<1>2. CASE p < n
  <2>1. p % n = p
    BY <1>2
  <2> QED
    BY <1>2, <2>1 DEF NextPart
<1> QED
  BY <1>1, <1>2

(* What was read back stays read back.                                       *)
LEMMA WasReadStays ==
  ASSUME readBack \subseteq readBack', NEW n, NEW k, WasRead(n, k)
  PROVE  WasRead(n, k)'
BY DEF WasRead

(* A plan is sound when the position of the rotation is.                     *)
LEMMA PlanCheckSound ==
  ASSUME TypeOK, Sound, NEW level \in Levels
  PROVE  LET p == PlanCheck(level) IN
         /\ p \in Plans
         /\ p.level = "full" => p.part = 1 /\ p.parts = 1
         /\ p.level = "rotating" =>
              /\ p.parts \in Splits
              /\ p.part \in 1 .. p.parts
              /\ \A k \in 1 .. p.part - 1 : WasRead(p.parts, k)
<1>1. split \in Splits /\ split \in Nat /\ split >= 1
  BY ChecksAssumption DEF TypeOK
<1>2. /\ PlannedPart \in 1 .. split
      /\ \A k \in 1 .. PlannedPart - 1 : WasRead(split, k)
  <2>1. CASE subsetParts = split /\ subsetNext \in 1 .. split
    BY <1>1, <2>1 DEF PlannedPart, Sound, RotationSound
  <2>2. CASE ~(subsetParts = split /\ subsetNext \in 1 .. split)
    BY <1>1, <2>2 DEF PlannedPart
  <2> QED
    BY <2>1, <2>2
<1>3. CASE level = "rotating"
  BY <1>1, <1>2, <1>3 DEF PlanCheck, Plans, Levels
<1>4. CASE level = "full"
  BY <1>4 DEF PlanCheck, Full, Plans, Levels
<1>5. CASE level = "quick"
  BY <1>5 DEF PlanCheck, Quick, Plans, Levels
<1> QED
  BY <1>3, <1>4, <1>5 DEF Levels

-----------------------------------------------------------------------------
(* What a step that leaves the repository row and the plans alone has to     *)
(* show: a check that comes to be recorded as passed has read its part.      *)
LEMMA SoundFrame ==
  ASSUME Sound, TypeOK,
         UNCHANGED <<subsetNext, subsetParts, verified, plan>>,
         readBack \subseteq readBack',
         \A c \in Checks :
           (pc'[c] = "patch" /\ result'[c] = "passed" /\ plan[c].level # "quick")
             => \/ pc[c] = "patch" /\ result[c] = "passed"
                \/ WasRead(plan[c].parts, plan[c].part)'
  PROVE  Sound'
<1>1. RotationSound'
  BY WasReadStays DEF Sound, RotationSound
<1>2. VerifiedSound'
  <2>1. ASSUME NEW n, AllRead(n)
        PROVE  AllRead(n)'
    BY <2>1, WasReadStays DEF AllRead
  <2> QED
    BY <2>1 DEF Sound, VerifiedSound
<1>3. PlanSound'
  BY WasReadStays DEF Sound, PlanSound
<1>4. PatchSound'
  <2> SUFFICES ASSUME NEW c \in Checks,
                      pc'[c] = "patch", result'[c] = "passed",
                      plan[c].level # "quick"
               PROVE  WasRead(plan[c].parts, plan[c].part)'
    BY DEF PatchSound
  <2>1. CASE pc[c] = "patch" /\ result[c] = "passed"
    <3>1. WasRead(plan[c].parts, plan[c].part)
      BY <2>1 DEF Sound, PatchSound
    <3> QED
      BY <3>1, WasReadStays
  <2> QED
    BY <2>1
<1> QED
  BY <1>1, <1>2, <1>3, <1>4 DEF Sound

(* The UPDATE of the repository row.                                         *)
LEMMA PatchStep ==
  ASSUME TypeOK, Sound, NEW c \in Checks, Patch(c)
  PROVE  TypeOK' /\ Sound'
<1> DEFINE n == plan[c].parts
           p == plan[c].part
<1>1. /\ readBack' = readBack /\ plan' = plan /\ result' = result
      /\ pc[c] = "patch" /\ pc' = [pc EXCEPT ![c] = "end"]
      /\ UNCHANGED <<jobVars, status, readsAt, aborted, cancelling, faults>>
      /\ RepositoryPatch(plan[c], result[c])
  BY DEF Patch
<1>2. plan[c] \in Plans /\ result[c] \in Outcomes /\ plan[c].level \in Levels
  BY DEF TypeOK, Plans
<1>3. \A m, k : WasRead(m, k)' <=> WasRead(m, k)
  BY <1>1 DEF WasRead
<1>4. PlanSound' /\ PatchSound'
  BY <1>1, <1>3 DEF Sound, PlanSound, PatchSound, TypeOK
<1>5. ASSUME UNCHANGED <<subsetNext, subsetParts, verified>>,
             verdict' \in {"none", "passed", "damaged"}
      PROVE  TypeOK' /\ Sound'
  <2>1. RotationSound' /\ VerifiedSound'
    BY <1>3, <1>5 DEF Sound, RotationSound, VerifiedSound, AllRead
  <2>2. TypeOK'
    BY <1>1, <1>5 DEF TypeOK, jobVars, Pcs
  <2> QED
    BY <1>4, <1>5, <2>1, <2>2 DEF Sound
<1>6. CASE result[c] = "damaged"
  BY <1>1, <1>5, <1>6 DEF RepositoryPatch
<1>7. CASE result[c] = "failed"
  BY <1>1, <1>5, <1>7 DEF RepositoryPatch, repoVars, TypeOK
<1>8. CASE result[c] = "passed"
  <2>1. /\ verdict' = "passed"
        /\ plan[c].level = "rotating" =>
             subsetParts' = n /\ subsetNext' = NextPart(p, n)
        /\ plan[c].level # "rotating" =>
             subsetNext' = subsetNext /\ subsetParts' = subsetParts
        /\ verified' = (\/ verified
                        \/ plan[c].level = "full"
                        \/ plan[c].level = "rotating" /\ p = n)
    BY <1>1, <1>8 DEF RepositoryPatch
  <2>2. plan[c].level # "quick" => WasRead(n, p)
    BY <1>1, <1>8 DEF Sound, PatchSound
  <2>3. /\ subsetParts' \in Splits \union {0}
        /\ subsetNext' \in Nat \ {0}
        /\ RotationSound'
    <3>1. CASE plan[c].level = "rotating"
      <4>1. /\ n \in Splits /\ n \in Nat /\ n # 0 /\ p \in 1 .. n
            /\ \A k \in 1 .. p - 1 : WasRead(n, k)
        BY <3>1, ChecksAssumption DEF Sound, PlanSound
      <4>2. /\ subsetNext' \in 1 .. n
            /\ subsetNext' = IF p = n THEN 1 ELSE p + 1
        BY <2>1, <3>1, <4>1, NextPartCycles
      <4>3. \A k \in 1 .. p : WasRead(n, k)
        BY <2>2, <3>1, <4>1
      <4> HIDE DEF n, p
      <4>4. \A k \in 1 .. subsetNext' - 1 : WasRead(n, k)
        BY <4>1, <4>2, <4>3
      <4> QED
        BY <1>3, <2>1, <3>1, <4>1, <4>2, <4>4 DEF RotationSound
    <3>2. CASE plan[c].level # "rotating"
      BY <1>3, <2>1, <3>2 DEF Sound, RotationSound, TypeOK
    <3> QED
      BY <3>1, <3>2
  <2>4. verified' \in BOOLEAN
    BY <2>1
  <2>5. VerifiedSound'
    <3>1. SUFFICES ASSUME verified'
                   PROVE  \E m \in Splits \union {1} : AllRead(m)
      BY <1>3 DEF VerifiedSound, AllRead
    <3>2. CASE verified
      BY <3>2 DEF Sound, VerifiedSound
    <3>3. CASE plan[c].level = "full"
      <4>1. n = 1 /\ p = 1
        BY <3>3 DEF Sound, PlanSound
      <4>2. AllRead(1)
        BY <2>2, <3>3, <4>1 DEF AllRead
      <4> QED
        BY <4>2
    <3>4. CASE plan[c].level = "rotating" /\ p = n
      <4>1. /\ n \in Splits /\ n \in Nat
            /\ \A k \in 1 .. p - 1 : WasRead(n, k)
        BY <3>4, ChecksAssumption DEF Sound, PlanSound
      <4>2. AllRead(n)
        BY <2>2, <3>4, <4>1 DEF AllRead
      <4> QED
        BY <4>1, <4>2
    <3> QED
      BY <2>1, <3>1, <3>2, <3>3, <3>4
  <2>6. TypeOK'
    <3>1. subsetParts' \in Nat
      BY <2>3, ChecksAssumption
    <3>2. verdict' \in {"none", "passed", "damaged"}
      BY <2>1
    <3> QED
      BY <1>1, <2>3, <2>4, <3>1, <3>2 DEF TypeOK, jobVars, Pcs
  <2> QED
    BY <1>4, <2>3, <2>5, <2>6 DEF Sound
<1> QED
  BY <1>2, <1>6, <1>7, <1>8 DEF Outcomes

-----------------------------------------------------------------------------
(* A settled check: its part was recorded in readBack if it passed.          *)
LEMMA SettleStep ==
  ASSUME TypeOK, Sound, NEW c \in Checks, NEW outcome \in Outcomes,
         Settle(c, outcome),
         \/ outcome # "passed" /\ readBack' = readBack
         \/ RecordRead(c),
         UNCHANGED <<jobVars, repoVars, plan, readsAt, aborted, cancelling, faults>>
  PROVE  TypeOK' /\ Sound'
<1>1. readBack \subseteq readBack' /\ readBack' \subseteq Locations \X Nat \X Nat
  BY DEF RecordRead, TypeOK, Plans
<1>2. status' \in [Checks -> {"none", "queued", "running", "success", "failed",
                              "cancelled"}]
  <2>1. CASE status[c] = "running"
    BY <2>1 DEF Settle, TypeOK
  <2>2. CASE status[c] # "running"
    BY <2>2 DEF Settle, TypeOK
  <2> QED
    BY <2>1, <2>2
<1>3. pc' \in [Checks -> Pcs] /\ \A d \in Checks \ {c} : pc'[d] = pc[d]
  BY DEF Settle, TypeOK, Pcs
<1>4. /\ result' \in [Checks -> Outcomes] /\ result'[c] = outcome
      /\ \A d \in Checks \ {c} : result'[d] = result[d]
  BY DEF Settle, TypeOK
<1>5. TypeOK'
  BY <1>1, <1>2, <1>3, <1>4 DEF TypeOK, jobVars, repoVars
<1>6. ASSUME NEW d \in Checks, pc'[d] = "patch", result'[d] = "passed",
             plan[d].level # "quick"
      PROVE  \/ pc[d] = "patch" /\ result[d] = "passed"
             \/ WasRead(plan[d].parts, plan[d].part)'
  <2>1. CASE d # c
    BY <1>3, <1>4, <1>6, <2>1
  <2>2. CASE d = c
    <3>1. <<readsAt[c], plan[c].parts, plan[c].part>> \in readBack'
      BY <1>4, <1>6, <2>2 DEF RecordRead
    <3>2. readsAt[c] \in Locations
      BY DEF TypeOK
    <3> QED
      BY <2>2, <3>1, <3>2 DEF WasRead
  <2> QED
    BY <2>1, <2>2
<1>7. Sound'
  BY <1>1, <1>6, SoundFrame DEF repoVars
<1> QED
  BY <1>5, <1>7

(* A step that keeps what Sound speaks of, except that checks leave "patch". *)
LEMMA QuietStep ==
  ASSUME TypeOK, Sound,
         UNCHANGED <<repoVars, plan, result, readBack>>,
         \A d \in Checks : pc'[d] = "patch" => pc[d] = "patch"
  PROVE  Sound'
BY SoundFrame DEF repoVars

(* The inductive invariant holds at first and is kept by every step.         *)
LEMMA InitInv == Init => IInv
<1> SUFFICES ASSUME Init
             PROVE  IInv
  OBVIOUS
<1>1. TypeOK
  <2>1. verified \in BOOLEAN /\ others \in BOOLEAN
    BY DEF Init
  <2>2. plan \in [Checks -> Plans] /\ readsAt \in [Checks -> Locations]
    BY DEF Init, Quick, Plans, Levels
  <2>3. /\ status \in [Checks -> {"none", "queued", "running", "success",
                                "failed", "cancelled"}]
        /\ pc \in [Checks -> Pcs]
        /\ result \in [Checks -> Outcomes]
        /\ cancelling \in [Checks -> {"idle", "read", "update"}]
    BY DEF Init, Pcs, Outcomes
  <2> QED
    BY <2>1, <2>2, <2>3, ChecksAssumption DEF Init, TypeOK
<1>2. Sound
  BY DEF Init, Sound, RotationSound, VerifiedSound, PlanSound, PatchSound, Quick
<1> QED
  BY <1>1, <1>2 DEF IInv

(* Every step keeps the invariant.                                           *)
LEMMA NextInv == IInv /\ [Next]_vars => IInv'
<1> SUFFICES ASSUME TypeOK, Sound, [Next]_vars
             PROVE  TypeOK' /\ Sound'
  BY DEF IInv
<1> USE DEF Pcs
<1>1. ASSUME NEW c \in Checks, NEW level \in Levels, StartRead(c, level)
      PROVE  TypeOK' /\ Sound'
  <2>1. /\ plan' = [plan EXCEPT ![c] = PlanCheck(level)]
        /\ pc[c] = "new" /\ pc' = [pc EXCEPT ![c] = "read"]
        /\ readsAt' = [readsAt EXCEPT ![c] = location]
        /\ UNCHANGED <<jobVars, repoVars, status, result, aborted, cancelling,
                       readBack, faults>>
    BY <1>1 DEF StartRead
  <2>2. PlanCheck(level) \in Plans
    BY PlanCheckSound
  <2>3. TypeOK'
    BY <2>1, <2>2 DEF TypeOK, jobVars, repoVars
  <2>4. \A m, k : WasRead(m, k)' <=> WasRead(m, k)
    BY <2>1 DEF WasRead
  <2>5. PlanSound'
    <3> SUFFICES ASSUME NEW d \in Checks
                 PROVE  /\ plan'[d].level = "full" =>
                             plan'[d].part = 1 /\ plan'[d].parts = 1
                        /\ plan'[d].level = "rotating" =>
                             /\ plan'[d].parts \in Splits
                             /\ plan'[d].part \in 1 .. plan'[d].parts
                             /\ \A k \in 1 .. plan'[d].part - 1 :
                                  WasRead(plan'[d].parts, k)
      BY <2>4 DEF PlanSound
    <3>1. CASE d = c
      <4>1. plan'[d] = PlanCheck(level)
        BY <2>1, <3>1 DEF TypeOK
      <4> QED
        BY <4>1, PlanCheckSound
    <3>2. CASE d # c
      <4>1. plan'[d] = plan[d]
        BY <2>1, <3>2 DEF TypeOK
      <4> QED
        BY <4>1 DEF Sound, PlanSound
    <3> QED
      BY <3>1, <3>2
  <2>6. PatchSound'
    BY <2>1, <2>4 DEF Sound, PatchSound, TypeOK
  <2>7. RotationSound' /\ VerifiedSound'
    BY <2>1, <2>4 DEF Sound, RotationSound, VerifiedSound, AllRead, repoVars
  <2> QED
    BY <2>1, <2>3, <2>5, <2>6, <2>7 DEF Sound, repoVars
<1>2. ASSUME NEW c \in Checks, CheckStep(c)
      PROVE  TypeOK' /\ Sound'
  <2>1. CASE StartAssertIdle(c) \/ StartInsert(c) \/ Execute(c) \/ Spawn(c)
    <3>1. TypeOK'
      BY <2>1 DEF StartAssertIdle, StartInsert, Execute, Spawn, TypeOK, jobVars, repoVars
    <3>2. /\ UNCHANGED <<repoVars, plan, result, readBack>>
          /\ \A d \in Checks : pc'[d] = "patch" => pc[d] = "patch"
      BY <2>1 DEF StartAssertIdle, StartInsert, Execute, Spawn, TypeOK
    <3> QED
      BY <3>1, <3>2, QuietStep
  <2>2. CASE CheckPasses(c) \/ AgentPasses(c)
    BY <2>2, SettleStep DEF CheckPasses, AgentPasses, Outcomes
  <2>3. ASSUME SettleCancelled(c),
               UNCHANGED <<jobVars, repoVars, plan, readsAt, aborted,
                           cancelling, readBack, faults>>
        PROVE  TypeOK' /\ Sound'
    <3>1. TypeOK'
      BY <2>3 DEF SettleCancelled, TypeOK, jobVars, repoVars
    <3>2. /\ result' = result
          /\ \A d \in Checks : pc'[d] = "patch" => pc[d] = "patch"
      BY <2>3 DEF SettleCancelled, TypeOK
    <3> QED
      BY <2>3, <3>1, <3>2, QuietStep
  <2>4. CASE CheckFindsDamage(c)
    BY <2>4, SettleStep DEF CheckFindsDamage, Outcomes
  <2>5. CASE CheckThrows(c)
    <3>1. CASE c \in aborted
      BY <2>3, <2>5, <3>1 DEF CheckThrows
    <3>2. CASE c \notin aborted
      BY <2>5, <3>2, SettleStep DEF CheckThrows, Outcomes
    <3> QED
      BY <3>1, <3>2
  <2>6. CASE AgentFails(c)
    BY <2>6, SettleStep DEF AgentFails, Outcomes
  <2>7. CASE AgentStopped(c)
    BY <2>3, <2>7 DEF AgentStopped
  <2>8. CASE Patch(c)
    BY <2>8, PatchStep
  <2> QED
    BY <1>2, <2>1, <2>2, <2>4, <2>5, <2>6, <2>7, <2>8 DEF CheckStep
<1>3. ASSUME NEW c \in Checks,
             AgentClaim(c) \/ SweepFails(c) \/ LoseResult(c)
      PROVE  TypeOK' /\ Sound'
  <2>1. TypeOK'
    BY <1>3, ChecksAssumption DEF AgentClaim, SweepFails, LoseResult, Fault,
         TypeOK, jobVars, repoVars
  <2>2. /\ UNCHANGED <<repoVars, plan, result, readBack>>
        /\ \A d \in Checks : pc'[d] = "patch" => pc[d] = "patch"
    BY <1>3 DEF AgentClaim, SweepFails, LoseResult, TypeOK
  <2> QED
    BY <2>1, <2>2, QuietStep
<1>4. ASSUME NEW c \in Checks,
             CancelRead(c) \/ CancelAsk(c) \/ CancelUpdate(c)
      PROVE  TypeOK' /\ Sound'
  <2>1. TypeOK'
    BY <1>4 DEF CancelRead, CancelAsk, CancelUpdate, TypeOK, jobVars, repoVars,
                runVars
  <2>2. /\ UNCHANGED <<repoVars, plan, result, readBack>>
        /\ \A d \in Checks : pc'[d] = "patch" => pc[d] = "patch"
    BY <1>4 DEF CancelRead, CancelAsk, CancelUpdate, TypeOK, runVars
  <2> QED
    BY <2>1, <2>2, QuietStep
<1>5. ASSUME \/ \E n \in Splits : SetSplit(n)
             \/ \E l \in Locations : MoveRepository(l)
             \/ OtherActivity
             \/ UNCHANGED vars
      PROVE  TypeOK' /\ Sound'
  <2>1. TypeOK'
    BY <1>5 DEF SetSplit, MoveRepository, OtherActivity, vars, TypeOK, jobVars,
                repoVars, runVars
  <2>2. UNCHANGED <<repoVars, plan, result, readBack, pc>>
    BY <1>5 DEF SetSplit, MoveRepository, OtherActivity, vars, runVars
  <2> QED
    BY <2>1, <2>2, QuietStep
<1>6. CASE Crash
  <2>1. TypeOK'
    BY <1>6, ChecksAssumption DEF Crash, Fault, TypeOK, jobVars, repoVars
  <2>2. /\ UNCHANGED <<repoVars, plan, result, readBack>>
        /\ \A d \in Checks : pc'[d] = "patch" => pc[d] = "patch"
    BY <1>6 DEF Crash, TypeOK
  <2> QED
    BY <2>1, <2>2, QuietStep
<1> QED
  BY <1>1, <1>2, <1>3, <1>4, <1>5, <1>6 DEF Next

(* The inductive invariant, with type correctness of the integrity checks.   *)
THEOREM ChecksInvariant == Spec => []IInv
<1>1. Init => IInv
  BY InitInv
<1>2. IInv /\ [Next]_vars => IInv'
  BY NextInv
<1> QED
  BY <1>1, <1>2, PTL DEF Spec

(* A rotating check advances only over parts that were read back, whatever   *)
(* cancels, changed splits, lost results and crashes come between planCheck, *)
(* restic and the UPDATE of repositoryPatch.                                 *)
THEOREM RotationIsSound == Spec => []RotationSound
<1>1. IInv => RotationSound
  BY DEF IInv, Sound
<1> QED
  BY <1>1, ChecksInvariant, PTL

(* data_verified_at is set only after a full check, or every part of one     *)
(* split, was read back and found intact.                                    *)
THEOREM VerificationIsSound == Spec => []VerifiedSound
<1>1. IInv => VerifiedSound
  BY DEF IInv, Sound
<1> QED
  BY <1>1, ChecksInvariant, PTL
=============================================================================
