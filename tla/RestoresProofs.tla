--------------------------- MODULE RestoresProofs ---------------------------
(***************************************************************************)
(* What a restore shows and offers is true, and a cancelled agent restore  *)
(* stays cancelled, after any number of faults.                            *)
(***************************************************************************)
EXTENDS Restores, TLAPS

(* The shape of the state, in parts.                                         *)
RowType ==
  run \in [status : {"none"} \cup Active \cup Ended, mode : {"none"} \cup Modes,
           dest : {"none", "server", "agent"}, path : BOOLEAN, dry : BOOLEAN,
           stats : {"none", "partial", "final"}, ref : BOOLEAN, expired : BOOLEAN]
StepType ==
  /\ exec \in {"none", "dispatch", "read", "mark", "prepare", "spawn", "restic", "archive",
               "clean", "success", "catch", "finally"}
  /\ running \in {"no", "yes", "aborted"}
  /\ disk \subseteq {"dir", "part", "archive"}
  /\ cancel \in {"none", "act", "update"}
FlagType == killed \in BOOLEAN /\ pending \in BOOLEAN /\ snap \in BOOLEAN
AgentType == agent \in [pc : {"idle", "answer", "work", "result"}, outcome : {"none"} \cup Ended]
PageType ==
  page \in [list : BOOLEAN, run : {"none"} \cup Active \cup Ended,
           got : {"none", "file", "refused"}]
FaultType == faults \in 0..MaxFaults

(* A restore runs on one side: one of the server never has a task, one of an *)
(* agent never gets past dispatch here.                                      *)
OneSide ==
  /\ run.status = "none" => run = NoRun
  /\ run.dest = "none" => exec = "none" /\ agent.pc = "idle"
  /\ run.dest = "agent" => exec \in {"none", "dispatch"}
  /\ run.dest = "server" => agent.pc = "idle"
  /\ agent.pc = "result" => agent.outcome \in Ended

(* What the executor has on disk at each of its steps.                       *)
OnDisk ==
  /\ exec \in {"dispatch", "read", "mark", "prepare"} \/ run.dest # "server" => disk = {}
  /\ exec \in {"spawn", "restic"} => disk \subseteq {"dir"}
  /\ exec = "archive" => disk \subseteq {"dir", "part"}
  /\ exec = "clean" => "archive" \in disk /\ "part" \notin disk
  /\ exec \in {"archive", "clean"} => Archives
  /\ exec = "success" /\ Archives => disk = {"archive"}

(* A success is recorded last and is not changed; it has its final figures,  *)
(* and the archive it names is whole.                                        *)
Recorded ==
  /\ run.status = "success" => run.stats = "final"
  /\ run.status = "success" => exec \in {"none", "finally"} \/ run.dest = "agent"
  /\ run.status = "success" /\ Archives => run.ref \/ run.dest = "agent"
  /\ run.ref => run.status = "success" /\ disk = {"archive"}

(* What the page has learnt still holds.                                     *)
Learnt ==
  /\ run.status = "none" => page.run = "none" /\ page.got = "none"
  /\ page.run = "success" => run.status = "success"
  /\ page.got = "refused" => run.dry \/ run.expired \/ run.dest = "agent"

Inv ==
  /\ RowType /\ StepType /\ FlagType /\ AgentType /\ PageType /\ FaultType
  /\ OneSide /\ OnDisk /\ Recorded /\ Learnt

(* The state a restore starts from satisfies the invariant.                  *)
LEMMA InitInv == Init => Inv
<1> SUFFICES ASSUME Init PROVE Inv
  OBVIOUS
<1> USE DEF Init, NoRun, AtRest
<1>1. RowType
  BY DEF RowType, Active, Ended, Modes
<1>2. StepType /\ FlagType
  BY DEF StepType, FlagType
<1>3. AgentType /\ PageType
  BY DEF AgentType, PageType
<1>4. FaultType
  BY RestoresBounds DEF FaultType
<1>5. OneSide /\ Learnt
  BY DEF OneSide, Learnt
<1>6. OnDisk /\ Recorded
  BY DEF OnDisk, Recorded, Archives
<1>7. QED
  BY <1>1, <1>2, <1>3, <1>4, <1>5, <1>6 DEF Inv

(* Every step of the server, the agent, the browser and the faults keeps it. *)
LEMMA StepInv == Inv /\ [Next]_vars => Inv'
<1> SUFFICES ASSUME Inv, [Next]_vars PROVE Inv'
  OBVIOUS
<1>a. /\ RowType /\ StepType /\ FlagType /\ AgentType /\ PageType /\ FaultType
      /\ OneSide /\ OnDisk /\ Recorded /\ Learnt
  BY DEF Inv
<1>1. CASE LoadSnapshots
  <2> USE <1>1 DEF LoadSnapshots
  <2>1. (RowType /\ StepType /\ FlagType /\ AgentType /\ FaultType /\ OneSide /\ OnDisk
        /\ Recorded)'
    BY <1>a DEF RowType, StepType, FlagType, AgentType, FaultType, OneSide, OnDisk, Recorded,
       Archives
  <2>2. PageType'
    BY <1>a DEF PageType, FlagType
  <2>3. Learnt'
    BY <1>a DEF RowType, PageType, OneSide, OnDisk, Recorded, Learnt, Archives, Active
  <2>4. QED
    BY <2>1, <2>2, <2>3 DEF Inv
<1>2. CASE LoadHistory
  <2> USE <1>2 DEF LoadHistory
  <2>1. (RowType /\ StepType /\ FlagType /\ AgentType /\ FaultType /\ OneSide /\ OnDisk
        /\ Recorded)'
    BY <1>a DEF RowType, StepType, FlagType, AgentType, FaultType, OneSide, OnDisk, Recorded,
       Archives
  <2>2. PageType'
    BY <1>a DEF PageType, RowType
  <2>3. Learnt'
    BY <1>a DEF RowType, PageType, OneSide, OnDisk, Recorded, Learnt, Archives, Active
  <2>4. QED
    BY <2>1, <2>2, <2>3 DEF Inv
<1>3. CASE DeleteSnapshot
  <2> USE <1>3 DEF DeleteSnapshot, Offered, Reloaded
  <2>1. (RowType /\ StepType /\ AgentType /\ FaultType /\ OneSide /\ OnDisk /\ Recorded)'
    BY <1>a DEF RowType, StepType, AgentType, FaultType, OneSide, OnDisk, Recorded, Archives
  <2>2. FlagType'
    BY <1>a DEF FlagType
  <2>3. PageType'
    BY <1>a DEF PageType
  <2>4. Learnt'
    BY <1>a DEF RowType, PageType, OneSide, OnDisk, Recorded, Learnt, Archives, Active
  <2>5. QED
    BY <2>1, <2>2, <2>3, <2>4 DEF Inv
<1>4. CASE Create
  <2> USE <1>4 DEF Create, Payload, NoRun
  <2>1. (FlagType /\ AgentType /\ PageType /\ FaultType)'
    BY <1>a DEF FlagType, AgentType, PageType, FaultType
  <2>2. RowType'
    <3>1. PICK p \in Payload :
            run' = [status |-> "queued", mode |-> p.mode, dest |-> p.dest, path |-> p.path,
                    dry |-> p.dry, stats |-> "none", ref |-> FALSE, expired |-> FALSE]
      OBVIOUS
    <3>2. /\ p.mode \in Modes /\ p.dest \in {"server", "agent"}
          /\ p.path \in BOOLEAN /\ p.dry \in BOOLEAN
      BY DEF Payload
    <3>3. QED
      BY ONLY <3>1, <3>2 DEF RowType, Active, Ended, Modes
  <2>3. StepType'
    BY <1>a DEF StepType
  <2>4. OneSide'
    BY <1>a DEF RowType, StepType, AgentType, OneSide, Recorded, Active, Ended, Modes
  <2>5. OnDisk'
    BY <1>a DEF RowType, StepType, OneSide, OnDisk, Recorded, Archives, Active
  <2>6. Recorded'
    BY <1>a DEF RowType, StepType, OneSide, OnDisk, Recorded, Archives, Active, Ended
  <2>7. Learnt'
    BY <1>a DEF RowType, PageType, OneSide, OnDisk, Recorded, Learnt, Archives, Active
  <2>8. QED
    BY <2>1, <2>2, <2>3, <2>4, <2>5, <2>6, <2>7 DEF Inv
<1>5. CASE Download
  <2> USE <1>5 DEF Download, CanDownload, GetDownload
  <2>1. (RowType /\ StepType /\ FlagType /\ AgentType /\ FaultType /\ OneSide /\ OnDisk
        /\ Recorded)'
    BY <1>a DEF RowType, StepType, FlagType, AgentType, FaultType, OneSide, OnDisk, Recorded,
       Archives
  <2>2. PageType'
    BY <1>a DEF PageType
  <2>3. Learnt'
    BY <1>a DEF RowType, PageType, OneSide, OnDisk, Recorded, Learnt, Archives, Active
  <2>4. QED
    BY <2>1, <2>2, <2>3 DEF Inv
<1>6. CASE Expire
  <2> USE <1>6 DEF Expire, NoRun
  <2>1. (StepType /\ FlagType /\ AgentType /\ PageType /\ FaultType)'
    BY <1>a DEF StepType, FlagType, AgentType, PageType, FaultType
  <2>2. RowType'
    BY <1>a DEF RowType, Active, Ended, Modes
  <2>3. OneSide'
    BY <1>a DEF RowType, StepType, AgentType, OneSide, Recorded, Active, Ended, Modes
  <2>4. OnDisk'
    BY <1>a DEF RowType, StepType, OneSide, OnDisk, Recorded, Archives, Active
  <2>5. Recorded'
    BY <1>a DEF RowType, StepType, OneSide, OnDisk, Recorded, Archives, Active, Ended
  <2>6. Learnt'
    BY <1>a DEF RowType, PageType, OneSide, OnDisk, Recorded, Learnt, Archives, Active
  <2>7. QED
    BY <2>1, <2>2, <2>3, <2>4, <2>5, <2>6 DEF Inv
<1>7. CASE Dispatch
  <2> USE <1>7 DEF Dispatch, Goto
  <2>1. (RowType /\ FlagType /\ AgentType /\ PageType /\ FaultType /\ Learnt)'
    BY <1>a DEF RowType, FlagType, AgentType, PageType, FaultType, Learnt
  <2>2. StepType'
    BY <1>a DEF StepType
  <2>3. OneSide'
    BY <1>a DEF RowType, StepType, AgentType, OneSide, Recorded, Active, Ended, Modes
  <2>4. OnDisk'
    BY <1>a DEF RowType, StepType, OneSide, OnDisk, Recorded, Archives, Active
  <2>5. Recorded'
    BY <1>a DEF RowType, StepType, OneSide, OnDisk, Recorded, Archives, Active, Ended
  <2>6. QED
    BY <2>1, <2>2, <2>3, <2>4, <2>5 DEF Inv
<1>8. CASE ExecuteRead
  <2> USE <1>8 DEF ExecuteRead, Goto
  <2>1. (RowType /\ FlagType /\ AgentType /\ PageType /\ FaultType /\ Learnt)'
    BY <1>a DEF RowType, FlagType, AgentType, PageType, FaultType, Learnt
  <2>2. StepType'
    BY <1>a DEF StepType
  <2>3. OneSide'
    BY <1>a DEF RowType, StepType, AgentType, OneSide, Recorded, Active, Ended, Modes
  <2>4. OnDisk'
    BY <1>a DEF RowType, StepType, OneSide, OnDisk, Recorded, Archives, Active
  <2>5. Recorded'
    BY <1>a DEF RowType, StepType, OneSide, OnDisk, Recorded, Archives, Active, Ended
  <2>6. QED
    BY <2>1, <2>2, <2>3, <2>4, <2>5 DEF Inv
<1>9. CASE ExecuteMark
  <2> USE <1>9 DEF ExecuteMark, Goto, NoRun
  <2>1. (FlagType /\ AgentType /\ PageType /\ FaultType)'
    BY <1>a DEF FlagType, AgentType, PageType, FaultType
  <2>2. RowType'
    BY <1>a DEF RowType, Active, Ended, Modes
  <2>3. StepType'
    BY <1>a DEF StepType
  <2>4. OneSide'
    BY <1>a DEF RowType, StepType, AgentType, OneSide, Recorded, Active, Ended, Modes
  <2>5. OnDisk'
    BY <1>a DEF RowType, StepType, OneSide, OnDisk, Recorded, Archives, Active
  <2>6. Recorded'
    BY <1>a DEF RowType, StepType, OneSide, OnDisk, Recorded, Archives, Active, Ended
  <2>7. Learnt'
    BY <1>a DEF RowType, PageType, OneSide, OnDisk, Recorded, Learnt, Archives, Active
  <2>8. QED
    BY <2>1, <2>2, <2>3, <2>4, <2>5, <2>6, <2>7 DEF Inv
<1>10. CASE ExecutePrepare
  <2> USE <1>10 DEF ExecutePrepare, Goto
  <2>1. (RowType /\ FlagType /\ AgentType /\ PageType /\ FaultType /\ Learnt)'
    BY <1>a DEF RowType, FlagType, AgentType, PageType, FaultType, Learnt
  <2>2. StepType'
    BY <1>a DEF StepType
  <2>3. OneSide'
    BY <1>a DEF RowType, StepType, AgentType, OneSide, Recorded, Active, Ended, Modes
  <2>4. OnDisk'
    BY <1>a DEF RowType, StepType, OneSide, OnDisk, Recorded, Archives, Active
  <2>5. Recorded'
    BY <1>a DEF RowType, StepType, OneSide, OnDisk, Recorded, Archives, Active, Ended
  <2>6. QED
    BY <2>1, <2>2, <2>3, <2>4, <2>5 DEF Inv
<1>11. CASE ExecuteSpawn
  <2> USE <1>11 DEF ExecuteSpawn, Goto
  <2>1. (RowType /\ AgentType /\ PageType /\ FaultType /\ Learnt)'
    BY <1>a DEF RowType, AgentType, PageType, FaultType, Learnt
  <2>2. StepType'
    BY <1>a DEF StepType
  <2>3. FlagType'
    BY <1>a DEF FlagType
  <2>4. OneSide'
    BY <1>a DEF RowType, StepType, AgentType, OneSide, Recorded, Active, Ended, Modes
  <2>5. OnDisk'
    BY <1>a DEF RowType, StepType, OneSide, OnDisk, Recorded, Archives, Active
  <2>6. Recorded'
    BY <1>a DEF RowType, StepType, OneSide, OnDisk, Recorded, Archives, Active, Ended
  <2>7. QED
    BY <2>1, <2>2, <2>3, <2>4, <2>5, <2>6 DEF Inv
<1>12. CASE ResticEnds
  <2> USE <1>12 DEF ResticEnds, Goto
  <2>1. (RowType /\ FlagType /\ AgentType /\ PageType /\ FaultType /\ Learnt)'
    BY <1>a DEF RowType, FlagType, AgentType, PageType, FaultType, Learnt
  <2>2. StepType'
    BY <1>a DEF StepType
  <2>3. OneSide'
    BY <1>a DEF RowType, StepType, AgentType, OneSide, Recorded, Active, Ended, Modes
  <2>4. OnDisk'
    BY <1>a DEF RowType, StepType, OneSide, OnDisk, Recorded, Archives, Active
  <2>5. Recorded'
    BY <1>a DEF RowType, StepType, OneSide, OnDisk, Recorded, Archives, Active, Ended
  <2>6. QED
    BY <2>1, <2>2, <2>3, <2>4, <2>5 DEF Inv
<1>13. CASE CreateArchive
  <2> USE <1>13 DEF CreateArchive, Goto
  <2>1. (RowType /\ FlagType /\ AgentType /\ PageType /\ FaultType /\ Learnt)'
    BY <1>a DEF RowType, FlagType, AgentType, PageType, FaultType, Learnt
  <2>2. StepType'
    BY <1>a DEF StepType
  <2>3. OneSide'
    BY <1>a DEF RowType, StepType, AgentType, OneSide, Recorded, Active, Ended, Modes
  <2>4. OnDisk'
    BY <1>a DEF RowType, StepType, OneSide, OnDisk, Recorded, Archives, Active
  <2>5. Recorded'
    BY <1>a DEF RowType, StepType, OneSide, OnDisk, Recorded, Archives, Active, Ended
  <2>6. QED
    BY <2>1, <2>2, <2>3, <2>4, <2>5 DEF Inv
<1>14. CASE RemoveDirectory
  <2> USE <1>14 DEF RemoveDirectory, Goto
  <2>1. (RowType /\ FlagType /\ AgentType /\ PageType /\ FaultType /\ Learnt)'
    BY <1>a DEF RowType, FlagType, AgentType, PageType, FaultType, Learnt
  <2>2. StepType'
    BY <1>a DEF StepType
  <2>3. OneSide'
    BY <1>a DEF RowType, StepType, AgentType, OneSide, Recorded, Active, Ended, Modes
  <2>4. OnDisk'
    <3>1. disk' = {"archive"}
      BY <1>a DEF StepType, OnDisk
    <3>2. exec' = "success" /\ UNCHANGED run /\ run.dest = "server"
      BY <1>a DEF OnDisk
    <3>3. QED
      BY ONLY <3>1, <3>2 DEF OnDisk
  <2>5. Recorded'
    BY <1>a DEF RowType, StepType, OneSide, OnDisk, Recorded, Archives, Active, Ended
  <2>6. QED
    BY <2>1, <2>2, <2>3, <2>4, <2>5 DEF Inv
<1>15. CASE RecordSuccess
  <2> USE <1>15 DEF RecordSuccess, Goto, NoRun
  <2>1. (FlagType /\ AgentType /\ PageType /\ FaultType)'
    BY <1>a DEF FlagType, AgentType, PageType, FaultType
  <2>2. RowType'
    <3>1. Archives \in BOOLEAN
      BY DEF Archives
    <3>2. QED
      BY <1>a, <3>1 DEF RowType, Active, Ended
  <2>3. StepType'
    BY <1>a DEF StepType
  <2>4. OneSide'
    BY <1>a DEF RowType, StepType, AgentType, OneSide, Recorded, Active, Ended, Modes
  <2>5. OnDisk'
    BY <1>a DEF RowType, StepType, OneSide, OnDisk, Recorded, Archives, Active
  <2>6. Recorded'
    BY <1>a DEF RowType, StepType, OneSide, OnDisk, Recorded, Archives, Active, Ended
  <2>7. Learnt'
    BY <1>a DEF RowType, PageType, OneSide, OnDisk, Recorded, Learnt, Archives, Active
  <2>8. QED
    BY <2>1, <2>2, <2>3, <2>4, <2>5, <2>6, <2>7 DEF Inv
<1>16. CASE RecordFailure
  <2> USE <1>16 DEF RecordFailure, Goto, NoRun
  <2>1. (FlagType /\ AgentType /\ PageType /\ FaultType)'
    BY <1>a DEF FlagType, AgentType, PageType, FaultType
  <2>2. RowType'
    BY <1>a DEF RowType, Active, Ended, Modes
  <2>3. StepType'
    BY <1>a DEF StepType
  <2>4. OneSide'
    BY <1>a DEF RowType, StepType, AgentType, OneSide, Recorded, Active, Ended, Modes
  <2>5. OnDisk'
    BY <1>a DEF RowType, StepType, OneSide, OnDisk, Recorded, Archives, Active
  <2>6. Recorded'
    BY <1>a DEF RowType, StepType, OneSide, OnDisk, Recorded, Archives, Active, Ended
  <2>7. Learnt'
    BY <1>a DEF RowType, PageType, OneSide, OnDisk, Recorded, Learnt, Archives, Active
  <2>8. QED
    BY <2>1, <2>2, <2>3, <2>4, <2>5, <2>6, <2>7 DEF Inv
<1>17. CASE Finally
  <2> USE <1>17 DEF Finally, Goto
  <2>1. (RowType /\ FlagType /\ AgentType /\ PageType /\ FaultType /\ Learnt)'
    BY <1>a DEF RowType, FlagType, AgentType, PageType, FaultType, Learnt
  <2>2. StepType'
    BY <1>a DEF StepType
  <2>3. OneSide'
    BY <1>a DEF RowType, StepType, AgentType, OneSide, Recorded, Active, Ended, Modes
  <2>4. OnDisk'
    BY <1>a DEF RowType, StepType, OneSide, OnDisk, Recorded, Archives, Active
  <2>5. Recorded'
    BY <1>a DEF RowType, StepType, OneSide, OnDisk, Recorded, Archives, Active, Ended
  <2>6. QED
    BY <2>1, <2>2, <2>3, <2>4, <2>5 DEF Inv
<1>18. CASE Progress
  <2> USE <1>18 DEF Progress
  <2>1. (RowType /\ StepType /\ AgentType /\ PageType /\ FaultType /\ OneSide /\ OnDisk
        /\ Recorded /\ Learnt)'
    BY <1>a DEF RowType, StepType, AgentType, PageType, FaultType, OneSide, OnDisk, Recorded,
       Learnt, Archives
  <2>2. FlagType'
    BY <1>a DEF FlagType
  <2>3. QED
    BY <2>1, <2>2 DEF Inv
<1>19. CASE WriteStats
  <2> USE <1>19 DEF WriteStats, NoRun
  <2>1. (StepType /\ AgentType /\ PageType /\ FaultType)'
    BY <1>a DEF StepType, AgentType, PageType, FaultType
  <2>2. RowType'
    <3>1. run.stats \in {"none", "partial", "final"}
      BY <1>a DEF RowType
    <3>2. PICK figures \in {"none", "partial", "final"} : run' = [run EXCEPT !.stats = figures]
      BY <3>1
    <3>3. QED
      BY ONLY <1>a, <3>2 DEF RowType, Active, Ended, Modes
  <2>3. FlagType'
    BY <1>a DEF FlagType
  <2>4. OneSide'
    <3>1. /\ run'.dest = run.dest /\ run'.mode = run.mode
          /\ run'.status = "none" => run' = run
      BY <1>a DEF RowType, Active
    <3>2. UNCHANGED <<exec, agent>>
      OBVIOUS
    <3>3. QED
      BY ONLY <1>a, <3>1, <3>2 DEF OneSide
  <2>5. OnDisk'
    BY <1>a DEF RowType, StepType, OneSide, OnDisk, Recorded, Archives, Active
  <2>6. Recorded'
    BY <1>a DEF RowType, StepType, OneSide, OnDisk, Recorded, Archives, Active, Ended
  <2>7. Learnt'
    BY <1>a DEF RowType, PageType, OneSide, OnDisk, Recorded, Learnt, Archives, Active
  <2>8. QED
    BY <2>1, <2>2, <2>3, <2>4, <2>5, <2>6, <2>7 DEF Inv
<1>20. CASE StatementFails
  <2> USE <1>20 DEF StatementFails, Goto, Fault
  <2>1. (RowType /\ FlagType /\ AgentType /\ PageType /\ Learnt)'
    BY <1>a DEF RowType, FlagType, AgentType, PageType, Learnt
  <2>2. StepType'
    BY <1>a DEF StepType
  <2>3. FaultType'
    BY <1>a, RestoresBounds DEF FaultType
  <2>4. OneSide'
    BY <1>a DEF RowType, StepType, AgentType, OneSide, Recorded, Active, Ended, Modes
  <2>5. OnDisk'
    BY <1>a DEF RowType, StepType, OneSide, OnDisk, Recorded, Archives, Active
  <2>6. Recorded'
    BY <1>a DEF RowType, StepType, OneSide, OnDisk, Recorded, Archives, Active, Ended
  <2>7. QED
    BY <2>1, <2>2, <2>3, <2>4, <2>5, <2>6 DEF Inv
<1>21. CASE CancelRead
  <2> USE <1>21 DEF CancelRead
  <2>1. (RowType /\ FlagType /\ AgentType /\ PageType /\ FaultType /\ OneSide /\ OnDisk
        /\ Recorded /\ Learnt)'
    BY <1>a DEF RowType, FlagType, AgentType, PageType, FaultType, OneSide, OnDisk, Recorded,
       Learnt, Archives
  <2>2. StepType'
    BY <1>a DEF StepType
  <2>3. QED
    BY <2>1, <2>2 DEF Inv
<1>22. CASE CancelAct
  <2> USE <1>22 DEF CancelAct
  <2>1. (RowType /\ AgentType /\ PageType /\ FaultType /\ OneSide /\ OnDisk /\ Recorded /\ Learnt)'
    BY <1>a DEF RowType, AgentType, PageType, FaultType, OneSide, OnDisk, Recorded, Learnt, Archives
  <2>2. StepType'
    BY <1>a DEF StepType
  <2>3. FlagType'
    BY <1>a DEF FlagType
  <2>4. QED
    BY <2>1, <2>2, <2>3 DEF Inv
<1>23. CASE CancelUpdate
  <2> USE <1>23 DEF CancelUpdate, NoRun
  <2>1. (FlagType /\ AgentType /\ PageType /\ FaultType)'
    BY <1>a DEF FlagType, AgentType, PageType, FaultType
  <2>2. RowType'
    <3>1. run' = run \/ run' = [run EXCEPT !.status = "cancelled"]
      BY <1>a DEF RowType
    <3>2. QED
      BY ONLY <1>a, <3>1 DEF RowType, Active, Ended, Modes
  <2>3. StepType'
    BY <1>a DEF StepType
  <2>4. OneSide'
    <3>1. /\ run'.dest = run.dest /\ run'.mode = run.mode
          /\ run'.status = "none" => run' = run
      BY <1>a DEF RowType, Active
    <3>2. UNCHANGED <<exec, agent>>
      OBVIOUS
    <3>3. QED
      BY ONLY <1>a, <3>1, <3>2 DEF OneSide
  <2>5. OnDisk'
    BY <1>a DEF RowType, StepType, OneSide, OnDisk, Recorded, Archives, Active
  <2>6. Recorded'
    BY <1>a DEF RowType, StepType, OneSide, OnDisk, Recorded, Archives, Active, Ended
  <2>7. Learnt'
    BY <1>a DEF RowType, PageType, OneSide, OnDisk, Recorded, Learnt, Archives, Active
  <2>8. QED
    BY <2>1, <2>2, <2>3, <2>4, <2>5, <2>6, <2>7 DEF Inv
<1>24. CASE Claim
  <2> USE <1>24 DEF Claim, Agent, NoRun
  <2>1. (StepType /\ FlagType /\ PageType /\ FaultType)'
    BY <1>a DEF StepType, FlagType, PageType, FaultType
  <2>2. RowType'
    BY <1>a DEF RowType, Active, Ended, Modes
  <2>3. AgentType'
    BY <1>a DEF AgentType, Ended
  <2>4. OneSide'
    BY <1>a DEF RowType, StepType, AgentType, OneSide, Recorded, Active, Ended, Modes
  <2>5. OnDisk'
    BY <1>a DEF RowType, StepType, OneSide, OnDisk, Recorded, Archives, Active
  <2>6. Recorded'
    BY <1>a DEF RowType, StepType, OneSide, OnDisk, Recorded, Archives, Active, Ended
  <2>7. Learnt'
    BY <1>a DEF RowType, PageType, OneSide, OnDisk, Recorded, Learnt, Archives, Active
  <2>8. QED
    BY <2>1, <2>2, <2>3, <2>4, <2>5, <2>6, <2>7 DEF Inv
<1>25. CASE AgentStarts
  <2> USE <1>25 DEF AgentStarts, Agent
  <2>1. (RowType /\ StepType /\ FlagType /\ PageType /\ FaultType /\ OnDisk /\ Recorded /\ Learnt)'
    BY <1>a DEF RowType, StepType, FlagType, PageType, FaultType, OnDisk, Recorded, Learnt, Archives
  <2>2. AgentType'
    BY <1>a DEF AgentType, Ended
  <2>3. OneSide'
    BY <1>a DEF RowType, StepType, AgentType, OneSide, Recorded, Active, Ended, Modes
  <2>4. QED
    BY <2>1, <2>2, <2>3 DEF Inv
<1>26. CASE AgentEnds
  <2> USE <1>26 DEF AgentEnds, Agent
  <2>1. (RowType /\ StepType /\ FlagType /\ PageType /\ FaultType /\ OnDisk /\ Recorded /\ Learnt)'
    BY <1>a DEF RowType, StepType, FlagType, PageType, FaultType, OnDisk, Recorded, Learnt, Archives
  <2>2. AgentType'
    BY <1>a DEF AgentType, Ended
  <2>3. OneSide'
    BY <1>a DEF RowType, StepType, AgentType, OneSide, Recorded, Active, Ended, Modes
  <2>4. QED
    BY <2>1, <2>2, <2>3 DEF Inv
<1>27. CASE AgentStops
  <2> USE <1>27 DEF AgentStops, Agent
  <2>1. (RowType /\ StepType /\ FlagType /\ PageType /\ FaultType /\ OnDisk /\ Recorded /\ Learnt)'
    BY <1>a DEF RowType, StepType, FlagType, PageType, FaultType, OnDisk, Recorded, Learnt, Archives
  <2>2. AgentType'
    BY <1>a DEF AgentType, Ended
  <2>3. OneSide'
    BY <1>a DEF RowType, StepType, AgentType, OneSide, Recorded, Active, Ended, Modes
  <2>4. QED
    BY <2>1, <2>2, <2>3 DEF Inv
<1>28. CASE SubmitResult
  <2> USE <1>28 DEF SubmitResult, AtRest, NoRun
  <2>1. (StepType /\ FlagType /\ PageType /\ FaultType)'
    BY <1>a DEF StepType, FlagType, PageType, FaultType
  <2>2. RowType'
    BY <1>a DEF RowType, Active, Ended, Modes, OneSide, AgentType
  <2>3. AgentType'
    BY <1>a DEF AgentType, Ended
  <2>4. OneSide'
    BY <1>a DEF RowType, StepType, AgentType, OneSide, Recorded, Active, Ended, Modes
  <2>5. OnDisk'
    BY <1>a DEF RowType, StepType, OneSide, OnDisk, Recorded, Archives, Active
  <2>6. Recorded'
    BY <1>a DEF RowType, StepType, OneSide, OnDisk, Recorded, Archives, Active, Ended
  <2>7. Learnt'
    BY <1>a DEF RowType, PageType, OneSide, OnDisk, Recorded, Learnt, Archives, Active, AgentType,
       Ended
  <2>8. QED
    BY <2>1, <2>2, <2>3, <2>4, <2>5, <2>6, <2>7 DEF Inv
<1>29. CASE AgentProgress
  <2> USE <1>29 DEF AgentProgress
  <2>1. (RowType /\ StepType /\ AgentType /\ PageType /\ FaultType /\ OneSide /\ OnDisk
        /\ Recorded /\ Learnt)'
    BY <1>a DEF RowType, StepType, AgentType, PageType, FaultType, OneSide, OnDisk, Recorded,
       Learnt, Archives
  <2>2. FlagType'
    BY <1>a DEF FlagType
  <2>3. QED
    BY <2>1, <2>2 DEF Inv
<1>30. CASE TaskLost
  <2> USE <1>30 DEF TaskLost, Fault, AtRest
  <2>1. (RowType /\ StepType /\ FlagType /\ PageType /\ OnDisk /\ Recorded /\ Learnt)'
    BY <1>a DEF RowType, StepType, FlagType, PageType, OnDisk, Recorded, Learnt, Archives
  <2>2. AgentType'
    BY <1>a DEF AgentType, Ended
  <2>3. FaultType'
    BY <1>a, RestoresBounds DEF FaultType
  <2>4. OneSide'
    BY <1>a DEF RowType, StepType, AgentType, OneSide, Recorded, Active, Ended, Modes
  <2>5. QED
    BY <2>1, <2>2, <2>3, <2>4 DEF Inv
<1>31. CASE Shutdown
  <2> USE <1>31 DEF Shutdown, Fault
  <2>1. (RowType /\ AgentType /\ PageType /\ OneSide /\ OnDisk /\ Recorded /\ Learnt)'
    BY <1>a DEF RowType, AgentType, PageType, OneSide, OnDisk, Recorded, Learnt, Archives
  <2>2. StepType'
    BY <1>a DEF StepType
  <2>3. FlagType'
    BY <1>a DEF FlagType
  <2>4. FaultType'
    BY <1>a, RestoresBounds DEF FaultType
  <2>5. QED
    BY <2>1, <2>2, <2>3, <2>4 DEF Inv
<1>32. CASE Crash
  <2> USE <1>32 DEF Crash, Fault
  <2>1. (RowType /\ AgentType /\ PageType /\ Learnt)'
    BY <1>a DEF RowType, AgentType, PageType, Learnt
  <2>2. StepType'
    BY <1>a DEF StepType
  <2>3. FlagType'
    BY <1>a DEF FlagType
  <2>4. FaultType'
    BY <1>a, RestoresBounds DEF FaultType
  <2>5. OneSide'
    BY <1>a DEF RowType, StepType, AgentType, OneSide, Recorded, Active, Ended, Modes
  <2>6. OnDisk'
    BY <1>a DEF RowType, StepType, OneSide, OnDisk, Recorded, Archives, Active
  <2>7. Recorded'
    BY <1>a DEF RowType, StepType, OneSide, OnDisk, Recorded, Archives, Active, Ended
  <2>8. QED
    BY <2>1, <2>2, <2>3, <2>4, <2>5, <2>6, <2>7 DEF Inv
<1>33. CASE UNCHANGED vars
  BY <1>a, <1>33 DEF vars, Inv, RowType, StepType, FlagType, AgentType, PageType, FaultType,
     OneSide, OnDisk, Recorded, Learnt, Archives
<1>34. QED
  BY <1>1, <1>2, <1>3, <1>4, <1>5, <1>6, <1>7, <1>8, <1>9, <1>10, <1>11, <1>12, <1>13, <1>14,
     <1>15, <1>16, <1>17, <1>18, <1>19, <1>20, <1>21, <1>22, <1>23, <1>24, <1>25, <1>26,
     <1>27, <1>28, <1>29, <1>30, <1>31, <1>32, <1>33
     DEF Next, ServerStep, CancelStep, AgentStep

(* What the page shows and offers of a restore is true: an archive is named  *)
(* only when it is whole, a link is refused only for a dry run or after its  *)
(* time, and a success shows the figures of its end.                         *)
THEOREM ResultsAreSound == Spec => []ResultSound
<1>1. Inv => ResultSound
  <2> SUFFICES ASSUME Inv PROVE ResultSound
    OBVIOUS
  <2>1. TypeOK
    BY DEF Inv, RowType, StepType, FlagType, AgentType, PageType, FaultType, TypeOK
  <2>2. DownloadReady
    BY DEF Inv, Recorded, Learnt, DownloadReady
  <2>3. FinalFigures
    BY DEF Inv, Recorded, FinalFigures
  <2>4. QED
    BY <2>1, <2>2, <2>3 DEF ResultSound
<1>2. QED
  BY <1>1, InitInv, StepInv, PTL DEF Spec

(* A cancelled restore of an agent stays cancelled: the executor's writes by *)
(* id are of restores of the server, and every other write looks first.      *)
THEOREM CancelHolds == Spec => CancelSticks
<1> DEFINE Sticks == run.dest = "agent" /\ run.status = "cancelled" => run'.status = "cancelled"
<1>1. Inv /\ [Next]_vars => [Sticks]_vars
  <2> SUFFICES ASSUME Inv, Next, run.dest = "agent", run.status = "cancelled"
               PROVE  run'.status = "cancelled"
    OBVIOUS
  <2>1. exec \in {"none", "dispatch"} /\ ~run.ref /\ RowType
    BY DEF Inv, OneSide, Recorded
  <2>2. CASE ServerStep
    BY <2>1, <2>2 DEF ServerStep, Dispatch, ExecuteRead, ExecuteMark, ExecutePrepare, ExecuteSpawn,
       ResticEnds, CreateArchive, RemoveDirectory, RecordSuccess, RecordFailure, Finally
  <2>3. CASE AgentStep
    BY <2>1, <2>3 DEF AgentStep, Claim, AgentStarts, AgentEnds, AgentStops, SubmitResult
  <2>4. CASE WriteStats \/ CancelStep
    BY <2>1, <2>4 DEF WriteStats, CancelStep, CancelAct, CancelUpdate, RowType, Active
  <2>5. CASE Create \/ Expire
    BY <2>1, <2>5 DEF Create, Expire
  <2>6. CASE \/ LoadSnapshots \/ LoadHistory \/ DeleteSnapshot \/ Download \/ Progress
             \/ StatementFails \/ CancelRead \/ AgentProgress \/ TaskLost \/ Shutdown \/ Crash
    BY <2>6 DEF LoadSnapshots, LoadHistory, DeleteSnapshot, Download, Progress,
       StatementFails, CancelRead, AgentProgress, TaskLost, Shutdown, Crash
  <2>7. QED
    BY <2>2, <2>3, <2>4, <2>5, <2>6 DEF Next
<1>2. QED
  BY <1>1, InitInv, StepInv, PTL DEF Spec, CancelSticks
=============================================================================
