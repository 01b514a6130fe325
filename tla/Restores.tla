------------------------------ MODULE Restores ------------------------------
(***************************************************************************)
(* One restore: the row, the executor on the server (a chain of awaits that *)
(* updates the row by its id), the agent that runs it instead, the cancel   *)
(* request, the progress writes nobody awaits, the archive of a download,   *)
(* and the browser that starts it from a list it loaded before.             *)
(***************************************************************************)
EXTENDS Naturals

CONSTANT MaxFaults   \* bound: crashes, shutdowns, lost answers, failing statements

ASSUME RestoresBounds == MaxFaults \in Nat

VARIABLES
  run,      \* restore_runs: [status, mode, dest, path, dry, stats, ref, expired]
  exec,     \* RestoreRunnerService.executeLocal, by the step that comes next
  running,  \* the map of AbortControllers: "no", "yes", "aborted"
  killed,   \* restic has been signalled
  disk,     \* what is in restoreTmpDir: subset of {"dir", "part", "archive"}
  pending,  \* a progress write is under way
  cancel,   \* RestoreService.cancel, by the step that comes next
  agent,    \* the agent: [pc, outcome]
  snap,     \* the snapshot exists in the repository
  page,     \* the browser: [list, run], what it loaded, and [got] what a download gave
  faults

vars == <<run, exec, running, killed, disk, pending, cancel, agent, snap, page, faults>>

Modes == {"download", "alternate_path", "original"}
Active == {"queued", "running"}
Ended == {"success", "failed", "cancelled"}
NoRun == [status |-> "none", mode |-> "none", dest |-> "none", path |-> FALSE, dry |-> FALSE,
          stats |-> "none", ref |-> FALSE, expired |-> FALSE]
AtRest == [pc |-> "idle", outcome |-> "none"]

Init ==
  /\ run = NoRun
  /\ exec = "none" /\ running = "no" /\ killed = FALSE
  /\ disk = {} /\ pending = FALSE
  /\ cancel = "none" /\ agent = AtRest
  /\ snap = TRUE
  /\ page = [list |-> TRUE, run |-> "none", got |-> "none"]
  /\ faults = 0

Fault == faults < MaxFaults /\ faults' = faults + 1

-----------------------------------------------------------------------------
(* The browser: snapshots, the restore dialog, the history.                *)

\* SnapshotsPanel: the list is what restic printed when it was loaded.
LoadSnapshots ==
  /\ page' = [page EXCEPT !.list = snap]
  /\ UNCHANGED <<run, exec, running, killed, disk, pending, cancel, agent, snap, faults>>

\* SnapshotRow: every listed snapshot can be restored and deleted.
Offered == page.list

\* HistoryPanel
LoadHistory ==
  /\ page' = [page EXCEPT !.run = run.status]
  /\ UNCHANGED <<run, exec, running, killed, disk, pending, cancel, agent, snap, faults>>

\* DeleteSnapshotDialog loads the list again.
Reloaded == [page EXCEPT !.list = FALSE]

\* SnapshotsService.remove: restic forgets it at once
\* (the prune it may start is an activity of its own, see LocalRuns).
DeleteSnapshot ==
  /\ Offered /\ snap
  /\ snap' = FALSE
  /\ page' = Reloaded
  /\ UNCHANGED <<run, exec, running, killed, disk, pending, cancel, agent, faults>>

\* CreateRestoreDto: every mode goes with every destination.  The dialog names
\* no destination for a download and never an agent; the API may.
Payload == [mode : Modes, dest : {"server", "agent"}, path : BOOLEAN, dry : BOOLEAN]

\* RestoreService.create: the row, then dispatch.
Create ==
  /\ run.status = "none" /\ Offered
  /\ \E p \in Payload :
       run' = [NoRun EXCEPT !.status = "queued", !.mode = p.mode, !.dest = p.dest,
                            !.path = p.path, !.dry = p.dry]
  /\ exec' = "dispatch"
  /\ UNCHANGED <<running, killed, disk, pending, cancel, agent, snap, page, faults>>

\* HistoryRow offers every download that succeeded; getDownload decides.
CanDownload == page.run = "success" /\ run.mode = "download"
GetDownload == ~run.expired /\ run.ref /\ "archive" \in disk

Download ==
  /\ CanDownload
  /\ page' = [page EXCEPT !.got = IF GetDownload THEN "file" ELSE "refused"]
  /\ UNCHANGED <<run, exec, running, killed, disk, pending, cancel, agent, snap, faults>>

\* The archive is no longer offered after DOWNLOAD_TTL_MS.
Expire ==
  /\ run.ref /\ ~run.expired
  /\ run' = [run EXCEPT !.expired = TRUE]
  /\ UNCHANGED <<exec, running, killed, disk, pending, cancel, agent, snap, page, faults>>

-----------------------------------------------------------------------------
(* RestoreRunnerService                                                    *)
Goto(step) == exec' = step

Dispatch ==
  /\ exec = "dispatch"
  /\ Goto(IF run.dest = "agent" THEN "none" ELSE "read")
  /\ UNCHANGED <<run, running, killed, disk, pending, cancel, agent, snap, page, faults>>

\* The row is read and the run is in the map before the next await.
ExecuteRead ==
  /\ exec = "read"
  /\ running' = "yes"
  /\ Goto("mark")
  /\ UNCHANGED <<run, killed, disk, pending, cancel, agent, snap, page, faults>>

\* UPDATE by id, whatever the status is by now.
ExecuteMark ==
  /\ exec = "mark"
  /\ run' = [run EXCEPT !.status = "running"]
  /\ Goto("prepare")
  /\ UNCHANGED <<running, killed, disk, pending, cancel, agent, snap, page, faults>>

\* resolveForRestore, and where to: the directory of a download, a path.
ExecutePrepare ==
  /\ exec = "prepare"
  /\ disk' = IF run.mode = "download" THEN disk \cup {"dir"} ELSE disk
  /\ Goto(IF run.mode = "alternate_path" /\ ~run.path THEN "catch" ELSE "spawn")
  /\ UNCHANGED <<run, running, killed, pending, cancel, agent, snap, page, faults>>

\* restic starts; an abort before this point is not seen by its listener.
ExecuteSpawn ==
  /\ exec = "spawn"
  /\ killed' = FALSE
  /\ Goto("restic")
  /\ UNCHANGED <<run, running, disk, pending, cancel, agent, snap, page, faults>>

Progress ==
  /\ exec = "restic" /\ ~pending
  /\ pending' = TRUE
  /\ UNCHANGED <<run, exec, running, killed, disk, cancel, agent, snap, page, faults>>

WriteStats ==
  /\ pending
  /\ pending' = FALSE
  /\ run' = [run EXCEPT !.stats = IF run.status = "running" THEN "partial" ELSE @]
  /\ UNCHANGED <<exec, running, killed, disk, cancel, agent, snap, page, faults>>

Archives == run.mode = "download" /\ ~run.dry

\* restic ends with code 0, or not: signalled, the snapshot is gone, an error.
ResticEnds ==
  /\ exec = "restic"
  /\ \/ ~killed /\ snap /\ Goto(IF Archives THEN "archive" ELSE "success")
     \/ Goto("catch")
  /\ UNCHANGED <<run, running, killed, disk, pending, cancel, agent, snap, page, faults>>

\* tar writes under the archive's name until it ends.
CreateArchive ==
  /\ exec = "archive"
  /\ \/ disk' = disk \cup {"part"} /\ "part" \notin disk /\ Goto("archive")
     \/ "part" \in disk /\ disk' = (disk \ {"part"}) \cup {"archive"} /\ Goto("clean")
     \/ "part" \in disk /\ Goto("catch") /\ UNCHANGED disk
  /\ UNCHANGED <<run, running, killed, pending, cancel, agent, snap, page, faults>>

RemoveDirectory ==
  /\ exec = "clean"
  /\ disk' = disk \ {"dir"}
  /\ Goto("success")
  /\ UNCHANGED <<run, running, killed, pending, cancel, agent, snap, page, faults>>

\* Mutant: the reference is recorded although nothing was archived.
RecordSuccessRef ==
  /\ exec = "success"
  /\ run' = [run EXCEPT !.status = "success", !.stats = "final", !.ref = run.mode = "download"]
  /\ Goto("finally")
  /\ UNCHANGED <<running, killed, disk, pending, cancel, agent, snap, page, faults>>

RecordSuccess ==
  /\ exec = "success"
  /\ run' = [run EXCEPT !.status = "success", !.stats = "final", !.ref = Archives]
  /\ Goto("finally")
  /\ UNCHANGED <<running, killed, disk, pending, cancel, agent, snap, page, faults>>

RecordFailure ==
  /\ exec = "catch"
  /\ run' = [run EXCEPT !.status = IF running = "aborted" THEN "cancelled" ELSE "failed"]
  /\ Goto("finally")
  /\ UNCHANGED <<running, killed, disk, pending, cancel, agent, snap, page, faults>>

\* Mutant: the run stays in the map.
FinallyKeeps ==
  /\ exec = "finally"
  /\ Goto("none")
  /\ UNCHANGED <<run, running, killed, disk, pending, cancel, agent, snap, page, faults>>

Finally ==
  /\ exec = "finally"
  /\ running' = "no"
  /\ Goto("none")
  /\ UNCHANGED <<run, killed, disk, pending, cancel, agent, snap, page, faults>>

\* An await throws: before the try it leaves the map entry behind.
StatementFails ==
  /\ exec \in {"dispatch", "read", "mark", "prepare", "success", "catch"}
  /\ Fault
  /\ IF exec \in {"prepare", "success"} THEN Goto("catch") /\ UNCHANGED running
     ELSE /\ Goto("none")
          /\ running' = IF exec = "catch" THEN "no" ELSE running
  /\ UNCHANGED <<run, killed, disk, pending, cancel, agent, snap, page>>

-----------------------------------------------------------------------------
(* RestoreService.cancel                                                   *)
CancelRead ==
  /\ cancel = "none" /\ run.status \in Active
  /\ cancel' = "act"
  /\ UNCHANGED <<run, exec, running, killed, disk, pending, agent, snap, page, faults>>

\* A run in the map is aborted; only a restic that has started is signalled.
CancelAct ==
  /\ cancel = "act"
  /\ IF running = "no" THEN cancel' = "update" /\ UNCHANGED <<running, killed>>
     ELSE /\ running' = "aborted" /\ cancel' = "none"
          /\ killed' = (killed \/ exec = "restic")
  /\ UNCHANGED <<run, exec, disk, pending, agent, snap, page, faults>>

CancelUpdate ==
  /\ cancel = "update"
  /\ run' = [run EXCEPT !.status = IF @ \in Active THEN "cancelled" ELSE @]
  /\ cancel' = "none"
  /\ UNCHANGED <<exec, running, killed, disk, pending, agent, snap, page, faults>>

-----------------------------------------------------------------------------
(* The agent                                                               *)
Agent(pc, outcome) == agent' = [pc |-> pc, outcome |-> outcome]

\* claimRestoreTasks: claimed, resolved, and the answer is on its way.
Claim ==
  /\ run.dest = "agent" /\ run.status = "queued" /\ agent.pc = "idle"
  /\ run' = [run EXCEPT !.status = "running"]
  /\ Agent("answer", "none")
  /\ UNCHANGED <<exec, running, killed, disk, pending, cancel, snap, page, faults>>

\* resolveForRestore throws, the answer is lost, or the agent restarts.
TaskLost ==
  /\ agent.pc # "idle"
  /\ Fault
  /\ agent' = AtRest
  /\ UNCHANGED <<run, exec, running, killed, disk, pending, cancel, snap, page>>

AgentStarts ==
  /\ agent.pc = "answer"
  /\ Agent("work", "none")
  /\ UNCHANGED <<run, exec, running, killed, disk, pending, cancel, snap, page, faults>>

AgentEnds ==
  /\ agent.pc = "work"
  /\ \E outcome \in IF snap THEN {"success", "failed"} ELSE {"failed"} : Agent("result", outcome)
  /\ UNCHANGED <<run, exec, running, killed, disk, pending, cancel, snap, page, faults>>

\* taskState says cancelled: the agent stops restic and says so.
AgentStops ==
  /\ agent.pc = "work" /\ run.status = "cancelled"
  /\ Agent("result", "cancelled")
  /\ UNCHANGED <<run, exec, running, killed, disk, pending, cancel, snap, page, faults>>

AgentProgress ==
  /\ agent.pc \in {"work", "result"} /\ ~pending
  /\ pending' = TRUE
  /\ UNCHANGED <<run, exec, running, killed, disk, cancel, agent, snap, page, faults>>

\* Mutant: a late result wins over the operator's decision.
SubmitResultAny ==
  /\ agent.pc = "result"
  /\ run' = [run EXCEPT !.status = agent.outcome,
                        !.stats = IF agent.outcome = "cancelled" THEN @ ELSE "final"]
  /\ agent' = AtRest
  /\ UNCHANGED <<exec, running, killed, disk, pending, cancel, snap, page, faults>>

\* submitRestoreResult: only a running restore takes a result.
SubmitResult ==
  /\ agent.pc = "result"
  /\ run' = IF run.status # "running" THEN run
            ELSE [run EXCEPT !.status = agent.outcome,
                             !.stats = IF agent.outcome = "cancelled" THEN @ ELSE "final"]
  /\ agent' = AtRest
  /\ UNCHANGED <<exec, running, killed, disk, pending, cancel, snap, page, faults>>

-----------------------------------------------------------------------------
\* onApplicationShutdown aborts what is in the map; the process goes on until
\* the executor has settled the row.
Shutdown ==
  /\ running = "yes"
  /\ Fault
  /\ running' = "aborted"
  /\ killed' = (killed \/ exec = "restic")
  /\ UNCHANGED <<run, exec, disk, pending, cancel, agent, snap, page>>

\* The row and the files stay as they are.
Crash ==
  /\ Fault
  /\ exec' = "none" /\ running' = "no" /\ killed' = FALSE
  /\ pending' = FALSE /\ cancel' = "none"
  /\ UNCHANGED <<run, disk, agent, snap, page>>

ServerStep ==
  \/ Dispatch \/ ExecuteRead \/ ExecuteMark \/ ExecutePrepare \/ ExecuteSpawn \/ ResticEnds
  \/ CreateArchive \/ RemoveDirectory \/ RecordSuccess \/ RecordFailure \/ Finally
CancelStep == CancelAct \/ CancelUpdate
AgentStep == Claim \/ AgentStarts \/ AgentEnds \/ AgentStops \/ SubmitResult

Next ==
  \/ LoadSnapshots \/ LoadHistory \/ DeleteSnapshot \/ Create \/ Download \/ Expire
  \/ ServerStep \/ Progress \/ WriteStats \/ StatementFails
  \/ CancelRead \/ CancelStep
  \/ AgentStep \/ AgentProgress \/ TaskLost
  \/ Shutdown \/ Crash

\* Awaits settle, restic ends, the agent polls and reports.
Fairness == WF_vars(ServerStep) /\ WF_vars(CancelStep) /\ WF_vars(AgentStep)

Spec == Init /\ [][Next]_vars /\ Fairness

-----------------------------------------------------------------------------
\* The row, the process, the disk and the page keep their shape.
TypeOK ==
  /\ run \in [status : {"none"} \cup Active \cup Ended, mode : {"none"} \cup Modes,
              dest : {"none", "server", "agent"}, path : BOOLEAN, dry : BOOLEAN,
              stats : {"none", "partial", "final"}, ref : BOOLEAN, expired : BOOLEAN]
  /\ exec \in {"none", "dispatch", "read", "mark", "prepare", "spawn", "restic", "archive",
               "clean", "success", "catch", "finally"}
  /\ running \in {"no", "yes", "aborted"}
  /\ killed \in BOOLEAN /\ pending \in BOOLEAN /\ snap \in BOOLEAN
  /\ disk \subseteq {"dir", "part", "archive"}
  /\ cancel \in {"none", "act", "update"}
  /\ agent \in [pc : {"idle", "answer", "work", "result"}, outcome : {"none"} \cup Ended]
  /\ page \in [list : BOOLEAN, run : {"none"} \cup Active \cup Ended,
              got : {"none", "file", "refused"}]
  /\ faults \in 0..MaxFaults

\* The row names the archive only when it is there, whole, and its directory is
\* not, whatever was cancelled, aborted or restarted meanwhile; the link of the
\* history is refused only after the archive's time, and where there never was
\* an archive: for a dry run, and for a "download" that the API had an agent
\* write to the agent's own disk.  (The latter is not what create says of the
\* mode: it "only fills a managed, per-run temp dir the caller streams back".)
DownloadReady ==
  /\ run.ref => "archive" \in disk /\ disk \cap {"dir", "part"} = {}
  /\ page.got = "refused" => run.dry \/ run.expired \/ run.dest = "agent"

\* "A late progress write must not replace the final figures": a restore that
\* succeeded shows the figures of its end.
FinalFigures == run.status = "success" => run.stats = "final"

\* What the page shows and offers of a restore is true.
ResultSound == TypeOK /\ DownloadReady /\ FinalFigures

\* A restore on an agent that was cancelled stays cancelled: no late claim,
\* result or progress revives it.
CancelSticks ==
  [][run.dest = "agent" /\ run.status = "cancelled" => run'.status = "cancelled"]_vars

\* A restore that was started ends, whether it is cancelled or not, and nothing
\* works on it any more, unless something failed in between.
RestoreEnds ==
  (run.status \in Active) ~>
    (faults > 0 \/ (run.status \in Ended /\ exec = "none" /\ running = "no" /\ agent.pc = "idle"))
=============================================================================
