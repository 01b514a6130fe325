----------------------------- MODULE RepoStats -----------------------------
(***************************************************************************)
(* The cached figures of the repositories (RepositoriesService): the row   *)
(* of a repository holds its last reading, repository_stats_history one    *)
(* row per changed reading, and the dashboard charts the history.  The     *)
(* server reads a repository with restic after a local backup or prune and *)
(* on demand; a repository whose job runs on an agent is read by the agent,*)
(* after its backups and when a refresh was requested.                     *)
(*                                                                         *)
(* A recording is three statements (the row is selected, updated, and the  *)
(* history appended), and any number of them may overlap.  Figures (size   *)
(* and snapshot count) are a number that every backup raises, so a larger  *)
(* one is a later one; restic always reports a total size.                 *)
(***************************************************************************)
EXTENDS Integers, FiniteSets, Sequences, FiniteSetsExt, Functions

CONSTANTS
    Repos,          \* the repositories, each owned by one job
    Slots,          \* recordings that may be under way at the same time
    MaxBackups,     \* bound: backups that change a repository
    MaxReads,       \* bound: refreshes a user asks for
    MaxMoves,       \* bound: jobs moved between the server and the agent
    MaxFailures     \* bound: failed reads, lost answers, restarts

\* backup_jobs has a row for each, so there are finitely many
ASSUME FiniteRepos == IsFiniteSet(Repos)

VARIABLES
    size,           \* what restic would report of the repository
    cached,         \* repositories: the figures, stats_at, stats_error
    history,        \* repository_stats_history, in the order of measured_at
    now,            \* the clock of the server
    requested,      \* repositories: stats_requested_at is not null
    owner,          \* backup_jobs.agent_id: on the server or on the agent
    capable,        \* the agent names the `stats` capability when it polls
    slot,           \* the refreshes and recordings under way on the server
    tasks,          \* the `stats` tasks the agent has not run yet
    posts,          \* the results the agent posts
    waiting,        \* RepoSize cells whose refresh button is busy
    counted,        \* the bounded counters
    overlapped,     \* repositories two recordings of which overlapped, or one
                    \* of which a restart cut short
    stale           \* repositories an older reading of which replaced a newer

statsVars == <<size, cached, history, now, requested, owner, capable, slot, tasks,
               posts, waiting, counted, overlapped, stale>>

Figures == 0 .. MaxBackups
NoReading == -1         \* size_bytes null, stats_at null
Failed == -2            \* { error }

StatsRow == [fig : Figures \cup {NoReading}, err : BOOLEAN]
NewRow == [fig |-> NoReading, err |-> FALSE]

Readers == {"page", "agent", "background"}   \* who waits for the refresh
IdleSlot == [st |-> "idle"]
Begin(r, who) == [st |-> "restic", repo |-> r, by |-> who]
Have(r, who, g) == [st |-> "select", repo |-> r, by |-> who, got |-> g]
Busy(i) == slot[i].st # "idle"
\* between the statement that selects the row and the last one of recordStats
Recording(i) == slot[i].st \in {"update", "append"}

StatsTypes ==
    [ st : {"idle"} ]
    \cup [st : {"restic"}, repo : Repos, by : Readers]
    \cup [st : {"select"}, repo : Repos, by : Readers,
          got : Figures \cup {Failed}]
    \cup [st : {"update", "append"}, repo : Repos, by : Readers,
          got : Figures \cup {Failed}, prev : StatsRow, at : Nat]

StatsInit ==
    /\ size = [r \in Repos |-> 0]
    /\ cached = [r \in Repos |-> NewRow]
    /\ history = <<>>
    /\ now = 0
    /\ requested = {}
    /\ owner \in [Repos -> {"server", "agent"}]
    /\ capable \in BOOLEAN
    /\ slot = [i \in Slots |-> IdleSlot]
    /\ tasks = {}
    /\ posts = {}
    /\ waiting = {}
    /\ counted = [backups |-> 0, reads |-> 0, moves |-> 0, faults |-> 0]
    /\ overlapped = {}
    /\ stale = {}

Count(field) == counted' = [counted EXCEPT ![field] = @ + 1]
StepFails == counted.faults < MaxFailures /\ Count("faults")

-----------------------------------------------------------------------------
(* Reading and recording, RepositoriesService *)

\* refreshStats and refreshStatsInBackground: restic is started
Start(i, r, who) ==
    /\ ~ Busy(i)
    /\ slot' = [slot EXCEPT ![i] = Begin(r, who)]

\* restic answers with the figures the repository has now, or the read fails
ReadRestic(i) ==
    /\ slot[i].st = "restic"
    /\ \/ /\ slot' = [slot EXCEPT ![i] = Have(@.repo, @.by, size[@.repo])]
          /\ UNCHANGED counted
       \/ /\ slot' = [slot EXCEPT ![i] = Have(@.repo, @.by, Failed)]
          /\ StepFails
    /\ UNCHANGED <<size, cached, history, now, requested, owner, capable, tasks,
                   posts, waiting, overlapped, stale>>

\* recordStats: the row is read before it is written
SelectRow(i) ==
    /\ slot[i].st = "select"
    /\ LET r == slot[i].repo IN
       /\ slot' = [slot EXCEPT ![i] =
                     [st |-> "update", repo |-> r, by |-> @.by,
                      got |-> @.got, prev |-> cached[r], at |-> 0]]
       /\ overlapped' = IF \E j \in Slots : Recording(j) /\ slot[j].repo = r
                       THEN overlapped \cup {r} ELSE overlapped
    /\ UNCHANGED <<size, cached, history, now, requested, owner, capable, tasks,
                   posts, waiting, counted, stale>>

\* the RepoSize cell that waits for this refresh has its answer
CellAnswered(i) ==
    waiting' = IF slot[i].by = "page" THEN waiting \ {slot[i].repo} ELSE waiting

\* recordStats: a failed reading keeps the figures and records the error
UpdateError(i) ==
    /\ slot[i].st = "update" /\ slot[i].got = Failed
    /\ cached' = [cached EXCEPT ![slot[i].repo].err = TRUE]
    /\ CellAnswered(i)
    /\ slot' = [slot EXCEPT ![i] = IdleSlot]
    /\ UNCHANGED <<size, history, now, requested, owner, capable, tasks, posts,
                   counted, overlapped, stale>>

\* recordStats: the figures are stored; stats_at is a new instant
UpdateRow(i) ==
    /\ slot[i].st = "update" /\ slot[i].got # Failed
    /\ cached' = [cached EXCEPT ![slot[i].repo] = [fig |-> slot[i].got, err |-> FALSE]]
    /\ now' = now + 1
    /\ stale' = IF slot[i].got < cached[slot[i].repo].fig
                  THEN stale \cup {slot[i].repo} ELSE stale
    /\ slot' = [slot EXCEPT ![i].st = "append", ![i].at = now']
    /\ UNCHANGED <<size, history, requested, owner, capable, tasks, posts, waiting,
                   counted, overlapped>>

\* recordStats: the history is appended when the figures differ from the row
\* that was selected (never read, or other figures)
Changed(i) == slot[i].prev.fig # slot[i].got

AppendHistory(i) ==
    /\ slot[i].st = "append"
    /\ history' = IF Changed(i)
                    THEN Append(history, [repo |-> slot[i].repo, at |-> slot[i].at,
                                          fig |-> slot[i].got])
                    ELSE history
    /\ CellAnswered(i)
    /\ slot' = [slot EXCEPT ![i] = IdleSlot]
    /\ UNCHANGED <<size, cached, now, requested, owner, capable, tasks, posts,
                   counted, overlapped, stale>>

-----------------------------------------------------------------------------
(* Who asks for a reading *)

\* the agent works one task at a time and waits for the answer to its result
AgentFree == posts = {} /\ \A i \in Slots : Busy(i) => slot[i].by # "agent"

\* Mutant: the agent reads the figures before the backup.
ReportedMutant(r) == size[r]

\* the agent reads the repository once the backup, and its prune, are through
Reported(r) == size[r] + 1

\* A backup, or a prune, that succeeded.  On the server, and for an agent that
\* predates the task, the server reads the repository in the background; the
\* agent reads the figures itself and puts them, or why it could not, on the
\* result.
BackupEnds(r) ==
    /\ counted.backups < MaxBackups
    /\ owner[r] = "agent" => AgentFree
    /\ size' = [size EXCEPT ![r] = @ + 1]
    /\ IF owner[r] = "server" \/ ~ capable
         THEN /\ \E i \in Slots : Start(i, r, "background")
              /\ Count("backups")
              /\ UNCHANGED posts
         ELSE /\ \/ posts' = posts \cup {[repo |-> r, got |-> Reported(r),
                                          kind |-> "backup"]}
                    /\ Count("backups")
                 \/ /\ counted.faults < MaxFailures
                    /\ posts' = posts \cup {[repo |-> r, got |-> Failed,
                                             kind |-> "backup"]}
                    /\ counted' = [counted EXCEPT !.backups = @ + 1, !.faults = @ + 1]
              /\ UNCHANGED slot
    /\ UNCHANGED <<cached, history, now, requested, owner, capable, tasks, waiting,
                   overlapped, stale>>

\* refreshStatsFor behind the refresh button: a job on the server is read now,
\* one on the agent is queued and the cell keeps its figures
RefreshStatsFor(r) ==
    /\ counted.reads < MaxReads /\ Count("reads")
    /\ r \notin waiting
    /\ \/ /\ owner[r] = "server"
          /\ \E i \in Slots : Start(i, r, "page")
          /\ waiting' = waiting \cup {r}
          /\ UNCHANGED requested
       \/ /\ owner[r] = "agent"
          /\ requested' = requested \cup {r}
          /\ UNCHANGED <<slot, waiting>>
    /\ UNCHANGED <<size, cached, history, now, owner, capable, tasks, posts, overlapped, stale>>

\* findOne: the detail of a repository is read on the server, whoever owns it
FindOne(r) ==
    /\ counted.reads < MaxReads /\ Count("reads")
    /\ \E i \in Slots : Start(i, r, "background")
    /\ UNCHANGED <<size, cached, history, now, requested, owner, capable, tasks,
                   posts, waiting, overlapped, stale>>

-----------------------------------------------------------------------------
(* The agent *)

Claimed == {r \in requested : owner[r] = "agent"}

\* Mutant: the claimed requests of an agent that cannot read are dropped.
ReadHereMutant == UNCHANGED slot

\* refreshStatsInBackground for every claimed repository
ReadHere ==
    \E f \in Injection(Claimed, {i \in Slots : ~ Busy(i)}) :
      slot' = [i \in Slots |-> IF \E r \in Claimed : f[r] = i
                 THEN Begin(CHOOSE r \in Claimed : f[r] = i, "background")
                 ELSE slot[i]]

\* claimStatsRequests clears the requests it returns; claimStatsTasks hands
\* them to the agent, or reads them itself for an agent that cannot.  The
\* answer of the poll may be lost, or resolving the credentials of one may fail.
PollStats ==
    /\ Claimed # {}
    /\ requested' = requested \ Claimed
    /\ \/ /\ capable
          /\ tasks' = tasks \cup Claimed
          /\ UNCHANGED <<slot, counted>>
       \/ /\ capable
          /\ StepFails
          /\ UNCHANGED <<tasks, slot>>
       \/ /\ ~ capable
          /\ ReadHere
          /\ UNCHANGED <<tasks, counted>>
    /\ UNCHANGED <<size, cached, history, now, owner, capable, posts, waiting, overlapped, stale>>

\* runStats on the agent: the figures, or the error, are posted
RunStats(r) ==
    /\ r \in tasks /\ AgentFree
    /\ tasks' = tasks \ {r}
    /\ \/ /\ posts' = posts \cup {[repo |-> r, got |-> size[r], kind |-> "stats"]}
          /\ UNCHANGED counted
       \/ /\ posts' = posts \cup {[repo |-> r, got |-> Failed, kind |-> "stats"]}
          /\ StepFails
    /\ UNCHANGED <<size, cached, history, now, requested, owner, capable, slot,
                   waiting, overlapped, stale>>

\* submitStatsResult refuses a repository that is no longer this agent's;
\* submitBackupResult goes by the run, wherever the job is now
Submit(p) ==
    /\ p \in posts
    /\ posts' = posts \ {p}
    /\ IF p.kind = "stats" /\ owner[p.repo] # "agent"
         THEN UNCHANGED slot
         ELSE \E i \in Slots :
                /\ ~ Busy(i)
                /\ slot' = [slot EXCEPT ![i] = Have(p.repo, "agent", p.got)]
    /\ UNCHANGED <<size, cached, history, now, requested, owner, capable, tasks,
                   waiting, counted, overlapped, stale>>

\* postResult tries once
LosePost(p) ==
    /\ p \in posts
    /\ posts' = posts \ {p}
    /\ StepFails
    /\ UNCHANGED <<size, cached, history, now, requested, owner, capable, slot,
                   tasks, waiting, overlapped, stale>>

\* the agent process ends: its tasks and what it did not post are gone
AgentRestart ==
    /\ tasks # {}
    /\ StepFails
    /\ tasks' = {}
    /\ UNCHANGED <<size, cached, history, now, requested, owner, capable, slot,
                   posts, waiting, overlapped, stale>>

\* the server ends: refreshes and recordings stop where they are
ServerRestart ==
    /\ \E i \in Slots : Busy(i)
    /\ StepFails
    /\ slot' = [i \in Slots |-> IdleSlot]
    /\ waiting' = {}
    /\ overlapped' = overlapped \cup {slot[i].repo : i \in {j \in Slots : slot[j].st = "append"}}
    /\ UNCHANGED <<size, cached, history, now, requested, owner, capable, tasks,
                   posts, stale>>

\* the job is edited and runs on the other side from now on (jobs.update)
MoveJob(r) ==
    /\ counted.moves < MaxMoves /\ Count("moves")
    /\ owner' = [owner EXCEPT ![r] = IF @ = "server" THEN "agent" ELSE "server"]
    /\ UNCHANGED <<size, cached, history, now, requested, capable, slot, tasks,
                   posts, waiting, overlapped, stale>>
-----------------------------------------------------------------------------
(* The chart of the dashboard *)

\* Mutant: only the readings inside the window.
PointsMutant(since) == {p \in Range(history) : p.at >= since}

\* statsHistory: the readings of the window and, per repository, the last one
\* before it
Points(since) ==
    LET before(r) == {p \in Range(history) : p.repo = r /\ p.at < since}
    IN  {p \in Range(history) : p.at >= since}
        \cup {p \in Range(history) : p.at < since
                /\ \A q \in before(p.repo) : q.at <= p.at}

\* the readings by measured_at, oldest first: the k-th is the one that as many
\* are later than as come after the k-th place
InOrder(points) ==
    [k \in 1 .. Cardinality(points) |->
       CHOOSE p \in points :
         Cardinality({q \in points : q.at > p.at}) = Cardinality(points) - k]

Total(latest) == MapThenSumSet(LAMBDA r : latest[r], DOMAIN latest)

\* totalStorageSeries: readings before the window only seed the total, one
\* point at `since` stands for them, and the last total is carried to now
Plot(acc, p, since) ==
    LET latest == [r \in DOMAIN acc.latest \cup {p.repo} |->
                     IF r = p.repo THEN p.fig ELSE acc.latest[r]]
        before == IF acc.seeded
                    THEN Append(acc.out, [t |-> since, bytes |-> Total(acc.latest)])
                    ELSE acc.out
    IN  IF p.at < since
          THEN [latest |-> latest, seeded |-> TRUE, out |-> acc.out]
          ELSE [latest |-> latest, seeded |-> FALSE,
                out |-> Append(before, [t |-> p.at, bytes |-> Total(latest)])]

\* before the first reading
NothingYet == [latest |-> [r \in {} |-> 0], seeded |-> FALSE, out |-> <<>>]

\* the loop over the readings in their order
Plotted(sorted, since) ==
    LET acc[k \in 0 .. Len(sorted)] ==
          IF k = 0 THEN NothingYet ELSE Plot(acc[k - 1], sorted[k], since)
    IN  acc[Len(sorted)]

TotalStorageSeries(since) ==
    LET end == Plotted(InOrder(Points(since)), since)
        out == IF end.seeded
                 THEN Append(end.out, [t |-> since, bytes |-> Total(end.latest)])
                 ELSE end.out
    IN  IF out = <<>> THEN out
        ELSE Append(out, [t |-> now, bytes |-> out[Len(out)].bytes])

\* StorageChart: the value under the pointer is the last point at or before it,
\* the first one when there is none
Hovered(series, t) ==
    LET upto == {k \in DOMAIN series : series[k].t <= t}
    IN  series[IF upto = {} THEN 1 ELSE Max(upto)].bytes

-----------------------------------------------------------------------------
StatsNext ==
    \/ \E i \in Slots : \/ ReadRestic(i) \/ SelectRow(i) \/ UpdateError(i)
                         \/ UpdateRow(i) \/ AppendHistory(i)
    \/ \E r \in Repos : \/ BackupEnds(r) \/ RefreshStatsFor(r) \/ FindOne(r)
                         \/ RunStats(r) \/ MoveJob(r)
    \/ PollStats
    \/ \E p \in posts : Submit(p) \/ LosePost(p)
    \/ AgentRestart
    \/ ServerRestart

\* restic ends, the statements of a recording follow one another, and the
\* agent polls, works its queue off and posts
StatsFairness ==
    /\ \A i \in Slots : WF_statsVars(ReadRestic(i) \/ SelectRow(i) \/ UpdateError(i)
                                 \/ UpdateRow(i) \/ AppendHistory(i))
    /\ WF_statsVars(PollStats)
    /\ \A r \in Repos : WF_statsVars(RunStats(r))
    /\ WF_statsVars(\E p \in posts : Submit(p))

StatsSpec == StatsInit /\ [][StatsNext]_statsVars /\ StatsFairness
-----------------------------------------------------------------------------
\* What a repository was last found to hold, by the readings up to t.
ReadingAt(points, r, t) ==
    LET upto == {p \in points : p.repo = r /\ p.at <= t}
    IN  IF upto = {} THEN 0 ELSE (CHOOSE p \in upto : \A q \in upto : q.at <= p.at).fig

CachedSize(r) == IF cached[r].fig = NoReading THEN 0 ELSE cached[r].fig
Settled == overlapped = {} /\ \A i \in Slots : slot[i].st # "append"

\* In every window and at every instant of it the chart shows the sum of the
\* repositories' latest readings, and at its right edge the sum of the cached
\* sizes, although recordStats stores the row and appends the history in
\* separate statements and leaves out a reading that changed nothing: no
\* sequence of backups, refreshes and failed reads lets the two drift apart
\* unless recordings of one repository overlap or a restart cuts one short.
ChartCurrent ==
    \A since \in 0 .. now + 1 :
      LET series == TotalStorageSeries(since)
      IN  series # <<>> =>
            /\ \A t \in {u \in since .. now : series[1].t <= u} :
                 Hovered(series, t)
                   = Total([r \in Repos |-> ReadingAt(Range(history), r, t)])
            /\ Settled =>
                 series[Len(series)].bytes = Total([r \in Repos |-> CachedSize(r)])

\* A refresh the user asks of an agent's repository is answered: figures as
\* recent as the request, or the error, end up on the row, whether the agent
\* can run the task or is too old for it, unless the job is moved to the
\* server, something fails on the way (the request is cleared when it is
\* handed out), or an older reading is stored over a newer one.
RequestAnswered ==
    \A r \in Repos, f \in Figures :
      (r \in requested /\ size[r] = f)
        ~> (cached[r].fig >= f \/ cached[r].err \/ counted.faults > 0 \/ counted.moves > 0
            \/ r \in stale)

\* The cached figures catch up with the repository after its last backup,
\* wherever the job ran and whoever read them, unless a step failed or a
\* reading begun before another was stored after it: each backup leads to a
\* reading made after it, and recordStats keeps what it stored.
FiguresCatchUp ==
    \A r \in Repos :
      <>[](cached[r].fig = size[r] \/ size[r] = 0
           \/ counted.faults > 0 \/ r \in stale)
=============================================================================
