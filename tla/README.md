# Amber Backup: a TLA+ model

Amber Backup is a server (NestJS, PostgreSQL) that schedules restic backups,
executes them itself or hands them to agents (a Go program on another host), and
shows what happened in a web client. This directory holds TLA+ modules for the
parts of it that are hard to test: what happens between the statements of
concurrent handlers, to messages that get lost or arrive late, when the operator
clicks in the middle of it, and across crashes. Paths below are relative to the
repository; `server/src/` is left off where the file name is unambiguous.

## Inventory

| Component | State it keeps | Operations | Talks to | What makes it correct |
|---|---|---|---|---|
| Run table (`job_runs`; `runs.service.ts`, `run-retry.service.ts`, `job-runner.service.ts` sweep) | status, attempt, retry_of_run_id, not_before, agent_id of each run | createRun, cancel, failStaleQueuedRuns, finalize / scheduleRetry | runners, notifications | one retry per failure, a cancelled run stays cancelled, nothing waits for ever |
| Local runner (`job-runner.service.ts`) | map of abort controllers, restic children | dispatch, startDueRetries, executeLocal, cancel, shutdown | run table, restic, prune runner | a running row has an executor, each run is dispatched once, each failure is settled |
| Prune runner (`prune-runner.service.ts`) | prune rows, map of abort controllers | run, start, record, cancel | run table, restic | one row per prune |
| Agent protocol (`agents.service.ts`, `agent/main.go`) | claimed rows; the agent's queue, inflight set and task context | poll, claim, enqueue, runTask, cancelWatch, result | run table, restores, checks, statistics | a run is handed out once, a late result does not revive a run, a cancel reaches restic |
| Integrity checks (`check-runner.service.ts`) | check rows; verdict, rotation and data_verified_at of the repository | start, execute, settle, cancel, recordAgentResult | agents, jobs | the rotation skips nothing, "verified" means read back |
| Restores (`restore*.service.ts`, `snapshots.tsx`) | restore rows, map of abort controllers, temporary files | create, executeLocal, cancel, claim, progress, result, download | agents, jobs | an archive that is offered is whole, a success shows its final figures, a cancel sticks, a restore ends |
| Jobs, repositories, secrets (`jobs.service.ts`, `secrets.service.ts`) | job, repository and secret rows | create, update, setIntegrityCheck, remove | targets, scheduler, restores | no orphaned secret, no override at another connection |
| Scheduler (`scheduler.service.ts`) | cron registrations in memory | sync, syncAll, unregister | jobs, settings | the registrations follow the enabled jobs |
| Targets and channels (`targets.service.ts`, `target-health.service.ts`, the two registries) | config, encrypted secret, status | create, update, reveal, probe | jobs, audit | no secret field is readable, blank fields keep what was entered, the status settles |
| Repository statistics (`repositories.service.ts`) | cached figures, history, pending requests | refresh, request, claim, record, chart | agents, restic | a request is answered, the figures catch up, the chart agrees with the rows |
| Enrollment and liveness (`agents.service.ts`, `agent/main.go`) | tokens, agent rows, the agent's saved key | enroll, rotate, touchAgent, sweepOffline, edit, remove | agents | a token makes one agent, a rotated token is dead, the list settles on the truth |
| Device authorization (`device-auth.service.ts`, `cli/login.go`, `device.tsx`) | pairing rows, API keys | request, look up, approve, deny, exchange, purge, logout | users | one key per pairing, as approved, gone after logout |
| Access control (`auth.guard.ts`, `access-control.service.ts`, `admin-ip-allowlist.service.ts`) | grants, allowlist and its cache | guard, handle, save | users, keys | a key reaches no further than its owner |
| Users and sessions (`auth/*.ts`, `settings.service.ts`) | user rows, session generations, challenges, login settings | logins of every kind, create, update, remove, enrolment of second factors | everything | an administrator and a way in remain, revoked sessions stay revoked, a second factor counts once |
| Reports and audit (`reports/*.ts`, `notifications.service.ts`, `audit.interceptor.ts`) | report row, its registration, channels named by jobs, log | save, remove, generate, send, prune a channel | channels, run table | the message counts what it should, references follow, everything is recorded |
| Activity feed (`dashboard.tsx`) | rows shown, offsets, pages and polls in flight | load, poll, merge, filter, cancel | run table | nothing twice, nothing missing, nothing stale |
| Rest of the web client and of the CLI, migrations | - | presentation, sequential calls, schema | - | - |

What is hard in it: handlers run interleaved at every `await` (there are few
transactions around read-then-update); the server keeps state in memory that a
restart loses (abort controllers, background `finalize`, registrations, caches);
agents poll over an unreliable network, post a result once and may die with their
task; clients act on lists that are old; and the operator cancels, moves, edits and
deletes at any time. `PROJECT.json` lists the hazards with their lines and the
properties aimed at them.

## Modules

| Module | Models |
|---|---|
| `RunTable` | the backup rows of one job and the handlers that work on them whoever executes the runs |
| `LocalRuns` | extends `RunTable` by the executor in the server process |
| `AgentRuns` | extends `RunTable` by the agents, their polls and their results |
| `RunLifecycle` | the abstract specification: what the list of activities promises about runs |
| `Checks` | integrity checks of one repository |
| `Restores` | one restore, on the server or on an agent, with its page |
| `Catalog` | jobs, repositories, connections, secrets, restore rows and the cron registrations |
| `Connections` | one backend, channel or override: its form, its secret fields, its probes |
| `RepoStats` | the cached figures, their history and the storage chart |
| `Fleet` | enrollment and liveness of agents |
| `DeviceAuth` | pairing of the command line client, and API keys |
| `ApiAccess` | extends `DeviceAuth` by the guards every request passes |
| `Accounts` | users, logins, second factors, sessions |
| `Reports` | reports, channels and the audit log |
| `Dashboard` | the activity feed of the web client |
| `MC*` | instances for TLC |
| `AgentRunsProofs`, `LocalRunsProofs`, `ChecksProofs`, `RestoresProofs`, `ConfigurationProofs` (of `Catalog` and `Connections`), `MonitoringProofs` (of `Fleet`, `Reports`, `Dashboard` and `RepoStats`), `ApiAccessProofs`, `AccountsProofs` | theorems |

One SQL statement, or one transaction, is one step; so is everything a process does
between two awaits. An operator whose comment begins with "Mutant" is a deliberately
wrong variant of the definition that follows it; nothing in the models uses it. It
documents which mistake in the code a property would catch (`PROJECT.json`,
"mutants"). Several properties are conjunctions of named parts, each with a comment
of its own.

Many properties except behaviours in which requests about the same thing met. Such an
exception is a history variable (`raced`, `met`, `torn`, `overlapped`, `stale`, `leaky`,
`stray`): it records that a request wrote from what another had changed since it was
read, that two of them overlapped on one row or one registration, or that one failed
half way.
Overlaps that concern different things, and those the code guards against, are not
excepted. "Races the code loses" below says what goes wrong in the excepted ones.

### RunTable

A handler that awaits between two statements has a program counter per run:
`cancelling` (RunsService.cancel: SELECT, ask the runners, UPDATE by id alone) and
`fin` (RunRetryService.finalize: the two SELECTs and the INSERT of scheduleRetry, the
notification), once for each of the two kinds of callers, the sweep and whoever
settles a run, because both may be at work on one run. `held` stands for `not_before`
being set, and `age` for the time since a queued row was inserted, in ticks, up to the
horizon beyond which every age is stale. Rows are numbered in the order of insertion;
"gone" is a row deleted with its job. `notified` is the set of outcomes sent. A job is
taken to want both notifications; delivery is I/O.

### LocalRuns

`pc[r]` names the await at which `executeLocal(r)` is suspended, and so which of
its side effects have happened. `running` and `aborted` are the map of abort
controllers, `killed` the runs whose restic child was signalled (an abort before
the spawn signals nothing: `ResticService.spawn` adds its listener to a signal
that has fired already). The catch block decides by the abort signal when it is
entered and updates later, after the failure script, so `failing` and
`cancelling` are separate places. The prune row that follows a backup is
`pruning`. `Shutdown` aborts the map, `Exit` ends the process at any time after
it, `Crash` without warning; nothing is resumed.

### AgentRuns

The poll handler selects the due runs (`todo`), claims them one at a time with
the guarded UPDATE (`got`), and answers. `waiting[a]` is the poll the agent waits
for: it may give up (60 s client timeout) while the handler goes on. The worker
takes one task at a time through `phase`, with `stop` for the cancelled context.
A result is a record in `posts`, whose field `at` says how far the server has got
with it. Every message may be lost, both processes may crash, and the job may be
moved to another agent. Progress posts do not touch what is modelled; heartbeats
are in `Fleet`.

### Checks

`start` reads the job and repository row (the plan is made from what was read
then), looks for other activity and inserts, in three steps; a local check enters
the map and spawns restic, an agent's check is claimed. `settle` finishes the run
row and then updates the repository row. `readBack` is a history variable: what
restic has read and found intact, at which location and of which split. The job
stays with the server or with the agent (chosen in `Init`). A full check is
written as part 1 of 1.

### Restores

`exec` is the await at which `executeLocal` is suspended; `running` its entry in the
map of abort controllers; `disk` what is in the temporary directory (the restored
tree, a half-written archive, the archive). `Payload` is every combination the API takes:
the page asks for a "download" from the server only, the API accepts one for an agent as
well, which writes it to its own disk. Progress is written without being
awaited (`pending`), so a write may land after the end; the UPDATE's guard is what
`FinalFigures` is about. The agent claims, posts progress and one result; the cancel
handler reads, asks the runner and updates. `page` is the browser: a list of snapshots
and a history row loaded earlier, and what a download gave.

### Catalog

A request is a record with the operation, what it has read and the step that comes
next; two of them overlap in any way. Secrets are numbered; an override remembers the
connection it was entered for. Foreign keys are enforced as the migrations declare
them: a refused statement ends its request where it stands. `registry` maps cron names
to expressions; a registration under a name that exists is refused, as by
`SchedulerRegistry`. `uniqueSlug` is modelled by what it returns.

### Connections

One row of any of the 17 kinds (backends, channels, the override of a job). The value
of a field is the number of the form that entered it, which tells old from new and
mixed from whole. `Registry` states per kind which fields there are, which are secret,
and which a command line or a message shows. Probes read the row, take their time and
store by id.

### RepoStats

Figures are a number that each backup raises, so that a larger one is a later one.
A recording is SELECT, UPDATE and INSERT; `TotalStorageSeries` is the sum over the
repositories at each instant of the history, as the dashboard charts it, checked
against the definition of the sum for every window. The job of a repository moves
between server and agent; the agent knows statistics tasks or is too old for them.

### Fleet

Global tokens are numbered in the order they were generated; one token is one-time.
A host installs with a copied command, enrolls, saves its key and polls, over
requests that may be lost at every point. An agent's row has the time since it was
last seen in two values (in time, late).

### DeviceAuth and ApiAccess

`DeviceAuth` holds one pairing, the exchanges the server works on, the page of the
approver and the command line client, with ticks for the expiry of codes and keys.
`ApiAccess` composes it with the guard (authentication, scope, administrator,
allowlist, grants) and with a request that has passed the guard and acts later, when
its owner may have been disabled or its grant withdrawn. Routes are the combinations
of decorators that occur.

### Accounts

Two accounts of either source. A request occupies a slot with the row it read and
writes later. Passwords, codes and signatures are right or wrong; what is kept of
them is the generation they belong to. A challenge token has a life and an entry
that counts its guesses, which outlives it.

### Reports

One report with its row, its registration, the message being generated and sent,
the channels it names, the jobs that name channels, and the requests of
administrators with the audit entry each leaves behind after its answer. The dataset is
what the API stores: a list of jobs that may be empty or name one twice, outcomes and a
window. `Save` writes the fields that were sent, a dataset and an empty list of channels
among them; `EditJob` stores whatever channels an editor sends, those that were removed
after its page was loaded too. `wanted` is a history variable: what the last edit of a job
named, less the channels removed since. Left out are the integrity lines of the message, fields
sent as null or as an empty text, and an outcome listed twice.

### Dashboard

`feed` is the list shown, `seen`, `offset`, `loading` and `done` the refs of the page.
Pages carry the generation they were requested in; polls have two phases (the newest
activities, then the rows fetched one by one). `cancelled` is `cancelledRef`, which only
`Merge` looks at: pages and `recent` do not, so `CancelHolds` is about rows that stay in
the list. The closures of an earlier render
matter: `FillViewport` of an old loop calls the old `loadMore`. The operator sees all
jobs; a change of the filter and the render after it are one step.

## Runs

One run per component. Each uses the component's fair specification where it has one,
so that safety and liveness are checked on the same states.

| Run | Instance | Shows |
|---|---|---|
| `AgentRuns` | a run and its retry, two agents, one poll at a time, one fault | `HandedOutOnce`, `TableSound`, `CancelledStays`, `EndedOnlyCancelled`, `ImplementsLifecycle`; `QueuedLeaves` even if no agent polls, `CancelStops` without assuming that restic ends by itself, `RunsEnd` if it does |
| `LocalRuns` | a run and its retry, one fault | `RunnerSound` (each run dispatched once; while nothing has failed a running row has an executor cancel can reach), `FailureSettled` |
| `Checks` | two overlapping checks, two splits, two locations, one fault | `RotationSound`, `VerifiedSound` |
| `Restores` | one restore of any kind and destination, two faults | `ResultSound`, `CancelSticks`, `RestoreEnds` |
| `Catalog` | two jobs, two connections, two overlapping requests, one fault | `ScheduleFollows`, `SecretsSound` |
| `Connections` | every kind, two editors, three forms | `FieldsSound`, `StatusSettles` |
| `RepoStats` | two repositories, two recordings at a time, two backups, a refresh, a move, a fault | `ChartCurrent`, `RequestAnswered`, `FiguresCatchUp` |
| `Fleet` | two hosts, one one-time and two global tokens, one event | `TokensSound`, `StatusSettles`, `HostEnrolls` |
| `ApiAccess` | one pairing, two users, two exchanges at a time, one change, one fault | `CodeSound`, `KeyReach`, `LoginEnds`, `AllowlistCatchesUp` |
| `Accounts` | two accounts, three requests, two at a time | `RevokedRefused`, `AdminRemains`, `AccountsFit`, `SecondFactorOnce` |
| `Reports` | two requests of any kind, two jobs, two channels, a report of three listed places or of none, sent once, one fault | `MessageSound`, `ReferencesFollow`, `ReportRecorded`, `AuditComplete` |
| `Dashboard` | a backup and a prune, a poll of the timer and one after a cancel, any pages in flight, a filter change and a cancel in any order, one fault | `FeedRight`, `CancelHolds`, `EndedShown` |

Why the bounds are enough: a retry delay and a queue timeout of one tick each give
every order of "due", "stale" and "claimed" that longer ones give, because the code
only compares ages with these two bounds; the same holds of the lives of codes, keys,
challenges and cache entries. Two overlapping requests are what a lost update takes.
What concerns several polls at a time or several runs of a job is proved for every
number of them (below). A page of one row and a `recent` of one row put every activity
but one beyond their reach. In `Dashboard` the bounds on filter changes and on cancels are
separate, so that the two meet; more of either are left to the proofs. The run of `Reports`
has 298,579 distinct states, that of `Dashboard` 452,588, that of `Restores` 119,574.
`CHECK_DEADLOCK FALSE` is set where everything may really
come to rest: all requests answered, the job deleted, the restore ended, the bounded
inputs used up.

### Fairness

- The clock and the interval timers: `setInterval` fires as long as the process
  lives, and after a restart again. So do the agent's poll loop and the dashboard's
  poll while the tab is visible.
- Statements return, a handler that has begun goes on, and a request that is not lost
  is answered.
- `AgentRuns`: an agent which has a task watches it, and restic ends once it is
  interrupted (the agent kills it after `stopGrace`). That an agent polls is not
  assumed (the sweep fails what nobody picks up), and that restic ends by itself only
  as the hypothesis of `RunsEnd`.
- `LocalRuns`, `Restores`, `RepoStats`: restic ends. `Exit`: a shutdown ends within the
  8 s failsafe of `main.ts`.
- Operators, approvers and browsers owe nothing.
- Properties that name `faults` except behaviours with a fault, where nothing in the
  code repairs it: a run whose result was lost shows running until it is cancelled,
  and a crash loses the finalize that runs in the background.

## Proofs

TLAPS checks the theorems for every number of runs, agents, polls, checks, splits, jobs,
connections, hosts, accounts, activities, concurrent requests and faults, from the assumptions on
the constants stated in the modules only (`RunTableAssumption`, `AgentsAssumption`,
`ChecksAssumption`, `RestoresBounds`, `CatalogBounds`, `IdsApart`, `ConnectionBounds`,
`KnownKinds`, `FleetBounds`, `DeviceBounds`, `CacheBound`, `AccountsBounds`,
`FiniteTables`, `DatasetShape`, `FiniteRepos`, `DashboardAssumption`: bounds, lives and the sizes of
pages are natural numbers, jobs, runs and repositories are finitely many, an activity ends by itself
as a success or a failure, the dataset of a report lists jobs, none or one twice if it likes, a model
value that stands for "nobody" is not somebody, and no row's id, a UUID, is one of the
words the model uses in the place of an id; in `Connections` every kind in use has a
definition, in `Accounts` the entry that counts the guesses outlives the challenge).
They state of every instance what the runs check of one; each inductive invariant was
also checked by TLC on the instance of its run.

`AgentRunsProofs` rests on the inductive invariant `Inv`. `HandedOutOnce` alone
is not inductive, because the next step of a message matters as much as its
place. Its parts:

- `OnePlace`: a run is in at most one poll answer, at most one agent, one task
  slot, one result on the wire and one finalizing caller, and these exclude each
  other;
- `Fresh`: a run that no poll has claimed yet is in none of these places, is not
  being settled, is not notified and has no prune; a row that was not inserted
  also has no retry, no cancel and attempt 1;
- `History`: a run has at most one prune and none while it is still out; a run
  that is out or being settled is neither notified nor retried; a retried run is
  not notified;
- `Deciding`: a run that has a retry, or whose finalize is
  between its SELECTs and the INSERT of one, has failed (or was cancelled or
  deleted since) and had attempts left;
- `Working`: a worker that is not idle has a task;
- the types and `RetryChain`.

From it follow `HandedOutOnce` and the four parts of `TableSound`.

The second part of `AgentRunsProofs` shows that every step of `AgentRuns` is a step of
`RunLifecycle` or leaves it unchanged, under the mapping `Used`, `Shown`,
`HasRetry`; `CancelledStays` and `EndedOnlyCancelled` follow from the same case
distinction (`RowMoves`: which statuses a step may change, and how).

`ChecksProofs` strengthens the two safety properties to `IInv`: the plan of every
check under way was made when all parts before it had been read (`PlanSound`),
and a check that is about to patch the repository with "passed" has read its own
part (`PatchSound`). This is what makes overlapping checks harmless: a check that
settles late may move the rotation back, never past a part that was not read.

`RestoresProofs` needs more than `ResultSound` says, because whether an archive is whole
is decided several steps before the row names it. `OneSide`: a restore of an agent never
gets past dispatch in the server, so the executor's updates by id, which look at no
status, only meet restores of the server; `CancelSticks` is proved from this part.
`OnDisk`: what the temporary directory holds at each step of the executor. `Recorded`: a
success is the executor's last write, so nothing changes the row or the files after it,
and a late progress write, which wants a running row, changes no final figures.
`Learnt`: what the page has loaded still holds of the row.

`LocalRunsProofs`: `RunnerSound` is not inductive, since whether a run may be dispatched
is decided by `not_before` and not by a count. `Dispatch` ties the two: a run that still
waits for its delay was never dispatched, and the UPDATE that claims it clears the
delay. `Executor`, until something fails, says more than `RunningHasExecutor`: the map
holds exactly the runs between their entry and the end of `finally`, and a run past its
success or its catch block no longer shows running. `Unborn` and `AttemptsLeft` keep
the types of a retry that is about to be inserted. What the
steps of the table preserve is proved in `AgentRunsProofs` and here, since the two
modules share their variables and not their executors.

`ConfigurationProofs` has a part for each of its modules. In `Connections`, `FieldsSound`
holds of every kind the registry declares: the lemmas about the registry say that no
definition lists a field as plain and as secret, and how the merge of blank fields
(`Over`, `SplitConfig`) reads. The inductive invariant adds what an editor has read
(`EditorsKept`: a config without secret fields, and for SFTP the public key of the row),
and that editors which edit at the same time are noted (`Alone`).

In `Catalog`, `ScheduleFollows` speaks of the moment when all requests are answered. The
invariant says of every moment before: a job whose registration does not agree with its
row is covered by a request that is yet to bring the scheduler up to date (`Dirty`,
`Covered`), that request still relies on what is so (`Prepared`: what it read of the
row, and that its first half has cleared the registration), and requests that did not
meet name different rows (`Separate`). `SecretsSound` likewise becomes a statement about
owners: every secret has exactly one, a repository, a connection, or the request that
holds its id between two statements (`Held`, `OneOwner`, `Owned`); ids are never given
twice (`Bounded`), a row a request has read is unchanged until it writes (`Pending`),
and a job has a repository that outlives it only while it is being removed (`Rows`).
A step then moves secrets between owners, and one that drops a secret deletes it. All
of this holds as long as no requests met and none failed half way (`stale`, `leaky`).

`MonitoringProofs`, for `Fleet`: the count of agents per one-time token is replaced by where the right to
a row is (`OneRight`): nowhere before the guarded UPDATE of the token, then with one host
about to insert or in the row it inserted, and lost for good with an INSERT that fails.
For the global token `Kept` adds that a request between its two statements holds the
token that is stored, unless a rotation came in between, and the types that no token
generated so far exceeds `minted`, so a fresh one was never rotated out.

For `Reports`, `ReferencesFollow` speaks of moments when no request is under way. In
between, `Synced` says that of syncs that did not overlap one at a time is past
unregister, that it finds its name free, and that what it will register is what the row
asks for, unless a save or a removal has still to unregister (`Clearing`); and `Pruned`
that what is wanted of a job's channels (`wanted`) is what the job names less those which a
removal under way has still to take out (`Open`): an edit may name a channel that is
gone, so being gone says nothing by itself. The removals write back what they read, so `ReadRight` adds that this is still what the job names, and `Distinct`
that each is of a channel of its own. `MessageSound` is about a sum over the places
of the report's list of jobs, which may be empty or name a job twice. The library's induction theorems take an operator, but its theorem that a set of
naturals has a minimal element does not; from it follow induction over a set of naturals
(`Induction`) and over the finite subsets of a set (`SetInduction`), and with these that
the fold of the totals exists and is the number of pairs of a place and a run that is due
for the job there (`PairsGrow`, `SumOfCounts`, `TotalsRight`).

For `Dashboard`, what a page holds is found by rank: the place of an activity in a list
is the number of found ones that are newer (`Above`), and `Ranks` shows that this numbers
every finite set of numbers without gaps, so a page holds exactly the ranks it asked for
(`Lists`) and a filtered list keeps its order and its rows (`Keeps`). `FeedRight` then
rests on `OneLoad` (at most one load is under way that is not an old one, and it asks
from the offset the feed is at) and `Promised`: an activity that matched when the feed
was started and is not shown has a rank at or beyond the offset, because those above it
only become more (`AboveGrows`), or is in the answer under way. `Fitting` says under which
filter rows travel, `Singles` that no list has a row twice. `CancelHolds` is a property of
steps: `CancelShown` goes through those that write the list, the pages, which only append
what is not in it, the polls (`MergeShows`: for a row that is in `cancelledRef` the merge
keeps what is shown) and the mark itself, and `ShownKept` concludes.

For `RepoStats`, `ChartCurrent` has two halves. That the series is right of any history
whose readings have different times is a fact about the operators: the readings that
`statsHistory` selects tell all that was read by any time of the window (`PointsTell`),
sorting numbers them by rank (`Ordered`, from `Ranks`), and `PlotKeeps` says that a round
of the loop keeps `Drawn`: the latest reading of each repository, whether all lie before
the window, and points that show the right total from the first of them on. A total is
a fold over a set; `TotalParts` says that it adds its terms in any order and
`TotalExtends` that a repository without readings adds nothing. That row and history
agree is the invariant `StatsInv`: readings, stored or still to be appended, have
different times (`Timed`), and as long as no recordings of a repository overlapped, the
row selected is the row updated and the history says what the row does, but for the
reading that is about to be appended (`InTurn`).

`ApiAccessProofs` proves the pairing first, of the steps of `DeviceAuth` alone: a key
exists only once the pairing was consumed, which the guarded UPDATE of the exchange does
from "approved" only (`OneKey`), an approval still names the account that chose it
(`Decided`), and the id of a key that was logged out of is not given again
(`LoggedOut`). The guard is then added: `Guarded` says of a request between guard and
handler that its principal was built from a key within its scope, which is what
`ReadKeyReadsOnly` needs after the key, the grant or the account has changed;
`KeyNeverExceedsOwner` follows from the types of grants and scopes.

`AccountsProofs` has the largest invariant, because every handler reads a row, awaits
and writes it back whole. `FreshReads`: a request nothing has overtaken still holds the
row as it is. Each guard is then carried from the read to the write by a part of its
own, for requests that were not overtaken: `Admins` (the last administrator), `Ways`
(local login or SSO), `Factors` (the source of the account, its password and its TOTP
secret), `Recovery` (the codes left on a row were not accepted yet). Two parts hold
without that exception: `Generations`, no token that was or is being signed is of a
session generation its account has not reached, and every revoked one is of an earlier
generation; and `Tracked`, the entry of a challenge outlives the token and has counted
every guess made against it. The lemmas `RequestStep` and `SlotStep` (reads),
`RowWrite` and `InsertStep` (writes), `ChallengeMoves` and `GuessCounted` say once what
the handlers have in common. The attempt to prove `Recovery` showed that the model once
kept the accepted recovery codes of both accounts in one set; they are now kept per
account, as the rows hold them.

Only model-checked, not proved: everything about liveness (fairness and ENABLED are out
of the prover's reach). Every invariant and every action property of the runs is stated by a
theorem.

## Races the code loses

Orders of steps that the models contain and that the code's comments do not lead one
to expect. Where a property of the same subject is checked, its history variable
excepts exactly these.

- Runs: a run that ended between the SELECT and the UPDATE of `RunsService.cancel`
  becomes cancelled (the exception in `EndedOnlyCancelled`). A local run cancelled
  before `executeLocal` has put it into its map is set to running afterwards
  (`job-runner.service.ts:158`), so `CancelledStays` is checked of agents' runs only. A
  run swept while it is being dispatched executes all the same and is finalized twice,
  so a local failure may be both notified and retried (`job-runner.service.ts:145`,
  against "the failure is only notified once no retry follows", `README.md:12`). A prune
  row that cannot be inserted turns a recorded success into a failure
  (`job-runner.service.ts:256`, against the comment at 254). Two runs the sweep fails
  together may each get a retry. An abort before restic is spawned is lost and the run
  may still succeed.
- Checks: moving a repository keeps verdict, rotation and `data_verified_at` of the old
  place (`jobs.service.ts:394`). A check cancelled between the two UPDATEs of `settle`
  still records its verdict (`check-runner.service.ts:269`, against 245-246). Two starts
  that both pass `assertIdle` both run, harmlessly.
- Restores: the UPDATE to running is outside the `try`, so a failing statement leaves the
  entry in the map and a later cancel answers without cancelling. A cancel before the
  spawn or during `tar` may end in success. The temporary directory of a failed,
  cancelled or dry-run download stays, and so do archives. The history offers a download
  link for every successful "download" (`snapshots.tsx:507`): the server refuses it for a
  dry run, and for a download which the API had an agent carry out
  (`restore.service.ts:39-76` accepts `destination.agentId` with that mode), where the agent
  succeeds and there is no archive. `DownloadReady` names both.
- Jobs and secrets: deleting a job that has a restore run is refused in the middle by a
  foreign key (`jobs.service.ts:482`) when the job row is already gone: its registration
  and its override stay, against the comment in migration 013. `create` stores secrets
  before its transaction and leaks them when that fails. Overlapping updates may leave an
  override for another connection. A queued restore loses its override when the job
  moves. Overlapping `sync` calls leave an old expression registered.
- Connections: re-entering one secret field of a target replaces the whole credential
  (`targets.service.ts:195`), while channels and overrides merge; `BlankKeeps` is therefore
  about the latter.
- Statistics: the refresh after a backup and that after a prune may store an older reading
  over a newer one; overlapping recordings, or a restart between UPDATE and INSERT, let
  history and row drift apart; a request stays pending when its job moves to the server.
- Agents: `setGlobalEnrollment` writes back the token it read and undoes a rotation in
  between. A lost answer to `enroll` uses up a one-time token, and leaves a row nobody
  holds. An agent with a poll interval beyond the offline timeout flaps; an allowlist
  edit may lock an agent out; a removed agent keeps polling.
- Accounts: two overlapping requests can remove the last two administrators, or switch
  off local login and SSO; recovery codes are rewritten from a row read earlier, so two
  logins may use one.
- Reports: overlapping `sync` calls leave an old registration; a report's own list of
  channels is not pruned. A removal does not take its channel "from every job's notify
  config" (`notifications.service.ts:364`) for good: two that overlap, or an edit meanwhile,
  undo each other, a restart cuts one short (`NotifyPruned` excepts these jobs), and a job
  editor opened before the removal and saved after it puts the channel back, since
  `jobs.service.ts:381` stores the list the page was loaded with (`jobs.tsx:548`); it is an
  ordinary step of the model and counts as naming the channel. 'No jobs selected.'
  (`reports.service.ts:294`) reaches the plain channels and the plain part of a mail only: its
  HTML and a Teams card show the details in place of the body, hence zero totals without a
  word. The audit entry is lost with a failing INSERT.
- Dashboard: a poll in its second phase when the filter changes brings rows of the old
  filter, and an old `fillViewport` loop loads pages of it; once the server has agreed to
  a cancel, an overlapping poll may show the run as active again. Against
  `dashboard.tsx:93-94` ("until the server agrees, a stale `running` must not win"), a change
  of the filter brings a cancelled run that has not settled back as running, also from a page
  answered before the cancel, because `loadMore` does not look at `cancelledRef`:
  `CancelHolds` is therefore stated of rows that stay in the list, and `EndedShown` says that
  such a row is corrected in the end. More than ten new
  activities while the tab is hidden leave a gap; a failed page ends the feed.

## Not modelled, and why

Formatting and assembly of data (restic arguments, environment, log lines, wording of
messages), layout of the web client, cryptography and the protocols of identity
providers (taken to be sound), delivery to channels (I/O that may fail), migrations (run
before the server starts; their constraints are in the models), the self-update of the
agent (download, checksum, file replacement), listing and purging of the audit log, the
CLI's other commands (sequential calls). Left out although they keep state: the prune
started by hand and the cancel of a prune row by its id; a job that moves between the
server and an agent while it has backup runs (`LocalRuns` and `AgentRuns` each keep it on
one side; `RepoStats` moves it for the figures); deletion of a run that the dashboard
shows.

## Plan

1. `LocalRuns` and `AgentRuns` composed over one table, with the job moving between them,
   and the cancel of prune rows.
2. A lifecycle of restores as an abstract specification.
