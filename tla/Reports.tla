------------------------------ MODULE Reports ------------------------------
(***************************************************************************)
(* Reports and their delivery (ReportsService, ReportSchedulerService,     *)
(* NotificationsService.sendToChannels) beside what administrators do to   *)
(* them: a report is saved, removed or sent now, a channel is switched or  *)
(* removed, a job's notification settings are edited, the timezone is      *)
(* changed.  Every statement of a handler is a step of its own, so the     *)
(* handlers and the cron tick interleave; the audit interceptor records    *)
(* each of those requests after it was answered.                           *)
(*                                                                         *)
(* One report.  The run table belongs to other modules: it holds any runs  *)
(* of the jobs that exist when a report reads it.  Names, tags, integrity  *)
(* verdicts and the wording of the message are left out, and so are what   *)
(* the validation refuses, a field sent as null or as an empty text, and   *)
(* an outcome that a report lists twice.                                   *)
(***************************************************************************)
EXTENDS Integers, Sequences, FiniteSets, FiniteSetsExt

CONSTANTS
    Jobs, Channels,
    Requests,       \* the requests of administrators, each made once
    Payloads,       \* bound: the fields an update of the report may send
    Datasets,       \* bound: the jobs, outcomes and window a report asks for
    Tables,         \* bound: the backup runs on record when a report counts
    MaxGens,        \* bound: times the report is generated
    MaxFaults       \* bound: failing deliveries and statements, restarts

\* There are finitely many runs, numbered somehow.
ASSUME FiniteTables == \A t \in Tables : IsFiniteSet(DOMAIN t)
\* ReportDatasetDto: a list of jobs, which may be empty or repeat one.
ASSUME DatasetShape ==
    /\ \A d \in Datasets : d.jobs \in Seq(Jobs)
    /\ \A p \in Payloads : "dataset" \in DOMAIN p => p.dataset \in Datasets

VARIABLES
    report,         \* the row of the report
    cron,           \* the expression its cron job is registered with, or None
    chan,           \* notification_channels: on, off or gone
    jobs,           \* the jobs that exist
    notify,         \* backup_jobs.notify.channelIds
    wanted,         \* ghost: what the last edit of a job named, less the
                    \* channels that were removed since
    req,            \* the requests under way
    log,            \* audit_log: the outcome recorded for a request
    gen,            \* the report being generated and sent
    used,           \* the bounded counters
    raced           \* ghost: syncs that overlapped, jobs edited during a prune

reportVars == <<report, cron, chan, jobs, notify, wanted, req, log, gen, used, raced>>

None == "none"

NoGen == [pc |-> "idle"]
New == [pc |-> "new"]
Done == [pc |-> "done"]
ReportInit ==
    /\ \E d \in Datasets :
         report = [live |-> TRUE, enabled |-> TRUE, expr |-> "daily",
                   channels |-> Channels, dataset |-> d, last |-> 0]
    /\ cron = report.expr
    /\ chan = [c \in Channels |-> "on"]
    /\ jobs = Jobs
    /\ notify = [j \in Jobs |-> Channels]
    /\ wanted = notify
    /\ req = [q \in Requests |-> New]
    /\ log = [q \in Requests |-> None]
    /\ gen = NoGen
    /\ used = [gens |-> 0, faults |-> 0, restarts |-> 0]
    /\ raced = [sync |-> FALSE, jobs |-> {}]

Fault == used.faults < MaxFaults /\ used' = [used EXCEPT !.faults = @ + 1]
Step(q, pc) == req' = [req EXCEPT ![q].pc = pc]
\* the handler returns or throws; the interceptor's write follows
Ends(q, outcome) == req' = [req EXCEPT ![q] = [pc |-> "answered", outcome |-> outcome]]
-----------------------------------------------------------------------------
(* ReportSchedulerService *)

Syncing(q) == req[q].pc \in {"row", "register"}
Raced(q) == IF \E o \in Requests \ {q} : Syncing(o)
              THEN [raced EXCEPT !.sync = TRUE] ELSE raced

\* unregister, the first half of sync; a removed report is only unregistered
Unregister(q) ==
    /\ req[q].pc = "unregister"
    /\ cron' = None
    /\ raced' = Raced(q)
    /\ IF req[q].kind = "remove" THEN Ends(q, "success") ELSE Step(q, "row")
    /\ UNCHANGED <<report, chan, jobs, notify, wanted, log, gen, used>>

\* what sync and syncAll find to register: an enabled report that exists
Found == IF report.live /\ report.enabled THEN report.expr ELSE None

\* sync and syncAll await the row
ReadRow(q) ==
    /\ req[q].pc = "row"
    /\ req' = [req EXCEPT ![q] = [pc |-> "register", kind |-> @.kind,
                                  expr |-> Found]]
    /\ UNCHANGED <<report, cron, chan, jobs, notify, wanted, log, gen,
                   used, raced>>

\* register: a name that is taken throws, which is logged
Register(q) ==
    /\ req[q].pc = "register"
    /\ cron' = IF cron = None THEN req[q].expr ELSE cron
    /\ Ends(q, "success")
    /\ UNCHANGED <<report, chan, jobs, notify, wanted, log, gen, used, raced>>

-----------------------------------------------------------------------------
(* ReportsController *)

\* UpdateReportDto: a field that is not sent keeps what the row has
Sent(p, field, old) == IF field \in DOMAIN p THEN p[field] ELSE old

\* update: the fields sent are written, an empty list of channels or jobs too
Save(q) ==
    /\ req[q] = New
    /\ IF report.live
         THEN \E p \in Payloads :
                /\ report' = [report EXCEPT !.expr = Sent(p, "expr", @),
                                !.enabled = Sent(p, "enabled", @),
                                !.channels = Sent(p, "channels", @),
                                !.dataset = Sent(p, "dataset", @)]
                /\ req' = [req EXCEPT ![q] = [pc |-> "unregister", kind |-> "save"]]
         ELSE /\ Ends(q, "failure")
              /\ UNCHANGED report
    /\ UNCHANGED <<cron, chan, jobs, notify, wanted, log, gen, used, raced>>

Remove(q) ==
    /\ req[q] = New
    /\ IF report.live
         THEN /\ report' = [report EXCEPT !.live = FALSE]
              /\ req' = [req EXCEPT ![q] = [pc |-> "unregister", kind |-> "remove"]]
         ELSE /\ Ends(q, "failure")
              /\ UNCHANGED report
    /\ UNCHANGED <<cron, chan, jobs, notify, wanted, log, gen, used, raced>>

\* the timezone is changed: syncAll
ChangeTimezone(q) ==
    /\ req[q] = New
    /\ req' = [req EXCEPT ![q] = [pc |-> "row", kind |-> "timezone"]]
    /\ cron' = None
    /\ raced' = Raced(q)
    /\ UNCHANGED <<report, chan, jobs, notify, wanted, log, gen, used>>

-----------------------------------------------------------------------------
(* Generating and sending *)

Generate(by) ==
    /\ gen = NoGen /\ used.gens < MaxGens
    /\ used' = [used EXCEPT !.gens = @ + 1]
    /\ gen' = [pc |-> "read", by |-> by]

\* the registered cron job ticks
CronTick ==
    /\ cron # None
    /\ Generate(None)
    /\ UNCHANGED <<report, cron, chan, jobs, notify, wanted, req, log, raced>>

\* "send now"
SendNow(q) ==
    /\ req[q] = New
    /\ req' = [req EXCEPT ![q] = [pc |-> "sending", kind |-> "run"]]
    /\ Generate(q)
    /\ UNCHANGED <<report, cron, chan, jobs, notify, wanted, log, raced>>

\* the request that waits for the generation is answered, the cron's is not
Answer(outcome) ==
    IF gen.by = None THEN UNCHANGED req ELSE Ends(gen.by, outcome)

\* generate: the row, or a report that is gone
GenRead ==
    /\ gen.pc = "read"
    /\ IF report.live
         THEN /\ gen' = [pc |-> "count", by |-> gen.by, rep |-> report]
              /\ UNCHANGED req
         ELSE gen' = NoGen /\ Answer("failure")
    /\ UNCHANGED <<report, cron, chan, jobs, notify, wanted, log, used, raced>>

\* Mutant: runs of every age are counted.
InWindowMutant(r, data) == TRUE

InWindow(r, data) == r.age < data.window

\* job_runs when it is queried: the runs of the jobs that exist
RunTables == {[i \in {n \in DOMAIN t : t[n].job \in jobs} |-> t[i]] : t \in Tables}

\* buildMessage: one query groups the counted runs of the jobs that exist; for
\* a report without jobs it is not made, and there is nothing to count
Selects(data) == {data.jobs[n] : n \in DOMAIN data.jobs}
Counted(data, runs) ==
    {i \in DOMAIN runs : LET r == runs[i] IN
       r.job \in Selects(data) /\ r.status \in data.statuses /\ InWindow(r, data)}

GenCount ==
    /\ gen.pc = "count"
    /\ \E runs \in RunTables :
       LET data == gen.rep.dataset
           rows == Counted(data, runs) IN
       gen' = [pc |-> "names", by |-> gen.by, rep |-> gen.rep, seen |-> runs,
               named |-> {runs[i].job : i \in rows},
               counts |-> [j \in Selects(data) |-> [s \in data.statuses |->
                 Cardinality({i \in rows : runs[i].job = j /\ runs[i].status = s})]]]
    /\ UNCHANGED <<report, cron, chan, jobs, notify, wanted, req, log,
                   used, raced>>

\* a second query brings the names of the jobs without runs; a job deleted
\* since has none, and is shown by its id
GenNames ==
    /\ gen.pc = "names"
    /\ gen' = [gen EXCEPT !.pc = "channels",
                          !.named = @ \cup (Selects(gen.rep.dataset) \cap jobs)]
    /\ UNCHANGED <<report, cron, chan, jobs, notify, wanted, req, log,
                   used, raced>>

\* the totals of the message: what the rows say, one row for each job listed
Totals(g) ==
    LET listed == g.rep.dataset.jobs
    IN  [s \in g.rep.dataset.statuses |->
           MapThenSumSet(LAMBDA n : g.counts[listed[n]][s], DOMAIN listed)]
Status(g) == IF "failed" \in g.rep.dataset.statuses /\ Totals(g)["failed"] > 0
               THEN "failed" ELSE "success"

\* what of the message a reader sees: the plain channels send the body, the HTML
\* of a mail and a Teams card show the details and the table, and the body only
\* when a message has neither
Message(g) ==
    LET none == g.rep.dataset.jobs = <<>>
    IN  [body |-> {"window", IF none THEN "no jobs selected" ELSE "rows", "total"},
         meta |-> {"window", "total"},
         table |-> IF none THEN {} ELSE {"rows"}]
RenderPlain(m) == m.body
RenderEmailHtml(m) == IF m.meta = {} /\ m.table = {} THEN m.body
                      ELSE m.meta \cup m.table
RenderTeamsCard(m) == m.meta \cup m.table
                        \cup (IF m.meta = {} /\ m.table = {} THEN m.body ELSE {})

\* sendToChannels: the channels that exist and are enabled
GenChannels ==
    /\ gen.pc = "channels"
    /\ LET found == {c \in gen.rep.channels : chan[c] = "on"} IN
       gen' = [pc |-> "deliver", by |-> gen.by, rep |-> gen.rep, left |-> found,
               status |-> Status(gen)]
    /\ UNCHANGED <<report, cron, chan, jobs, notify, wanted, req, log,
                   used, raced>>

\* Mutant: a delivery that fails is not caught and ends the generation.
FailMutant(c) == gen' = NoGen

\* the failure of one channel is logged
Fail(c) == gen' = [gen EXCEPT !.left = @ \ {c}]

\* deliver: the message is sent, or that fails; the secret of a channel that
\* was removed meanwhile cannot be revealed
Deliver(c) ==
    /\ gen.pc = "deliver" /\ c \in gen.left
    /\ \/ /\ chan[c] # "gone"
          /\ gen' = [gen EXCEPT !.left = @ \ {c}]
          /\ UNCHANGED used
       \/ /\ chan[c] # "gone"
          /\ Fault
          /\ Fail(c)
       \/ /\ chan[c] = "gone"
          /\ Fail(c)
          /\ UNCHANGED used
    /\ UNCHANGED <<report, cron, chan, jobs, notify, wanted, req, log, raced>>

\* last_run_at, once every delivery came to an end
GenRecord ==
    /\ gen.pc = "deliver" /\ gen.left = {}
    /\ report' = IF report.live THEN [report EXCEPT !.last = used.gens] ELSE report
    /\ gen' = NoGen
    /\ Answer("success")
    /\ UNCHANGED <<cron, chan, jobs, notify, wanted, log, used, raced>>

-----------------------------------------------------------------------------
(* Channels and the jobs that name them *)

ToggleChannel(q, c) ==
    /\ req[q] = New /\ chan[c] # "gone"
    /\ chan' = [chan EXCEPT ![c] = IF @ = "on" THEN "off" ELSE "on"]
    /\ Ends(q, "success")
    /\ UNCHANGED <<report, cron, jobs, notify, wanted, log, gen, used, raced>>

\* remove: the row and its secret; then the jobs are read.  From here on the
\* channel is not wanted any more, by whatever job names it.
RemoveChannel(q, c) ==
    /\ req[q] = New
    /\ IF chan[c] = "gone"
         THEN Ends(q, "failure") /\ UNCHANGED <<chan, wanted>>
         ELSE /\ chan' = [chan EXCEPT ![c] = "gone"]
              /\ wanted' = [j \in Jobs |-> wanted[j] \ {c}]
              /\ req' = [req EXCEPT ![q] = [pc |-> "jobs", kind |-> "drop", chan |-> c]]
    /\ UNCHANGED <<report, cron, jobs, notify, log, gen, used, raced>>

Pruning(others) == \E q \in others : req[q].pc \in {"jobs", "prune"}

\* pruneChannelFromJobs: the settings of every job are read at once
PruneRead(q) ==
    /\ req[q].pc = "jobs"
    /\ req' = [req EXCEPT ![q] =
                 [pc |-> "prune", kind |-> "drop", chan |-> @.chan,
                  notify |-> [j \in jobs |-> notify[j]],
                  todo |-> {j \in jobs : @.chan \in notify[j]}]]
    /\ raced' = IF Pruning(Requests \ {q}) THEN [raced EXCEPT !.jobs = Jobs] ELSE raced
    /\ UNCHANGED <<report, cron, chan, jobs, notify, wanted, log, gen, used>>

\* Mutant: the prune ends with the first job it wrote.
TodoMutant(q, j) == {}

Todo(q, j) == req[q].todo \ {j}

\* and written back one by one, from what was read
PruneWrite(q, j) ==
    /\ req[q].pc = "prune" /\ j \in req[q].todo
    /\ notify' = IF j \in jobs
                   THEN [notify EXCEPT ![j] = req[q].notify[j] \ {req[q].chan}]
                   ELSE notify
    /\ req' = [req EXCEPT ![q].todo = Todo(q, j)]
    /\ UNCHANGED <<report, cron, chan, jobs, wanted, log, gen, used, raced>>

PruneEnds(q) ==
    /\ req[q].pc = "prune" /\ req[q].todo = {}
    /\ Ends(q, "success")
    /\ UNCHANGED <<report, cron, chan, jobs, notify, wanted, log, gen,
                   used, raced>>

\* a job is saved with the channels its editor listed when its page was loaded:
\* they are stored as they are sent, those removed meanwhile among them
EditJob(q, j) ==
    /\ req[q] = New /\ j \in jobs
    /\ \E c \in SUBSET Channels :
         /\ notify' = [notify EXCEPT ![j] = c]
         /\ wanted' = [wanted EXCEPT ![j] = c]
    /\ raced' = IF Pruning(Requests) THEN [raced EXCEPT !.jobs = @ \cup {j}] ELSE raced
    /\ Ends(q, "success")
    /\ UNCHANGED <<report, cron, chan, jobs, log, gen, used>>

DeleteJob(q, j) ==
    /\ req[q] = New /\ j \in jobs
    /\ jobs' = jobs \ {j}
    /\ Ends(q, "success")
    /\ UNCHANGED <<report, cron, chan, notify, wanted, log, gen, used, raced>>

-----------------------------------------------------------------------------
(* The audit log, and a restart *)

\* Mutant: only what succeeded is recorded.
OutcomeMutant(q) == IF req[q].outcome = "failure" THEN None ELSE "success"

Outcome(q) == req[q].outcome

\* AuditService.record swallows the failure of the insert
Insert(q, outcome) ==
    \/ log' = [log EXCEPT ![q] = outcome] /\ UNCHANGED used
    \/ UNCHANGED log /\ Fault

\* AuditInterceptor.write, which the answer does not wait for
AuditWrite(q) ==
    /\ req[q].pc = "answered"
    /\ req' = [req EXCEPT ![q] = Done]
    /\ Insert(q, Outcome(q))
    /\ UNCHANGED <<report, cron, chan, jobs, notify, wanted, gen, raced>>

\* handlers and deliveries stop where they are; onModuleInit registers anew
Restart ==
    /\ used.restarts = 0
    /\ gen # NoGen \/ \E q \in Requests : req[q] \notin {New, Done}
    /\ used' = [used EXCEPT !.restarts = 1]
    /\ req' = [q \in Requests |-> IF req[q] = New THEN New
                                  ELSE Done]
    /\ gen' = NoGen
    /\ cron' = Found
    /\ raced' = [sync |-> FALSE, jobs |-> IF Pruning(Requests) THEN Jobs ELSE raced.jobs]
    /\ UNCHANGED <<report, chan, jobs, notify, wanted, log>>

ReportNext ==
    \/ \E q \in Requests :
         \/ Save(q) \/ Remove(q) \/ ChangeTimezone(q)
         \/ Unregister(q) \/ ReadRow(q) \/ Register(q)
         \/ PruneRead(q) \/ PruneEnds(q) \/ AuditWrite(q)
         \/ \E c \in Channels : ToggleChannel(q, c) \/ RemoveChannel(q, c)
         \/ \E j \in Jobs : PruneWrite(q, j) \/ EditJob(q, j) \/ DeleteJob(q, j)
    \/ CronTick \/ (\E q \in Requests : SendNow(q))
    \/ GenRead \/ GenCount \/ GenNames \/ GenChannels
    \/ \E c \in Channels : Deliver(c)
    \/ GenRecord
    \/ Restart

\* the statements of a handler are carried out, and a delivery ends
ReportFairness ==
    /\ \A q \in Requests :
         WF_reportVars(Unregister(q) \/ ReadRow(q) \/ Register(q) \/ PruneRead(q)
                 \/ PruneEnds(q) \/ AuditWrite(q)
                 \/ \E j \in Jobs : PruneWrite(q, j))
    /\ WF_reportVars(GenRead \/ GenCount \/ GenNames \/ GenChannels \/ GenRecord
               \/ \E c \in Channels : Deliver(c))

ReportSpec == ReportInit /\ [][ReportNext]_reportVars /\ ReportFairness
-----------------------------------------------------------------------------
AtRest == \A q \in Requests : req[q].pc \in {"new", "answered", "done"}

\* The message agrees with the run table as the first query found it, however
\* runs end and jobs are deleted between the queries: the row of each job that
\* is listed has the runs of its window, the totals are those of the runs that
\* are due, once for each time their job is listed, the message calls itself
\* failed exactly when a failed run is due, a job shown with runs is shown by
\* its name, and every kind of channel shows the totals, and the rows if there
\* are any.  A report without jobs is sent too, with totals of zero.
MessageSound ==
    gen.pc = "channels" =>
      LET data == gen.rep.dataset
          due(j, s) == {i \in DOMAIN gen.seen :
                          gen.seen[i].job = j /\ gen.seen[i].status = s
                          /\ gen.seen[i].age < data.window}
      IN  /\ \A n \in DOMAIN data.jobs, s \in data.statuses :
               LET j == data.jobs[n]
               IN  /\ gen.counts[j][s] = Cardinality(due(j, s))
                   /\ due(j, s) # {} => j \in gen.named
          /\ \A s \in data.statuses :
               Totals(gen)[s] =
                 Cardinality({x \in (DOMAIN data.jobs) \X (DOMAIN gen.seen) :
                                x[2] \in due(data.jobs[x[1]], s)})
          /\ Status(gen) = "failed" <=>
               "failed" \in data.statuses
               /\ \E n \in DOMAIN data.jobs : due(data.jobs[n], "failed") # {}
          /\ \A shown \in {RenderPlain(Message(gen)), RenderEmailHtml(Message(gen)),
                           RenderTeamsCard(Message(gen))} :
               "total" \in shown /\ (data.jobs # <<>> => "rows" \in shown)

\* Between requests the cron job is the one the row asks for: registered with
\* its expression while the report exists and is enabled, absent otherwise,
\* whatever saves, removals, timezone changes and restarts came before, unless
\* two syncs overlapped (the second registration of a name is refused).
ReportScheduled ==
    AtRest /\ ~ raced.sync =>
      cron = IF report.live /\ report.enabled THEN report.expr ELSE None

\* Between requests a job names the channels its last edit named, less those
\* that were removed since: a removal takes its channel out of every job and
\* leaves the rest of each as it was, although the settings are read once and
\* written back job by job.  Excepted are the jobs that were edited while a
\* removal was under way, and all of them if two removals overlapped or a
\* restart cut one short.  An edit made after the removal from a page loaded
\* before it names the channel again, and nothing takes it out any more.
NotifyPruned ==
    AtRest => \A j \in jobs \ raced.jobs : notify[j] = wanted[j]

\* What refers to reports and channels by name follows their rows.
ReferencesFollow == ReportScheduled /\ NotifyPruned

\* A report whose delivery began ends up recorded as sent when its row is
\* still there, although channels fail or are removed under way: only a
\* restart cuts it short.
ReportRecorded ==
    \A n \in 1 .. MaxGens :
      (gen.pc = "deliver" /\ used.gens = n)
        ~> (report.last >= n \/ ~ report.live \/ used.restarts > 0)

\* Every request of an administrator that was answered is in the audit log
\* with its outcome, the refused ones too, although the entry is written after
\* the answer: only a failing insert or a restart loses it.
AuditComplete ==
    \A q \in Requests, o \in {"success", "failure"} :
      (req[q].pc = "answered" /\ req[q].outcome = o)
        ~> (log[q] = o \/ used.faults + used.restarts > 0)
=============================================================================
