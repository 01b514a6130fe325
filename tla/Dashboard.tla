----------------------------- MODULE Dashboard -----------------------------
(***************************************************************************)
(* The activity feed of the web client (DashboardView in dashboard.tsx)    *)
(* against the run tables it shows (RunsService.list and dashboard).       *)
(*                                                                         *)
(* The page pulls the history in pages by offset, starts over when a       *)
(* filter changes, and every two seconds asks for the newest activities,   *)
(* fetches on its own each shown row that is still active, and merges both *)
(* into the list.  Answers arrive in any order, meet a feed that has       *)
(* started over meanwhile, or do not arrive.  A request reads the tables   *)
(* when it is sent: reading later is sending later, except across a reset, *)
(* and then its answer is an old one all the same.                         *)
(***************************************************************************)
EXTENDS Integers, Sequences, FiniteSets

CONSTANTS
  MaxRuns,     \* bound: activities there will ever be
  First,       \* activities there are when the page opens
  KindOf,      \* the kind of each activity
  JobOf,       \* the name of each activity's job
  Terms,       \* search terms: names of jobs
  Outcomes,    \* how an activity may end by itself: "success", "failed"
  NoTerm,      \* the search field is empty
  PageSize,    \* RUNS_PAGE
  RecentSize,  \* the limit of the dashboard's `recent`
  MaxPolls,    \* bound: polls of the timer in flight
  MaxActs,     \* bound: changes of a filter, and cancels
  MaxLosses    \* bound: failed requests

ASSUME DashboardAssumption ==
  /\ First \in 0 .. MaxRuns
  /\ PageSize \in Nat \ {0}
  /\ RecentSize \in Nat \ {0}
  /\ MaxRuns \in Nat
  /\ Outcomes \subseteq {"success", "failed"}

VARIABLES
  status,     \* server: the status of each activity; "none": not there yet
  aborting,   \* server: runs whose process was aborted and has not settled
  feed,       \* runs: the rows shown, as the page last learnt of them
  seen,       \* seenRef
  offset,     \* offsetRef
  loading,    \* loadingRef
  done,       \* doneRef
  filter,     \* showMaintenance, onlyFailed, activeSearch
  pages,      \* answers of GET /runs on their way
  polls,      \* polls under way
  cancelled,  \* cancelledRef
  posting,    \* the cancel request under way
  acts,       \* what the operator did so far: changes of a filter and cancels
  faults,     \* faults so far
  stray,      \* ghost: rows that a stale closure or a poll brought from before the reset
  promised,   \* ghost: what matched when the feed was started
  torn        \* ghost: since then a page failed or a stale closure loaded

serverVars == <<status, aborting>>
feedVars == <<feed, seen, offset, loading, done>>
ghosts == <<stray, promised, torn>>
dashboardVars == <<serverVars, feedVars, filter, pages, polls, cancelled, posting,
                   acts, faults, ghosts>>

-----------------------------------------------------------------------------
(* The server *)

Smaller(m, n) == IF m <= n THEN m ELSE n

Runs == 1 .. MaxRuns    \* in the order of created_at
isActive(s) == s \in {"queued", "running"}
Final == Outcomes \union {"cancelled"}
isMaintenance(r) == KindOf[r] \in {"prune", "check"}

(* A row of the feed, in the common shape of job runs and restores.           *)
RowOf(r) == [id |-> r, status |-> status[r]]
Activities == {r \in Runs : status[r] # "none"}

(* The filters: kind, status and search, as the page applies them to `recent` *)
(* and the server to its query.                                               *)
Matches(f, row) ==
  /\ f.maintenance \/ ~isMaintenance(row.id)
  /\ f.failed => row.status = "failed"
  /\ f.term \in {NoTerm, JobOf[row.id]}

(* RunsService.list: newest first, at most `limit` rows from `from` on.       *)
Selected(f) == {r \in Activities : Matches(f, RowOf(r))}
Above(r, ids) == Cardinality({q \in ids : q > r})
List(f, from, limit) ==
  LET found == Selected(f)
  IN  [k \in 1 .. Smaller(limit, Cardinality(found) - from) |->
         RowOf(CHOOSE r \in found : Above(r, found) = from + k - 1)]

NoFilter == [maintenance |-> TRUE, failed |-> FALSE, term |-> NoTerm]
Recent == List(NoFilter, 0, RecentSize)

RequestFails == faults < MaxLosses /\ faults' = faults + 1
Act(kind) == acts[kind] < MaxActs /\ acts' = [acts EXCEPT ![kind] = @ + 1]

(* An activity is created, or ends; a running one by itself or as the         *)
(* aborted process settles it.                                                *)
Create(r) ==
  /\ status[r] = "none" /\ \A q \in Runs : q < r => status[q] # "none"
  /\ status' = [status EXCEPT ![r] = "running"]
  /\ UNCHANGED <<aborting, feedVars, filter, pages, polls, cancelled, posting,
                 acts, faults, ghosts>>

Settles(r, s) ==
  /\ isActive(status[r])
  /\ s = "cancelled" => r \in aborting
  /\ status' = [status EXCEPT ![r] = s]
  /\ aborting' = aborting \ {r}
  /\ UNCHANGED <<feedVars, filter, pages, polls, cancelled, posting, acts,
                 faults, ghosts>>

-----------------------------------------------------------------------------
(* Pages *)

IdsOf(list) == {list[i].id : i \in DOMAIN list}

(* The rows of a list at these places, in their order.                        *)
Keep(list, places) ==
  [k \in 1 .. Cardinality(places) |->
     list[CHOOSE i \in places : Above(i, places) = Cardinality(places) - k]]

Fresh(list) == Keep(list, {i \in DOMAIN list : list[i].id \notin seen})

(* A request of loadMore, made by the closure of a render with filter f, for  *)
(* the generation of the feed that is current when it is made.                *)
PageRequest(f, from) == [filter |-> f, old |-> FALSE, rows |-> List(f, from, PageSize)]

DefaultFilter == [maintenance |-> FALSE, failed |-> FALSE, term |-> NoTerm]

(* The page is opened: the effect that follows the first render loads a page. *)
FeedInit ==
  /\ status = [r \in Runs |-> IF r <= First THEN "running" ELSE "none"]
  /\ aborting = {}
  /\ feed = <<>>
  /\ seen = {}
  /\ offset = 0
  /\ loading = TRUE
  /\ done = FALSE
  /\ filter = DefaultFilter
  /\ pages = {PageRequest(DefaultFilter, 0)}
  /\ polls = {}
  /\ cancelled = {}
  /\ posting = {}
  /\ acts = [change |-> 0, cancel |-> 0]
  /\ faults = 0
  /\ stray = {}
  /\ promised = Selected(DefaultFilter)
  /\ torn = FALSE

(* The sentinel comes into view: the observer of the last render loads more.  *)
LoadMore ==
  /\ ~loading /\ ~done
  /\ loading' = TRUE
  /\ pages' = pages \union {PageRequest(filter, offset)}
  /\ UNCHANGED <<serverVars, feed, seen, offset, done, filter, polls, cancelled,
                 posting, acts, faults, ghosts>>

(* What loadMore does with an answer of its own generation.                   *)
Accept(p) ==
  /\ feed' = feed \o Fresh(p.rows)
  /\ seen' = seen \union IdsOf(p.rows)
  /\ offset' = offset + Len(p.rows)
  /\ done' = (done \/ Len(p.rows) < PageSize)
  /\ stray' = IF p.old \/ p.filter = filter THEN stray
              ELSE stray \union IdsOf(Fresh(p.rows))
  /\ torn' = (torn \/ p.filter # filter)
  /\ loading' = FALSE

(* Mutant: no generation is remembered with the request.                      *)
PageAnswerAny(p) ==
  /\ Accept(p)
  /\ pages' = pages \ {p}
  /\ UNCHANGED <<serverVars, filter, polls, cancelled, posting, acts, faults,
                 promised>>

PageAnswer(p) ==
  /\ IF p.old THEN UNCHANGED <<feedVars, stray, torn>> ELSE Accept(p)
  /\ pages' = pages \ {p}
  /\ UNCHANGED <<serverVars, filter, polls, cancelled, posting, acts, faults,
                 promised>>

(* fillViewport goes on after an old answer was discarded: unless a load is   *)
(* under way or the end is reached, it calls the loadMore of its own closure  *)
(* again, which asks with the filters of that render for the feed of today.   *)
(* (After an answer that was taken, going on is LoadMore.)                    *)
FillViewport(p) ==
  /\ p.old /\ ~loading /\ ~done
  /\ loading' = TRUE
  /\ pages' = (pages \ {p}) \union {PageRequest(p.filter, offset)}
  /\ UNCHANGED <<serverVars, feed, seen, offset, done, filter, polls, cancelled,
                 posting, acts, faults, ghosts>>

(* The request fails: an error ends the feed, unless it is an old one.        *)
PageFails(p) ==
  /\ RequestFails
  /\ pages' = pages \ {p}
  /\ IF p.old THEN UNCHANGED <<loading, done, torn>>
     ELSE loading' = FALSE /\ done' = TRUE /\ torn' = TRUE
  /\ UNCHANGED <<serverVars, feed, seen, offset, filter, polls, cancelled,
                 posting, acts, stray, promised>>

-----------------------------------------------------------------------------
(* Filters *)

(* resetFeed, and the load of the effect that runs on the new filter.         *)
StartOver(f, known) ==
  /\ feed' = <<>>
  /\ seen' = known
  /\ offset' = 0
  /\ loading' = TRUE
  /\ done' = FALSE
  /\ pages' = {[p EXCEPT !.old = TRUE] : p \in pages} \union {PageRequest(f, 0)}
  /\ filter' = f
  /\ stray' = {}
  /\ promised' = Selected(f)
  /\ torn' = FALSE

ResetFeed(f) == StartOver(f, {})

(* toggleShowMaintenance, toggleOnlyFailed, or the pause in typing after which *)
(* a new term becomes the active one.                                          *)
ChangedFilters ==
  {[filter EXCEPT !.maintenance = ~@], [filter EXCEPT !.failed = ~@]}
    \union {[filter EXCEPT !.term = x] : x \in (Terms \union {NoTerm}) \ {filter.term}}

ChangeFilter(f) ==
  /\ Act("change")
  /\ f \in ChangedFilters
  /\ ResetFeed(f)
  /\ polls' = {[p EXCEPT !.crossed = (p.phase = "refetch")] : p \in polls}
  /\ UNCHANGED <<serverVars, cancelled, posting, faults>>

-----------------------------------------------------------------------------
(* Live refresh *)

NewPoll == [phase |-> "recent", rows |-> Recent, again |-> {},
            crossed |-> FALSE]

(* The timer (or a cancel) begins a poll.  One that fails changes nothing, as *)
(* if it had not begun.                                                       *)
BeginPoll ==
  /\ Cardinality(polls) < MaxPolls
  /\ polls' = polls \union {NewPoll}
  /\ UNCHANGED <<serverVars, feedVars, filter, pages, cancelled, posting, acts,
                 faults, ghosts>>

(* Mutant: `recent` is all that is looked at.                                 *)
StaleRowsNone(recent) == {}

(* The rows shown as active that `recent` says nothing of.                    *)
StaleRows(recent) ==
  {feed[i].id : i \in {k \in DOMAIN feed : isActive(feed[k].status)}} \ IdsOf(recent)

(* GET /runs/:id or /restores/:id, for what the row shows.                    *)
RefetchRun(r) == RowOf(r)

(* The first answer: `recent` through the filters of this moment, and the     *)
(* requests for the stale rows.                                               *)
PollRecent(p) ==
  LET recent == Keep(p.rows, {i \in DOMAIN p.rows : Matches(filter, p.rows[i])})
      asked == [p EXCEPT !.phase = "refetch", !.rows = recent,
                        !.again = {RefetchRun(r) : r \in StaleRows(recent)}]
  IN  /\ p.phase = "recent"
      /\ polls' = (polls \ {p}) \union {asked}
      /\ UNCHANGED <<serverVars, feedVars, filter, pages, cancelled, posting,
                     acts, faults, ghosts>>

Latest(p) == {p.rows[i] : i \in DOMAIN p.rows} \union p.again

(* Mutant: what the poll says replaces the row.                               *)
MergeAny(p, row) ==
  LET news == {x \in Latest(p) : x.id = row.id}
  IN  IF news = {} THEN row ELSE CHOOSE x \in news : TRUE

(* merge: a row cancelled here keeps its state until the server agrees.       *)
Merge(p, row) ==
  LET news == {x \in Latest(p) : x.id = row.id}
      new == CHOOSE x \in news : TRUE
  IN  IF news = {} \/ (row.id \in cancelled /\ isActive(new.status)) THEN row ELSE new

(* The poll's last step: the rows are merged, and new ones put in front.      *)
PollMerge(p) ==
  LET fresh == Fresh(p.rows)
      settled == {x.id : x \in {y \in Latest(p) : ~isActive(y.status)}}
  IN  /\ p.phase = "refetch"
      /\ feed' = fresh \o [k \in DOMAIN feed |-> Merge(p, feed[k])]
      /\ seen' = seen \union IdsOf(p.rows)
      /\ cancelled' = cancelled \ (settled \intersect IdsOf(feed))
      /\ polls' = polls \ {p}
      /\ stray' = IF p.crossed THEN stray \union {x.id : x \in Latest(p)} ELSE stray
      /\ UNCHANGED <<serverVars, offset, loading, done, filter, pages, posting,
                     acts, faults, promised, torn>>

-----------------------------------------------------------------------------
(* Cancel *)

(* The button of an active row (one request at a time here; the code disables *)
(* the button of that row).  RunsService.cancel refuses a run that has ended; *)
(* else it aborts the process, which settles the row later, or settles it     *)
(* itself, which is no more than settling it (Settles) before the answer.     *)
Cancel(r) ==
  /\ Act("cancel")
  /\ posting = {}
  /\ \E i \in DOMAIN feed : feed[i].id = r /\ isActive(feed[i].status)
  /\ \/ /\ ~isActive(status[r])
        /\ posting' = {[id |-> r, ok |-> FALSE]}
        /\ UNCHANGED serverVars
     \/ /\ isActive(status[r])
        /\ posting' = {[id |-> r, ok |-> TRUE]}
        /\ aborting' = aborting \union {r}
        /\ UNCHANGED status
  /\ UNCHANGED <<feedVars, filter, pages, polls, cancelled, faults, ghosts>>

(* markCancelled, and the poll it begins.                                     *)
MarkCancelled(r) ==
  /\ cancelled' = cancelled \union {r}
  /\ feed' = [k \in DOMAIN feed |-> IF feed[k].id = r
                                    THEN [feed[k] EXCEPT !.status = "cancelled"]
                                    ELSE feed[k]]
  /\ polls' = polls \union {NewPoll}

CancelAnswer(c) ==
  /\ posting' = {}
  /\ IF c.ok THEN MarkCancelled(c.id) ELSE UNCHANGED <<feed, cancelled, polls>>
  /\ UNCHANGED <<serverVars, seen, offset, loading, done, filter, pages, acts,
                 faults, stray, promised, torn>>

(* The answer is lost: an error is shown, whatever the server did.            *)
CancelLost(c) ==
  /\ RequestFails
  /\ posting' = {}
  /\ UNCHANGED <<serverVars, feedVars, filter, pages, polls, cancelled, acts,
                 ghosts>>

-----------------------------------------------------------------------------
ServerStep ==
  \/ \E r \in Runs : Create(r)
  \/ \E r \in Runs, s \in Final : Settles(r, s)

PageStep ==
  \/ LoadMore
  \/ \E p \in pages : PageAnswer(p) \/ FillViewport(p) \/ PageFails(p)
  \/ \E f \in ChangedFilters : ChangeFilter(f)

PollStep ==
  \/ BeginPoll
  \/ \E p \in polls : PollRecent(p) \/ PollMerge(p)

CancelStep ==
  \/ \E r \in Runs : Cancel(r)
  \/ \E c \in posting : CancelAnswer(c) \/ CancelLost(c)

FeedNext == ServerStep \/ PageStep \/ PollStep \/ CancelStep

(* The tab is visible, so the timer runs, and a request that is not lost is   *)
(* answered.                                                                  *)
FeedSpec ==
  /\ FeedInit /\ [][FeedNext]_dashboardVars
  /\ WF_dashboardVars(BeginPoll)
  /\ WF_dashboardVars(\E p \in polls : PollRecent(p))
  /\ WF_dashboardVars(\E p \in polls : PollMerge(p))

-----------------------------------------------------------------------------
(* No activity is shown twice, and unless it came in with an answer that      *)
(* belongs to the time before the reset, or was cancelled here, every row     *)
(* satisfies the filters that are set: "a page still in flight for the        *)
(* previous filter is discarded instead of mixed into the list".              *)
FeedSound ==
  /\ Len(feed) = Cardinality(IdsOf(feed))
  /\ \A i \in DOMAIN feed : feed[i].id \in stray \union cancelled \/ Matches(filter, feed[i])

(* When the end of the feed is reached, it holds everything that matched when *)
(* it was started, however many activities began, ended or were put in front  *)
(* meanwhile and moved the offsets.                                           *)
FeedComplete == done /\ ~torn => promised \subseteq IdsOf(feed)

(* The feed shows each activity that matches once, and misses none.           *)
FeedRight == FeedSound /\ FeedComplete

(* "Until the server agrees, a stale `running` must not win": a row that shows *)
(* the cancel asked for here is not turned back into an active one, although   *)
(* polls answered before the cancel arrive after it, until one has found the   *)
(* activity ended.  This is so while the row stays in the list: a change of a  *)
(* filter empties it, and the page and the poll that fill it again do not look *)
(* at cancelledRef, so that a run whose abort has not settled comes back as    *)
(* running (and is corrected by the polls, EndedShown).                        *)
ShownActive(r) == \E i \in DOMAIN feed : feed[i].id = r /\ isActive(feed[i].status)
CancelHolds ==
  [][\A r \in cancelled \intersect IdsOf(feed) : ShownActive(r)' => ShownActive(r)]_dashboardVars

(* An activity that is shown as active and has ended is shown as ended in the *)
(* end, also when it is too old for `recent`.                                 *)
EndedShown ==
  \A r \in Runs : ShownActive(r) /\ status[r] \in Final ~> ~ShownActive(r)
=============================================================================
