---------------------------- MODULE RunLifecycle ----------------------------
(***************************************************************************)
(* What the activity list promises about the backup runs of one job, with  *)
(* no handlers, agents, messages or clock: a run is triggered or retries   *)
(* one failed run, is started at most once, ends at most once, and stays   *)
(* cancelled once the operator has cancelled it.                           *)
(***************************************************************************)
EXTENDS Integers

CONSTANTS Ids, RetryMax

VARIABLES
  open,     \* the job exists
  used,     \* ids of all runs there ever were
  state,    \* what the list shows for each id
  tries,    \* how many attempts were made up to this run
  retried   \* runs that a later run retries

avars == <<open, used, state, tries, retried>>

States == {"absent", "queued", "running", "success", "failed", "cancelled"}

LInit ==
  /\ open = TRUE
  /\ used = {}
  /\ state = [r \in Ids |-> "absent"]
  /\ tries = [r \in Ids |-> 1]
  /\ retried = {}

Enter(r, n) ==
  /\ open /\ r \notin used
  /\ used' = used \union {r}
  /\ state' = [state EXCEPT ![r] = "queued"]
  /\ tries' = [tries EXCEPT ![r] = n]
  /\ open' = open

Trigger(r) == Enter(r, 1) /\ UNCHANGED retried

(* A failed run may be cancelled by an operator who still saw it running,    *)
(* after its retry was decided on and before the retry is there.             *)
Retry(f, r) ==
  /\ state[f] \in {"failed", "cancelled"}
  /\ f \notin retried
  /\ tries[f] <= RetryMax
  /\ Enter(r, tries[f] + 1)
  /\ retried' = retried \union {f}

Become(r, from, to) ==
  /\ state[r] \in from
  /\ state' = [state EXCEPT ![r] = to]
  /\ UNCHANGED <<open, used, tries, retried>>

Start(r) == Become(r, {"queued"}, "running")
End(r) == \E outcome \in {"success", "failed"} : Become(r, {"running"}, outcome)
Cancel(r) == Become(r, States \ {"absent", "cancelled"}, "cancelled")

(* Runs that waited too long fail together.                                  *)
Expire ==
  /\ \E late \in SUBSET {r \in Ids : state[r] = "queued"} :
       state' = [r \in Ids |-> IF r \in late THEN "failed" ELSE state[r]]
  /\ UNCHANGED <<open, used, tries, retried>>

Close ==
  /\ open
  /\ open' = FALSE
  /\ state' = [r \in Ids |-> "absent"]
  /\ UNCHANGED <<used, tries, retried>>

LNext ==
  \/ \E r \in Ids : Trigger(r) \/ Start(r) \/ End(r) \/ Cancel(r)
  \/ \E f, r \in Ids : Retry(f, r)
  \/ Expire
  \/ Close

LSpec == LInit /\ [][LNext]_avars
=============================================================================
