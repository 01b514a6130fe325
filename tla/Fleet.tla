------------------------------- MODULE Fleet -------------------------------
(***************************************************************************)
(* Agents: how a host becomes one (a reusable global token or a one-time    *)
(* token is exchanged for a credential of its own), how the server knows    *)
(* that it is alive, and what an administrator edits meanwhile.  What an    *)
(* agent does with its tasks is in AgentRuns, Checks, Restores, RepoStats.  *)
(*                                                                         *)
(* A token is a number: 1..MaxMint are the global tokens in the order they  *)
(* were generated, Once is the one-time token, 0 is none.                   *)
(***************************************************************************)
EXTENDS Naturals, FiniteSets

CONSTANTS
  Hosts,      \* machines that may run an agent
  MaxMint,    \* bound: global tokens generated
  MaxRows,    \* bound: agents ever inserted
  MaxEvents   \* bound: agents edited or removed, lost answers, failing
              \* statements, hosts switched off

ASSUME FleetBounds == MaxMint \in Nat /\ MaxRows \in Nat /\ MaxEvents \in Nat

VARIABLES
  global,   \* app_settings.global_enrollment: [enabled, token]
  once,     \* enrollment_tokens: "none", "fresh", "used", "expired"
  minted,   \* global tokens generated so far
  admin,    \* [pc, enable, read]: a request that switches the global token on or off
  command,  \* the token of the install command an administrator has copied
  rows,     \* agents: [status, seen, allowed, slow, via]
  next,     \* the id of the next agent
  host,     \* [pc, token, key]
  spent,    \* global tokens that were rotated out
  met,      \* two writes of the global setting overlapped
  events

vars == <<global, once, minted, admin, command, rows, next, host, spent, met, events>>

Once == MaxMint + 1
Ids == 1..MaxRows
NoRow == [status |-> "none", seen |-> "stale", allowed |-> TRUE, slow |-> FALSE, via |-> 0]
Off == [pc |-> "off", token |-> 0, key |-> 0]
Idle == [pc |-> "idle", enable |-> FALSE, read |-> 0]

Init ==
  /\ global = [enabled |-> FALSE, token |-> 0]
  /\ once = "none" /\ minted = 0 /\ command = 0
  /\ admin = Idle
  /\ rows = [i \in Ids |-> NoRow] /\ next = 1
  /\ host = [h \in Hosts |-> Off]
  /\ spent = {} /\ met = FALSE
  /\ events = 0

Event == events < MaxEvents /\ events' = events + 1

-----------------------------------------------------------------------------
(* Administrators: the global token.                                       *)

\* setGlobalEnrollment reads the setting ...
SetGlobalRead(enable) ==
  /\ admin.pc = "idle" /\ minted < MaxMint
  /\ admin' = [pc |-> "set", enable |-> enable, read |-> global.token]
  /\ UNCHANGED <<global, once, minted, command, rows, next, host, spent, met, events>>

\* ... and writes it back: the token it read, or a first one.
SetGlobalWrite ==
  /\ admin.pc = "set"
  /\ LET mint == admin.enable /\ admin.read = 0 /\ minted < MaxMint IN
     /\ minted' = IF mint THEN minted + 1 ELSE minted
     /\ global' = [enabled |-> admin.enable, token |-> IF mint THEN minted + 1 ELSE admin.read]
  /\ admin' = Idle
  /\ UNCHANGED <<once, command, rows, next, host, spent, met, events>>

\* One statement, perhaps between the two of setGlobalEnrollment.
RotateGlobalToken ==
  /\ minted < MaxMint
  /\ minted' = minted + 1
  /\ spent' = spent \cup ({global.token} \ {0})
  /\ global' = [enabled |-> TRUE, token |-> minted + 1]
  /\ met' = (met \/ admin # Idle)
  /\ UNCHANGED <<once, admin, command, rows, next, host, events>>

-----------------------------------------------------------------------------
(* Administrators: the rollout dialogs.                                    *)

\* The page asks for the global commands when the dialog opens.
GlobalEnrollmentInfo == IF global.enabled THEN global.token ELSE 0

\* GlobalRollout shows the command of the token it was given.
OpenGlobalRollout ==
  /\ GlobalEnrollmentInfo # 0
  /\ command' = GlobalEnrollmentInfo
  /\ UNCHANGED <<global, once, minted, admin, rows, next, host, spent, met, events>>

\* The other dialog, when there is no global token: one token per agent.
TokenRollout == GlobalEnrollmentInfo = 0 /\ once = "none"

CreateEnrollmentToken ==
  /\ TokenRollout
  /\ once' = "fresh" /\ command' = Once
  /\ UNCHANGED <<global, minted, admin, rows, next, host, spent, met, events>>

TokenExpires ==
  /\ once = "fresh"
  /\ once' = "expired"
  /\ UNCHANGED <<global, minted, admin, command, rows, next, host, spent, met, events>>

\* The command, run on a host: the service starts.
Install(h) ==
  /\ command # 0 /\ host[h].pc = "off" /\ host[h].token = 0
  /\ host' = [host EXCEPT ![h].pc = "start", ![h].token = command]
  /\ UNCHANGED <<global, once, minted, admin, command, rows, next, spent, met, events>>

-----------------------------------------------------------------------------
(* AgentsService.enroll.  A refused agent exits and is started again.      *)
At(h, pc) == host' = [host EXCEPT ![h].pc = pc]

MatchesGlobalToken(t) == global.enabled /\ global.token = t

\* A one-time token that is known, not used and not expired.
CheckToken(t) == t = Once /\ once = "fresh"

\* Mutant: every token is looked up among the one-time tokens.
EnrollCheckOnce(h) ==
  /\ host[h].pc = "start" /\ next <= MaxRows
  /\ CheckToken(host[h].token) /\ At(h, "consume")
  /\ UNCHANGED <<global, once, minted, admin, command, rows, next, spent, met, events>>

EnrollCheck(h) ==
  /\ host[h].pc = "start" /\ next <= MaxRows
  /\ IF MatchesGlobalToken(host[h].token) THEN At(h, "insert")
     ELSE CheckToken(host[h].token) /\ At(h, "consume")
  /\ UNCHANGED <<global, once, minted, admin, command, rows, next, spent, met, events>>

\* Mutant: the update does not ask whether the token is unused.
ConsumeTokenAny(h) ==
  /\ host[h].pc = "consume"
  /\ once' = "used"
  /\ At(h, "insert")
  /\ UNCHANGED <<global, minted, admin, command, rows, next, spent, met, events>>

\* UPDATE ... WHERE used_at IS NULL: only one request goes on.
ConsumeToken(h) ==
  /\ host[h].pc = "consume"
  /\ IF once = "used" THEN At(h, "start") /\ UNCHANGED once
     ELSE At(h, "insert") /\ once' = "used"
  /\ UNCHANGED <<global, minted, admin, command, rows, next, spent, met, events>>

InsertAgent(h) ==
  /\ host[h].pc = "insert" /\ next <= MaxRows
  /\ rows' = [rows EXCEPT ![next] =
       [NoRow EXCEPT !.status = "enrolled", !.via = host[h].token]]
  /\ next' = next + 1
  /\ host' = [host EXCEPT ![h].pc = "answer", ![h].key = next]
  /\ UNCHANGED <<global, once, minted, admin, command, spent, met, events>>

\* The INSERT fails (a slug taken meanwhile): the token stays consumed.
InsertFails(h) ==
  /\ host[h].pc = "insert"
  /\ Event
  /\ At(h, "start")
  /\ UNCHANGED <<global, once, minted, admin, command, rows, next, spent, met>>

\* The agent saves its credential.
SaveState(h) ==
  /\ host[h].pc = "answer"
  /\ At(h, "run")
  /\ UNCHANGED <<global, once, minted, admin, command, rows, next, spent, met, events>>

\* The answer is lost, or cannot be saved: the row has no holder.
AnswerLost(h) ==
  /\ host[h].pc = "answer"
  /\ Event
  /\ host' = [host EXCEPT ![h].pc = "start", ![h].key = 0]
  /\ UNCHANGED <<global, once, minted, admin, command, rows, next, spent, met>>

-----------------------------------------------------------------------------
(* Polls and everything else an agent sends.                               *)
Row(h) == rows[host[h].key]

\* AgentAuthGuard: a known credential, from an allowed address.
Accepted(h) == host[h].key # 0 /\ Row(h).status # "none" /\ Row(h).allowed

Request(h) ==
  /\ host[h].pc = "run" /\ Accepted(h)
  /\ At(h, "poll")
  /\ UNCHANGED <<global, once, minted, admin, command, rows, next, spent, met, events>>

\* Mutant: a heartbeat writes the status without the time.
SeenStatus(r) == [r EXCEPT !.status = "online"]

\* The heartbeat of a poll, of progress and of results (touchAgent): nothing is
\* written when the row is gone by now.
Seen(r) == [r EXCEPT !.status = "online", !.seen = "fresh"]

Poll(h) ==
  /\ host[h].pc = "poll"
  /\ rows' = IF Row(h).status = "none" THEN rows ELSE [rows EXCEPT ![host[h].key] = Seen(@)]
  /\ At(h, "run")
  /\ UNCHANGED <<global, once, minted, admin, command, next, spent, met, events>>

\* A host is switched off for good, or its agent is started again.
SwitchOff(h) ==
  /\ host[h].pc \in {"run", "start"}
  /\ Event
  /\ At(h, "off")
  /\ UNCHANGED <<global, once, minted, admin, command, rows, next, spent, met>>

-----------------------------------------------------------------------------
(* The list of agents, and the sweep.                                      *)

Listed(i) == rows[i].status # "none"
Holder(i) == {h \in Hosts : host[h].key = i /\ host[h].pc \in {"run", "poll"}}
Alive(i) == rows[i].allowed /\ Holder(i) # {}

\* The offline timeout passes without a sign of life: nobody polls, or the
\* agent's poll interval is longer than the timeout.
TimePasses(i) ==
  /\ Listed(i) /\ rows[i].seen = "fresh"
  /\ ~Alive(i) \/ rows[i].slow
  /\ rows' = [rows EXCEPT ![i].seen = "stale"]
  /\ UNCHANGED <<global, once, minted, admin, command, next, host, spent, met, events>>

SweepOffline ==
  /\ \E i \in Ids : rows[i].status = "online" /\ rows[i].seen = "stale"
  /\ rows' = [i \in Ids |-> IF rows[i].status = "online" /\ rows[i].seen = "stale"
                            THEN [rows[i] EXCEPT !.status = "offline"] ELSE rows[i]]
  /\ UNCHANGED <<global, once, minted, admin, command, next, host, spent, met, events>>

\* AgentEditor: the allowlist may leave out the agent's own address, the poll
\* interval (5 s to an hour) may exceed the timeout.
Edited(r) == {[r EXCEPT !.allowed = ~@], [r EXCEPT !.slow = ~@]}

UpdateAgent(i) ==
  /\ Listed(i)
  /\ \E r \in Edited(rows[i]) : rows' = [rows EXCEPT ![i] = r]
  /\ Event
  /\ UNCHANGED <<global, once, minted, admin, command, next, host, spent, met>>

\* The credential goes with the row; the agent goes on asking in vain.
RemoveAgent(i) ==
  /\ Listed(i)
  /\ rows' = [rows EXCEPT ![i] = NoRow]
  /\ Event
  /\ UNCHANGED <<global, once, minted, admin, command, next, host, spent, met>>

-----------------------------------------------------------------------------
EnrollStep(h) == EnrollCheck(h) \/ ConsumeToken(h) \/ InsertAgent(h) \/ SaveState(h)

Next ==
  \/ \E enable \in BOOLEAN : SetGlobalRead(enable)
  \/ SetGlobalWrite \/ RotateGlobalToken
  \/ OpenGlobalRollout \/ CreateEnrollmentToken \/ TokenExpires
  \/ \E h \in Hosts : Install(h) \/ EnrollStep(h) \/ InsertFails(h) \/ AnswerLost(h)
  \/ \E h \in Hosts : Request(h) \/ Poll(h) \/ SwitchOff(h)
  \/ \E i \in Ids : TimePasses(i) \/ UpdateAgent(i) \/ RemoveAgent(i)
  \/ SweepOffline

\* Handlers go on, the service restarts and asks again, the agent polls, the
\* timer sweeps.
Fairness ==
  /\ \A h \in Hosts : WF_vars(EnrollStep(h)) /\ WF_vars(Request(h)) /\ WF_vars(Poll(h))
  /\ \A i \in Ids : WF_vars(TimePasses(i))
  /\ WF_vars(SweepOffline)

Spec == Init /\ [][Next]_vars /\ Fairness

-----------------------------------------------------------------------------
\* "two concurrent enrollments with the same token cannot both succeed": a
\* one-time token makes one agent at most, also when requests meet, fail or
\* are repeated.
OneAgentPerToken == Cardinality({i \in Ids : rows[i].via = Once}) <= 1

\* Rotating "invalidates it for future rollouts": a token that was rotated out
\* is never accepted again, unless two administrators wrote the setting at the
\* same time (setGlobalEnrollment writes back what it read).
RotatedOut == met \/ ~global.enabled \/ global.token \notin spent

\* An enrollment token admits no more agents than it is meant for.
TokensSound == OneAgentPerToken /\ RotatedOut

\* In the end the list tells the truth: an agent that polls in time is online,
\* and one that has no holder or is locked out is not.
StatusSettles ==
  \A i \in Ids : <>[](Listed(i) /\ ~rows[i].slow =>
                       IF Alive(i) THEN rows[i].status = "online"
                       ELSE rows[i].status # "online")

\* A host whose token stays good becomes an agent: it retries until it has saved
\* a credential.
HostEnrolls ==
  \A h \in Hosts :
    (host[h].pc = "start" /\ MatchesGlobalToken(host[h].token)) ~>
      \/ host[h].key # 0 \/ ~MatchesGlobalToken(host[h].token)
      \/ host[h].pc = "off" \/ next > MaxRows
=============================================================================
