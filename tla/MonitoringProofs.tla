-------------------------- MODULE MonitoringProofs --------------------------
(***************************************************************************)
(* Proofs about what watches over the backups, for any number of hosts,    *)
(* agents, reports' requests, jobs, channels, activities, polls and        *)
(* repositories.                                                           *)
(*                                                                         *)
(* Fleet: a one-time token makes one agent at most, and a global token     *)
(* that was rotated out stays out unless two writes of the setting         *)
(* overlapped.  What entitles a host to a row is the guarded UPDATE of the *)
(* token, which succeeds once; the right it gives is then in one place, a  *)
(* host about to insert or the row it inserted, or lost with an INSERT     *)
(* that failed.  The global tokens are numbers below Once, so no host gets *)
(* past the UPDATE with the one-time token.                                *)
(*                                                                         *)
(* Reports: the cron job follows the row of its report, a removed channel  *)
(* leaves the jobs that named it, and a message agrees with the runs it    *)
(* counted.  Of the syncs that do not overlap one at a time is past        *)
(* unregister, and finds its name free; a removal of a channel that is     *)
(* under way still has to take it out of the jobs in its list.  The totals *)
(* of a message are a fold, which the induction over finite sets reaches   *)
(* that follows from the least element of a set of natural numbers.        *)
(*                                                                         *)
(* Dashboard: the feed shows each activity once and at its end all that    *)
(* was promised, and a row cancelled here stays cancelled.  At most one    *)
(* load is under way that is not an old one; what was promised and is not  *)
(* shown comes after the offset, or is in the page under way, because the  *)
(* activities above a row only become more.                                *)
(*                                                                         *)
(* RepoStats: the chart shows at every instant what the repositories were  *)
(* last found to hold, and at its right edge their cached sizes.  The      *)
(* series is right after each round of the loop, by induction on the       *)
(* readings in their order; the history and the rows agree, but for the    *)
(* recording under way, as long as no two of a repository overlap.         *)
(***************************************************************************)
EXTENDS Fleet, Reports, Dashboard, RepoStats, FiniteSetTheorems, WellFoundedInduction, TLAPS

(* The rows of Fleet, and its hosts.                                         *)
Rights == [enabled : BOOLEAN, token : Nat]
Writes == [pc : {"idle", "set"}, enable : BOOLEAN, read : Nat]
Agent == [status : {"none", "enrolled", "online", "offline"}, seen : {"stale", "fresh"},
          allowed : BOOLEAN, slow : BOOLEAN, via : Nat]
Machine == [pc : {"off", "start", "consume", "insert", "answer", "run", "poll"},
            token : Nat, key : Nat]

(* The setting and the request that writes it.                               *)
SettingType ==
  /\ minted \in Nat /\ minted <= MaxMint
  /\ global \in Rights /\ global.token <= minted
  /\ admin \in Writes /\ admin.read <= minted
  /\ admin.pc = "idle" => admin = Idle
  /\ spent \subseteq Nat /\ \A t \in spent : t <= minted
  /\ met \in BOOLEAN

(* Agents and hosts.                                                         *)
FleetType ==
  /\ command \in Nat
  /\ next \in Nat
  /\ rows \in [Ids -> Agent]
  /\ host \in [Hosts -> Machine]

(* A host that consumed the one-time token and has not inserted its row.     *)
Entitled(h) == host[h].pc = "insert" /\ host[h].token = Once

(* The right to a row that the one-time token gives is in one place at most, *)
(* and nowhere before the token is used.                                     *)
OneRight ==
  /\ once # "used" => /\ \A i \in Ids : rows[i].via # Once
                      /\ \A h \in Hosts : ~Entitled(h)
  /\ \A h, g \in Hosts : Entitled(h) /\ Entitled(g) => h = g
  /\ \A i \in Ids, h \in Hosts : Entitled(h) => rows[i].via # Once
  /\ \A i, j \in Ids : rows[i].via = Once /\ rows[j].via = Once => i = j

(* Unless writes overlapped, a request holds the token that is stored, and   *)
(* that is none of those rotated out.                                        *)
Kept ==
  met \/ (global.token \notin spent /\ (admin.pc = "set" => admin.read = global.token))

(* The inductive invariant of TokensSound.                                   *)
Inv == SettingType /\ FleetType /\ OneRight /\ Kept

-----------------------------------------------------------------------------
(* The one-time token is no global token.                                    *)
LEMMA OnceIsNatural == Once \in Nat /\ Once # 0
BY FleetBounds DEF Once

(* The one-time token never passes for the global one.                       *)
LEMMA OnceIsNotGlobal ==
  ASSUME SettingType
  PROVE  ~MatchesGlobalToken(Once)
BY FleetBounds DEF SettingType, Rights, MatchesGlobalToken, Once

(* A host that only moves on keeps its token and its key.                    *)
LEMMA Moves ==
  ASSUME FleetType, NEW h \in Hosts,
         NEW pc \in {"off", "start", "consume", "insert", "answer", "run", "poll"}, At(h, pc)
  PROVE  /\ host' \in [Hosts -> Machine]
         /\ host'[h].pc = pc /\ host'[h].token = host[h].token
         /\ \A g \in Hosts : g # h => host'[g] = host[g]
BY DEF FleetType, At, Machine

(* Steps that move no host to its INSERT and write no via keep the right     *)
(* where it is.                                                              *)
LEMMA RightStays ==
  ASSUME OneRight,
         once' = "used" <=> once = "used",
         \A h \in Hosts : Entitled(h)' => Entitled(h),
         \A i \in Ids : rows'[i].via = Once => rows[i].via = Once
  PROVE  OneRight'
BY DEF OneRight, Once, Ids

(* An edit of an agent leaves the token it came with alone.                  *)
LEMMA EditedAgent ==
  ASSUME NEW r \in Agent, NEW e \in Edited(r)
  PROVE  e \in Agent /\ e.via = r.via
<1>1. PICK a \in BOOLEAN, b \in BOOLEAN, st \in {"none", "enrolled", "online", "offline"},
           sn \in {"stale", "fresh"}, v \in Nat :
        r = [status |-> st, seen |-> sn, allowed |-> a, slow |-> b, via |-> v]
  BY DEF Agent
<1>2. e = [r EXCEPT !.allowed = ~r.allowed] \/ e = [r EXCEPT !.slow = ~r.slow]
  BY DEF Edited
<1>3. (~r.allowed) \in BOOLEAN /\ (~r.slow) \in BOOLEAN
  BY Zenon
<1>4. \A c \in BOOLEAN :
        /\ [r EXCEPT !.allowed = c] \in Agent /\ [r EXCEPT !.allowed = c].via = r.via
        /\ [r EXCEPT !.slow = c] \in Agent /\ [r EXCEPT !.slow = c].via = r.via
  BY SMT DEF Agent
<1> QED
  BY <1>2, <1>3, <1>4, Zenon

-----------------------------------------------------------------------------
(* Nothing is issued, enrolled or rotated at first.                          *)
LEMMA InitInv == Init => Inv
<1> SUFFICES ASSUME Init PROVE Inv
  OBVIOUS
<1>1. SettingType
  <2>1. global \in Rights /\ global.token = 0
    BY DEF Init, Rights
  <2>2. admin \in Writes /\ admin.read = 0 /\ admin = Idle
    BY DEF Init, Writes, Idle
  <2>3. met \in BOOLEAN
    BY Zenon DEF Init
  <2> QED
    BY FleetBounds, <2>1, <2>2, <2>3 DEF Init, SettingType
<1>2. FleetType
  BY DEF Init, FleetType, Agent, Machine, NoRow, Off
<1>3. OneRight
  BY OnceIsNatural DEF Init, OneRight, Entitled, NoRow, Off
<1>4. Kept
  BY DEF Init, Kept, Idle
<1> QED
  BY <1>1, <1>2, <1>3, <1>4 DEF Inv

(* Steps that write no setting keep what is known of it.                     *)
LEMMA SettingStays ==
  ASSUME SettingType, Kept, UNCHANGED <<global, minted, admin, spent, met>>
  PROVE  SettingType' /\ Kept'
BY DEF SettingType, Kept

(* The requests that write the setting keep the invariant.                   *)
LEMMA SettingWrites ==
  ASSUME Inv, \/ \E enable \in BOOLEAN : SetGlobalRead(enable)
              \/ SetGlobalWrite \/ RotateGlobalToken
  PROVE  Inv'
<1> USE FleetBounds
<1>1. FleetType' /\ OneRight'
  <2>1. UNCHANGED <<command, rows, next, host, once>>
    BY DEF SetGlobalRead, SetGlobalWrite, RotateGlobalToken
  <2> QED
    BY <2>1 DEF Inv, FleetType, OneRight, Entitled
<1>2. ASSUME NEW enable \in BOOLEAN, SetGlobalRead(enable)
      PROVE  SettingType' /\ Kept'
  BY <1>2 DEF Inv, SetGlobalRead, SettingType, Kept, Rights, Writes, Idle
<1>3. CASE SetGlobalWrite
  <2>1. admin' = Idle /\ spent' = spent /\ met' = met
    BY <1>3 DEF SetGlobalWrite
  <2>2. \/ /\ minted' = minted /\ global' = [enabled |-> admin.enable, token |-> admin.read]
        \/ /\ minted < MaxMint /\ minted' = minted + 1
           /\ global' = [enabled |-> admin.enable, token |-> minted + 1]
    BY <1>3 DEF SetGlobalWrite
  <2>3. SettingType'
    BY <2>1, <2>2 DEF Inv, SettingType, Rights, Writes, Idle
  <2>4. Kept'
    BY <1>3, <2>1, <2>2 DEF Inv, Kept, SettingType, Writes, Idle, SetGlobalWrite
  <2> QED
    BY <1>1, <2>3, <2>4 DEF Inv
<1>4. CASE RotateGlobalToken
  <2>1. /\ met' \in BOOLEAN
        /\ met' \/ (~met /\ admin = Idle)
    BY <1>4, Zenon DEF RotateGlobalToken
  <2>2. /\ minted' = minted + 1 /\ minted < MaxMint /\ admin' = admin
        /\ spent' = spent \cup ({global.token} \ {0})
        /\ global' = [enabled |-> TRUE, token |-> minted + 1]
    BY <1>4 DEF RotateGlobalToken
  <2>3. SettingType'
    <3>1. global' \in Rights /\ global'.token <= minted'
      BY <2>2 DEF Inv, SettingType, Rights
    <3>2. spent' \subseteq Nat /\ \A t \in spent' : t <= minted'
      <4> SUFFICES ASSUME NEW t \in spent' PROVE t \in Nat /\ t <= minted'
        BY Zenon
      <4>1. t \in spent \/ t = global.token
        BY <2>2
      <4>2. minted \in Nat /\ global.token \in Nat /\ global.token <= minted
        BY DEF Inv, SettingType, Rights
      <4>3. t \in Nat /\ t <= minted
        BY <4>1, <4>2 DEF Inv, SettingType
      <4> QED
        BY <2>2, <4>2, <4>3
    <3>3. minted' \in Nat /\ minted' <= MaxMint /\ admin'.read <= minted'
      BY <2>2 DEF Inv, SettingType, Writes
    <3> QED
      BY <2>1, <2>2, <3>1, <3>2, <3>3 DEF Inv, SettingType
  <2>4. CASE met'
    BY <1>1, <2>3, <2>4 DEF Inv, Kept
  <2>5. CASE admin = Idle
    <3>1. global'.token \notin spent' /\ admin'.pc # "set"
      BY <2>2, <2>5 DEF Inv, SettingType, Rights, Idle
    <3> QED
      BY <1>1, <2>3, <3>1, Zenon DEF Inv, Kept
  <2> QED
    BY <2>1, <2>4, <2>5
<1> QED
  BY <1>1, <1>2, <1>3, <1>4 DEF Inv

(* The dialogs show a token, or issue or lose the one-time token: none is    *)
(* used by that.                                                             *)
LEMMA Rollouts ==
  ASSUME Inv, OpenGlobalRollout \/ CreateEnrollmentToken \/ TokenExpires
  PROVE  Inv'
<1>1. /\ UNCHANGED <<global, minted, admin, rows, next, host, spent, met>>
      /\ command' \in Nat
      /\ once' = "used" <=> once = "used"
  BY OnceIsNatural DEF Inv, SettingType, FleetType, Rights, OpenGlobalRollout, TokenRollout,
     CreateEnrollmentToken, TokenExpires, GlobalEnrollmentInfo
<1>2. SettingType' /\ Kept'
  BY <1>1, SettingStays DEF Inv
<1>3. FleetType'
  BY <1>1 DEF Inv, FleetType
<1>4. OneRight'
  BY <1>1, RightStays DEF Inv, Entitled
<1> QED
  BY <1>2, <1>3, <1>4 DEF Inv

(* The steps of one host keep the invariant; the UPDATE that consumes the    *)
(* token is where the right begins, the INSERT where it changes hands.       *)
LEMMA HostSteps ==
  ASSUME Inv, NEW h \in Hosts,
         \/ Install(h) \/ EnrollStep(h) \/ InsertFails(h) \/ AnswerLost(h)
         \/ Request(h) \/ Poll(h) \/ SwitchOff(h)
  PROVE  Inv'
<1> USE OnceIsNatural
<1>1. SettingType' /\ Kept'
  <2>1. UNCHANGED <<global, minted, admin, spent, met>>
    BY DEF Install, EnrollStep, EnrollCheck, ConsumeToken, InsertAgent, SaveState, InsertFails,
       AnswerLost, Request, Poll, SwitchOff
  <2> QED
    BY <2>1, SettingStays DEF Inv
<1>2. CASE Install(h)
  <2>1. /\ host' \in [Hosts -> Machine] /\ host'[h].pc = "start"
        /\ \A g \in Hosts : g # h => host'[g] = host[g]
    BY <1>2 DEF Install, Inv, FleetType, Machine
  <2>2. UNCHANGED <<rows, next, once, command>>
    BY <1>2 DEF Install
  <2>3. \A g \in Hosts : Entitled(g)' => Entitled(g)
    BY <2>1 DEF Entitled, Once
  <2>4. OneRight'
    BY <2>2, <2>3, RightStays DEF Inv
  <2> QED
    BY <1>1, <2>1, <2>2, <2>4 DEF Inv, FleetType
<1>3. ASSUME NEW pc \in {"off", "start", "consume", "answer", "run", "poll"}, At(h, pc),
             UNCHANGED <<rows, next, once, command>>
      PROVE  Inv'
  <2>1. /\ host' \in [Hosts -> Machine] /\ host'[h].pc = pc
        /\ \A g \in Hosts : g # h => host'[g] = host[g]
    BY <1>3, Moves DEF Inv
  <2>2. \A g \in Hosts : Entitled(g)' => Entitled(g)
    BY <2>1 DEF Entitled, Once
  <2>3. OneRight'
    BY <1>3, <2>2, RightStays DEF Inv
  <2> QED
    BY <1>1, <1>3, <2>1, <2>3 DEF Inv, FleetType
<1>4. CASE EnrollCheck(h)
  <2>1. CASE MatchesGlobalToken(host[h].token)
    <3>1. /\ host' \in [Hosts -> Machine] /\ host'[h].token = host[h].token
          /\ \A g \in Hosts : g # h => host'[g] = host[g]
      BY <1>4, <2>1, Moves DEF EnrollCheck, Inv
    <3>2. UNCHANGED <<rows, next, once, command>>
      BY <1>4 DEF EnrollCheck
    <3>3. host[h].token # Once
      BY <2>1, OnceIsNotGlobal DEF Inv
    <3>4. \A g \in Hosts : Entitled(g)' => Entitled(g)
      BY <3>1, <3>3 DEF Entitled, Once
    <3>5. OneRight'
      BY <3>2, <3>4, RightStays DEF Inv
    <3> QED
      BY <1>1, <3>1, <3>2, <3>5 DEF Inv, FleetType
  <2>2. CASE ~MatchesGlobalToken(host[h].token)
    BY <1>3, <1>4, <2>2 DEF EnrollCheck
  <2> QED
    BY <2>1, <2>2
<1>5. CASE ConsumeToken(h)
  <2>1. CASE once = "used"
    BY <1>3, <1>5, <2>1 DEF ConsumeToken
  <2>2. CASE once # "used"
    <3>1. /\ host' \in [Hosts -> Machine] /\ host'[h].token = host[h].token
          /\ \A g \in Hosts : g # h => host'[g] = host[g]
      BY <1>5, <2>2, Moves DEF ConsumeToken, Inv
    <3>2. UNCHANGED <<rows, next, command>> /\ once' = "used"
      BY <1>5, <2>2 DEF ConsumeToken
    <3>3. /\ \A i \in Ids : rows'[i].via # Once
          /\ \A g \in Hosts : g # h => ~Entitled(g)'
      BY <2>2, <3>1, <3>2 DEF Inv, OneRight, Entitled, Once
    <3>4. OneRight'
      BY <3>2, <3>3 DEF OneRight, Once, Ids
    <3> QED
      BY <1>1, <3>1, <3>2, <3>4 DEF Inv, FleetType
  <2> QED
    BY <2>1, <2>2
<1>6. CASE InsertAgent(h)
  <2>1. /\ host' \in [Hosts -> Machine] /\ host'[h].pc = "answer"
        /\ \A g \in Hosts : g # h => host'[g] = host[g]
        /\ next' \in Nat
    <3>1. host' = [host EXCEPT ![h] = [[host[h] EXCEPT !.pc = "answer"] EXCEPT !.key = next]]
      BY <1>6 DEF InsertAgent, Inv, FleetType, Machine
    <3>2. [[host[h] EXCEPT !.pc = "answer"] EXCEPT !.key = next] \in Machine
      BY DEF Inv, FleetType, Machine
    <3> QED
      BY <1>6, <3>1, <3>2 DEF InsertAgent, Inv, FleetType, Machine
  <2> DEFINE new == [NoRow EXCEPT !.status = "enrolled", !.via = host[h].token]
  <2>2. new \in Agent /\ new.via = host[h].token
    <3>1. new = [[NoRow EXCEPT !.status = "enrolled"] EXCEPT !.via = host[h].token]
      BY Zenon
    <3>2. NoRow \in Agent
      BY DEF NoRow, Agent
    <3>3. host[h].token \in Nat
      BY DEF Inv, FleetType, Machine
    <3>4. \A r \in Agent, t \in Nat :
             /\ [[r EXCEPT !.status = "enrolled"] EXCEPT !.via = t] \in Agent
             /\ [[r EXCEPT !.status = "enrolled"] EXCEPT !.via = t].via = t
      BY DEF Agent
    <3> QED
      BY <3>1, <3>2, <3>3, <3>4
  <2> HIDE DEF new
  <2>3. rows' = [rows EXCEPT ![next] = new] /\ UNCHANGED <<once, command>>
        /\ host[h].pc = "insert"
    BY <1>6 DEF InsertAgent, new
  <2>4. rows' \in [Ids -> Agent]
        /\ \A i \in Ids : rows'[i] = IF i = next THEN new ELSE rows[i]
    BY <2>2, <2>3 DEF Inv, FleetType
  <2>5. \A g \in Hosts : Entitled(g)' => Entitled(g) /\ g # h
    BY <2>1 DEF Entitled, Once
  <2>6. CASE host[h].token = Once
    <3>1. Entitled(h)
      BY <2>3, <2>6 DEF Entitled
    <3>2. /\ \A i \in Ids : rows[i].via # Once
          /\ \A g \in Hosts : ~Entitled(g)'
          /\ once' = "used"
      BY <2>3, <2>5, <3>1 DEF Inv, OneRight
    <3> QED
      BY <1>1, <2>1, <2>3, <2>4, <3>2 DEF Inv, FleetType, OneRight, Once, Ids
  <2>7. CASE host[h].token # Once
    <3>1. \A i \in Ids : rows'[i].via = Once => rows[i].via = Once
      BY <2>2, <2>4, <2>7
    <3>2. OneRight'
      BY <2>3, <2>5, <3>1, RightStays DEF Inv
    <3> QED
      BY <1>1, <2>1, <2>3, <2>4, <3>2 DEF Inv, FleetType
  <2> QED
    BY <2>6, <2>7
<1>7. CASE AnswerLost(h)
  <2>1. /\ host' \in [Hosts -> Machine] /\ host'[h].pc = "start"
        /\ \A g \in Hosts : g # h => host'[g] = host[g]
    BY <1>7 DEF AnswerLost, Inv, FleetType, Machine
  <2>2. UNCHANGED <<rows, next, once, command>>
    BY <1>7 DEF AnswerLost
  <2>3. \A g \in Hosts : Entitled(g)' => Entitled(g)
    BY <2>1 DEF Entitled, Once
  <2>4. OneRight'
    BY <2>2, <2>3, RightStays DEF Inv
  <2> QED
    BY <1>1, <2>1, <2>2, <2>4 DEF Inv, FleetType
<1>8. CASE Poll(h)
  <2>1. /\ host' \in [Hosts -> Machine] /\ host'[h].pc = "run"
        /\ \A g \in Hosts : g # h => host'[g] = host[g]
    BY <1>8, Moves DEF Poll, Inv
  <2>2. UNCHANGED <<next, once, command>>
    BY <1>8 DEF Poll
  <2>3. rows' \in [Ids -> Agent] /\ \A i \in Ids : rows'[i].via = rows[i].via
    <3>1. \A r \in Agent : Seen(r) \in Agent /\ Seen(r).via = r.via
      BY DEF Agent, Seen
    <3>2. rows' = rows \/ rows' = [rows EXCEPT ![host[h].key] = Seen(rows[host[h].key])]
      BY <1>8 DEF Poll
    <3> QED
      BY <3>1, <3>2 DEF Inv, FleetType
  <2>4. \A g \in Hosts : Entitled(g)' => Entitled(g)
    BY <2>1 DEF Entitled, Once
  <2>5. OneRight'
    BY <2>2, <2>3, <2>4, RightStays DEF Inv
  <2> QED
    BY <1>1, <2>1, <2>2, <2>3, <2>5 DEF Inv, FleetType
<1>9. CASE SaveState(h) \/ InsertFails(h) \/ Request(h) \/ SwitchOff(h)
  BY <1>3, <1>9 DEF SaveState, InsertFails, Request, SwitchOff
<1> QED
  BY <1>2, <1>4, <1>5, <1>6, <1>7, <1>8, <1>9 DEF EnrollStep

(* Time, the sweep and the administrator's edits keep the token an agent     *)
(* came with, or remove it with the agent.                                   *)
LEMMA RowSteps ==
  ASSUME Inv, \/ \E i \in Ids : TimePasses(i) \/ UpdateAgent(i) \/ RemoveAgent(i)
              \/ SweepOffline
  PROVE  Inv'
<1>1. UNCHANGED <<global, once, minted, admin, command, next, host, spent, met>>
  BY DEF TimePasses, UpdateAgent, RemoveAgent, SweepOffline
<1>2. SettingType' /\ Kept'
  BY <1>1, SettingStays DEF Inv
<1>3. rows' \in [Ids -> Agent] /\ \A i \in Ids : rows'[i].via = Once => rows[i].via = Once
  <2>1. ASSUME NEW i \in Ids, NEW r \in Agent, r.via \in {rows[i].via, 0},
               rows' = [rows EXCEPT ![i] = r]
        PROVE  /\ rows' \in [Ids -> Agent]
               /\ \A j \in Ids : rows'[j].via = Once => rows[j].via = Once
    BY <2>1, OnceIsNatural DEF Inv, FleetType
  <2>2. ASSUME NEW i \in Ids, TimePasses(i)
        PROVE  <1>3!:
    <3>1. \A r \in Agent : [r EXCEPT !.seen = "stale"] \in Agent
                           /\ [r EXCEPT !.seen = "stale"].via = r.via
      BY DEF Agent
    <3>2. rows[i] \in Agent
      BY DEF Inv, FleetType
    <3> QED
      BY <2>1, <2>2, <3>1, <3>2 DEF TimePasses
  <2>3. ASSUME NEW i \in Ids, UpdateAgent(i)
        PROVE  <1>3!:
    <3>1. rows[i] \in Agent
      BY DEF Inv, FleetType
    <3>2. PICK r \in Edited(rows[i]) : rows' = [rows EXCEPT ![i] = r]
      BY <2>3 DEF UpdateAgent
    <3>3. r \in Agent /\ r.via = rows[i].via
      BY <3>1, <3>2, EditedAgent
    <3> QED
      BY <2>1, <3>2, <3>3
  <2>4. ASSUME NEW i \in Ids, RemoveAgent(i)
        PROVE  <1>3!:
    <3>1. NoRow \in Agent /\ NoRow.via = 0
      BY DEF NoRow, Agent
    <3> QED
      BY <2>1, <2>4, <3>1 DEF RemoveAgent
  <2>5. CASE SweepOffline
    <3>1. \A r \in Agent : [r EXCEPT !.status = "offline"] \in Agent
                           /\ [r EXCEPT !.status = "offline"].via = r.via
      BY DEF Agent
    <3> QED
      BY <2>5, <3>1 DEF SweepOffline, Inv, FleetType
  <2> QED
    BY <2>2, <2>3, <2>4, <2>5
<1>4. OneRight'
  BY <1>1, <1>3, RightStays DEF Inv, Entitled
<1> QED
  BY <1>1, <1>2, <1>3, <1>4 DEF Inv, FleetType

(* Every step keeps the invariant.                                           *)
LEMMA StepInv == Inv /\ [Next]_vars => Inv'
<1> SUFFICES ASSUME Inv, [Next]_vars PROVE Inv'
  OBVIOUS
<1>1. CASE UNCHANGED vars
  BY <1>1 DEF vars, Inv, SettingType, FleetType, OneRight, Entitled, Kept
<1>2. CASE Next
  BY <1>2, SettingWrites, Rollouts, HostSteps, RowSteps DEF Next
<1> QED
  BY <1>1, <1>2

(* AgentsService.enroll and rotateGlobalToken: a one-time token makes one    *)
(* agent at most however its enrollments meet, fail or are repeated, and a   *)
(* token that was rotated out is not accepted again unless two               *)
(* administrators wrote the setting at the same time.                        *)
THEOREM TokensAdmitNoMore == Spec => []TokensSound
<1>1. Inv => TokensSound
  <2> SUFFICES ASSUME Inv PROVE TokensSound
    OBVIOUS
  <2>1. OneAgentPerToken
    <3> DEFINE S == {i \in Ids : rows[i].via = Once}
    <3>1. CASE S = {}
      BY <3>1, FS_EmptySet DEF OneAgentPerToken
    <3>2. ASSUME NEW i \in S PROVE Cardinality(S) <= 1
      <4>1. S = {i}
        BY <3>2 DEF Inv, OneRight
      <4>2. Cardinality({i}) = 1
        BY FS_Singleton
      <4> HIDE DEF S
      <4> QED
        BY <4>1, <4>2
    <3> QED
      BY <3>1, <3>2 DEF OneAgentPerToken
  <2>2. RotatedOut
    BY DEF Inv, Kept, RotatedOut
  <2> QED
    BY <2>1, <2>2 DEF TokensSound
<1> QED
  BY <1>1, InitInv, StepInv, PTL DEF Spec

-----------------------------------------------------------------------------
(* Induction                                                                 *)

(* A set of natural numbers has a least element.                             *)
LEMMA Least ==
  ASSUME NEW S, S \subseteq Nat, S # {}
  PROVE  \E m \in S : \A n \in S : m <= n
<1>1. PICK x \in S : \A y \in S : ~(<<y, x>> \in OpToRel(<, Nat))
  BY NatLessThanWellFounded, WFMin
<1>2. ASSUME NEW y \in S PROVE x <= y
  <2>1. ~(<<y, x>> \in {ss \in Nat \X Nat : ss[1] < ss[2]}) BY <1>1 DEF OpToRel
  <2> QED BY <2>1
<1> QED BY <1>2

(* Induction over the natural numbers, with the property as a set.           *)
LEMMA Induction ==
  ASSUME NEW S, 0 \in S, \A n \in Nat : n \in S => n + 1 \in S
  PROVE  Nat \subseteq S
<1> SUFFICES ASSUME Nat \ S # {} PROVE FALSE
  OBVIOUS
<1>1. PICK m \in Nat \ S : \A n \in Nat \ S : m <= n BY Least
<1>2. m # 0 BY <1>1
<1>3. m - 1 \in Nat BY <1>2
<1>4. m - 1 \in S BY <1>1, <1>3
<1>5. (m - 1) + 1 \in S BY <1>3, <1>4
<1> QED BY <1>5

(* Induction over the finite subsets of a set.                               *)
LEMMA SetInduction ==
  ASSUME NEW S, IsFiniteSet(S), NEW P \in SUBSET (SUBSET S),
         {} \in P,
         \A s \in SUBSET S : s # {} /\ (\A x \in s : s \ {x} \in P) => s \in P
  PROVE  S \in P
<1> DEFINE N == {n \in Nat : \A s \in SUBSET S : Cardinality(s) = n => s \in P}
<1>1. 0 \in N
  <2> SUFFICES ASSUME NEW s \in SUBSET S, Cardinality(s) = 0 PROVE s \in P
    OBVIOUS
  <2>1. IsFiniteSet(s) BY FS_Subset
  <2> QED BY <2>1, FS_EmptySet
<1>2. ASSUME NEW n \in Nat, n \in N PROVE n + 1 \in N
  <2> SUFFICES ASSUME NEW s \in SUBSET S, Cardinality(s) = n + 1 PROVE s \in P
    OBVIOUS
  <2>1. IsFiniteSet(s) BY FS_Subset
  <2>2. s # {}
    <3>1. Cardinality({}) = 0 BY FS_EmptySet
    <3>2. n + 1 # 0 OBVIOUS
    <3> QED BY <3>1, <3>2
  <2>4. ASSUME NEW x \in s PROVE Cardinality(s \ {x}) = n
    <3>1. Cardinality(s \ {x}) = Cardinality(s) - 1 BY <2>1, FS_RemoveElement
    <3>2. (n + 1) - 1 = n OBVIOUS
    <3> QED BY <3>1, <3>2
  <2>5. \A x \in s : s \ {x} \in P BY <2>4, <1>2
  <2> QED BY <2>2, <2>5
<1>3. Nat \subseteq N
  <2> HIDE DEF N
  <2> QED BY <1>1, <1>2, Induction
<1>4. Cardinality(S) \in Nat BY FS_CardinalityType
<1> QED BY <1>3, <1>4

(* The sum, over the places of a list, of the numbers of what it holds.       *)
SumOf(counts, list, k, S) == MapThenSumSet(LAMBDA n : counts[list[n]][k], S)

(* The members of sets that belong to places of a list, each with its place.  *)
PairsOf(places, members, due) ==
  {x \in places \X members : x[2] \in due[x[1]]}

(* A sum over a finite set is built by recursion over its subsets.            *)
SumsUp(g, S, f) ==
  g = [s \in SUBSET S |->
         IF s = {} THEN 0
         ELSE f[CHOOSE x \in s : TRUE] + g[s \ {CHOOSE x \in s : TRUE}]]

(* Such a function exists for the subsets of each size, and so for all.       *)
LEMMA SetRecursion ==
  ASSUME NEW S, IsFiniteSet(S), NEW f
  PROVE  \E g : SumsUp(g, S, f)
<1> DEFINE F(g, s) == IF s = {} THEN 0
                      ELSE f[CHOOSE x \in s : TRUE] + g[s \ {CHOOSE x \in s : TRUE}]
           Below(n) == {s \in SUBSET S : Cardinality(s) <= n}
           D == {n \in Nat : \E g : g = [s \in Below(n) |-> F(g, s)]}
<1>1. 0 \in D
  <2> DEFINE g == [s \in Below(0) |-> 0]
  <2>1. ASSUME NEW s \in Below(0) PROVE s = {}
    <3>1. IsFiniteSet(s) BY FS_Subset
    <3>2. Cardinality(s) \in Nat BY <3>1, FS_CardinalityType
    <3> QED BY <3>1, <3>2, FS_EmptySet
  <2>2. g = [s \in Below(0) |-> F(g, s)] BY <2>1
  <2> QED BY <2>2
<1>2. ASSUME NEW n \in Nat, n \in D PROVE n + 1 \in D
  <2>1. PICK g : g = [s \in Below(n) |-> F(g, s)] BY <1>2
  <2> DEFINE h == [s \in Below(n + 1) |-> F(g, s)]
  <2>2. ASSUME NEW s \in Below(n + 1), s # {}
        PROVE  s \ {CHOOSE x \in s : TRUE} \in Below(n)
    <3>1. IsFiniteSet(s) BY FS_Subset
    <3>2. PICK x : x = (CHOOSE y \in s : TRUE) /\ x \in s BY <2>2
    <3>3. Cardinality(s \ {x}) = Cardinality(s) - 1 BY <3>1, <3>2, FS_RemoveElement
    <3>4. Cardinality(s) \in Nat BY <3>1, FS_CardinalityType
    <3>5. s \ {x} \in SUBSET S /\ Cardinality(s) <= n + 1 OBVIOUS
    <3>6. Cardinality(s \ {x}) <= n BY <3>3, <3>4, <3>5
    <3> QED BY <3>2, <3>5, <3>6
  <2>3. ASSUME NEW s \in Below(n) PROVE s \in Below(n + 1) /\ h[s] = g[s]
    <3>1. IsFiniteSet(s) BY FS_Subset
    <3>2. Cardinality(s) \in Nat BY <3>1, FS_CardinalityType
    <3>3. s \in Below(n + 1) BY <3>2
    <3>4. h[s] = F(g, s) BY <3>3
    <3>5. g[s] = F(g, s) BY <2>1
    <3> QED BY <3>3, <3>4, <3>5
  <2>4. ASSUME NEW s \in Below(n + 1) PROVE F(g, s) = F(h, s)
    <3> HIDE DEF h
    <3> QED BY <2>2, <2>3
  <2>5. h = [s \in Below(n + 1) |-> F(h, s)]
    <3> HIDE DEF F, Below
    <3> QED BY <2>4
  <2> HIDE DEF F, Below, h
  <2> QED BY <2>5
<1>3. Nat \subseteq D
  <2> HIDE DEF D
  <2> QED BY <1>1, <1>2, Induction
<1>4. Cardinality(S) \in Nat BY FS_CardinalityType
<1>5. Below(Cardinality(S)) = SUBSET S BY FS_Subset
<1>6. \E g : g = [s \in SUBSET S |-> F(g, s)]
  <2>1. Cardinality(S) \in D BY <1>3, <1>4
  <2> HIDE DEF F, Below
  <2> QED BY <2>1, <1>5
<1>7. \A g : SumsUp(g, S, f) <=> g = [s \in SUBSET S |-> F(g, s)] BY DEF SumsUp
<1> HIDE DEF F
<1> QED BY <1>6, <1>7

(* The pairs of one place more are as many more as that place has members.    *)
LEMMA PairsGrow ==
  ASSUME NEW s, IsFiniteSet(s), NEW y \in s, NEW R, IsFiniteSet(R),
         NEW due, due[y] \subseteq R
  PROVE  /\ IsFiniteSet(PairsOf(s, R, due))
         /\ Cardinality(PairsOf(s, R, due)) =
              Cardinality(PairsOf(s \ {y}, R, due)) + Cardinality(due[y])
<1> DEFINE A == PairsOf(s \ {y}, R, due)
           B == {y} \X due[y]
           f == [i \in due[y] |-> <<y, i>>]
<1>1. PairsOf(s, R, due) = A \cup B BY DEF PairsOf
<1>2. A \cap B = {} BY DEF PairsOf
<1>3. IsFiniteSet(s \X R) BY FS_Product
<1>4. IsFiniteSet(A)
  <2>1. A \subseteq s \X R BY DEF PairsOf
  <2> HIDE DEF A
  <2> QED BY <1>3, <2>1, FS_Subset
<1>5. IsFiniteSet(due[y]) BY FS_Subset
<1>6. f \in Bijection(due[y], B)
  <2>1. \A i \in due[y] : f[i] = <<y, i>> OBVIOUS
  <2>2. \A i, k \in due[y] : f[i] = f[k] => i = k BY <2>1
  <2>3. \A x \in B : \E i \in due[y] : f[i] = x BY <2>1
  <2>4. f \in [due[y] -> B] OBVIOUS
  <2> HIDE DEF f, B
  <2> QED BY <2>2, <2>3, <2>4 DEF Bijection, Injection, Surjection, IsInjective
<1>7. IsFiniteSet(B) /\ Cardinality(B) = Cardinality(due[y])
  <2> HIDE DEF f, B
  <2>1. ExistsBijection(due[y], B) BY <1>6 DEF ExistsBijection
  <2> QED BY <1>5, <2>1, FS_Bijection
<1>8. Cardinality(A) \in Nat /\ Cardinality(due[y]) \in Nat
  <2> HIDE DEF A
  <2> QED BY <1>4, <1>5, FS_CardinalityType
<1> HIDE DEF A, B
<1>9. /\ IsFiniteSet(A \cup B)
      /\ Cardinality(A \cup B) = Cardinality(A) + Cardinality(B) - Cardinality(A \cap B)
  <2>1. IsFiniteSet(A) /\ IsFiniteSet(B) BY <1>4, <1>7
  <2> QED BY <2>1, FS_Union
<1>10. Cardinality({}) = 0 BY FS_EmptySet
<1>11. Cardinality(A \cap B) = 0 BY <1>2, <1>10
<1>12. Cardinality(A \cup B) = Cardinality(A) + Cardinality(due[y]) BY <1>7, <1>8, <1>9, <1>11
<1> QED BY <1>1, <1>9, <1>12 DEF A

(* A sum of sizes is the number of members, each counted with its place.      *)
LEMMA SumOfCounts ==
  ASSUME NEW S, IsFiniteSet(S), NEW R, IsFiniteSet(R), NEW counts, NEW list, NEW k, NEW due,
         \A n \in S : due[n] \subseteq R /\ counts[list[n]][k] = Cardinality(due[n])
  PROVE  /\ SumOf(counts, list, k, S) = Cardinality(PairsOf(S, R, due))
         /\ IsFiniteSet(PairsOf(S, R, due))
<1> DEFINE F(g, s) ==
             IF s = {} THEN 0
             ELSE counts[list[CHOOSE x \in s : TRUE]][k] + g[s \ {CHOOSE x \in s : TRUE}]
           it == CHOOSE g : g = [s \in SUBSET S |-> F(g, s)]
<1>1. SumOf(counts, list, k, S) = it[S]
  BY DEF SumOf, MapThenSumSet, MapThenFoldSet
<1>2. it = [s \in SUBSET S |-> F(it, s)]
  <2> DEFINE f == [n \in S |-> counts[list[n]][k]]
  <2>1. PICK g : SumsUp(g, S, f) BY SetRecursion
  <2>2. ASSUME NEW s \in SUBSET S PROVE g[s] = F(g, s)
    <3>1. CASE s = {} BY <2>1, <3>1 DEF SumsUp
    <3>2. CASE s # {}
      <4>1. PICK y : y = (CHOOSE z \in s : TRUE) /\ y \in s BY <3>2
      <4>2. g[s] = f[y] + g[s \ {y}] BY <2>1, <3>2, <4>1 DEF SumsUp
      <4> QED BY <3>2, <4>1, <4>2
    <3> QED BY <3>1, <3>2
  <2>3. g = [s \in SUBSET S |-> g[s]] BY <2>1 DEF SumsUp
  <2> HIDE DEF F
  <2>4. g = [s \in SUBSET S |-> F(g, s)] BY <2>2, <2>3
  <2> QED BY <2>4
<1> DEFINE P == {s \in SUBSET S : /\ it[s] = Cardinality(PairsOf(s, R, due))
                                  /\ IsFiniteSet(PairsOf(s, R, due))}
<1>3. {} \in P
  <2>1. it[{}] = F(it, {}) BY <1>2
  <2>2. PairsOf({}, R, due) = {} BY DEF PairsOf
  <2>3. it[{}] = 0 BY <2>1
  <2> HIDE DEF it, F
  <2> QED BY <2>2, <2>3, FS_EmptySet
<1>4. ASSUME NEW s \in SUBSET S, s # {}, \A y \in s : s \ {y} \in P PROVE s \in P
  <2>1. PICK y : y = (CHOOSE z \in s : TRUE) /\ y \in s BY <1>4
  <2>2. it[s] = F(it, s) BY <1>2
  <2>3. it[s] = counts[list[y]][k] + it[s \ {y}] BY <2>1, <2>2
  <2> HIDE DEF it, F
  <2>4. it[s \ {y}] = Cardinality(PairsOf(s \ {y}, R, due)) BY <1>4, <2>1
  <2>5. IsFiniteSet(s) BY FS_Subset
  <2>6. due[y] \subseteq R /\ counts[list[y]][k] = Cardinality(due[y]) BY <2>1
  <2>7. /\ IsFiniteSet(PairsOf(s, R, due))
        /\ Cardinality(PairsOf(s, R, due)) =
             Cardinality(PairsOf(s \ {y}, R, due)) + Cardinality(due[y])
    <3> HIDE DEF P
    <3>1. y \in s /\ due[y] \subseteq R BY <2>1, <2>6
    <3> QED BY <2>5, <3>1, PairsGrow
  <2>8. IsFiniteSet(due[y]) BY <2>6, FS_Subset
  <2>9. IsFiniteSet(PairsOf(s \ {y}, R, due)) BY <1>4, <2>1
  <2>10. Cardinality(due[y]) \in Nat /\ Cardinality(PairsOf(s \ {y}, R, due)) \in Nat
    BY <2>8, <2>9, FS_CardinalityType
  <2>11. it[s] = Cardinality(PairsOf(s, R, due)) BY <2>3, <2>4, <2>6, <2>7, <2>10
  <2> QED BY <2>7, <2>11
<1>5. S \in P
  <2>1. P \in SUBSET (SUBSET S) OBVIOUS
  <2>2. \A s \in SUBSET S : s # {} /\ (\A x \in s : s \ {x} \in P) => s \in P BY <1>4
  <2> HIDE DEF P
  <2> QED BY <1>3, <2>1, <2>2, SetInduction
<1> QED BY <1>1, <1>5

-----------------------------------------------------------------------------
(* The report as it is stored.                                               *)
RowShape ==
  /\ report = [live |-> report.live, enabled |-> report.enabled, expr |-> report.expr,
               channels |-> report.channels, dataset |-> report.dataset, last |-> report.last]
  /\ report.dataset \in Datasets

(* Channels and the jobs that name them.                                     *)
JobShape ==
  /\ chan \in [Channels -> {"on", "off", "gone"}]
  /\ jobs \subseteq Jobs
  /\ notify \in [Jobs -> SUBSET Channels]
  /\ wanted \in [Jobs -> SUBSET Channels]
  /\ raced = [sync |-> raced.sync, jobs |-> raced.jobs]

(* A request takes these forms, one after the other.                         *)
Shaped(x) ==
  /\ x.pc \in {"new", "done", "unregister", "row", "register", "sending", "jobs", "prune",
               "answered"}
  /\ x.pc = "new" => x = New
  /\ x.pc = "done" => x = Done
  /\ x.pc = "unregister" => x = [pc |-> "unregister", kind |-> x.kind]
  /\ x.pc = "row" => x = [pc |-> "row", kind |-> x.kind]
  /\ x.pc = "jobs" => x = [pc |-> "jobs", kind |-> "drop", chan |-> x.chan]
  /\ x.pc = "prune" => /\ x = [pc |-> "prune", kind |-> "drop", chan |-> x.chan,
                               notify |-> x.notify, todo |-> x.todo]
                       /\ x.todo \subseteq Jobs
                       /\ \A j \in x.todo : x.notify[j] \subseteq Channels
  /\ x.pc \in {"jobs", "prune"} => x.chan \in Channels

(* Every request has one of these forms.                                     *)
RequestShape == req = [q \in Requests |-> req[q]] /\ \A q \in Requests : Shaped(req[q])

(* Only a request that sends the report now waits for its generation.        *)
Waits ==
  gen.pc # "idle" => gen.by = None \/ (gen.by \in Requests /\ req[gen.by].pc = "sending")

(* The generation under way counts runs of jobs that exist or existed.       *)
GenShape ==
  /\ gen.pc \in {"idle", "read", "count", "names", "channels", "deliver"}
  /\ gen.pc = "idle" => gen = NoGen
  /\ gen.pc \in {"names", "channels"} =>
       /\ gen = [pc |-> gen.pc, by |-> gen.by, rep |-> gen.rep, seen |-> gen.seen,
                 named |-> gen.named, counts |-> gen.counts]
       /\ IsFiniteSet(DOMAIN gen.seen)
  /\ gen.pc = "deliver" => gen = [pc |-> "deliver", by |-> gen.by, rep |-> gen.rep,
                                  left |-> gen.left, status |-> gen.status]
  /\ gen.pc \in {"count", "names", "channels"} =>
       gen.rep.dataset \in Datasets

(* The shape of the state.                                                   *)
ReportShape == RowShape /\ JobShape /\ RequestShape /\ GenShape /\ Waits

(* A save or a removal has yet to clear the registration.                    *)
Clearing == \E q \in Requests : req[q].pc = "unregister"

(* Syncs that did not overlap: one at a time is past unregister, and finds   *)
(* the name free; what it registers, or has registered, is what the row asks *)
(* for, unless a save or a removal will sync again.                          *)
Synced ==
  /\ \A q, o \in Requests : Syncing(q) /\ Syncing(o) => q = o
  /\ \A q \in Requests : Syncing(q) => cron = None
  /\ ~Clearing => /\ \A q \in Requests : req[q].pc = "register" => req[q].expr = Found
                  /\ (\A q \in Requests : ~Syncing(q)) => cron = Found

(* A removal that has yet to unregister has removed the row.                 *)
Removed ==
  \A q \in Requests : req[q].pc = "unregister" /\ req[q].kind = "remove" => ~report.live

(* What keeps the cron job in step with the row.                             *)
Scheduled == Removed /\ (~raced.sync => Synced)

(* A removal of a channel that has yet to take it out of this job.           *)
Prunes(q) == req[q].pc \in {"jobs", "prune"}
(* This one has.                                                             *)
Drops(q, c, j) ==
  /\ Prunes(q) /\ req[q].chan = c
  /\ req[q].pc = "prune" => j \in req[q].todo
(* Some removal has.                                                         *)
Open(c, j) == \E q \in Requests : Drops(q, c, j)

(* Each removal under way is of a channel of its own that is gone.           *)
Distinct ==
  /\ \A q \in Requests : Prunes(q) => chan[req[q].chan] = "gone"
  /\ \A q, o \in Requests : q # o /\ Prunes(q) /\ Prunes(o) => req[q].chan # req[o].chan

(* Removals that write back at the same time are noted, and one that is      *)
(* alone still has what the jobs name.                                       *)
ReadRight ==
  /\ \A q, o \in Requests :
       q # o /\ req[q].pc = "prune" /\ req[o].pc = "prune" => jobs \subseteq raced.jobs
  /\ \A q \in Requests, j \in jobs \ raced.jobs :
       req[q].pc = "prune" /\ j \in req[q].todo => req[q].notify[j] = notify[j]

(* A job names the channels wanted, and those still to be taken out.         *)
Pruned ==
  \A j \in jobs \ raced.jobs : wanted[j] = {c \in notify[j] : ~Open(c, j)}

(* The runs a message must count for a job and an outcome.                   *)
Due(g, j, s) ==
  {i \in DOMAIN g.seen : /\ g.seen[i].job = j /\ g.seen[i].status = s
                         /\ g.seen[i].age < g.rep.dataset.window}

(* What was counted agrees with the runs the query found.                    *)
CountsRight ==
  gen.pc \in {"names", "channels"} =>
    \A j \in Selects(gen.rep.dataset), s \in gen.rep.dataset.statuses :
      /\ gen.counts[j][s] = Cardinality(Due(gen, j, s))
      /\ Due(gen, j, s) # {} => j \in gen.named

(* The inductive invariant of ReferencesFollow.                              *)
ReferencesInv == ReportShape /\ Scheduled /\ Distinct /\ ReadRight /\ Pruned
(* The same for MessageSound.                                                *)
MessageInv == ReportShape /\ CountsRight

-----------------------------------------------------------------------------
(* Nothing is under way when the server starts.                              *)
LEMMA InitReports == ReportInit => ReferencesInv /\ MessageInv
<1> SUFFICES ASSUME ReportInit PROVE ReferencesInv /\ MessageInv
  OBVIOUS
<1> USE DEF ReportInit
<1>1. RowShape BY DEF RowShape
<1>2. JobShape BY DEF JobShape
<1>3. RequestShape /\ \A q \in Requests : req[q].pc = "new" BY DEF RequestShape, Shaped, New, Done
<1>4. GenShape /\ Waits /\ gen.pc = "idle" BY DEF GenShape, Waits, NoGen
<1>5. Scheduled BY <1>3 DEF Scheduled, Removed, Synced, Clearing, Syncing, Found
<1>6. Distinct /\ ReadRight BY <1>3 DEF Distinct, ReadRight, Prunes
<1>7. Pruned
  <2>1. \A c, j : ~Open(c, j) BY <1>3 DEF Open, Drops, Prunes
  <2>2. wanted = notify /\ \A j \in Jobs : notify[j] \subseteq Channels BY <1>2 DEF JobShape
  <2> QED BY <2>1, <2>2 DEF Pruned
<1>8. CountsRight BY <1>4 DEF CountsRight
<1> QED BY <1>1, <1>2, <1>3, <1>4, <1>5, <1>6, <1>7, <1>8 DEF ReferencesInv, MessageInv, ReportShape

(* A request that moves on leaves the others where they are.                 *)
LEMMA Advances ==
  ASSUME RequestShape, NEW q \in Requests, NEW x, Shaped(x), req' = [req EXCEPT ![q] = x]
  PROVE  /\ RequestShape' /\ req'[q] = x
         /\ \A o \in Requests \ {q} : req'[o] = req[o]
BY DEF RequestShape

(* The answers of a request, and the steps that only change its place.       *)
LEMMA Answers ==
  ASSUME RequestShape, NEW q \in Requests, NEW outcome, Ends(q, outcome)
  PROVE  /\ RequestShape' /\ req'[q].pc = "answered"
         /\ \A o \in Requests \ {q} : req'[o] = req[o]
<1>1. PICK x : x = [pc |-> "answered", outcome |-> outcome] OBVIOUS
<1>2. Shaped(x) /\ x.pc = "answered" BY <1>1 DEF Shaped
<1>3. req' = [req EXCEPT ![q] = x] BY <1>1 DEF Ends
<1> QED BY <1>2, <1>3, Advances

-----------------------------------------------------------------------------
(* The types.                                                                *)
LEMMA RowStep == RowShape /\ [ReportNext]_reportVars => RowShape'
<1> SUFFICES ASSUME RowShape, [ReportNext]_reportVars PROVE RowShape'
  OBVIOUS
<1>1. CASE report' = report BY <1>1 DEF RowShape
<1>2. ASSUME NEW q \in Requests, Save(q), report' # report PROVE RowShape'
  <2>1. PICK p \in Payloads :
          report' = [report EXCEPT !.expr = Sent(p, "expr", @),
                       !.enabled = Sent(p, "enabled", @), !.channels = Sent(p, "channels", @),
                       !.dataset = Sent(p, "dataset", @)]
    BY <1>2 DEF Save
  <2>2. Sent(p, "dataset", report.dataset) \in Datasets BY DatasetShape DEF Sent, RowShape
  <2> QED BY <2>1, <2>2 DEF RowShape
<1>3. ASSUME NEW q \in Requests, Remove(q), report' # report PROVE RowShape'
  BY <1>3 DEF RowShape, Remove
<1>4. ASSUME GenRecord, report' # report PROVE RowShape'
  BY <1>4 DEF RowShape, GenRecord
<1>5. report' = report \/ GenRecord \/ \E q \in Requests : Save(q) \/ Remove(q)
  BY DEF ReportNext, reportVars, ChangeTimezone, Unregister, ReadRow, Register, PruneRead,
         PruneEnds, AuditWrite, ToggleChannel, RemoveChannel, PruneWrite, EditJob, DeleteJob,
         CronTick, SendNow, GenRead, GenCount, GenNames, GenChannels, Deliver, Restart
<1> QED BY <1>1, <1>2, <1>3, <1>4, <1>5

(* Channels and jobs keep their shape.                                       *)
LEMMA JobStep ==
  ASSUME JobShape, RequestShape, [ReportNext]_reportVars
  PROVE  JobShape'
<1> USE DEF JobShape
<1>1. CASE UNCHANGED <<chan, jobs, notify, wanted, raced>> BY <1>1
<1>2. ASSUME NEW q \in Requests, Unregister(q) PROVE JobShape'
  BY <1>2 DEF Unregister, Raced
<1>3. ASSUME NEW q \in Requests, ChangeTimezone(q) PROVE JobShape'
  BY <1>3 DEF ChangeTimezone, Raced
<1>4. ASSUME NEW q \in Requests, PruneRead(q) PROVE JobShape'
  BY <1>4 DEF PruneRead
<1>5. ASSUME NEW q \in Requests, NEW c \in Channels, ToggleChannel(q, c) PROVE JobShape'
  BY <1>5 DEF ToggleChannel
<1>6. ASSUME NEW q \in Requests, NEW c \in Channels, RemoveChannel(q, c) PROVE JobShape'
  BY <1>6 DEF RemoveChannel
<1>7. ASSUME NEW q \in Requests, NEW j \in Jobs, PruneWrite(q, j) PROVE JobShape'
  <2>1. req[q].notify[j] \subseteq Channels BY <1>7 DEF PruneWrite, RequestShape, Shaped
  <2>2. notify' \in [Jobs -> SUBSET Channels] BY <1>7, <2>1 DEF PruneWrite
  <2> QED BY <1>7, <2>2 DEF PruneWrite
<1>8. ASSUME NEW q \in Requests, NEW j \in Jobs, EditJob(q, j) PROVE JobShape'
  <2>1. PICK c \in SUBSET Channels :
          notify' = [notify EXCEPT ![j] = c] /\ wanted' = [wanted EXCEPT ![j] = c]
    BY <1>8 DEF EditJob
  <2>2. c \subseteq Channels OBVIOUS
  <2>3. notify' \in [Jobs -> SUBSET Channels] /\ wanted' \in [Jobs -> SUBSET Channels]
    BY <2>1, <2>2
  <2>4. raced' = [sync |-> raced'.sync, jobs |-> raced'.jobs] BY <1>8 DEF EditJob
  <2> QED BY <1>8, <2>3, <2>4 DEF EditJob
<1>9. ASSUME NEW q \in Requests, NEW j \in Jobs, DeleteJob(q, j) PROVE JobShape'
  BY <1>9 DEF DeleteJob
<1>10. CASE Restart BY <1>10 DEF Restart
<1>11. \/ UNCHANGED <<chan, jobs, notify, wanted, raced>> \/ Restart
       \/ \E q \in Requests :
            \/ Unregister(q) \/ ChangeTimezone(q) \/ PruneRead(q)
            \/ \E c \in Channels : ToggleChannel(q, c) \/ RemoveChannel(q, c)
            \/ \E j \in Jobs : PruneWrite(q, j) \/ EditJob(q, j) \/ DeleteJob(q, j)
  BY DEF ReportNext, reportVars, Save, Remove, ReadRow, Register,
         PruneEnds, AuditWrite, CronTick, SendNow, GenRead, GenCount, GenNames, GenChannels,
         Deliver, GenRecord
<1> QED BY <1>1, <1>2, <1>3, <1>4, <1>5, <1>6, <1>7, <1>8, <1>9, <1>10, <1>11

(* One step of a request brings it into a well-formed place.                 *)
LEMMA RequestStep ==
  ASSUME RequestShape, JobShape, NEW q \in Requests,
         \/ Save(q) \/ Remove(q) \/ ChangeTimezone(q)
         \/ Unregister(q) \/ ReadRow(q) \/ Register(q)
         \/ PruneRead(q) \/ PruneEnds(q) \/ AuditWrite(q) \/ SendNow(q)
         \/ \E c \in Channels : ToggleChannel(q, c) \/ RemoveChannel(q, c)
         \/ \E j \in Jobs : PruneWrite(q, j) \/ EditJob(q, j) \/ DeleteJob(q, j)
  PROVE  /\ \E x : Shaped(x) /\ req' = [req EXCEPT ![q] = x]
         /\ req[q].pc # "sending"
<1> USE DEF Ends
<1>a. ASSUME NEW o PROVE Shaped([pc |-> "answered", outcome |-> o]) BY DEF Shaped
<1>b. req[q] = New => req[q].pc # "sending" BY DEF New
<1>1. CASE Save(q)
  <2>1. Shaped([pc |-> "unregister", kind |-> "save"]) BY DEF Shaped
  <2>2. CASE report.live
    <3>1. req' = [req EXCEPT ![q] = [pc |-> "unregister", kind |-> "save"]]
      BY <1>1, <2>2 DEF Save
    <3> QED BY <1>1, <1>b, <2>1, <3>1 DEF Save
  <2>3. CASE ~report.live BY <1>1, <1>a, <1>b, <2>3 DEF Save
  <2> QED BY <2>2, <2>3
<1>2. CASE Remove(q)
  <2>1. Shaped([pc |-> "unregister", kind |-> "remove"]) BY DEF Shaped
  <2>2. CASE report.live
    <3>1. req' = [req EXCEPT ![q] = [pc |-> "unregister", kind |-> "remove"]]
      BY <1>2, <2>2 DEF Remove
    <3> QED BY <1>2, <1>b, <2>1, <3>1 DEF Remove
  <2>3. CASE ~report.live BY <1>2, <1>a, <1>b, <2>3 DEF Remove
  <2> QED BY <2>2, <2>3
<1>3. CASE ChangeTimezone(q)
  <2>1. Shaped([pc |-> "row", kind |-> "timezone"]) BY DEF Shaped
  <2> QED BY <1>3, <1>b, <2>1 DEF ChangeTimezone
<1>4. CASE Unregister(q)
  <2>1. Shaped([pc |-> "row", kind |-> req[q].kind]) BY DEF Shaped
  <2>2. req[q].pc = "unregister" BY <1>4 DEF Unregister
  <2>3. req[q] = [pc |-> "unregister", kind |-> req[q].kind] BY <2>2 DEF RequestShape, Shaped
  <2>4. CASE req[q].kind = "remove" BY <1>4, <1>a, <2>2, <2>4 DEF Unregister
  <2>5. CASE req[q].kind # "remove"
    <3>1. req' = [req EXCEPT ![q].pc = "row"] BY <1>4, <2>5 DEF Unregister, Step
    <3>2. req' = [req EXCEPT ![q] = [req[q] EXCEPT !.pc = "row"]] BY <3>1
    <3>3. [req[q] EXCEPT !.pc = "row"] = [pc |-> "row", kind |-> req[q].kind] BY <2>3
    <3> QED BY <2>1, <2>2, <3>2, <3>3
  <2> QED BY <2>4, <2>5
<1>5. CASE ReadRow(q)
  <2>1. Shaped([pc |-> "register", kind |-> req[q].kind, expr |-> Found]) BY DEF Shaped
  <2> QED BY <1>5, <2>1 DEF ReadRow
<1>6. CASE Register(q) BY <1>6, <1>a DEF Register
<1>7. CASE PruneRead(q)
  <2> DEFINE x == [pc |-> "prune", kind |-> "drop", chan |-> req[q].chan,
                   notify |-> [j \in jobs |-> notify[j]],
                   todo |-> {j \in jobs : req[q].chan \in notify[j]}]
  <2>1. req[q].pc = "jobs" /\ req[q].chan \in Channels
    BY <1>7 DEF PruneRead, RequestShape, Shaped
  <2>2. Shaped(x) BY <2>1 DEF Shaped, JobShape
  <2>3. req' = [req EXCEPT ![q] = x] BY <1>7 DEF PruneRead
  <2> QED BY <2>1, <2>2, <2>3
<1>8. CASE PruneEnds(q) BY <1>8, <1>a DEF PruneEnds
<1>9. CASE AuditWrite(q)
  <2>1. Shaped(Done) BY DEF Shaped, Done
  <2> QED BY <1>9, <2>1 DEF AuditWrite
<1>10. CASE SendNow(q)
  <2>1. Shaped([pc |-> "sending", kind |-> "run"]) BY DEF Shaped
  <2> QED BY <1>10, <1>b, <2>1 DEF SendNow
<1>11. ASSUME NEW c \in Channels, ToggleChannel(q, c)
       PROVE  (\E x : Shaped(x) /\ req' = [req EXCEPT ![q] = x]) /\ req[q].pc # "sending"
  BY <1>11, <1>a, <1>b DEF ToggleChannel
<1>12. ASSUME NEW c \in Channels, RemoveChannel(q, c)
       PROVE  (\E x : Shaped(x) /\ req' = [req EXCEPT ![q] = x]) /\ req[q].pc # "sending"
  <2>1. Shaped([pc |-> "jobs", kind |-> "drop", chan |-> c]) BY DEF Shaped
  <2>2. CASE chan[c] = "gone" BY <1>12, <1>a, <1>b, <2>2 DEF RemoveChannel
  <2>3. CASE chan[c] # "gone"
    <3>1. req' = [req EXCEPT ![q] = [pc |-> "jobs", kind |-> "drop", chan |-> c]]
      BY <1>12, <2>3 DEF RemoveChannel
    <3> QED BY <1>12, <1>b, <2>1, <3>1 DEF RemoveChannel
  <2> QED BY <2>2, <2>3
<1>13. ASSUME NEW j \in Jobs, PruneWrite(q, j)
       PROVE  (\E x : Shaped(x) /\ req' = [req EXCEPT ![q] = x]) /\ req[q].pc # "sending"
  <2> DEFINE x == [pc |-> "prune", kind |-> "drop", chan |-> req[q].chan,
                   notify |-> req[q].notify, todo |-> req[q].todo \ {j}]
  <2>1. req[q].pc = "prune" BY <1>13 DEF PruneWrite
  <2>2. req[q] = [pc |-> "prune", kind |-> "drop", chan |-> req[q].chan,
                  notify |-> req[q].notify, todo |-> req[q].todo]
    BY <2>1 DEF RequestShape, Shaped
  <2>3. Shaped(req[q]) BY DEF RequestShape
  <2>4. Shaped(x) BY <2>1, <2>2, <2>3 DEF Shaped
  <2>5. req' = [req EXCEPT ![q].todo = req[q].todo \ {j}] BY <1>13 DEF PruneWrite, Todo
  <2>6. req' = [req EXCEPT ![q] = [req[q] EXCEPT !.todo = req[q].todo \ {j}]] BY <2>5
  <2>7. [req[q] EXCEPT !.todo = req[q].todo \ {j}] = x BY <2>2
  <2> QED BY <2>1, <2>4, <2>6, <2>7
<1>14. ASSUME NEW j \in Jobs, EditJob(q, j)
       PROVE  (\E x : Shaped(x) /\ req' = [req EXCEPT ![q] = x]) /\ req[q].pc # "sending"
  BY <1>14, <1>a, <1>b DEF EditJob
<1>15. ASSUME NEW j \in Jobs, DeleteJob(q, j)
       PROVE  (\E x : Shaped(x) /\ req' = [req EXCEPT ![q] = x]) /\ req[q].pc # "sending"
  BY <1>15, <1>a, <1>b DEF DeleteJob
<1> QED BY <1>1, <1>2, <1>3, <1>4, <1>5, <1>6, <1>7, <1>8, <1>9, <1>10, <1>11, <1>12, <1>13,
           <1>14, <1>15

(* The generation of a report answers the request that waits for it only.    *)
LEMMA GenAnswers ==
  ASSUME RequestShape, Waits, gen.pc # "idle", NEW outcome, Answer(outcome)
  PROVE  /\ RequestShape'
         /\ \A q \in Requests : req[q].pc # "sending" => req'[q] = req[q]
         /\ \A q \in Requests : req'[q] = req[q] \/ req'[q].pc = "answered"
<1>1. CASE gen.by = None BY <1>1 DEF Answer, RequestShape, Shaped, New, Done
<1>2. CASE gen.by # None
  <2>1. gen.by \in Requests /\ req[gen.by].pc = "sending" BY <1>2 DEF Waits
  <2>2. Ends(gen.by, outcome) BY <1>2 DEF Answer
  <2> QED BY <2>1, <2>2, Answers
<1> QED BY <1>1, <1>2

(* What a step of the generation, a cron tick or a restart does to requests. *)
Handler(q) ==
  \/ Save(q) \/ Remove(q) \/ ChangeTimezone(q)
  \/ Unregister(q) \/ ReadRow(q) \/ Register(q)
  \/ PruneRead(q) \/ PruneEnds(q) \/ AuditWrite(q) \/ SendNow(q)
  \/ \E c \in Channels : ToggleChannel(q, c) \/ RemoveChannel(q, c)
  \/ \E j \in Jobs : PruneWrite(q, j) \/ EditJob(q, j) \/ DeleteJob(q, j)

(* A step of the generation.                                                 *)
Generation ==
  \/ GenRead \/ GenCount \/ GenNames \/ GenChannels \/ GenRecord
  \/ \E c \in Channels : Deliver(c)

(* Every step is one of these.                                               *)
LEMMA Steps ==
  [ReportNext]_reportVars =>
    (\E q \in Requests : Handler(q)) \/ Generation \/ CronTick \/ Restart \/ UNCHANGED reportVars
BY DEF ReportNext, Handler, Generation

(* The steps of a generation change nothing but the generation, the request  *)
(* that waits for it, and the time the report was sent last.                 *)
LEMMA GenerationKeeps ==
  ASSUME Generation, RequestShape, Waits, RowShape
  PROVE  /\ RequestShape'
         /\ \A q \in Requests : req[q].pc # "sending" => req'[q] = req[q]
         /\ \A q \in Requests : req'[q] = req[q] \/ req'[q].pc = "answered"
         /\ Found' = Found /\ report'.live = report.live
         /\ UNCHANGED <<cron, chan, jobs, notify, wanted, raced>>
<1>1. gen.pc # "idle"
  BY DEF Generation, GenRead, GenCount, GenNames, GenChannels, Deliver, GenRecord
<1>2. ASSUME req' = req
      PROVE  /\ RequestShape'
             /\ \A q \in Requests : req[q].pc # "sending" => req'[q] = req[q]
             /\ \A q \in Requests : req'[q] = req[q] \/ req'[q].pc = "answered"
  BY <1>2 DEF RequestShape, Shaped, New, Done
<1>3. req' = req \/ \E outcome : Answer(outcome)
  BY DEF Generation, GenRead, GenCount, GenNames, GenChannels, Deliver, GenRecord
<1>4. report' = report \/ report' = [report EXCEPT !.last = used.gens]
  BY DEF Generation, GenRead, GenCount, GenNames, GenChannels, Deliver, GenRecord
<1>5. Found' = Found /\ report'.live = report.live
  <2>1. /\ report'.live = report.live /\ report'.enabled = report.enabled
        /\ report'.expr = report.expr
    BY <1>4 DEF RowShape
  <2> QED BY <2>1 DEF Found
<1>6. UNCHANGED <<cron, chan, jobs, notify, wanted, raced>>
  BY DEF Generation, GenRead, GenCount, GenNames, GenChannels, Deliver, GenRecord
<1> QED BY <1>1, <1>2, <1>3, <1>5, <1>6, GenAnswers

(* The place of a handler's request changes, that of no other does.          *)
LEMMA HandlerMoves ==
  ASSUME RequestShape, JobShape, NEW q \in Requests, Handler(q)
  PROVE  /\ RequestShape' /\ req[q].pc # "sending"
         /\ \A o \in Requests \ {q} : req'[o] = req[o]
<1>1. (\E x : Shaped(x) /\ req' = [req EXCEPT ![q] = x]) /\ req[q].pc # "sending"
  BY RequestStep DEF Handler
<1> QED BY <1>1, Advances

(* A restart ends every request that had begun.                              *)
LEMMA Restarted ==
  ASSUME Restart, RequestShape
  PROVE  RequestShape' /\ \A q \in Requests : req'[q] \in {New, Done}
BY DEF Restart, RequestShape, Shaped, New, Done

(* Requests keep their forms.                                                *)
LEMMA RequestsStep ==
  ASSUME RequestShape, Waits, RowShape, JobShape, [ReportNext]_reportVars
  PROVE  RequestShape'
<1>1. CASE \E q \in Requests : Handler(q) BY <1>1, HandlerMoves
<1>2. CASE Generation BY <1>2, GenerationKeeps
<1>3. CASE CronTick BY <1>3 DEF CronTick, RequestShape, Shaped, New, Done
<1>4. CASE Restart BY <1>4, Restarted
<1>5. CASE UNCHANGED reportVars BY <1>5 DEF reportVars, RequestShape, Shaped, New, Done
<1> QED BY <1>1, <1>2, <1>3, <1>4, <1>5, Steps

(* A generation is begun by the cron job or by a request that waits.         *)
LEMMA WaitsStep ==
  ASSUME RequestShape, Waits, RowShape, JobShape, GenShape, [ReportNext]_reportVars
  PROVE  Waits'
<1>1. ASSUME NEW q \in Requests, Handler(q) PROVE Waits'
  <2>1. /\ req[q].pc # "sending" /\ \A o \in Requests \ {q} : req'[o] = req[o]
    BY <1>1, HandlerMoves
  <2>2. CASE SendNow(q)
    <3>1. req'[q].pc = "sending" /\ gen' = [pc |-> "read", by |-> q]
      BY <2>2 DEF SendNow, Generate, RequestShape
    <3> QED BY <3>1 DEF Waits
  <2>3. CASE gen' = gen BY <2>1, <2>3 DEF Waits
  <2>4. SendNow(q) \/ gen' = gen
    BY <1>1 DEF Handler, Save, Remove, ChangeTimezone, Unregister, ReadRow, Register, PruneRead,
         PruneEnds, AuditWrite, ToggleChannel, RemoveChannel, PruneWrite, EditJob, DeleteJob
  <2> QED BY <2>2, <2>3, <2>4
<1>2. CASE Generation
  <2>1. gen' = NoGen \/ (gen'.by = gen.by /\ gen.pc # "idle" /\ req' = req)
    <3>1. CASE GenRead BY <3>1 DEF GenRead
    <3>6. CASE GenChannels BY <3>6 DEF GenChannels
    <3>2. CASE GenCount BY <3>2 DEF GenCount
    <3>3. CASE GenNames BY <3>3 DEF GenNames, GenShape
    <3>4. CASE GenRecord BY <3>4 DEF GenRecord
    <3>5. ASSUME NEW c \in Channels, Deliver(c)
          PROVE  gen'.by = gen.by /\ gen.pc # "idle" /\ req' = req
      BY <3>5 DEF Deliver, Fail, GenShape
    <3> QED BY <1>2, <3>1, <3>2, <3>3, <3>4, <3>5, <3>6 DEF Generation
  <2> QED BY <2>1 DEF Waits, NoGen
<1>3. CASE CronTick BY <1>3 DEF CronTick, Generate, Waits
<1>4. CASE Restart BY <1>4 DEF Restart, Waits, NoGen
<1>5. CASE UNCHANGED reportVars BY <1>5 DEF reportVars, Waits
<1> QED BY <1>1, <1>2, <1>3, <1>4, <1>5, Steps

(* A generation keeps its form, and counts only finitely many runs.          *)
LEMMA GenStep ==
  ASSUME GenShape, RowShape, [ReportNext]_reportVars
  PROVE  GenShape'
<1>1. CASE gen' = gen BY <1>1 DEF GenShape
<1>2. CASE gen' = NoGen BY <1>2 DEF GenShape, NoGen
<1>3. ASSUME NEW by, Generate(by) PROVE GenShape' BY <1>3 DEF Generate, GenShape
<1>4. CASE GenRead /\ gen' # NoGen BY <1>4 DEF GenRead, GenShape, RowShape
<1>5. CASE GenCount
  <2>1. PICK runs \in RunTables :
          \E named, counts :
            gen' = [pc |-> "names", by |-> gen.by, rep |-> gen.rep, seen |-> runs,
                    named |-> named, counts |-> counts]
    BY <1>5 DEF GenCount
  <2>2. IsFiniteSet(DOMAIN runs)
    <3>1. PICK t \in Tables : runs = [i \in {n \in DOMAIN t : t[n].job \in jobs} |-> t[i]]
      BY DEF RunTables
    <3>2. DOMAIN runs \subseteq DOMAIN t BY <3>1
    <3> QED BY <3>2, FS_Subset, FiniteTables
  <2> QED BY <1>5, <2>1, <2>2 DEF GenCount, GenShape
<1>6. CASE GenNames BY <1>6 DEF GenNames, GenShape
<1>7. CASE GenChannels BY <1>7 DEF GenChannels, GenShape
<1>8. ASSUME NEW c \in Channels, Deliver(c) PROVE GenShape'
  BY <1>8 DEF Deliver, Fail, GenShape
<1>9. \/ gen' = gen \/ gen' = NoGen \/ (\E by : Generate(by))
      \/ (GenRead /\ gen' # NoGen) \/ GenCount \/ GenNames \/ GenChannels
      \/ \E c \in Channels : Deliver(c)
  <2>1. ASSUME NEW q \in Requests, Handler(q) PROVE SendNow(q) \/ gen' = gen
    BY <2>1 DEF Handler, Save, Remove, ChangeTimezone, Unregister, ReadRow, Register,
         PruneRead, PruneEnds, AuditWrite, ToggleChannel, RemoveChannel, PruneWrite, EditJob,
         DeleteJob
  <2>2. ASSUME NEW q \in Requests PROVE SendNow(q) => Generate(q) BY DEF SendNow
  <2>3. GenRecord => gen' = NoGen BY DEF GenRecord
  <2>4. CronTick => Generate(None) BY DEF CronTick
  <2>5. Restart => gen' = NoGen BY DEF Restart
  <2>6. UNCHANGED reportVars => gen' = gen BY DEF reportVars
  <2> QED BY <2>1, <2>2, <2>3, <2>4, <2>5, <2>6, Steps DEF Generation
<1> QED BY <1>1, <1>2, <1>3, <1>4, <1>5, <1>6, <1>7, <1>8, <1>9

(* The state keeps its shape.                                                *)
LEMMA ShapeStep ==
  ReportShape /\ [ReportNext]_reportVars => ReportShape'
BY RowStep, JobStep, RequestsStep, WaitsStep, GenStep DEF ReportShape

-----------------------------------------------------------------------------
(* The registration.                                                         *)
LEMMA ScheduledKept ==
  ASSUME Scheduled, cron' = cron, Found' = Found, report'.live = report.live,
         raced'.sync = raced.sync,
         \A q \in Requests : \/ req'[q] = req[q]
                             \/ /\ req[q].pc \notin {"unregister", "row", "register"}
                                /\ req'[q].pc \notin {"unregister", "row", "register"}
  PROVE  Scheduled'
<1>1. \A q \in Requests : Syncing(q)' = Syncing(q) BY DEF Syncing
<1>2. Clearing' = Clearing BY DEF Clearing
<1>3. \A q \in Requests : req'[q].pc = "register" => req'[q] = req[q] OBVIOUS
<1>4. Removed' BY DEF Scheduled, Removed
<1>5. Synced => Synced' BY <1>1, <1>2, <1>3 DEF Synced
<1> QED BY <1>4, <1>5 DEF Scheduled

(* A save or a removal has changed the row: it will sync.                    *)
LEMMA Unsynced ==
  ASSUME Scheduled, NEW q \in Requests, req[q] = New,
         \A o \in Requests \ {q} : req'[o] = req[o],
         req'[q].pc = "unregister", req'[q].kind = "remove" => ~report'.live,
         report.live, cron' = cron, raced' = raced,
         report'.live => report.live
  PROVE  Scheduled'
<1>1. \A o \in Requests : Syncing(o)' = Syncing(o) BY DEF Syncing, New
<1>2. Clearing' BY DEF Clearing
<1>3. Removed' BY DEF Scheduled, Removed
<1>4. Synced => Synced' BY <1>1, <1>2 DEF Synced
<1> QED BY <1>3, <1>4 DEF Scheduled

(* Handlers of saves, removals and timezone changes, one by one: each leaves *)
(* the row and the registration in step, or a sync still to come.            *)
LEMMA ScheduledStep ==
  ASSUME ReportShape, Scheduled, [ReportNext]_reportVars
  PROVE  Scheduled'
<1> USE DEF ReportShape
<1>1. ASSUME NEW q \in Requests, Handler(q) PROVE Scheduled'
  <2>1. RequestShape' /\ \A o \in Requests \ {q} : req'[o] = req[o]
    BY <1>1, HandlerMoves
  <2>2. CASE Save(q)
    <3>1. CASE report.live
      <4>1. req'[q] = [pc |-> "unregister", kind |-> "save"]
        BY <2>2, <3>1 DEF Save, RequestShape
      <4>2. report'.live = report.live
        <5>1. PICK p \in Payloads :
                report' = [report EXCEPT !.expr = Sent(p, "expr", @),
                             !.enabled = Sent(p, "enabled", @),
                             !.channels = Sent(p, "channels", @),
                             !.dataset = Sent(p, "dataset", @)]
          BY <2>2, <3>1 DEF Save
        <5> QED BY <5>1 DEF RowShape
      <4>3. req[q] = New /\ cron' = cron /\ raced' = raced BY <2>2 DEF Save
      <4> QED BY <2>1, <3>1, <4>1, <4>2, <4>3, Unsynced
    <3>2. CASE ~report.live
      <4>1. req[q].pc = "new" /\ req'[q].pc = "answered"
        BY <2>2, <3>2 DEF Save, Ends, RequestShape, New
      <4>2. UNCHANGED <<report, cron, raced>> BY <2>2, <3>2 DEF Save
      <4>3. Found' = Found BY <4>2 DEF Found
      <4> QED BY <2>1, <4>1, <4>2, <4>3, ScheduledKept
    <3> QED BY <3>1, <3>2
  <2>3. CASE Remove(q)
    <3>1. CASE report.live
      <4>1. req'[q] = [pc |-> "unregister", kind |-> "remove"]
        BY <2>3, <3>1 DEF Remove, RequestShape
      <4>2. ~report'.live BY <2>3, <3>1 DEF Remove, RowShape
      <4>3. req[q] = New /\ cron' = cron /\ raced' = raced BY <2>3 DEF Remove
      <4> QED BY <2>1, <3>1, <4>1, <4>2, <4>3, Unsynced
    <3>2. CASE ~report.live
      <4>1. req[q].pc = "new" /\ req'[q].pc = "answered"
        BY <2>3, <3>2 DEF Remove, Ends, RequestShape, New
      <4>2. UNCHANGED <<report, cron, raced>> BY <2>3, <3>2 DEF Remove
      <4>3. Found' = Found BY <4>2 DEF Found
      <4> QED BY <2>1, <4>1, <4>2, <4>3, ScheduledKept
    <3> QED BY <3>1, <3>2
  <2>4. CASE ChangeTimezone(q)
    <3>1. req'[q] = [pc |-> "row", kind |-> "timezone"] /\ cron' = None
      BY <2>4 DEF ChangeTimezone, RequestShape
    <3>2. Removed' /\ Clearing' = Clearing
      BY <2>1, <2>4, <3>1 DEF ChangeTimezone, Scheduled, Removed, Clearing, New
    <3>3. ASSUME ~raced'.sync PROVE Synced'
      <4>1. \A o \in Requests \ {q} : ~Syncing(o)
        BY <2>4, <3>3 DEF ChangeTimezone, Raced, JobShape
      <4>2. \A o \in Requests \ {q} : ~Syncing(o)' BY <2>1, <4>1 DEF Syncing
      <4>3. Syncing(q)' /\ req'[q].pc # "register" BY <3>1 DEF Syncing
      <4>4. \A o \in Requests : req'[o].pc # "register" BY <4>2, <4>3 DEF Syncing
      <4> QED BY <3>1, <4>2, <4>3, <4>4 DEF Synced
    <3> QED BY <3>2, <3>3 DEF Scheduled
  <2>5. CASE Unregister(q)
    <3>1. req[q].pc = "unregister" /\ cron' = None /\ report' = report BY <2>5 DEF Unregister
    <3>2. Shaped(req[q]) BY DEF RequestShape
    <3>3. req[q] = [pc |-> "unregister", kind |-> req[q].kind] BY <3>1, <3>2 DEF Shaped
    <3>4. IF req[q].kind = "remove" THEN req'[q].pc = "answered" ELSE req'[q].pc = "row"
      BY <2>5, <3>3 DEF Unregister, Ends, Step, RequestShape
    <3>5. Removed' BY <2>1, <3>1, <3>4 DEF Scheduled, Removed
    <3>6. ASSUME ~raced'.sync PROVE Synced'
      <4>1. \A o \in Requests \ {q} : ~Syncing(o)
        BY <2>5, <3>6 DEF Unregister, Raced, JobShape
      <4>2. \A o \in Requests \ {q} : ~Syncing(o)' BY <2>1, <4>1 DEF Syncing
      <4>3. req'[q].pc # "register" BY <3>4
      <4>4. \A o \in Requests : req'[o].pc # "register" BY <4>2, <4>3 DEF Syncing
      <4>5. ~Syncing(q)' => cron' = Found'
        <5> SUFFICES ASSUME ~Syncing(q)' PROVE cron' = Found'
          OBVIOUS
        <5>1. req[q].kind = "remove" BY <3>4 DEF Syncing
        <5>2. ~report.live BY <3>1, <5>1 DEF Scheduled, Removed
        <5> QED BY <3>1, <5>2 DEF Found
      <4> QED BY <3>1, <4>2, <4>4, <4>5 DEF Synced
    <3> QED BY <3>5, <3>6 DEF Scheduled
  <2>6. CASE ReadRow(q)
    <3>1. req[q].pc = "row" /\ UNCHANGED <<report, cron, raced>> BY <2>6 DEF ReadRow
    <3>2. req'[q] = [pc |-> "register", kind |-> req[q].kind, expr |-> Found]
      BY <2>6 DEF ReadRow, RequestShape
    <3>3. Found' = Found BY <3>1 DEF Found
    <3>4. \A o \in Requests : Syncing(o)' = Syncing(o) BY <2>1, <3>1, <3>2 DEF Syncing
    <3>5. Clearing' = Clearing BY <2>1, <3>1, <3>2 DEF Clearing
    <3>6. Removed' BY <2>1, <3>1, <3>2 DEF Scheduled, Removed
    <3>7. \A o \in Requests \ {q} : req'[o].pc = "register" => req[o].pc = "register"
                                                            /\ req'[o].expr = req[o].expr
      BY <2>1
    <3>8. Synced => Synced' BY <3>1, <3>2, <3>3, <3>4, <3>5, <3>7 DEF Synced
    <3> QED BY <3>1, <3>6, <3>8 DEF Scheduled
  <2>7. CASE Register(q)
    <3>1. req[q].pc = "register" /\ UNCHANGED <<report, raced>>
          /\ cron' = IF cron = None THEN req[q].expr ELSE cron
      BY <2>7 DEF Register
    <3>2. req'[q].pc = "answered" BY <2>7 DEF Register, Ends, RequestShape
    <3>3. Found' = Found BY <3>1 DEF Found
    <3>4. Clearing' = Clearing BY <2>1, <3>1, <3>2 DEF Clearing
    <3>5. Removed' BY <2>1, <3>1, <3>2 DEF Scheduled, Removed
    <3>6. ASSUME Synced PROVE Synced'
      <4>1. Syncing(q) /\ cron = None BY <3>1, <3>6 DEF Synced, Syncing
      <4>2. \A o \in Requests \ {q} : ~Syncing(o) BY <3>6, <4>1 DEF Synced
      <4>3. \A o \in Requests : ~Syncing(o)' BY <2>1, <3>2, <4>2 DEF Syncing
      <4>4. ~Clearing => cron' = Found BY <3>1, <3>6, <4>1 DEF Synced
      <4>5. \A o \in Requests : req'[o].pc # "register" BY <4>3 DEF Syncing
      <4> QED BY <3>3, <3>4, <4>3, <4>4, <4>5 DEF Synced
    <3> QED BY <3>1, <3>5, <3>6 DEF Scheduled
  <2>8. CASE UNCHANGED <<report, cron>> /\ raced'.sync = raced.sync
             /\ req[q].pc \notin {"unregister", "row", "register"}
             /\ req'[q].pc \notin {"unregister", "row", "register"}
    <3>1. Found' = Found BY <2>8 DEF Found
    <3> QED BY <2>1, <2>8, <3>1, ScheduledKept
  <2>9. \/ Save(q) \/ Remove(q) \/ ChangeTimezone(q) \/ Unregister(q) \/ ReadRow(q) \/ Register(q)
        \/ /\ UNCHANGED <<report, cron>> /\ raced'.sync = raced.sync
           /\ req[q].pc \notin {"unregister", "row", "register"}
           /\ req'[q].pc \notin {"unregister", "row", "register"}
    <3> DEFINE Else == /\ UNCHANGED <<report, cron>> /\ raced'.sync = raced.sync
                       /\ req[q].pc \notin {"unregister", "row", "register"}
                       /\ req'[q].pc \notin {"unregister", "row", "register"}
    <3>1. CASE PruneRead(q) BY <3>1 DEF PruneRead, RequestShape, JobShape
    <3>2. CASE PruneEnds(q) BY <3>2 DEF PruneEnds, RequestShape, Ends
    <3>3. CASE AuditWrite(q) BY <3>3 DEF AuditWrite, RequestShape, Done
    <3>4. CASE SendNow(q) BY <3>4 DEF SendNow, RequestShape, New
    <3>5. ASSUME NEW c \in Channels, ToggleChannel(q, c) PROVE Else
      BY <3>5 DEF ToggleChannel, RequestShape, Ends, New
    <3>6. ASSUME NEW c \in Channels, RemoveChannel(q, c) PROVE Else
      <4>1. req[q].pc = "new" BY <3>6 DEF RemoveChannel, New
      <4>2. req'[q].pc \in {"answered", "jobs"} BY <3>6 DEF RemoveChannel, RequestShape, Ends
      <4> QED BY <3>6, <4>1, <4>2 DEF RemoveChannel
    <3>7. ASSUME NEW j \in Jobs, PruneWrite(q, j) PROVE Else
      <4>1. req[q].pc = "prune" BY <3>7 DEF PruneWrite
      <4>2. "pc" \in DOMAIN req[q] BY <4>1 DEF RequestShape, Shaped
      <4>3. req'[q].pc = "prune" BY <3>7, <4>1, <4>2 DEF PruneWrite, RequestShape
      <4> QED BY <3>7, <4>1, <4>3 DEF PruneWrite
    <3>8. ASSUME NEW j \in Jobs, EditJob(q, j) PROVE Else
      BY <3>8 DEF EditJob, RequestShape, Ends, New, JobShape
    <3>9. ASSUME NEW j \in Jobs, DeleteJob(q, j) PROVE Else
      BY <3>9 DEF DeleteJob, RequestShape, Ends, New
    <3> QED BY <1>1, <3>1, <3>2, <3>3, <3>4, <3>5, <3>6, <3>7, <3>8, <3>9 DEF Handler
  <2> QED BY <2>2, <2>3, <2>4, <2>5, <2>6, <2>7, <2>8, <2>9
<1>2. CASE Generation
  <2>1. \A q \in Requests : \/ req'[q] = req[q]
                            \/ req[q].pc = "sending" /\ req'[q].pc = "answered"
    BY <1>2, GenerationKeeps
  <2>2. /\ Found' = Found /\ report'.live = report.live
        /\ UNCHANGED <<cron, raced>>
    BY <1>2, GenerationKeeps
  <2> QED BY <2>1, <2>2, ScheduledKept
<1>3. CASE CronTick
  <2>1. UNCHANGED <<report, cron, raced, req>> BY <1>3 DEF CronTick
  <2>2. Found' = Found BY <2>1 DEF Found
  <2> QED BY <2>1, <2>2, ScheduledKept
<1>4. CASE Restart
  <2>1. \A q \in Requests : req'[q].pc \in {"new", "done"} BY <1>4, Restarted DEF New, Done
  <2>2. cron' = Found' BY <1>4 DEF Restart, Found
  <2>3. Removed' BY <2>1 DEF Removed
  <2>4. \A q \in Requests : ~Syncing(q)' /\ req'[q].pc # "register" BY <2>1 DEF Syncing
  <2> QED BY <2>2, <2>3, <2>4 DEF Scheduled, Synced
<1>5. CASE UNCHANGED reportVars
  <2>1. UNCHANGED <<report, cron, raced, req>> BY <1>5 DEF reportVars
  <2>2. Found' = Found BY <2>1 DEF Found
  <2> QED BY <2>1, <2>2, ScheduledKept
<1> QED BY <1>1, <1>2, <1>3, <1>4, <1>5, Steps

-----------------------------------------------------------------------------
(* The channels the jobs name.                                               *)
References == Distinct /\ ReadRight /\ Pruned

(* A step that touches no removal, no channel that is gone and no job's      *)
(* settings.                                                                 *)
LEMMA ReferencesKept ==
  ASSUME References, ReportShape, UNCHANGED <<notify, wanted>>,
         jobs' \subseteq jobs, raced'.jobs = raced.jobs,
         \A c \in Channels : chan'[c] = "gone" <=> chan[c] = "gone",
         \A q \in Requests : \/ req'[q] = req[q]
                             \/ /\ req[q].pc \notin {"jobs", "prune"}
                                /\ req'[q].pc \notin {"jobs", "prune"}
  PROVE  References'
<1>1. \A q \in Requests : Prunes(q)' = Prunes(q) /\ (Prunes(q) => req'[q] = req[q])
  BY DEF Prunes
<1>2. \A q \in Requests : Prunes(q) => req[q].chan \in Channels
  BY DEF ReportShape, RequestShape, Shaped, Prunes
<1>3. Distinct' BY <1>1, <1>2 DEF Distinct, References
<1>4. \A q \in Requests : req'[q].pc = "prune" => req[q].pc = "prune" /\ req'[q] = req[q]
  OBVIOUS
<1>5. ReadRight' BY <1>4 DEF ReadRight, References
<1>6. \A c, j : Open(c, j)' <=> Open(c, j) BY <1>1 DEF Open, Drops
<1>7. Pruned' BY <1>6 DEF Pruned, References
<1> QED BY <1>3, <1>5, <1>7 DEF References

(* The channel of a removal that begins is gone, still named, and not wanted. *)
LEMMA RemoveBegins ==
  ASSUME References, ReportShape, NEW q \in Requests, NEW c \in Channels,
         RemoveChannel(q, c), chan[c] # "gone"
  PROVE  References'
<1> USE DEF ReportShape
<1>1. /\ req[q] = New /\ chan' = [chan EXCEPT ![c] = "gone"]
      /\ req' = [req EXCEPT ![q] = [pc |-> "jobs", kind |-> "drop", chan |-> c]]
      /\ wanted' = [j \in Jobs |-> wanted[j] \ {c}]
      /\ UNCHANGED <<jobs, notify, raced>>
  BY DEF RemoveChannel
<1>2. /\ req'[q] = [pc |-> "jobs", kind |-> "drop", chan |-> c]
      /\ \A o \in Requests \ {q} : req'[o] = req[o]
  BY <1>1 DEF RequestShape
<1>3. ~Prunes(q) BY <1>1 DEF Prunes, New
<1>4. \A o \in Requests : Prunes(o) => req[o].chan \in Channels /\ o # q /\ req[o].chan # c
  BY <1>3 DEF RequestShape, Shaped, Prunes, References, Distinct
<1>5. \A o \in Requests \ {q} : Prunes(o)' = Prunes(o) BY <1>2 DEF Prunes
<1>6. \A x \in Channels : chan'[x] = IF x = c THEN "gone" ELSE chan[x] BY <1>1 DEF JobShape
<1>7. Distinct' BY <1>2, <1>4, <1>5, <1>6 DEF Distinct, References
<1>8. \A o \in Requests : req'[o].pc = "prune" => req[o].pc = "prune" /\ req'[o] = req[o]
  BY <1>2
<1>9. ReadRight' BY <1>1, <1>8 DEF ReadRight, References
<1>10. \A x, j : Open(x, j)' <=> Open(x, j) \/ x = c
  <2>1. \A x, j : Drops(q, x, j)' <=> x = c BY <1>2 DEF Drops, Prunes
  <2>2. \A x, j : ~Drops(q, x, j) BY <1>3 DEF Drops
  <2>3. \A o \in Requests \ {q} : \A x, j : Drops(o, x, j)' <=> Drops(o, x, j)
    BY <1>2 DEF Drops, Prunes
  <2> QED BY <2>1, <2>2, <2>3 DEF Open
<1>11. Pruned'
  <2> SUFFICES ASSUME NEW j \in jobs \ raced.jobs
               PROVE  wanted'[j] = {x \in notify[j] : ~Open(x, j)'}
    BY <1>1 DEF Pruned
  <2>1. wanted[j] = {x \in notify[j] : ~Open(x, j)} BY DEF Pruned, References
  <2>2. wanted'[j] = wanted[j] \ {c} BY <1>1 DEF JobShape
  <2> QED BY <2>1, <2>2, <1>10
<1> QED BY <1>7, <1>9, <1>11 DEF References

(* The jobs are read; alone, the removal now has what they name.             *)
LEMMA PruneReads ==
  ASSUME References, ReportShape, NEW q \in Requests, PruneRead(q)
  PROVE  References'
<1> USE DEF ReportShape
<1> DEFINE d == req[q].chan
<1>1. req[q].pc = "jobs" /\ d \in Channels /\ chan[d] = "gone"
  BY DEF PruneRead, RequestShape, Shaped, References, Distinct, Prunes
<1>2. /\ req'[q] = [pc |-> "prune", kind |-> "drop", chan |-> d,
                    notify |-> [j \in jobs |-> notify[j]],
                    todo |-> {j \in jobs : d \in notify[j]}]
      /\ \A o \in Requests \ {q} : req'[o] = req[o]
      /\ UNCHANGED <<chan, jobs, notify, wanted>>
  BY DEF PruneRead, RequestShape
<1> HIDE DEF d
<1>3. Prunes(q) /\ \A o \in Requests : Prunes(o)' = Prunes(o) BY <1>1, <1>2 DEF Prunes
<1>4. \A o \in Requests : Prunes(o) => req'[o].chan = req[o].chan BY <1>2 DEF d
<1>5. Distinct' BY <1>2, <1>3, <1>4 DEF Distinct, References
<1>6. CASE \E o \in Requests \ {q} : Prunes(o)
  <2>1. raced'.jobs = Jobs
    <3>1. Pruning(Requests \ {q}) BY <1>6 DEF Pruning, Prunes
    <3> QED BY <3>1 DEF PruneRead, JobShape
  <2>2. jobs' \subseteq raced'.jobs BY <1>2, <2>1 DEF JobShape
  <2> QED BY <1>5, <2>2 DEF ReadRight, Pruned, References
<1>7. CASE \A o \in Requests \ {q} : ~Prunes(o)
  <2>1. raced' = raced BY <1>7 DEF PruneRead, Pruning, Prunes
  <2>2. \A o \in Requests \ {q} : req'[o].pc # "prune" BY <1>2, <1>7 DEF Prunes
  <2>3. ReadRight' BY <1>2, <2>2 DEF ReadRight
  <2>4. \A c, j : Open(c, j) <=> c = d BY <1>1, <1>3, <1>7 DEF Open, Drops, d
  <2>5. \A c, j : Open(c, j)' <=> c = d /\ j \in jobs /\ d \in notify[j]
    <3>1. \A o \in Requests \ {q} : \A c, j : ~Drops(o, c, j)' BY <1>3, <1>7 DEF Drops
    <3>2. \A c, j : Drops(q, c, j)' <=> c = d /\ j \in jobs /\ d \in notify[j]
      BY <1>2, <1>3 DEF Drops
    <3> QED BY <3>1, <3>2 DEF Open
  <2>6. Pruned'
    <3> SUFFICES ASSUME NEW j \in jobs \ raced.jobs
                 PROVE  wanted[j] = {c \in notify[j] : ~Open(c, j)'}
      BY <1>2, <2>1 DEF Pruned
    <3>1. wanted[j] = {c \in notify[j] : ~Open(c, j)} BY DEF Pruned, References
    <3> QED BY <3>1, <2>4, <2>5
  <2> QED BY <1>5, <2>3, <2>6 DEF References
<1> QED BY <1>6, <1>7

(* One job is written back.                                                  *)
LEMMA PruneWrites ==
  ASSUME References, ReportShape, NEW q \in Requests, NEW j \in Jobs, PruneWrite(q, j)
  PROVE  References'
<1> USE DEF ReportShape
<1> DEFINE d == req[q].chan
<1>1. /\ req[q].pc = "prune" /\ j \in req[q].todo
      /\ UNCHANGED <<chan, jobs, wanted, raced>>
      /\ req' = [req EXCEPT ![q].todo = req[q].todo \ {j}]
  BY DEF PruneWrite, Todo
<1>2. Shaped(req[q]) BY DEF RequestShape
<1>3. /\ req[q] = [pc |-> "prune", kind |-> "drop", chan |-> req[q].chan,
                   notify |-> req[q].notify, todo |-> req[q].todo]
      /\ d \in Channels
  BY <1>1, <1>2 DEF Shaped
<1>4. /\ req'[q] = [pc |-> "prune", kind |-> "drop", chan |-> d,
                    notify |-> req[q].notify, todo |-> req[q].todo \ {j}]
      /\ \A o \in Requests \ {q} : req'[o] = req[o]
  BY <1>1, <1>3 DEF RequestShape
<1>5. /\ \A o \in Requests : req'[o].pc = req[o].pc /\ Prunes(o)' = Prunes(o)
      /\ \A o \in Requests : Prunes(o) => req'[o].chan = req[o].chan
  BY <1>1, <1>4 DEF Prunes
<1>6. Distinct' BY <1>1, <1>5 DEF Distinct, References
<1>7. notify' = IF j \in jobs THEN [notify EXCEPT ![j] = req[q].notify[j] \ {d}] ELSE notify
  BY DEF PruneWrite
<1>8. Prunes(q) /\ chan[d] = "gone" BY <1>1 DEF Prunes, References, Distinct
<1>9. \A o \in Requests \ {q} : Prunes(o) => req[o].chan # d
  BY <1>8 DEF References, Distinct
<1> HIDE DEF d
<1>10. \A i \in jobs \ {j} : notify'[i] = notify[i] BY <1>7 DEF JobShape
<1>11. j \in jobs \ raced.jobs =>
         notify'[j] = notify[j] \ {d} /\ \A o \in Requests \ {q} : req[o].pc # "prune"
  <2> SUFFICES ASSUME j \in jobs \ raced.jobs
               PROVE  notify'[j] = notify[j] \ {d} /\ \A o \in Requests \ {q} : req[o].pc # "prune"
    OBVIOUS
  <2>1. req[q].notify[j] = notify[j] BY <1>1 DEF References, ReadRight
  <2>2. \A o \in Requests \ {q} : req[o].pc # "prune" BY <1>1 DEF References, ReadRight
  <2> QED BY <1>7, <2>1, <2>2 DEF JobShape
<1>12. ReadRight'
  <2>1. \A o, p \in Requests : o # p /\ req'[o].pc = "prune" /\ req'[p].pc = "prune"
                               => jobs' \subseteq raced'.jobs
    BY <1>1, <1>5 DEF References, ReadRight
  <2>2. ASSUME NEW o \in Requests, NEW i \in jobs \ raced.jobs,
               req'[o].pc = "prune", i \in req'[o].todo
        PROVE  req'[o].notify[i] = notify'[i]
    <3>1. CASE i = j
      <4>1. o = q BY <1>5, <1>11, <2>2, <3>1
      <4> QED BY <1>4, <2>2, <3>1, <4>1
    <3>2. CASE i # j
      <4>1. req'[o].notify = req[o].notify /\ i \in req[o].todo BY <1>4, <2>2
      <4>2. req[o].notify[i] = notify[i] BY <1>5, <2>2, <4>1 DEF References, ReadRight
      <4> QED BY <1>10, <3>2, <4>1, <4>2
    <3> QED BY <3>1, <3>2
  <2> QED BY <1>1, <2>1, <2>2 DEF ReadRight
<1>13. \A c, i : i # j => (Open(c, i)' <=> Open(c, i))
  <2>1. \A c, i : i # j => (Drops(q, c, i)' <=> Drops(q, c, i))
    BY <1>1, <1>4, <1>5, <1>8 DEF Drops, d
  <2>2. \A o \in Requests \ {q} : \A c, i : Drops(o, c, i)' <=> Drops(o, c, i)
    BY <1>4 DEF Drops, Prunes
  <2> QED BY <2>1, <2>2 DEF Open
<1>14. \A c : Open(c, j)' <=> Open(c, j) /\ c # d
  <2>1. \A c : ~Drops(q, c, j)' BY <1>4 DEF Drops
  <2>2. \A o \in Requests \ {q} : \A c : Drops(o, c, j)' <=> Drops(o, c, j)
    BY <1>4 DEF Drops, Prunes
  <2>3. \A o \in Requests \ {q} : \A c : Drops(o, c, j) => c # d BY <1>9 DEF Drops
  <2>4. \A c : Drops(q, c, j) => c = d BY DEF Drops, d
  <2> QED BY <2>1, <2>2, <2>3, <2>4 DEF Open
<1>15. Pruned'
  <2> SUFFICES ASSUME NEW i \in jobs \ raced.jobs
               PROVE  wanted[i] = {c \in notify'[i] : ~Open(c, i)'}
    BY <1>1 DEF Pruned
  <2>1. wanted[i] = {c \in notify[i] : ~Open(c, i)} BY DEF References, Pruned
  <2>2. CASE i = j
    <3>1. Open(d, j) BY <1>1, <1>8 DEF Open, Drops, d
    <3> QED BY <1>11, <1>14, <2>1, <2>2, <3>1
  <2>3. CASE i # j BY <1>10, <1>13, <2>1, <2>3
  <2> QED BY <2>2, <2>3
<1> QED BY <1>6, <1>12, <1>15 DEF References

(* A removal ends when nothing is left to write back.                        *)
LEMMA PruneFinishes ==
  ASSUME References, ReportShape, NEW q \in Requests, PruneEnds(q)
  PROVE  References'
<1> USE DEF ReportShape
<1>1. /\ req[q].pc = "prune" /\ req[q].todo = {}
      /\ UNCHANGED <<chan, jobs, notify, wanted, raced>>
      /\ req'[q].pc = "answered"
      /\ \A o \in Requests \ {q} : req'[o] = req[o]
  BY DEF PruneEnds, Ends, RequestShape
<1>2. ~Prunes(q)' /\ \A o \in Requests \ {q} : Prunes(o)' = Prunes(o) BY <1>1 DEF Prunes
<1>3. Distinct' BY <1>1, <1>2 DEF Distinct, References
<1>4. \A o \in Requests : req'[o].pc = "prune" => req[o].pc = "prune" /\ req'[o] = req[o]
  BY <1>1
<1>5. ReadRight' BY <1>1, <1>4 DEF ReadRight, References
<1>6. \A c, j : Open(c, j)' <=> Open(c, j)
  <2>1. \A c, j : ~Drops(q, c, j) /\ ~Drops(q, c, j)' BY <1>1, <1>2 DEF Drops
  <2>2. \A o \in Requests \ {q} : \A c, j : Drops(o, c, j)' <=> Drops(o, c, j)
    BY <1>1 DEF Drops, Prunes
  <2> QED BY <2>1, <2>2 DEF Open
<1>7. Pruned' BY <1>1, <1>6 DEF Pruned, References
<1> QED BY <1>3, <1>5, <1>7 DEF References

(* A job is edited: it names what was sent.                                  *)
LEMMA JobEdited ==
  ASSUME References, ReportShape, NEW q \in Requests, NEW j \in Jobs, EditJob(q, j)
  PROVE  References'
<1> USE DEF ReportShape
<1>1. /\ req[q].pc = "new" /\ req'[q].pc = "answered" /\ UNCHANGED <<chan, jobs>>
      /\ \A o \in Requests \ {q} : req'[o] = req[o]
  BY DEF EditJob, Ends, RequestShape, New
<1>2. PICK c \in SUBSET Channels :
        notify' = [notify EXCEPT ![j] = c] /\ wanted' = [wanted EXCEPT ![j] = c]
  BY DEF EditJob
<1>3. /\ notify'[j] = c /\ wanted'[j] = c
      /\ \A i \in jobs \ {j} : notify'[i] = notify[i] /\ wanted'[i] = wanted[i]
  BY <1>2 DEF JobShape
<1>4. \A o \in Requests : /\ Prunes(o)' = Prunes(o)
                          /\ Prunes(o) => req'[o] = req[o]
  BY <1>1 DEF Prunes
<1>5. Distinct' BY <1>1, <1>4 DEF Distinct, References
<1>6. \A x, i : Open(x, i)' <=> Open(x, i) BY <1>4 DEF Open, Drops
<1>7. raced'.jobs = IF Pruning(Requests) THEN raced.jobs \cup {j} ELSE raced.jobs
  BY DEF EditJob, JobShape
<1>8. raced.jobs \subseteq raced'.jobs BY <1>7
<1>9. (\E o \in Requests : Prunes(o)) => j \in raced'.jobs BY <1>7 DEF Pruning, Prunes
<1>10. \A o \in Requests : req'[o].pc = "prune" =>
         req[o].pc = "prune" /\ req'[o] = req[o] /\ j \in raced'.jobs
  BY <1>1, <1>9 DEF Prunes
<1>11. ReadRight' BY <1>1, <1>3, <1>8, <1>10 DEF ReadRight, References
<1>12. Pruned'
  <2> SUFFICES ASSUME NEW i \in jobs \ raced'.jobs
               PROVE  wanted'[i] = {x \in notify'[i] : ~Open(x, i)}
    BY <1>1, <1>6 DEF Pruned
  <2>1. CASE i = j
    <3>1. \A o \in Requests : ~Prunes(o) BY <1>9, <2>1
    <3>2. \A x : ~Open(x, i) BY <3>1 DEF Open, Drops
    <3> QED BY <1>3, <2>1, <3>2
  <2>2. CASE i # j
    <3>1. wanted[i] = {x \in notify[i] : ~Open(x, i)}
      BY <1>8 DEF References, Pruned
    <3> QED BY <1>3, <2>2, <3>1
  <2> QED BY <2>1, <2>2
<1> QED BY <1>5, <1>11, <1>12 DEF References

(* Handlers that write channels and jobs, one by one.                        *)
LEMMA ReferencesStep ==
  ASSUME ReportShape, References, [ReportNext]_reportVars
  PROVE  References'
<1> USE DEF ReportShape
<1>1. ASSUME NEW q \in Requests, Handler(q) PROVE References'
  <2>1. RequestShape' /\ \A o \in Requests \ {q} : req'[o] = req[o]
    BY <1>1, HandlerMoves
  <2> DEFINE Else == /\ UNCHANGED <<notify, wanted>>
                     /\ jobs' \subseteq jobs /\ raced'.jobs = raced.jobs
                     /\ \A c \in Channels : chan'[c] = "gone" <=> chan[c] = "gone"
                     /\ req[q].pc \notin {"jobs", "prune"}
                     /\ req'[q].pc \notin {"jobs", "prune"}
  <2>2. CASE Else BY <2>1, <2>2, ReferencesKept
  <2>3. CASE Save(q)
    <3> HIDE DEF Else
    <3>a. req[q] = New BY <2>3 DEF Save
    <3>1. req[q].pc = "new" BY <3>a DEF New
    <3>2. req'[q].pc \in {"unregister", "answered"}
      <4>1. CASE report.live
        <5>1. req' = [req EXCEPT ![q] = [pc |-> "unregister", kind |-> "save"]]
          BY <2>3, <4>1 DEF Save
        <5> QED BY <5>1 DEF RequestShape
      <4>2. CASE ~report.live
        <5>1. Ends(q, "failure") BY <2>3, <4>2 DEF Save
        <5> QED BY <5>1 DEF RequestShape, Ends
      <4> QED BY <4>1, <4>2
    <3>3. UNCHANGED <<notify, wanted, jobs, chan, raced>> BY <2>3 DEF Save
    <3>4. Else BY <3>1, <3>2, <3>3 DEF Else
    <3> QED BY <2>2, <3>4
  <2>4. CASE Remove(q) BY <2>2, <2>4 DEF Remove, RequestShape, Ends, New
  <2>5. CASE ChangeTimezone(q)
    <3>1. req[q].pc = "new" /\ req'[q].pc = "row"
      BY <2>5 DEF ChangeTimezone, RequestShape, New
    <3>2. raced'.jobs = raced.jobs BY <2>5 DEF ChangeTimezone, Raced, JobShape
    <3> QED BY <2>2, <2>5, <3>1, <3>2 DEF ChangeTimezone
  <2>6. CASE Unregister(q)
    <3>1. req[q].pc = "unregister" /\ Shaped(req[q]) BY <2>6 DEF Unregister, RequestShape
    <3>2. req[q] = [pc |-> "unregister", kind |-> req[q].kind] BY <3>1 DEF Shaped
    <3>3. req'[q].pc \in {"row", "answered"}
      BY <2>6, <3>2 DEF Unregister, RequestShape, Ends, Step
    <3>4. raced'.jobs = raced.jobs BY <2>6 DEF Unregister, Raced, JobShape
    <3> QED BY <2>2, <2>6, <3>1, <3>3, <3>4 DEF Unregister
  <2>7. CASE ReadRow(q) BY <2>2, <2>7 DEF ReadRow, RequestShape
  <2>8. CASE Register(q) BY <2>2, <2>8 DEF Register, RequestShape, Ends
  <2>9. CASE PruneRead(q) BY <2>9, PruneReads
  <2>10. CASE PruneEnds(q) BY <2>10, PruneFinishes
  <2>11. CASE AuditWrite(q) BY <2>2, <2>11 DEF AuditWrite, RequestShape, Done
  <2>12. CASE SendNow(q) BY <2>2, <2>12 DEF SendNow, RequestShape, New
  <2>13. ASSUME NEW c \in Channels, ToggleChannel(q, c) PROVE References'
    <3>1. \A x \in Channels : chan'[x] = "gone" <=> chan[x] = "gone"
      BY <2>13 DEF ToggleChannel, JobShape
    <3>2. req[q].pc = "new" /\ req'[q].pc = "answered"
      BY <2>13 DEF ToggleChannel, RequestShape, Ends, New
    <3> QED BY <2>2, <2>13, <3>1, <3>2 DEF ToggleChannel
  <2>14. ASSUME NEW c \in Channels, RemoveChannel(q, c) PROVE References'
    <3>1. CASE chan[c] # "gone" BY <2>14, <3>1, RemoveBegins
    <3>2. CASE chan[c] = "gone"
      BY <2>2, <2>14, <3>2 DEF RemoveChannel, RequestShape, Ends, New
    <3> QED BY <3>1, <3>2
  <2>15. ASSUME NEW j \in Jobs, PruneWrite(q, j) PROVE References' BY <2>15, PruneWrites
  <2>16. ASSUME NEW j \in Jobs, EditJob(q, j) PROVE References' BY <2>16, JobEdited
  <2>17. ASSUME NEW j \in Jobs, DeleteJob(q, j) PROVE References'
    BY <2>2, <2>17 DEF DeleteJob, RequestShape, Ends, New
  <2> QED BY <1>1, <2>3, <2>4, <2>5, <2>6, <2>7, <2>8, <2>9, <2>10, <2>11, <2>12, <2>13,
             <2>14, <2>15, <2>16, <2>17 DEF Handler
<1>2. CASE Generation
  <2>1. \A q \in Requests : \/ req'[q] = req[q]
                            \/ req[q].pc = "sending" /\ req'[q].pc = "answered"
    BY <1>2, GenerationKeeps
  <2>2. UNCHANGED <<chan, jobs, notify, wanted, raced>> BY <1>2, GenerationKeeps
  <2> QED BY <2>1, <2>2, ReferencesKept
<1>3. CASE CronTick
  <2>1. UNCHANGED <<chan, jobs, notify, wanted, raced, req>> BY <1>3 DEF CronTick
  <2> QED BY <2>1, ReferencesKept
<1>4. CASE Restart
  <2>1. \A q \in Requests : ~Prunes(q)' BY <1>4, Restarted DEF New, Done, Prunes
  <2>2. UNCHANGED <<chan, jobs, notify, wanted>> BY <1>4 DEF Restart
  <2>3. raced'.jobs = IF Pruning(Requests) THEN Jobs ELSE raced.jobs BY <1>4 DEF Restart
  <2>4. \A c, j : ~Open(c, j)' BY <2>1 DEF Open, Drops
  <2>5. ~Pruning(Requests) => \A c, j : ~Open(c, j) BY DEF Pruning, Open, Drops, Prunes
  <2>6. Distinct' BY <2>1 DEF Distinct
  <2>7. ReadRight' BY <2>1 DEF ReadRight, Prunes
  <2>8. CASE Pruning(Requests)
    <3>1. jobs' \ raced'.jobs = {} BY <2>2, <2>3, <2>8 DEF JobShape
    <3> QED BY <2>6, <2>7, <3>1 DEF References, Pruned
  <2>9. CASE ~Pruning(Requests)
    <3>1. Pruned' BY <2>2, <2>3, <2>4, <2>5, <2>9 DEF References, Pruned
    <3> QED BY <2>6, <2>7, <3>1 DEF References
  <2> QED BY <2>8, <2>9
<1>5. CASE UNCHANGED reportVars
  <2>1. UNCHANGED <<chan, jobs, notify, wanted, raced, req>> BY <1>5 DEF reportVars
  <2> QED BY <2>1, ReferencesKept
<1> QED BY <1>1, <1>2, <1>3, <1>4, <1>5, Steps

-----------------------------------------------------------------------------
(* What a message counts.                                                    *)
LEMMA CountsStep ==
  ASSUME ReportShape, CountsRight, [ReportNext]_reportVars
  PROVE  CountsRight'
<1> USE DEF ReportShape
<1>1. CASE gen' = gen
  <2>1. \A j, s : Due(gen', j, s) = Due(gen, j, s) BY <1>1
  <2> QED BY <1>1, <2>1 DEF CountsRight
<1>2. CASE gen'.pc \notin {"names", "channels"} BY <1>2 DEF CountsRight
<1>3. CASE GenCount
  <2>1. PICK runs \in RunTables :
          gen' = [pc |-> "names", by |-> gen.by, rep |-> gen.rep, seen |-> runs,
                  named |-> {runs[i].job : i \in Counted(gen.rep.dataset, runs)},
                  counts |-> [j \in Selects(gen.rep.dataset) |->
                    [s \in gen.rep.dataset.statuses |->
                      Cardinality({i \in Counted(gen.rep.dataset, runs) :
                                     runs[i].job = j /\ runs[i].status = s})]]]
    BY <1>3 DEF GenCount
  <2> SUFFICES ASSUME NEW j \in Selects(gen.rep.dataset), NEW s \in gen.rep.dataset.statuses
               PROVE  /\ gen'.counts[j][s] = Cardinality(Due(gen', j, s))
                      /\ Due(gen', j, s) # {} => j \in gen'.named
    BY <2>1 DEF CountsRight
  <2>2. Due(gen', j, s) = {i \in Counted(gen.rep.dataset, runs) :
                             runs[i].job = j /\ runs[i].status = s}
    BY <2>1 DEF Due, Counted, InWindow
  <2>3. gen'.counts[j][s] = Cardinality(Due(gen', j, s)) BY <2>1, <2>2
  <2>4. Due(gen', j, s) # {} => j \in gen'.named BY <2>1, <2>2
  <2> QED BY <2>3, <2>4
<1>4. CASE GenNames
  <2>1. /\ gen'.counts = gen.counts /\ gen'.seen = gen.seen /\ gen'.rep = gen.rep
        /\ gen.named \subseteq gen'.named /\ gen.pc = "names"
    BY <1>4 DEF GenNames, GenShape
  <2>2. \A j, s : Due(gen', j, s) = Due(gen, j, s) BY <2>1 DEF Due
  <2> QED BY <2>1, <2>2 DEF CountsRight
<1>5. gen' = gen \/ gen'.pc \notin {"names", "channels"} \/ GenCount \/ GenNames
  <2> DEFINE Else == gen' = gen \/ gen'.pc \notin {"names", "channels"}
  <2>1. CASE Generation
    <3>1. ASSUME NEW c \in Channels, Deliver(c) PROVE gen'.pc = "deliver"
      BY <3>1 DEF Deliver, Fail, GenShape
    <3>2. GenRead \/ GenChannels \/ GenRecord => Else
      BY DEF GenRead, GenChannels, GenRecord, NoGen
    <3> QED BY <2>1, <3>1, <3>2 DEF Generation
  <2>2. CASE CronTick BY <2>2 DEF CronTick, Generate
  <2>3. ASSUME NEW q \in Requests, Handler(q) PROVE Else
    <3>1. CASE SendNow(q) BY <3>1 DEF SendNow, Generate
    <3>2. SendNow(q) \/ gen' = gen
      BY <2>3 DEF Handler, Save, Remove, ChangeTimezone, Unregister, ReadRow, Register,
           PruneRead, PruneEnds, AuditWrite, ToggleChannel, RemoveChannel, PruneWrite, EditJob,
           DeleteJob
    <3> QED BY <3>1, <3>2
  <2>4. CASE Restart BY <2>4 DEF Restart, NoGen
  <2>5. CASE UNCHANGED reportVars BY <2>5 DEF reportVars
  <2> QED BY <2>1, <2>2, <2>3, <2>4, <2>5, Steps
<1> QED BY <1>1, <1>2, <1>3, <1>4, <1>5

(* The runs that are due for the jobs of a list, once for each place.         *)
DuePairs(g, s) ==
  {x \in (DOMAIN g.rep.dataset.jobs) \X (DOMAIN g.seen) :
     x[2] \in Due(g, g.rep.dataset.jobs[x[1]], s)}

(* The totals add the rows up.                                               *)
LEMMA TotalsRight ==
  ASSUME MessageInv, gen.pc = "channels", NEW s \in gen.rep.dataset.statuses
  PROVE  Totals(gen)[s] = Cardinality(DuePairs(gen, s)) /\ IsFiniteSet(DuePairs(gen, s))
<1> USE DEF MessageInv, ReportShape
<1> DEFINE list == gen.rep.dataset.jobs
           D == DOMAIN list
           R == DOMAIN gen.seen
           due == [n \in D |-> Due(gen, list[n], s)]
<1>1. gen.rep.dataset \in Datasets /\ IsFiniteSet(R) BY DEF GenShape
<1>2. list \in Seq(Jobs) BY <1>1, DatasetShape
<1>3. IsFiniteSet(D)
  <2>1. D = 1 .. Len(list) /\ Len(list) \in Nat
    <3> HIDE DEF list
    <3> QED BY <1>2
  <2>2. IsFiniteSet(1 .. Len(list))
    <3> HIDE DEF list
    <3> QED BY <2>1, FS_Interval
  <2> HIDE DEF D
  <2> QED BY <2>1, <2>2
<1>4. ASSUME NEW n \in D
      PROVE  due[n] \subseteq R /\ gen.counts[list[n]][s] = Cardinality(due[n])
  <2>1. due[n] = Due(gen, list[n], s) OBVIOUS
  <2>2. list[n] \in Selects(gen.rep.dataset) BY DEF Selects
  <2>3. gen.counts[list[n]][s] = Cardinality(Due(gen, list[n], s)) BY <2>2 DEF CountsRight
  <2>4. Due(gen, list[n], s) \subseteq R BY DEF Due
  <2> HIDE DEF due
  <2> QED BY <2>1, <2>3, <2>4
<1>5. Totals(gen)[s] = SumOf(gen.counts, list, s, D) BY DEF Totals, SumOf
<1>6. PairsOf(D, R, due) = DuePairs(gen, s) BY DEF PairsOf, DuePairs
<1> HIDE DEF D, R, due, list
<1>7. /\ SumOf(gen.counts, list, s, D) = Cardinality(PairsOf(D, R, due))
      /\ IsFiniteSet(PairsOf(D, R, due))
  BY <1>1, <1>3, <1>4, SumOfCounts
<1> QED BY <1>5, <1>6, <1>7

(* A message calls itself failed exactly if a failed run is due.             *)
LEMMA StatusRight ==
  ASSUME MessageInv, gen.pc = "channels"
  PROVE  Status(gen) = "failed" <=>
           /\ "failed" \in gen.rep.dataset.statuses
           /\ \E n \in DOMAIN gen.rep.dataset.jobs :
                Due(gen, gen.rep.dataset.jobs[n], "failed") # {}
<1>1. CASE "failed" \notin gen.rep.dataset.statuses BY <1>1 DEF Status
<1>2. CASE "failed" \in gen.rep.dataset.statuses
  <2> DEFINE pairs == DuePairs(gen, "failed")
  <2>1. Totals(gen)["failed"] = Cardinality(pairs) /\ IsFiniteSet(pairs)
    BY <1>2, TotalsRight
  <2>2. pairs # {} <=> \E n \in DOMAIN gen.rep.dataset.jobs :
                         Due(gen, gen.rep.dataset.jobs[n], "failed") # {}
    <3>1. ASSUME NEW x \in pairs
          PROVE  \E n \in DOMAIN gen.rep.dataset.jobs :
                   Due(gen, gen.rep.dataset.jobs[n], "failed") # {}
      BY DEF DuePairs
    <3>2. ASSUME NEW n \in DOMAIN gen.rep.dataset.jobs,
                 NEW i \in Due(gen, gen.rep.dataset.jobs[n], "failed")
          PROVE  <<n, i>> \in pairs
      <4>1. i \in DOMAIN gen.seen BY DEF Due
      <4> QED BY <4>1 DEF DuePairs
    <3> HIDE DEF pairs
    <3> QED BY <3>1, <3>2
  <2> HIDE DEF pairs
  <2>3. Cardinality(pairs) \in Nat /\ (Cardinality(pairs) = 0 <=> pairs = {})
    BY <2>1, FS_CardinalityType, FS_EmptySet
  <2>4. Status(gen) = "failed" <=> Cardinality(pairs) > 0 BY <1>2, <2>1 DEF Status
  <2> QED BY <1>2, <2>2, <2>3, <2>4
<1> QED BY <1>1, <1>2

(* A message that counts right is sound.                                     *)
LEMMA MessageHolds == MessageInv => MessageSound
<1> SUFFICES ASSUME MessageInv, gen.pc = "channels" PROVE MessageSound
  BY DEF MessageSound
<1> DEFINE data == gen.rep.dataset
           due(j, s) == {i \in DOMAIN gen.seen :
                           gen.seen[i].job = j /\ gen.seen[i].status = s
                           /\ gen.seen[i].age < data.window}
<1>1. \A j, s : due(j, s) = Due(gen, j, s) BY DEF Due
<1>2. \A n \in DOMAIN data.jobs, s \in data.statuses :
        /\ gen.counts[data.jobs[n]][s] = Cardinality(due(data.jobs[n], s))
        /\ due(data.jobs[n], s) # {} => data.jobs[n] \in gen.named
  <2>1. \A j \in Selects(data), s \in data.statuses :
          /\ gen.counts[j][s] = Cardinality(Due(gen, j, s))
          /\ Due(gen, j, s) # {} => j \in gen.named
    BY DEF MessageInv, CountsRight
  <2>2. \A n \in DOMAIN data.jobs : data.jobs[n] \in Selects(data) BY DEF Selects
  <2> HIDE DEF due, data
  <2> QED BY <1>1, <2>1, <2>2
<1>3. ASSUME NEW s \in data.statuses
      PROVE  Totals(gen)[s] =
               Cardinality({x \in (DOMAIN data.jobs) \X (DOMAIN gen.seen) :
                              x[2] \in due(data.jobs[x[1]], s)})
  <2>1. Totals(gen)[s] = Cardinality(DuePairs(gen, s)) BY TotalsRight
  <2>2. DuePairs(gen, s) = {x \in (DOMAIN data.jobs) \X (DOMAIN gen.seen) :
                              x[2] \in Due(gen, data.jobs[x[1]], s)}
    BY DEF DuePairs
  <2> HIDE DEF due, data
  <2>3. {x \in (DOMAIN data.jobs) \X (DOMAIN gen.seen) : x[2] \in due(data.jobs[x[1]], s)}
          = {x \in (DOMAIN data.jobs) \X (DOMAIN gen.seen) :
               x[2] \in Due(gen, data.jobs[x[1]], s)}
    BY <1>1
  <2> QED BY <2>1, <2>2, <2>3
<1>4. Status(gen) = "failed" <=>
        /\ "failed" \in data.statuses
        /\ \E n \in DOMAIN data.jobs : due(data.jobs[n], "failed") # {}
  BY <1>1, StatusRight
<1>5. \A shown \in {RenderPlain(Message(gen)), RenderEmailHtml(Message(gen)),
                    RenderTeamsCard(Message(gen))} :
        "total" \in shown /\ (data.jobs # <<>> => "rows" \in shown)
  <2>1. /\ "total" \in RenderPlain(Message(gen))
        /\ data.jobs # <<>> => "rows" \in RenderPlain(Message(gen))
    BY DEF RenderPlain, Message
  <2>2. Message(gen).meta = {"window", "total"} BY DEF Message
  <2>3. data.jobs # <<>> => Message(gen).table = {"rows"} BY DEF Message
  <2> HIDE DEF data
  <2> QED BY <2>1, <2>2, <2>3 DEF RenderEmailHtml, RenderTeamsCard
<1> HIDE DEF due, data
<1> QED BY <1>2, <1>3, <1>4, <1>5 DEF MessageSound, due, data

(* At rest nothing is left to clear, to register or to take out.             *)
LEMMA ReferencesHold == ReferencesInv => ReferencesFollow
<1> SUFFICES ASSUME ReferencesInv, AtRest PROVE ReferencesFollow
  BY DEF ReferencesFollow, ReportScheduled, NotifyPruned
<1>1. \A q \in Requests : ~Prunes(q) /\ ~Syncing(q) /\ req[q].pc # "unregister"
  BY DEF AtRest, Prunes, Syncing
<1>2. ReportScheduled
  BY <1>1 DEF ReportScheduled, ReferencesInv, Scheduled, Synced, Clearing, Found
<1>3. \A c, j : ~Open(c, j) BY <1>1 DEF Open, Drops
<1>4. NotifyPruned BY <1>3 DEF NotifyPruned, ReferencesInv, Pruned
<1> QED BY <1>2, <1>4 DEF ReferencesFollow

-----------------------------------------------------------------------------
(* ReportSchedulerService.sync and pruneChannelFromJobs: whatever requests    *)
(* interleave, the cron job follows the row of its report unless two syncs    *)
(* overlapped, and a job names what was last wanted of it unless an edit, a   *)
(* second removal or a restart met the removal of a channel.                  *)
THEOREM ReferencesAlwaysFollow == ReportSpec => []ReferencesFollow
<1>1. ReportInit => ReferencesInv BY InitReports
<1>2. ReferencesInv /\ [ReportNext]_reportVars => ReferencesInv'
  BY ShapeStep, ScheduledStep, ReferencesStep DEF ReferencesInv, References
<1> QED BY <1>1, <1>2, ReferencesHold, PTL DEF ReportSpec

(* ReportsService.buildMessage and the renderers of the channels: whatever    *)
(* jobs a report lists, none and the same one twice included, and whatever    *)
(* happens between its queries, a message agrees with the runs it counted.    *)
THEOREM MessagesAreSound == ReportSpec => []MessageSound
<1>1. ReportInit => MessageInv BY InitReports
<1>2. MessageInv /\ [ReportNext]_reportVars => MessageInv'
  BY ShapeStep, CountsStep DEF MessageInv
<1> QED BY <1>1, <1>2, MessageHolds, PTL DEF ReportSpec

-----------------------------------------------------------------------------
(* The rows a page or a poll may bring, under which filters, and the shape of *)
(* what the page holds.                                                      *)
Statuses == {"queued", "running", "success", "failed", "cancelled"}
FeedRow == [id : Runs, status : Statuses]
Filters == [maintenance : BOOLEAN, failed : BOOLEAN, term : Terms \union {NoTerm}]

(* The state of the page and of the server.                                  *)
ServerType == status \in [Runs -> Statuses \union {"none"}]
FeedType ==
  /\ feed \in Seq(FeedRow) /\ filter \in Filters
  /\ offset \in Nat /\ seen = IdsOf(feed)
PagesType == pages \subseteq [filter : Filters, old : BOOLEAN, rows : Seq(FeedRow)]
PollsType ==
  polls \subseteq [phase : {"recent", "refetch"}, rows : Seq(FeedRow),
                   again : SUBSET FeedRow, crossed : BOOLEAN]
CancelType == posting \subseteq [id : Runs, ok : BOOLEAN]
DashboardType == ServerType /\ FeedType /\ PagesType /\ PollsType /\ CancelType

(* No row twice in a list.                                                   *)
Single(list) == \A i, j \in DOMAIN list : list[i].id = list[j].id => i = j
RowsOf(list) == {list[i] : i \in DOMAIN list}

(* What a row says that has ended is so, and an activity that was seen is    *)
(* there.                                                                    *)
TrueOf(x) == status[x.id] # "none" /\ (~isActive(x.status) => status[x.id] = x.status)

(* The lists have no row twice.                                              *)
Singles ==
  /\ Single(feed)
  /\ \A p \in pages : Single(p.rows)
  /\ \A p \in polls : Single(p.rows) /\ \A x, y \in Latest(p) : x.id = y.id => x = y

(* The activities shown, and those in answers, are there; what a poll says   *)
(* has ended has.                                                            *)
Known ==
  /\ \A i \in DOMAIN feed : status[feed[i].id] # "none"
  /\ \A p \in pages : \A x \in RowsOf(p.rows) : status[x.id] # "none"
  /\ \A p \in polls : \A x \in Latest(p) : TrueOf(x)

(* Rows are shown under the filters they were asked for with, unless they    *)
(* came from before the reset or show a cancel.                              *)
Fitting ==
  /\ \A i \in DOMAIN feed :
       \/ feed[i].id \in stray \/ Matches(filter, feed[i])
       \/ feed[i].id \in cancelled /\ ~isActive(feed[i].status)
  /\ \A p \in pages : \A x \in RowsOf(p.rows) : Matches(p.filter, x)
  /\ \A p \in polls : p.phase = "refetch" /\ ~p.crossed =>
       \A x \in Latest(p) : x.id \in stray \/ Matches(filter, x)
  /\ \A p \in polls : p.phase = "recent" => p.again = {}

(* One load is under way, that is not an old one.                            *)
OneLoad ==
  /\ \A p, q \in pages : ~p.old /\ ~q.old => p = q
  /\ \A p \in pages : ~p.old => loading

(* What was promised and is not shown comes after the offset, and after the  *)
(* page under way unless that brings it.                                     *)
Ahead(r, n) == Above(r, Selected(filter)) >= n
Promised ==
  /\ promised \subseteq Selected(filter)
  /\ ~torn =>
       /\ \A r \in promised \ IdsOf(feed) : Ahead(r, offset)
       /\ \A p \in pages : ~p.old /\ p.filter = filter =>
            \A r \in promised \ (IdsOf(feed) \union IdsOf(p.rows)) :
              Len(p.rows) = PageSize /\ Ahead(r, offset + Len(p.rows))
       /\ done => promised \subseteq IdsOf(feed)

(* The inductive invariant.                                                  *)
DashboardInv ==
  /\ DashboardType /\ Singles /\ Known
  /\ Fitting /\ OneLoad /\ Promised

-----------------------------------------------------------------------------
(* The places of a finite set of numbers, from the largest on.               *)
LEMMA Ranks ==
  ASSUME NEW S, S \subseteq Nat, IsFiniteSet(S)
  PROVE  /\ Cardinality(S) \in Nat
         /\ \A x \in S : Above(x, S) \in 0 .. Cardinality(S) - 1
         /\ \A x, y \in S : Above(x, S) = Above(y, S) => x = y
         /\ \A k \in 0 .. Cardinality(S) - 1 : \E x \in S : Above(x, S) = k
<1> DEFINE n == Cardinality(S)
           above(x) == {q \in S : q > x}
<1>1. n \in Nat BY FS_CardinalityType
<1>2. ASSUME NEW x \in S
      PROVE  IsFiniteSet(above(x)) /\ Cardinality(above(x)) \in 0 .. n - 1
  <2>1. above(x) \subseteq S \ {x} OBVIOUS
  <2>2. IsFiniteSet(S \ {x}) /\ Cardinality(S \ {x}) = n - 1 BY FS_RemoveElement
  <2>3. IsFiniteSet(above(x)) /\ Cardinality(above(x)) <= n - 1
    <3> HIDE DEF above, n
    <3> QED BY <2>1, <2>2, FS_Subset
  <2>4. Cardinality(above(x)) \in Nat
    <3> HIDE DEF above
    <3> QED BY <2>3, FS_CardinalityType
  <2> HIDE DEF above, n
  <2> QED BY <1>1, <2>3, <2>4
<1>3. ASSUME NEW x \in S, NEW y \in S, x < y
      PROVE  Cardinality(above(x)) # Cardinality(above(y))
  <2>1. above(y) \subseteq above(x) /\ y \in above(x) /\ y \notin above(y)
    <3>1. x \in Nat /\ y \in Nat OBVIOUS
    <3>2. ASSUME NEW q \in S, q > y PROVE q > x
      <4>1. q \in Nat OBVIOUS
      <4> QED BY <1>3, <3>1, <3>2, <4>1
    <3>3. y \notin above(y) BY <3>1
    <3>4. y \in above(x) BY <1>3, <3>1
    <3>5. above(y) \subseteq above(x) BY <3>2
    <3> QED BY <3>3, <3>4, <3>5
  <2>2. IsFiniteSet(above(x)) BY <1>2
  <2> DEFINE ax == above(x)  ay == above(y)
  <2>3. IsFiniteSet(ax) /\ ay \in SUBSET ax /\ ax # ay BY <2>1, <2>2
  <2>4. Cardinality(ax) # Cardinality(ay)
    <3> HIDE DEF ax, ay
    <3> QED BY <2>3, FS_Subset
  <2> QED BY <2>4
<1>4. \A x \in S, y \in S : Cardinality(above(x)) = Cardinality(above(y)) => x = y
  <2> SUFFICES ASSUME NEW x \in S, NEW y \in S, Cardinality(above(x)) = Cardinality(above(y))
               PROVE  x = y
    OBVIOUS
  <2>1. ~(x < y) /\ ~(y < x) BY <1>3
  <2>2. x \in Nat /\ y \in Nat OBVIOUS
  <2> HIDE DEF above
  <2> QED BY <2>1, <2>2
<1> DEFINE f == [x \in S |-> Cardinality(above(x))]
<1>5. f \in Injection(S, 0 .. n - 1)
  <2>1. f \in [S -> 0 .. n - 1]
    <3> HIDE DEF above, n
    <3> QED BY <1>2
  <2>2. \A a, b \in S : f[a] = f[b] => a = b
    <3> HIDE DEF above
    <3> QED BY <1>4
  <2> HIDE DEF f, n
  <2> QED BY <2>1, <2>2 DEF Injection, IsInjective
<1>6. IsFiniteSet(0 .. n - 1) /\ Cardinality(0 .. n - 1) = n
  <2> HIDE DEF n
  <2>1. IsFiniteSet(0 .. n - 1) /\ Cardinality(0 .. n - 1) = IF 0 > n - 1 THEN 0 ELSE n - 1 - 0 + 1
    BY <1>1, FS_Interval
  <2> QED BY <1>1, <2>1
<1>7. f \in Surjection(S, 0 .. n - 1)
  <2> HIDE DEF f
  <2> QED BY <1>5, <1>6, FS_Injection
<1>8. \A k \in 0 .. n - 1 : \E x \in S : f[x] = k
  <2> HIDE DEF f, n
  <2> QED BY <1>7 DEF Surjection
<1>9. \A x : Above(x, S) = Cardinality(above(x)) BY DEF Above
<1> HIDE DEF above, n
<1> QED BY <1>1, <1>2, <1>4, <1>8, <1>9 DEF n

(* What the list of activities holds: found ones, each once, and all of those *)
(* that the places asked for reach.                                           *)
LEMMA Lists ==
  ASSUME NEW f, NEW from \in Nat, NEW limit \in Nat, ServerType
  PROVE  /\ IsFiniteSet(Selected(f))
         /\ List(f, from, limit) \in Seq(FeedRow)
         /\ Len(List(f, from, limit)) <= limit
         /\ Single(List(f, from, limit))
         /\ \A x \in RowsOf(List(f, from, limit)) :
              x.id \in Selected(f) /\ x = RowOf(x.id)
         /\ \A r \in Selected(f) :
              Above(r, Selected(f)) >= from /\ r \notin IdsOf(List(f, from, limit)) =>
                /\ Len(List(f, from, limit)) = limit
                /\ Above(r, Selected(f)) >= from + limit
<1> DEFINE S == Selected(f)
           n == Smaller(limit, Cardinality(S) - from)
           at(k) == CHOOSE r \in S : Above(r, S) = from + k - 1
           L == List(f, from, limit)
<1>1. S \subseteq Nat /\ S \subseteq Runs /\ \A r \in S : status[r] # "none"
  BY DEF Selected, Activities, Runs
<1>2. IsFiniteSet(S)
  <2>1. IsFiniteSet(Runs) BY FS_Interval, DashboardAssumption DEF Runs
  <2> HIDE DEF S
  <2> QED BY <1>1, <2>1, FS_Subset
<1>3. /\ Cardinality(S) \in Nat
      /\ \A x \in S : Above(x, S) \in 0 .. Cardinality(S) - 1
      /\ \A x, y \in S : Above(x, S) = Above(y, S) => x = y
      /\ \A k \in 0 .. Cardinality(S) - 1 : \E x \in S : Above(x, S) = k
  <2> HIDE DEF S
  <2> QED BY <1>1, <1>2, Ranks
<1>4. L = [k \in 1 .. n |-> RowOf(at(k))] BY DEF List
<1>5. n \in Int /\ n <= limit /\ n <= Cardinality(S) - from
      /\ (n = limit \/ n = Cardinality(S) - from)
  <2> HIDE DEF S
  <2> QED BY <1>3 DEF Smaller
<1>6. ASSUME NEW k \in 1 .. n PROVE at(k) \in S /\ Above(at(k), S) = from + k - 1
  <2>1. from + k - 1 \in 0 .. Cardinality(S) - 1
    <3> HIDE DEF S, n
    <3> QED BY <1>3, <1>5
  <2>2. \E r \in S : Above(r, S) = from + k - 1
    <3> HIDE DEF S, n
    <3> QED BY <1>3, <2>1
  <2> HIDE DEF S, n
  <2> QED BY <2>2
<1>7. ASSUME NEW k \in 1 .. n PROVE L[k] = RowOf(at(k)) /\ RowOf(at(k)) \in FeedRow
  <2>1. L[k] = RowOf(at(k))
    <3> HIDE DEF at, n, L
    <3> QED BY <1>4
  <2>2. at(k) \in S BY <1>6
  <2> HIDE DEF at, n, L, S
  <2> QED BY <1>1, <2>1, <2>2 DEF RowOf, FeedRow, ServerType
<1> HIDE DEF at, n, L, S
<1>8. DOMAIN L = 1 .. n BY <1>4
<1>a. \A r : RowOf(r).id = r BY DEF RowOf
<1>b. ASSUME NEW k \in 1 .. n PROVE L[k].id = at(k) /\ L[k] = RowOf(at(k)) /\ at(k) \in S
  <2>1. L[k] = RowOf(at(k)) /\ at(k) \in S BY <1>6, <1>7
  <2> QED BY <1>a, <2>1
<1>9. L \in Seq(FeedRow) /\ Len(L) = IF n > 0 THEN n ELSE 0
  <2>1. CASE n > 0
    <3>1. n \in Nat BY <1>5, <2>1
    <3>2. L \in [1 .. n -> FeedRow] BY <1>4, <1>7
    <3> QED BY <2>1, <3>1, <3>2
  <2>2. CASE ~(n > 0)
    <3>1. 1 .. n = {} BY <1>5, <2>2
    <3>2. L = <<>> BY <1>4, <3>1
    <3> QED BY <2>2, <3>2
  <2> QED BY <2>1, <2>2
<1>10. Len(L) <= limit BY <1>5, <1>9
<1>11. Single(L)
  <2> SUFFICES ASSUME NEW i \in 1 .. n, NEW j \in 1 .. n, L[i].id = L[j].id PROVE i = j
    BY <1>8 DEF Single
  <2>1. at(i) = at(j) BY <1>b
  <2>2. from + i - 1 = from + j - 1 BY <1>6, <2>1
  <2> QED BY <1>5, <2>2
<1>12. ASSUME NEW x \in RowsOf(L) PROVE x.id \in S /\ x = RowOf(x.id)
  <2>1. PICK i \in 1 .. n : x = L[i] BY <1>8 DEF RowsOf
  <2> QED BY <1>b, <2>1
<1>13. ASSUME NEW r \in S, Above(r, S) >= from, r \notin IdsOf(L)
       PROVE  Len(L) = limit /\ Above(r, S) >= from + limit
  <2>1. Above(r, S) \in 0 .. Cardinality(S) - 1 BY <1>3
  <2> DEFINE k == Above(r, S) - from + 1
  <2>2. k \in Int /\ k >= 1 /\ k <= Cardinality(S) - from /\ from + k - 1 = Above(r, S)
    BY <1>3, <1>13, <2>1
  <2>3. ~(k <= n)
    <3> SUFFICES ASSUME k <= n PROVE FALSE
      OBVIOUS
    <3>1. k \in 1 .. n BY <1>5, <2>2
    <3> HIDE DEF k
    <3>2. at(k) = r BY <1>3, <1>6, <2>2, <3>1
    <3>3. L[k].id = r /\ k \in DOMAIN L BY <1>b, <1>8, <3>1, <3>2
    <3> QED BY <1>13, <3>3 DEF IdsOf
  <2> HIDE DEF k
  <2>4. n = limit BY <1>5, <2>2, <2>3
  <2>5. k > limit BY <1>5, <2>2, <2>3, <2>4
  <2>6. Len(L) = limit BY <1>9, <2>4
  <2>7. Above(r, S) >= from + limit BY <2>1, <2>2, <2>5
  <2> QED BY <2>6, <2>7
<1> QED BY <1>2, <1>9, <1>10, <1>11, <1>12, <1>13 DEF S, L

(* What keeping the rows at some places keeps.                               *)
LEMMA Keeps ==
  ASSUME NEW list \in Seq(FeedRow), NEW places \in SUBSET DOMAIN list
  PROVE  /\ Keep(list, places) \in Seq(FeedRow)
         /\ RowsOf(Keep(list, places)) = {list[i] : i \in places}
         /\ IdsOf(Keep(list, places)) = {list[i].id : i \in places}
         /\ Single(list) => Single(Keep(list, places))
<1> DEFINE n == Cardinality(places)
           at(k) == CHOOSE i \in places : Above(i, places) = n - k
           K == Keep(list, places)
<1>1. places \subseteq Nat /\ IsFiniteSet(places)
  <2>1. DOMAIN list = 1 .. Len(list) /\ Len(list) \in Nat OBVIOUS
  <2>2. IsFiniteSet(DOMAIN list) BY <2>1, FS_Interval
  <2> QED BY <2>1, <2>2, FS_Subset
<1>2. /\ n \in Nat
      /\ \A x \in places : Above(x, places) \in 0 .. n - 1
      /\ \A x, y \in places : Above(x, places) = Above(y, places) => x = y
      /\ \A k \in 0 .. n - 1 : \E x \in places : Above(x, places) = k
  BY <1>1, Ranks
<1>3. K = [k \in 1 .. n |-> list[at(k)]] BY DEF Keep
<1>4. ASSUME NEW k \in 1 .. n PROVE at(k) \in places /\ Above(at(k), places) = n - k
  <2> HIDE DEF n
  <2>1. n - k \in 0 .. n - 1 BY <1>2
  <2>2. \E i \in places : Above(i, places) = n - k BY <1>2, <2>1
  <2> QED BY <2>2
<1> HIDE DEF n, at, K
<1>5. ASSUME NEW k \in 1 .. n PROVE K[k] = list[at(k)] /\ K[k] \in FeedRow
  BY <1>3, <1>4
<1>6. K \in Seq(FeedRow) /\ DOMAIN K = 1 .. n
  <2>1. K \in [1 .. n -> FeedRow] BY <1>3, <1>5
  <2> QED BY <1>2, <2>1
<1>7. ASSUME NEW i \in places PROVE \E k \in 1 .. n : at(k) = i
  <2>1. Above(i, places) \in 0 .. n - 1 BY <1>2
  <2>2. n - Above(i, places) \in 1 .. n BY <1>2, <2>1
  <2>3. n - (n - Above(i, places)) = Above(i, places) BY <1>2, <2>1
  <2>4. at(n - Above(i, places)) = i BY <1>2, <1>4, <2>2, <2>3
  <2> QED BY <2>2, <2>4
<1>8. RowsOf(K) = {list[i] : i \in places} BY <1>4, <1>5, <1>6, <1>7 DEF RowsOf
<1>9. IdsOf(K) = {list[i].id : i \in places} BY <1>4, <1>5, <1>6, <1>7 DEF IdsOf
<1>10. ASSUME Single(list), NEW k \in 1 .. n, NEW m \in 1 .. n, K[k].id = K[m].id
       PROVE  k = m
  <2>1. at(k) = at(m) BY <1>4, <1>5, <1>10 DEF Single
  <2>2. n - k = n - m BY <1>4, <2>1
  <2> QED BY <1>2, <2>2
<1>11. Single(list) => Single(K) BY <1>6, <1>10 DEF Single
<1> QED BY <1>6, <1>8, <1>9, <1>11 DEF K

(* What fresh rows are.                                                      *)
LEMMA FreshRows ==
  ASSUME NEW list \in Seq(FeedRow), FeedType, Single(list)
  PROVE  /\ Fresh(list) \in Seq(FeedRow) /\ Single(Fresh(list))
         /\ RowsOf(Fresh(list)) \subseteq RowsOf(list)
         /\ IdsOf(Fresh(list)) = IdsOf(list) \ IdsOf(feed)
<1> DEFINE places == {i \in DOMAIN list : list[i].id \notin seen}
<1>1. Fresh(list) = Keep(list, places) BY DEF Fresh
<1>2. places \in SUBSET DOMAIN list OBVIOUS
<1>3. /\ Fresh(list) \in Seq(FeedRow) /\ Single(Fresh(list))
      /\ RowsOf(Fresh(list)) = {list[i] : i \in places}
      /\ IdsOf(Fresh(list)) = {list[i].id : i \in places}
  <2> HIDE DEF places
  <2> QED BY <1>1, <1>2, Keeps
<1> QED BY <1>3 DEF RowsOf, IdsOf, FeedType

(* Two lists one after the other.                                            *)
LEMMA Joined ==
  ASSUME NEW a \in Seq(FeedRow), NEW b \in Seq(FeedRow), Single(a), Single(b),
         IdsOf(a) \cap IdsOf(b) = {}
  PROVE  /\ a \o b \in Seq(FeedRow) /\ Single(a \o b)
         /\ RowsOf(a \o b) = RowsOf(a) \union RowsOf(b)
         /\ IdsOf(a \o b) = IdsOf(a) \union IdsOf(b)
<1> DEFINE c == a \o b
<1>1. c \in Seq(FeedRow) /\ Len(c) = Len(a) + Len(b) OBVIOUS
<1>2. Len(a) \in Nat /\ Len(b) \in Nat /\ DOMAIN a = 1 .. Len(a) /\ DOMAIN b = 1 .. Len(b)
  OBVIOUS
<1>3. ASSUME NEW i \in 1 .. Len(a) PROVE i \in 1 .. Len(c) /\ c[i] = a[i]
  BY <1>1, <1>2
<1>4. ASSUME NEW i \in 1 .. Len(b)
      PROVE  Len(a) + i \in 1 .. Len(c) /\ c[Len(a) + i] = b[i]
  BY <1>1, <1>2
<1>5. ASSUME NEW i \in 1 .. Len(c)
      PROVE  \/ i \in 1 .. Len(a) /\ c[i] = a[i]
             \/ i \notin 1 .. Len(a) /\ i - Len(a) \in 1 .. Len(b) /\ c[i] = b[i - Len(a)]
  BY <1>1, <1>2
<1>6. DOMAIN c = 1 .. Len(c) BY <1>1
<1> HIDE DEF c
<1>7. RowsOf(c) = RowsOf(a) \union RowsOf(b)
  <2>1. RowsOf(c) \subseteq RowsOf(a) \union RowsOf(b) BY <1>2, <1>5, <1>6 DEF RowsOf
  <2>2. RowsOf(a) \subseteq RowsOf(c) BY <1>2, <1>3, <1>6 DEF RowsOf
  <2>3. RowsOf(b) \subseteq RowsOf(c) BY <1>2, <1>4, <1>6 DEF RowsOf
  <2> QED BY <2>1, <2>2, <2>3
<1>8. \A list : IdsOf(list) = {x.id : x \in RowsOf(list)} BY DEF IdsOf, RowsOf
<1>9. IdsOf(c) = IdsOf(a) \union IdsOf(b) BY <1>7, <1>8
<1>10. ASSUME NEW i \in 1 .. Len(c), NEW j \in 1 .. Len(c), c[i].id = c[j].id PROVE i = j
  <2>1. CASE i \in 1 .. Len(a) /\ j \in 1 .. Len(a)
    BY <1>2, <1>5, <1>10, <2>1 DEF Single
  <2>2. CASE i \notin 1 .. Len(a) /\ j \notin 1 .. Len(a)
    <3>1. i - Len(a) = j - Len(a) BY <1>2, <1>5, <1>10, <2>2 DEF Single
    <3> QED BY <1>1, <1>2, <3>1
  <2>3. CASE i \in 1 .. Len(a) /\ j \notin 1 .. Len(a)
    BY <1>2, <1>5, <1>10, <2>3 DEF IdsOf
  <2>4. CASE i \notin 1 .. Len(a) /\ j \in 1 .. Len(a)
    BY <1>2, <1>5, <1>10, <2>4 DEF IdsOf
  <2> QED BY <2>1, <2>2, <2>3, <2>4
<1>11. Single(c) BY <1>6, <1>10 DEF Single
<1> QED BY <1>1, <1>7, <1>9, <1>11 DEF c

-----------------------------------------------------------------------------
(* What a request for a page brings.                                         *)
LEMMA Requested ==
  ASSUME ServerType, NEW f \in Filters, NEW from \in Nat
  PROVE  LET p == PageRequest(f, from)
         IN  /\ p \in [filter : Filters, old : BOOLEAN, rows : Seq(FeedRow)]
             /\ ~p.old /\ p.filter = f
             /\ Single(p.rows)
             /\ \A x \in RowsOf(p.rows) : status[x.id] # "none" /\ Matches(f, x)
             /\ \A r \in Selected(f) :
                  Above(r, Selected(f)) >= from /\ r \notin IdsOf(p.rows) =>
                    /\ Len(p.rows) = PageSize
                    /\ Above(r, Selected(f)) >= from + Len(p.rows)
<1> DEFINE list == List(f, from, PageSize)
<1>1. PageSize \in Nat BY DashboardAssumption
<1>2. /\ list \in Seq(FeedRow) /\ Single(list)
      /\ \A x \in RowsOf(list) : x.id \in Selected(f) /\ x = RowOf(x.id)
      /\ \A r \in Selected(f) :
           Above(r, Selected(f)) >= from /\ r \notin IdsOf(list) =>
             Len(list) = PageSize /\ Above(r, Selected(f)) >= from + PageSize
  BY <1>1, Lists
<1>3. PageRequest(f, from) = [filter |-> f, old |-> FALSE, rows |-> list] BY DEF PageRequest
<1> HIDE DEF list
<1>4. ASSUME NEW x \in RowsOf(list) PROVE status[x.id] # "none" /\ Matches(f, x)
  <2>1. x.id \in Selected(f) /\ x = RowOf(x.id) BY <1>2
  <2>2. status[x.id] # "none" /\ Matches(f, RowOf(x.id)) BY <2>1 DEF Selected, Activities
  <2> QED BY <2>1, <2>2
<1> QED BY <1>2, <1>3, <1>4

(* What a new poll finds.                                                    *)
LEMMA Polled ==
  ASSUME ServerType
  PROVE  /\ NewPoll \in [phase : {"recent", "refetch"}, rows : Seq(FeedRow),
                         again : SUBSET FeedRow, crossed : BOOLEAN]
         /\ NewPoll.phase = "recent" /\ NewPoll.again = {}
         /\ Single(NewPoll.rows)
         /\ \A x \in Latest(NewPoll) : status[x.id] # "none" /\ x.status = status[x.id]
         /\ \A x, y \in Latest(NewPoll) : x.id = y.id => x = y
<1>1. RecentSize \in Nat /\ 0 \in Nat BY DashboardAssumption
<1>2. /\ Recent \in Seq(FeedRow) /\ Single(Recent)
      /\ \A x \in RowsOf(Recent) : x.id \in Selected(NoFilter) /\ x = RowOf(x.id)
  BY <1>1, Lists DEF Recent
<1>3. NewPoll = [phase |-> "recent", rows |-> Recent, again |-> {}, crossed |-> FALSE]
  BY DEF NewPoll
<1>4. Latest(NewPoll) = RowsOf(Recent) BY <1>3 DEF Latest, RowsOf
<1>5. ASSUME NEW x \in RowsOf(Recent) PROVE status[x.id] # "none" /\ x.status = status[x.id]
  <2>1. x.id \in Selected(NoFilter) /\ x = RowOf(x.id) BY <1>2
  <2>2. status[x.id] # "none" BY <2>1 DEF Selected, Activities
  <2>3. x.status = status[x.id] BY <2>1 DEF RowOf
  <2> QED BY <2>2, <2>3
<1>6. \A x, y \in RowsOf(Recent) : x.id = y.id => x = y BY <1>2
<1>7. {} \in SUBSET FeedRow OBVIOUS
<1>8. NewPoll \in [phase : {"recent", "refetch"}, rows : Seq(FeedRow),
                   again : SUBSET FeedRow, crossed : BOOLEAN]
  BY <1>2, <1>3, <1>7
<1>9. NewPoll.phase = "recent" /\ NewPoll.again = {} /\ NewPoll.rows = Recent BY <1>3
<1> QED BY <1>2, <1>4, <1>5, <1>6, <1>8, <1>9

(* More activities move one that is found further away from the newest.      *)
LEMMA AboveGrows ==
  ASSUME NEW S, NEW T, S \subseteq T, IsFiniteSet(T), NEW r
  PROVE  Above(r, S) \in Nat /\ Above(r, T) \in Nat /\ Above(r, S) <= Above(r, T)
<1> DEFINE s == {q \in S : q > r}
           t == {q \in T : q > r}
<1>1. s \subseteq t /\ t \subseteq T OBVIOUS
<1>2. Above(r, S) = Cardinality(s) /\ Above(r, T) = Cardinality(t) BY DEF Above
<1> HIDE DEF s, t
<1>3. IsFiniteSet(t) BY <1>1, FS_Subset
<1>4. IsFiniteSet(s) /\ Cardinality(s) <= Cardinality(t) BY <1>1, <1>3, FS_Subset
<1> QED BY <1>2, <1>3, <1>4, FS_CardinalityType

(* The server creates and ends activities.                                   *)
LEMMA ServerKeeps ==
  ASSUME DashboardInv, ServerType',
         UNCHANGED <<feedVars, filter, pages, polls, cancelled, posting, ghosts>>,
         \A r \in Runs : status[r] # "none" =>
           /\ status'[r] # "none"
           /\ ~isActive(status[r]) => status'[r] = status[r]
  PROVE  DashboardInv'
<1> USE DEF feedVars, ghosts
<1>1. DashboardType' /\ Singles'
  BY DEF DashboardInv, DashboardType, FeedType, PagesType, PollsType, CancelType, Singles
<1>2. ASSUME NEW x \in FeedRow, TrueOf(x) PROVE TrueOf(x)'
  BY <1>2 DEF TrueOf, FeedRow
<1>3. \A p \in polls : Latest(p) \subseteq FeedRow
  BY DEF DashboardInv, DashboardType, PollsType, Latest
<1>4. \A p \in pages : RowsOf(p.rows) \subseteq FeedRow
  BY DEF DashboardInv, DashboardType, PagesType, RowsOf
<1>5. \A i \in DOMAIN feed : feed[i] \in FeedRow
  BY DEF DashboardInv, DashboardType, FeedType
<1>6. Known'
  <2>1. \A i \in DOMAIN feed' : status'[feed'[i].id] # "none"
    BY <1>5 DEF DashboardInv, Known, FeedRow
  <2>2. \A p \in pages' : \A x \in RowsOf(p.rows) : status'[x.id] # "none"
    BY <1>4 DEF DashboardInv, Known, FeedRow
  <2>3. \A p \in polls' : \A x \in Latest(p) : TrueOf(x)'
    BY <1>2, <1>3 DEF DashboardInv, Known
  <2> QED BY <2>1, <2>2, <2>3 DEF Known
<1>7. Fitting' BY DEF DashboardInv, Fitting
<1>9. OneLoad' BY DEF DashboardInv, OneLoad
<1>10. Promised'
  <2> DEFINE S == Selected(filter)
             T == Selected(filter)'
  <2>1. S \subseteq T
    <3> SUFFICES ASSUME NEW r \in S PROVE r \in T
      OBVIOUS
    <3>1. r \in Runs /\ status[r] # "none" /\ Matches(filter, RowOf(r))
      BY DEF Selected, Activities
    <3>2. status'[r] # "none" BY <3>1
    <3>3. filter.failed => status'[r] = status[r]
      BY <3>1 DEF Matches, RowOf, isActive
    <3>4. Matches(filter', RowOf(r)') BY <3>1, <3>3 DEF Matches, RowOf
    <3> QED BY <3>1, <3>2, <3>4 DEF Selected, Activities
  <2>2. IsFiniteSet(T)
    <3>1. IsFiniteSet(Runs) BY FS_Interval, DashboardAssumption DEF Runs
    <3>2. T \subseteq Runs BY DEF Selected, Activities
    <3> HIDE DEF T
    <3> QED BY <3>1, <3>2, FS_Subset
  <2>3. ASSUME NEW r, NEW n \in Nat, Ahead(r, n) PROVE Ahead(r, n)'
    <3>1. Above(r, S) >= n BY <2>3 DEF Ahead
    <3>2. Above(r, S) \in Nat /\ Above(r, T) \in Nat /\ Above(r, S) <= Above(r, T)
      <4> HIDE DEF S, T
      <4> QED BY <2>1, <2>2, AboveGrows
    <3>3. Above(r, T) >= n
      <4> HIDE DEF S, T
      <4> QED BY <3>1, <3>2
    <3> QED BY <3>3 DEF Ahead
  <2>4. offset \in Nat BY DEF DashboardInv, DashboardType, FeedType
  <2>5. \A p \in pages : offset + Len(p.rows) \in Nat
    BY <2>4 DEF DashboardInv, DashboardType, PagesType
  <2>6. promised' \subseteq Selected(filter)' BY <2>1 DEF DashboardInv, Promised
  <2> HIDE DEF S, T
  <2> QED BY <2>3, <2>4, <2>5, <2>6 DEF DashboardInv, Promised
<1> QED BY <1>1, <1>6, <1>7, <1>9, <1>10 DEF DashboardInv

(* The tables and the filter are as they were.                               *)
LEMMA SameSelection ==
  ASSUME UNCHANGED <<status, filter>>
  PROVE  /\ Selected(filter)' = Selected(filter)
         /\ \A r, n : Ahead(r, n)' <=> Ahead(r, n)
<1>1. Selected(filter)' = Selected(filter) BY DEF Selected, Activities, RowOf
<1> QED BY <1>1 DEF Ahead

(* A cancel is sent, or its answer is lost.                                  *)
LEMMA QuietStep ==
  ASSUME DashboardInv, CancelType',
         UNCHANGED <<status, feedVars, filter, pages, polls, cancelled, ghosts>>
  PROVE  DashboardInv'
<1> USE DEF feedVars, ghosts
<1>1. DashboardType' /\ Singles' /\ Known'
  BY DEF DashboardInv, DashboardType, ServerType, FeedType, PagesType, PollsType, Singles, Known,
         TrueOf
<1>2. Fitting' BY DEF DashboardInv, Fitting
<1>3. OneLoad' BY DEF DashboardInv, OneLoad
<1>4. Promised' BY SameSelection DEF DashboardInv, Promised
<1> QED BY <1>1, <1>2, <1>3, <1>4 DEF DashboardInv

(* The answers under way are fewer, or one more that was asked for now.      *)
LEMMA LoadStep ==
  ASSUME DashboardInv, NEW f \in Filters, NEW rest, rest \subseteq pages, ~loading,
         loading', pages' = rest \union {PageRequest(f, offset)},
         UNCHANGED <<status, feed, seen, offset, done, filter, polls, cancelled, posting,
                     ghosts>>
  PROVE  DashboardInv'
<1> DEFINE new == PageRequest(f, offset)
<1> USE DEF ghosts
<1>1. offset \in Nat /\ ServerType BY DEF DashboardInv, DashboardType, FeedType
<1>2. /\ new \in [filter : Filters, old : BOOLEAN, rows : Seq(FeedRow)]
      /\ ~new.old /\ new.filter = f
      /\ Single(new.rows)
      /\ \A x \in RowsOf(new.rows) : status[x.id] # "none" /\ Matches(f, x)
      /\ \A r \in Selected(f) :
           Above(r, Selected(f)) >= offset /\ r \notin IdsOf(new.rows) =>
             Len(new.rows) = PageSize /\ Above(r, Selected(f)) >= offset + Len(new.rows)
  BY <1>1, Requested
<1>3. pages' = rest \union {new} OBVIOUS
<1> HIDE DEF new
<1>4. DashboardType'
  BY <1>2, <1>3 DEF DashboardInv, DashboardType, ServerType, FeedType, PagesType, PollsType,
                    CancelType
<1>5. Singles' BY <1>2, <1>3 DEF DashboardInv, Singles
<1>6. Known' BY <1>2, <1>3 DEF DashboardInv, Known, TrueOf
<1>7. Fitting' BY <1>2, <1>3 DEF DashboardInv, Fitting
<1>9. OneLoad'
  <2>1. \A p \in rest : p.old BY DEF DashboardInv, OneLoad
  <2> QED BY <1>3, <2>1 DEF OneLoad
<1>10. Promised'
  <2>1. promised' \subseteq Selected(filter)' BY SameSelection DEF DashboardInv, Promised
  <2>2. ASSUME ~torn PROVE \A r \in promised \ IdsOf(feed) : Ahead(r, offset)
    BY <2>2 DEF DashboardInv, Promised
  <2>3. ASSUME ~torn, f = filter, NEW r \in promised \ (IdsOf(feed) \union IdsOf(new.rows))
        PROVE  Len(new.rows) = PageSize /\ Ahead(r, offset + Len(new.rows))
    <3>1. r \in Selected(f) BY <2>3 DEF DashboardInv, Promised
    <3>2. Above(r, Selected(f)) >= offset BY <2>2, <2>3 DEF Ahead
    <3>3. r \notin IdsOf(new.rows) BY <2>3
    <3> QED BY <1>2, <2>3, <3>1, <3>2, <3>3 DEF Ahead
  <2>4. ASSUME ~torn', NEW p \in pages', ~p.old, p.filter = filter,
               NEW r \in promised \ (IdsOf(feed) \union IdsOf(p.rows))
        PROVE  Len(p.rows) = PageSize /\ Ahead(r, offset + Len(p.rows))
    <3>1. CASE p = new BY <1>2, <2>3, <2>4, <3>1
    <3>2. CASE p \in pages BY <2>4, <3>2 DEF DashboardInv, Promised
    <3> QED BY <1>3, <3>1, <3>2
  <2>5. ~torn' => (done' => promised' \subseteq IdsOf(feed')) BY DEF DashboardInv, Promised
  <2> QED BY <2>1, <2>2, <2>4, <2>5, SameSelection DEF Promised
<1> QED BY <1>4, <1>5, <1>6, <1>7, <1>9, <1>10 DEF DashboardInv

(* An answer is dropped, or the feed ends with an error.                     *)
LEMMA DropStep ==
  ASSUME DashboardInv, NEW p \in pages, pages' = pages \ {p},
         UNCHANGED <<status, feed, seen, offset, filter, polls, cancelled, posting, stray,
                     promised>>,
         \/ p.old /\ UNCHANGED <<loading, done, torn>>
         \/ ~p.old /\ torn'
  PROVE  DashboardInv'
<1>1. DashboardType'
  BY DEF DashboardInv, DashboardType, ServerType, FeedType, PagesType, PollsType, CancelType
<1>2. Singles' /\ Known' BY DEF DashboardInv, Singles, Known, TrueOf
<1>3. Fitting' BY DEF DashboardInv, Fitting
<1>4. OneLoad' BY DEF DashboardInv, OneLoad
<1>5. Promised' BY SameSelection DEF DashboardInv, Promised
<1> QED BY <1>1, <1>2, <1>3, <1>4, <1>5 DEF DashboardInv

(* The rows of a page are put at the end.                                    *)
LEMMA AcceptStep ==
  ASSUME DashboardInv, NEW p \in pages, ~p.old, Accept(p), pages' = pages \ {p},
         UNCHANGED <<status, filter, polls, cancelled, posting, promised>>
  PROVE  DashboardInv'
<1> DEFINE fresh == Fresh(p.rows)
<1>1. /\ p.rows \in Seq(FeedRow) /\ FeedType /\ Single(p.rows) /\ Single(feed)
      /\ feed \in Seq(FeedRow) /\ seen = IdsOf(feed) /\ p.filter \in Filters
  BY DEF DashboardInv, DashboardType, FeedType, PagesType, Singles
<1>2. /\ fresh \in Seq(FeedRow) /\ Single(fresh)
      /\ RowsOf(fresh) \subseteq RowsOf(p.rows)
      /\ IdsOf(fresh) = IdsOf(p.rows) \ IdsOf(feed)
  BY <1>1, FreshRows
<1>3. /\ feed' = feed \o fresh /\ seen' = seen \union IdsOf(p.rows)
      /\ offset' = offset + Len(p.rows)
      /\ done' = (done \/ Len(p.rows) < PageSize)
      /\ stray' = IF p.filter = filter THEN stray ELSE stray \union IdsOf(fresh)
      /\ torn' = (torn \/ p.filter # filter)
      /\ loading' = FALSE
  BY DEF Accept
<1> HIDE DEF fresh
<1>4. /\ feed' \in Seq(FeedRow) /\ Single(feed')
      /\ RowsOf(feed') = RowsOf(feed) \union RowsOf(fresh)
      /\ IdsOf(feed') = IdsOf(feed) \union IdsOf(p.rows)
  <2>1. IdsOf(feed) \cap IdsOf(fresh) = {} BY <1>2
  <2>2. /\ feed \o fresh \in Seq(FeedRow) /\ Single(feed \o fresh)
        /\ RowsOf(feed \o fresh) = RowsOf(feed) \union RowsOf(fresh)
        /\ IdsOf(feed \o fresh) = IdsOf(feed) \union IdsOf(fresh)
    BY <1>1, <1>2, <2>1, Joined
  <2> QED BY <1>2, <1>3, <2>2
<1>5. DashboardType'
  <2>1. FeedType' BY <1>1, <1>3, <1>4 DEF FeedType
  <2> QED BY <2>1 DEF DashboardInv, DashboardType, ServerType, PagesType, PollsType, CancelType
<1>6. Singles' BY <1>4 DEF DashboardInv, Singles
<1>7. \A x \in RowsOf(feed') :
        x \in RowsOf(feed) \/ (x \in RowsOf(p.rows) /\ x \in RowsOf(fresh))
  <2>1. RowsOf(feed') = RowsOf(feed) \union RowsOf(fresh) BY <1>4
  <2>2. RowsOf(fresh) \subseteq RowsOf(p.rows) BY <1>2
  <2> QED BY <2>1, <2>2
<1>8. \A list : \A i \in DOMAIN list : list[i] \in RowsOf(list) BY DEF RowsOf
<1>9. \A list : \A x \in RowsOf(list) : x.id \in IdsOf(list) BY DEF RowsOf, IdsOf
<1>10. Known'
  <2>1. \A x \in RowsOf(feed) : status[x.id] # "none" BY DEF DashboardInv, Known, RowsOf
  <2>2. \A x \in RowsOf(p.rows) : status[x.id] # "none" BY DEF DashboardInv, Known
  <2>3. \A i \in DOMAIN feed' : status'[feed'[i].id] # "none" BY <1>7, <1>8, <2>1, <2>2
  <2> QED BY <2>3 DEF DashboardInv, Known, TrueOf
<1>11. Fitting'
  <2>1. stray \subseteq stray' BY <1>3
  <2>2. \A x \in RowsOf(feed) :
          \/ x.id \in stray \/ Matches(filter, x)
          \/ x.id \in cancelled /\ ~isActive(x.status)
    BY DEF DashboardInv, Fitting, RowsOf
  <2>3. \A x \in RowsOf(fresh) : x.id \in stray' \/ Matches(filter, x)
    <3>1. CASE p.filter = filter BY <1>2, <3>1 DEF DashboardInv, Fitting
    <3>2. CASE p.filter # filter BY <1>3, <1>9, <3>2
    <3> QED BY <3>1, <3>2
  <2>4. \A i \in DOMAIN feed' :
          \/ feed'[i].id \in stray' \/ Matches(filter', feed'[i])
          \/ feed'[i].id \in cancelled' /\ ~isActive(feed'[i].status)
    BY <1>7, <1>8, <2>1, <2>2, <2>3
  <2> QED BY <2>1, <2>4 DEF DashboardInv, Fitting
<1>14. OneLoad' BY DEF DashboardInv, OneLoad
<1>15. Promised'
  <2>1. promised' \subseteq Selected(filter)' BY SameSelection DEF DashboardInv, Promised
  <2>2. CASE p.filter # filter BY <1>3, <2>1, <2>2 DEF Promised
  <2>3. CASE torn BY <1>3, <2>1, <2>3 DEF Promised
  <2>4. CASE p.filter = filter /\ ~torn
    <3>1. \A r \in promised \ IdsOf(feed') :
            Len(p.rows) = PageSize /\ Ahead(r, offset + Len(p.rows))
      BY <1>4, <2>4 DEF DashboardInv, Promised
    <3>2. \A r \in promised' \ IdsOf(feed') : Ahead(r, offset)'
      BY <1>3, <3>1, SameSelection
    <3>3. \A o \in pages' : o.old BY DEF DashboardInv, OneLoad
    <3>4. done => promised \subseteq IdsOf(feed) BY <2>4 DEF DashboardInv, Promised
    <3>5. done' => promised' \subseteq IdsOf(feed')
      <4>1. PageSize \in Nat BY DashboardAssumption
      <4>2. CASE Len(p.rows) < PageSize
        <5>1. Len(p.rows) # PageSize BY <4>1, <4>2
        <5>2. promised \ IdsOf(feed') = {} BY <3>1, <5>1
        <5> QED BY <5>2
      <4>3. CASE done BY <1>4, <3>4, <4>3
      <4> QED BY <1>3, <4>2, <4>3
    <3> QED BY <2>1, <3>2, <3>3, <3>5 DEF Promised
  <2> QED BY <2>2, <2>3, <2>4
<1> QED BY <1>5, <1>6, <1>10, <1>11, <1>14, <1>15 DEF DashboardInv

(* The filter changes and the feed starts over.                              *)
LEMMA FilterStep ==
  ASSUME DashboardInv, NEW f \in Filters, ResetFeed(f),
         polls' = {[p EXCEPT !.crossed = (p.phase = "refetch")] : p \in polls},
         UNCHANGED <<serverVars, cancelled, posting>>
  PROVE  DashboardInv'
<1> DEFINE new == PageRequest(f, 0)
           aged(p) == [p EXCEPT !.old = TRUE]
           crossed(p) == [p EXCEPT !.crossed = (p.phase = "refetch")]
<1>1. /\ feed' = <<>> /\ seen' = {} /\ offset' = 0 /\ loading' = TRUE /\ done' = FALSE
      /\ pages' = {aged(p) : p \in pages} \union {new}
      /\ filter' = f /\ stray' = {} /\ promised' = Selected(f) /\ torn' = FALSE
      /\ status' = status /\ polls' = {crossed(p) : p \in polls}
      /\ UNCHANGED <<cancelled, posting>>
  BY DEF ResetFeed, StartOver, serverVars
<1>2. ServerType BY DEF DashboardInv, DashboardType
<1>3. /\ new \in [filter : Filters, old : BOOLEAN, rows : Seq(FeedRow)]
      /\ ~new.old /\ new.filter = f
      /\ Single(new.rows)
      /\ \A x \in RowsOf(new.rows) : status[x.id] # "none" /\ Matches(f, x)
      /\ \A r \in Selected(f) :
           Above(r, Selected(f)) >= 0 /\ r \notin IdsOf(new.rows) =>
             Len(new.rows) = PageSize /\ Above(r, Selected(f)) >= 0 + Len(new.rows)
  BY <1>2, Requested
<1>4. ASSUME NEW p \in pages
      PROVE  /\ aged(p) \in [filter : Filters, old : BOOLEAN, rows : Seq(FeedRow)]
             /\ aged(p).old /\ aged(p).filter = p.filter /\ aged(p).rows = p.rows
  BY DEF DashboardInv, DashboardType, PagesType
<1>5. ASSUME NEW p \in polls
      PROVE  /\ crossed(p) \in [phase : {"recent", "refetch"}, rows : Seq(FeedRow),
                                again : SUBSET FeedRow, crossed : BOOLEAN]
             /\ crossed(p).phase = p.phase /\ crossed(p).rows = p.rows
             /\ crossed(p).again = p.again /\ Latest(crossed(p)) = Latest(p)
             /\ p.phase = "refetch" => crossed(p).crossed
  <2>1. p \in [phase : {"recent", "refetch"}, rows : Seq(FeedRow), again : SUBSET FeedRow,
               crossed : BOOLEAN]
    BY DEF DashboardInv, DashboardType, PollsType
  <2>2. /\ crossed(p).phase = p.phase /\ crossed(p).rows = p.rows
        /\ crossed(p).again = p.again /\ crossed(p).crossed = (p.phase = "refetch")
    BY <2>1
  <2>3. crossed(p) \in [phase : {"recent", "refetch"}, rows : Seq(FeedRow),
                        again : SUBSET FeedRow, crossed : BOOLEAN]
    BY <2>1
  <2> HIDE DEF crossed
  <2> QED BY <2>2, <2>3 DEF Latest
<1> HIDE DEF new, aged, crossed
<1>a. \A p \in pages' :
        p = new \/ (p.old /\ \E q \in pages : p.rows = q.rows /\ p.filter = q.filter)
  BY <1>1, <1>4
<1>b. \A p \in polls' :
        \E q \in polls : /\ p.phase = q.phase /\ p.rows = q.rows /\ p.again = q.again
                        /\ Latest(p) = Latest(q)
  BY <1>1, <1>5
<1>6. IdsOf(feed') = {} /\ DOMAIN feed' = {} BY <1>1 DEF IdsOf
<1>7. DashboardType'
  <2>1. FeedType' BY <1>1, <1>6 DEF FeedType
  <2>2. PagesType' BY <1>1, <1>3, <1>4 DEF PagesType
  <2>3. PollsType' BY <1>1, <1>5 DEF PollsType
  <2> QED BY <1>1, <2>1, <2>2, <2>3 DEF DashboardInv, DashboardType, ServerType, CancelType
<1>8. Singles'
  <2>1. Single(feed') BY <1>6 DEF Single
  <2>2. \A p \in pages' : Single(p.rows) BY <1>3, <1>a DEF DashboardInv, Singles
  <2>3. \A p \in polls' : Single(p.rows) /\ \A x, y \in Latest(p) : x.id = y.id => x = y
    BY <1>b DEF DashboardInv, Singles
  <2> QED BY <2>1, <2>2, <2>3 DEF Singles
<1>9. Known'
  <2>1. \A p \in pages' : \A x \in RowsOf(p.rows) : status[x.id] # "none"
    BY <1>3, <1>a DEF DashboardInv, Known
  <2>2. \A p \in polls' : \A x \in Latest(p) : TrueOf(x)
    BY <1>b DEF DashboardInv, Known
  <2>3. \A i \in DOMAIN feed' : status'[feed'[i].id] # "none" BY <1>6
  <2>4. \A x : TrueOf(x)' <=> TrueOf(x) BY <1>1 DEF TrueOf
  <2>5. status' = status BY <1>1
  <2> QED BY <2>1, <2>2, <2>3, <2>4, <2>5 DEF Known
<1>10. Fitting'
  <2>a. \A p \in pages : \A x \in RowsOf(p.rows) : Matches(p.filter, x)
    BY DEF DashboardInv, Fitting
  <2>1. \A p \in pages' : \A x \in RowsOf(p.rows) : Matches(p.filter, x)
    BY <1>3, <1>a, <2>a
  <2>2. \A p \in polls' : p.phase = "refetch" => p.crossed BY <1>1, <1>5
  <2>3. \A p \in polls' : p.phase = "recent" => p.again = {}
    BY <1>b DEF DashboardInv, Fitting
  <2>4. \A i \in DOMAIN feed' :
          \/ feed'[i].id \in stray' \/ Matches(filter', feed'[i])
          \/ feed'[i].id \in cancelled' /\ ~isActive(feed'[i].status)
    BY <1>6
  <2>5. \A p \in polls' : p.phase = "refetch" /\ ~p.crossed =>
          \A x \in Latest(p) : x.id \in stray' \/ Matches(filter', x)
    BY <2>2, Zenon
  <2> QED BY <2>1, <2>3, <2>4, <2>5 DEF Fitting
<1>12. OneLoad' BY <1>1, <1>a DEF OneLoad
<1>13. Promised'
  <2>1. Selected(filter)' = Selected(f) BY <1>1 DEF Selected, Activities, RowOf
  <2>2. ASSUME NEW r \in Selected(f) PROVE Above(r, Selected(f)) >= 0
    <3>1. IsFiniteSet(Selected(f)) BY <1>2, Lists
    <3>2. Above(r, Selected(f)) \in Nat BY <3>1, AboveGrows
    <3> QED BY <3>2
  <2>a. offset' = 0 /\ promised' = Selected(f) /\ ~done' /\ ~torn' BY <1>1
  <2>b. \A r, n : Ahead(r, n)' <=> Above(r, Selected(f)) >= n BY <2>1 DEF Ahead
  <2>3. \A r \in promised' \ IdsOf(feed') : Ahead(r, offset)' BY <2>2, <2>a, <2>b
  <2>4. \A p \in pages' : ~p.old => p = new BY <1>a
  <2>5. \A r \in promised' \ IdsOf(new.rows) :
          Len(new.rows) = PageSize /\ Above(r, Selected(f)) >= offset' + Len(new.rows)
    BY <1>3, <2>2, <2>a
  <2>6. \A p \in pages' : ~p.old =>
          \A r \in promised' \ (IdsOf(feed') \union IdsOf(p.rows)) :
            Len(p.rows) = PageSize /\ Above(r, Selected(filter)') >= offset' + Len(p.rows)
    BY <1>6, <2>1, <2>4, <2>5
  <2>7. promised' \subseteq Selected(filter)' BY <2>1, <2>a
  <2> QED BY <2>3, <2>6, <2>7, <2>a DEF Promised, Ahead
<1> QED BY <1>7, <1>8, <1>9, <1>10, <1>12, <1>13 DEF DashboardInv

(* A poll begins.                                                            *)
LEMMA BeginStep ==
  ASSUME DashboardInv, polls' = polls \union {NewPoll},
         UNCHANGED <<status, feedVars, filter, pages, cancelled, posting, ghosts>>
  PROVE  DashboardInv'
<1> USE DEF feedVars, ghosts
<1>1. /\ NewPoll \in [phase : {"recent", "refetch"}, rows : Seq(FeedRow),
                      again : SUBSET FeedRow, crossed : BOOLEAN]
      /\ NewPoll.phase = "recent" /\ NewPoll.again = {}
      /\ Single(NewPoll.rows)
      /\ \A x \in Latest(NewPoll) : status[x.id] # "none" /\ x.status = status[x.id]
      /\ \A x, y \in Latest(NewPoll) : x.id = y.id => x = y
  BY Polled DEF DashboardInv, DashboardType
<1>2. \A p : Latest(p)' = Latest(p) BY DEF Latest
<1>3. DashboardType'
  BY <1>1 DEF DashboardInv, DashboardType, ServerType, FeedType, PagesType, PollsType,
              CancelType
<1>4. Singles' BY <1>1 DEF DashboardInv, Singles
<1>5. Known' BY <1>1 DEF DashboardInv, Known, TrueOf
<1>6. Fitting' BY <1>1 DEF DashboardInv, Fitting
<1>8. OneLoad' BY DEF DashboardInv, OneLoad
<1>9. Promised' BY SameSelection DEF DashboardInv, Promised
<1> QED BY <1>3, <1>4, <1>5, <1>6, <1>8, <1>9 DEF DashboardInv

(* A row is marked as cancelled.                                             *)
LEMMA MarkStep ==
  ASSUME DashboardInv, NEW r \in Runs,
         feed' = [k \in DOMAIN feed |-> IF feed[k].id = r
                                        THEN [feed[k] EXCEPT !.status = "cancelled"]
                                        ELSE feed[k]],
         cancelled' = cancelled \union {r},
         polls' = polls \union {NewPoll}, CancelType',
         UNCHANGED <<status, seen, offset, loading, done, filter, pages, stray, promised, torn>>
  PROVE  DashboardInv'
<1>1. /\ feed \in Seq(FeedRow) /\ seen = IdsOf(feed) /\ Single(feed)
      /\ \A k \in DOMAIN feed : feed[k] \in FeedRow
  BY DEF DashboardInv, DashboardType, FeedType, Singles
<1>2. /\ DOMAIN feed' = DOMAIN feed
      /\ \A k \in DOMAIN feed :
           /\ feed'[k] \in FeedRow /\ feed'[k].id = feed[k].id
           /\ feed[k].id = r => feed'[k].status = "cancelled"
           /\ feed[k].id # r => feed'[k] = feed[k]
  BY <1>1 DEF FeedRow, Statuses
<1>3. feed' \in Seq(FeedRow)
  <2>1. DOMAIN feed = 1 .. Len(feed) /\ Len(feed) \in Nat BY <1>1
  <2>2. feed' \in [1 .. Len(feed) -> FeedRow] BY <1>2, <2>1
  <2> QED BY <2>1, <2>2
<1>4. IdsOf(feed') = IdsOf(feed) BY <1>2 DEF IdsOf
<1>a. /\ NewPoll \in [phase : {"recent", "refetch"}, rows : Seq(FeedRow),
                      again : SUBSET FeedRow, crossed : BOOLEAN]
      /\ NewPoll.phase = "recent" /\ NewPoll.again = {}
      /\ Single(NewPoll.rows)
      /\ \A x \in Latest(NewPoll) : status[x.id] # "none" /\ x.status = status[x.id]
      /\ \A x, y \in Latest(NewPoll) : x.id = y.id => x = y
  BY Polled DEF DashboardInv, DashboardType
<1>b. \A o \in polls' : o \in polls \/ o = NewPoll OBVIOUS
<1>5. DashboardType'
  <2>1. FeedType' BY <1>1, <1>3, <1>4 DEF FeedType, DashboardInv, DashboardType
  <2>2. PollsType' BY <1>a, <1>b DEF DashboardInv, DashboardType, PollsType
  <2> QED BY <2>1, <2>2 DEF DashboardInv, DashboardType, ServerType, PagesType
<1>6. Singles'
  <2>1. Single(feed') BY <1>1, <1>2 DEF Single
  <2>2. \A o \in polls' : Single(o.rows) /\ \A x, y \in Latest(o) : x.id = y.id => x = y
    BY <1>a, <1>b DEF DashboardInv, Singles
  <2> QED BY <2>1, <2>2 DEF DashboardInv, Singles
<1>7. Known'
  <2>1. \A o \in polls' : \A x \in Latest(o) : TrueOf(x)
    BY <1>a, <1>b DEF DashboardInv, Known, TrueOf
  <2>2. \A i \in DOMAIN feed' : status[feed'[i].id] # "none" BY <1>2 DEF DashboardInv, Known
  <2>3. \A x : TrueOf(x)' <=> TrueOf(x) BY DEF TrueOf
  <2> QED BY <2>1, <2>2, <2>3 DEF DashboardInv, Known
<1>8. Fitting'
  <2>1. \A i \in DOMAIN feed' :
          \/ feed'[i].id \in stray' \/ Matches(filter', feed'[i])
          \/ feed'[i].id \in cancelled' /\ ~isActive(feed'[i].status)
    <3> SUFFICES ASSUME NEW i \in DOMAIN feed
                 PROVE  \/ feed'[i].id \in stray \/ Matches(filter, feed'[i])
                        \/ feed'[i].id \in cancelled' /\ ~isActive(feed'[i].status)
      BY <1>2
    <3>1. CASE feed[i].id = r BY <1>2, <3>1 DEF isActive
    <3>2. CASE feed[i].id # r BY <1>2, <3>2 DEF DashboardInv, Fitting
    <3> QED BY <3>1, <3>2
  <2>2. \A o \in polls' : o.phase = "refetch" /\ ~o.crossed =>
          \A x \in Latest(o) : x.id \in stray \/ Matches(filter, x)
    BY <1>a, <1>b DEF DashboardInv, Fitting
  <2>3. \A o \in polls' : o.phase = "recent" => o.again = {}
    BY <1>a, <1>b DEF DashboardInv, Fitting
  <2> QED BY <2>1, <2>2, <2>3 DEF DashboardInv, Fitting
<1>11. OneLoad' BY DEF DashboardInv, OneLoad
<1>12. Promised' BY <1>4, SameSelection DEF DashboardInv, Promised
<1> QED BY <1>5, <1>6, <1>7, <1>8, <1>11, <1>12 DEF DashboardInv

(* The first answer of a poll is filtered, and the rows it does not mention  *)
(* are fetched.                                                              *)
LEMMA RecentStep ==
  ASSUME DashboardInv, NEW p \in polls, PollRecent(p)
  PROVE  DashboardInv'
<1> DEFINE places == {i \in DOMAIN p.rows : Matches(filter, p.rows[i])}
           recent == Keep(p.rows, places)
           again == {RefetchRun(r) : r \in StaleRows(recent)}
           asked == [p EXCEPT !.phase = "refetch", !.rows = recent, !.again = again]
<1>1. /\ polls' = (polls \ {p}) \union {asked}
      /\ UNCHANGED <<status, feed, seen, offset, loading, done, filter, pages, cancelled,
                     posting, stray, promised, torn>>
  BY DEF PollRecent, serverVars, feedVars, ghosts
<1>2. /\ p \in [phase : {"recent", "refetch"}, rows : Seq(FeedRow), again : SUBSET FeedRow,
                crossed : BOOLEAN]
      /\ p.rows \in Seq(FeedRow) /\ Single(p.rows)
  BY DEF DashboardInv, DashboardType, PollsType, Singles
<1>3. places \in SUBSET DOMAIN p.rows OBVIOUS
<1>4. /\ recent \in Seq(FeedRow) /\ Single(recent)
      /\ RowsOf(recent) = {p.rows[i] : i \in places}
  <2> HIDE DEF places
  <2> QED BY <1>2, <1>3, Keeps
<1>5. /\ RowsOf(recent) \subseteq RowsOf(p.rows)
      /\ \A x \in RowsOf(recent) : Matches(filter, x)
  <2> HIDE DEF recent
  <2> QED BY <1>4 DEF RowsOf
<1> HIDE DEF places, recent
<1>6. ASSUME NEW r \in StaleRows(recent)
      PROVE  /\ r \in Runs /\ status[r] # "none" /\ r \notin IdsOf(recent)
             /\ \E i \in DOMAIN feed : feed[i].id = r /\ isActive(feed[i].status)
  <2>1. r \notin IdsOf(recent) BY DEF StaleRows
  <2>2. PICK i \in DOMAIN feed : feed[i].id = r /\ isActive(feed[i].status) BY DEF StaleRows
  <2>3. feed[i] \in FeedRow BY DEF DashboardInv, DashboardType, FeedType
  <2>4. status[r] # "none" BY <2>2 DEF DashboardInv, Known
  <2> QED BY <2>1, <2>2, <2>3, <2>4 DEF FeedRow
<1>7. \A r : RefetchRun(r) = [id |-> r, status |-> status[r]] BY DEF RefetchRun, RowOf
<1>8. ASSUME NEW x \in again
      PROVE  /\ x.id \in StaleRows(recent) /\ x = RefetchRun(x.id) /\ x.status = status[x.id]
             /\ x \in FeedRow
  <2>1. PICK r \in StaleRows(recent) : x = RefetchRun(r) OBVIOUS
  <2>2. x = [id |-> r, status |-> status[r]] BY <1>7, <2>1
  <2>3. status[r] \in Statuses BY <1>6, <2>1 DEF DashboardInv, DashboardType, ServerType
  <2>4. r \in Runs BY <1>6
  <2>5. x.id = r /\ x.status = status[r] BY <2>2
  <2>6. x \in FeedRow BY <2>2, <2>3, <2>4 DEF FeedRow
  <2> QED BY <2>1, <2>5, <2>6
<1>9. again \subseteq FeedRow BY <1>8
<1> HIDE DEF again
<1>10. /\ asked \in [phase : {"recent", "refetch"}, rows : Seq(FeedRow), again : SUBSET FeedRow,
                    crossed : BOOLEAN]
       /\ asked.phase = "refetch" /\ asked.rows = recent /\ asked.again = again
  BY <1>2, <1>4, <1>9
<1> HIDE DEF asked
<1>11. Latest(asked) = RowsOf(recent) \union again BY <1>10 DEF Latest, RowsOf
<1>12. RowsOf(recent) \subseteq Latest(p) BY <1>5 DEF Latest, RowsOf
<1>13. \A x \in RowsOf(recent) : x.id \in IdsOf(recent) BY DEF RowsOf, IdsOf
<1>14. DashboardType'
  <2>1. PollsType' BY <1>1, <1>10 DEF DashboardInv, DashboardType, PollsType
  <2> QED BY <1>1, <2>1 DEF DashboardInv, DashboardType, ServerType, FeedType, PagesType,
                            CancelType
<1>15. Singles'
  <2>1. ASSUME NEW x \in Latest(asked), NEW y \in Latest(asked), x.id = y.id PROVE x = y
    <3>1. CASE x \in RowsOf(recent) /\ y \in RowsOf(recent)
      BY <1>12, <2>1, <3>1 DEF DashboardInv, Singles
    <3>2. CASE x \in again /\ y \in again BY <1>8, <2>1, <3>2
    <3>3. CASE x \in again /\ y \in RowsOf(recent) BY <1>6, <1>8, <1>13, <2>1, <3>3
    <3>4. CASE y \in again /\ x \in RowsOf(recent) BY <1>6, <1>8, <1>13, <2>1, <3>4
    <3> QED BY <1>11, <3>1, <3>2, <3>3, <3>4
  <2>2. \A o \in polls' : Single(o.rows) /\ \A x, y \in Latest(o) : x.id = y.id => x = y
    BY <1>1, <1>4, <1>10, <2>1 DEF DashboardInv, Singles
  <2> QED BY <1>1, <2>2 DEF DashboardInv, Singles
<1>16. Known'
  <2>1. ASSUME NEW x \in Latest(asked) PROVE TrueOf(x)
    <3>1. CASE x \in RowsOf(recent) BY <1>12, <3>1 DEF DashboardInv, Known
    <3>2. CASE x \in again BY <1>6, <1>8, <3>2 DEF TrueOf
    <3> QED BY <1>11, <3>1, <3>2
  <2>2. \A o \in polls' : \A x \in Latest(o) : TrueOf(x) BY <1>1, <2>1 DEF DashboardInv, Known
  <2>3. \A x : TrueOf(x)' <=> TrueOf(x) BY <1>1 DEF TrueOf
  <2> QED BY <1>1, <2>2, <2>3 DEF DashboardInv, Known
<1>17. Fitting'
  <2>1. ASSUME NEW x \in Latest(asked) PROVE x.id \in stray \/ Matches(filter, x)
    <3>1. CASE x \in RowsOf(recent) BY <1>5, <3>1
    <3>2. CASE x \in again
      <4>1. PICK i \in DOMAIN feed : feed[i].id = x.id /\ isActive(feed[i].status)
        BY <1>6, <1>8, <3>2
      <4>3. x.id \in stray \/ Matches(filter, feed[i]) BY <4>1 DEF DashboardInv, Fitting
      <4>4. Matches(filter, feed[i]) => Matches(filter, x) BY <4>1 DEF Matches, isActive
      <4> QED BY <4>3, <4>4
    <3> QED BY <1>11, <3>1, <3>2
  <2>2. \A o \in polls' : o.phase = "refetch" /\ ~o.crossed =>
          \A x \in Latest(o) : x.id \in stray \/ Matches(filter, x)
    BY <1>1, <2>1 DEF DashboardInv, Fitting
  <2>3. \A o \in polls' : o.phase = "recent" => o.again = {}
    BY <1>1, <1>10 DEF DashboardInv, Fitting
  <2> QED BY <1>1, <2>2, <2>3 DEF DashboardInv, Fitting
<1>20. OneLoad' BY <1>1 DEF DashboardInv, OneLoad
<1>21. Promised' BY <1>1, SameSelection DEF DashboardInv, Promised
<1> QED BY <1>14, <1>15, <1>16, <1>17, <1>20, <1>21 DEF DashboardInv

(* A row that is merged with what a poll found.                              *)
LEMMA Merged ==
  ASSUME DashboardInv, NEW p \in polls, NEW row \in FeedRow
  PROVE  /\ Merge(p, row) \in FeedRow /\ Merge(p, row).id = row.id
         /\ \/ /\ Merge(p, row) = row
               /\ \A x \in Latest(p) : x.id = row.id => isActive(x.status)
            \/ /\ Merge(p, row) \in Latest(p)
               /\ row.id \in cancelled => ~isActive(Merge(p, row).status)
<1> DEFINE news == {x \in Latest(p) : x.id = row.id}
           new == CHOOSE x \in news : TRUE
<1>1. Merge(p, row) =
        IF news = {} \/ (row.id \in cancelled /\ isActive(new.status)) THEN row ELSE new
  BY DEF Merge
<1>2. Latest(p) \subseteq FeedRow BY DEF DashboardInv, DashboardType, PollsType, Latest
<1>3. news # {} => new \in Latest(p) /\ new.id = row.id
  <2>1. news # {} => new \in news
    <3> HIDE DEF news
    <3> QED OBVIOUS
  <2> HIDE DEF new
  <2> QED BY <2>1
<1>4. \A x \in Latest(p) : x.id = row.id => x = new
  <2>1. \A x \in Latest(p) : x.id = row.id => news # {} OBVIOUS
  <2> HIDE DEF new, news
  <2> QED BY <1>3, <2>1 DEF DashboardInv, Singles
<1>5. news = {} => \A x \in Latest(p) : x.id # row.id OBVIOUS
<1> HIDE DEF new, news
<1> QED BY <1>1, <1>2, <1>3, <1>4, <1>5

(* A poll is merged into the feed.                                           *)
LEMMA MergeStep ==
  ASSUME DashboardInv, NEW p \in polls, PollMerge(p)
  PROVE  DashboardInv'
<1> DEFINE fresh == Fresh(p.rows)
           merged == [k \in DOMAIN feed |-> Merge(p, feed[k])]
           settled == {x.id : x \in {y \in Latest(p) : ~isActive(y.status)}}
<1>1. /\ p.phase = "refetch"
      /\ feed' = fresh \o merged
      /\ seen' = seen \union IdsOf(p.rows)
      /\ cancelled' = cancelled \ (settled \intersect IdsOf(feed))
      /\ polls' = polls \ {p}
      /\ stray' = IF p.crossed THEN stray \union {x.id : x \in Latest(p)} ELSE stray
      /\ UNCHANGED <<status, offset, loading, done, filter, pages, posting, promised, torn>>
  BY DEF PollMerge, serverVars
<1>2. /\ p.rows \in Seq(FeedRow) /\ FeedType /\ Single(p.rows) /\ Single(feed)
      /\ feed \in Seq(FeedRow) /\ seen = IdsOf(feed)
      /\ \A k \in DOMAIN feed : feed[k] \in FeedRow
  BY DEF DashboardInv, DashboardType, FeedType, PollsType, Singles
<1>3. /\ fresh \in Seq(FeedRow) /\ Single(fresh)
      /\ RowsOf(fresh) \subseteq RowsOf(p.rows)
      /\ IdsOf(fresh) = IdsOf(p.rows) \ IdsOf(feed)
  BY <1>2, FreshRows
<1>4. RowsOf(p.rows) \subseteq Latest(p) BY DEF Latest, RowsOf
<1>5. \A r : r \in settled <=> \E x \in Latest(p) : x.id = r /\ ~isActive(x.status) OBVIOUS
<1> HIDE DEF fresh, settled
<1>6. ASSUME NEW k \in DOMAIN feed
      PROVE  /\ merged[k] \in FeedRow /\ merged[k].id = feed[k].id
             /\ \/ merged[k] = feed[k] /\ feed[k].id \notin settled
                \/ /\ merged[k] \in Latest(p)
                   /\ feed[k].id \in cancelled => ~isActive(merged[k].status)
  <2>1. merged[k] = Merge(p, feed[k]) OBVIOUS
  <2> HIDE DEF merged
  <2>2. /\ Merge(p, feed[k]) \in FeedRow /\ Merge(p, feed[k]).id = feed[k].id
        /\ \/ /\ Merge(p, feed[k]) = feed[k]
              /\ \A x \in Latest(p) : x.id = feed[k].id => isActive(x.status)
           \/ /\ Merge(p, feed[k]) \in Latest(p)
              /\ feed[k].id \in cancelled => ~isActive(Merge(p, feed[k]).status)
    BY <1>2, Merged
  <2> QED BY <1>5, <2>1, <2>2
<1>7. DOMAIN merged = DOMAIN feed OBVIOUS
<1>8. merged \in Seq(FeedRow)
  <2>1. DOMAIN feed = 1 .. Len(feed) /\ Len(feed) \in Nat BY <1>2
  <2>2. merged \in [1 .. Len(feed) -> FeedRow] BY <1>6, <2>1
  <2> HIDE DEF merged
  <2> QED BY <2>1, <2>2
<1> HIDE DEF merged
<1>9. Single(merged) BY <1>2, <1>6, <1>7 DEF Single
<1>10. IdsOf(merged) = IdsOf(feed) BY <1>6, <1>7 DEF IdsOf
<1>11. /\ feed' \in Seq(FeedRow) /\ Single(feed')
       /\ RowsOf(feed') = RowsOf(fresh) \union RowsOf(merged)
       /\ IdsOf(feed') = IdsOf(feed) \union IdsOf(p.rows)
  <2>1. IdsOf(fresh) \cap IdsOf(merged) = {} BY <1>3, <1>10
  <2>2. /\ fresh \o merged \in Seq(FeedRow) /\ Single(fresh \o merged)
        /\ RowsOf(fresh \o merged) = RowsOf(fresh) \union RowsOf(merged)
        /\ IdsOf(fresh \o merged) = IdsOf(fresh) \union IdsOf(merged)
    BY <1>3, <1>8, <1>9, <2>1, Joined
  <2> QED BY <1>1, <1>3, <1>10, <2>2
<1>12. \A list : \A i \in DOMAIN list : list[i] \in RowsOf(list) BY DEF RowsOf
<1>13. \A list : \A x \in RowsOf(list) : x.id \in IdsOf(list) BY DEF RowsOf, IdsOf
<1>14. ASSUME NEW x \in RowsOf(feed')
       PROVE  \/ x \in Latest(p) /\ x.id \notin IdsOf(feed)
              \/ \E k \in DOMAIN feed : x = merged[k] /\ x.id = feed[k].id
  <2>1. CASE x \in RowsOf(fresh) BY <1>3, <1>4, <1>13, <2>1
  <2>2. CASE x \in RowsOf(merged) BY <1>6, <1>7, <2>2 DEF RowsOf
  <2> QED BY <1>11, <2>1, <2>2
<1>15. DashboardType'
  <2>1. FeedType' BY <1>1, <1>2, <1>11 DEF FeedType, DashboardInv, DashboardType
  <2>2. PollsType' BY <1>1 DEF DashboardInv, DashboardType, PollsType
  <2> QED BY <1>1, <2>1, <2>2 DEF DashboardInv, DashboardType, ServerType, PagesType, CancelType
<1>16. Singles' BY <1>1, <1>11 DEF DashboardInv, Singles
<1>17. Known'
  <2>1. \A x \in Latest(p) : status[x.id] # "none" BY DEF DashboardInv, Known, TrueOf
  <2>2. \A k \in DOMAIN feed : status[feed[k].id] # "none" BY DEF DashboardInv, Known
  <2>3. \A x \in RowsOf(feed') : status[x.id] # "none" BY <1>14, <2>1, <2>2
  <2>4. \A i \in DOMAIN feed' : status'[feed'[i].id] # "none" BY <1>1, <1>12, <2>3
  <2>5. \A x : TrueOf(x)' <=> TrueOf(x) BY <1>1 DEF TrueOf
  <2> QED BY <1>1, <2>4, <2>5 DEF DashboardInv, Known
<1>18. Fitting'
  <2>1. stray \subseteq stray' BY <1>1
  <2>2. ASSUME NEW x \in Latest(p) PROVE x.id \in stray' \/ Matches(filter, x)
    <3>1. CASE p.crossed BY <1>1, <3>1
    <3>2. CASE ~p.crossed
      <4>1. x.id \in stray \/ Matches(filter, x) BY <1>1, <3>2 DEF DashboardInv, Fitting
      <4> QED BY <2>1, <4>1
    <3> QED BY <3>1, <3>2
  <2>3. ASSUME NEW k \in DOMAIN feed, merged[k] = feed[k], feed[k].id \notin settled
        PROVE  \/ feed[k].id \in stray' \/ Matches(filter, feed[k])
               \/ feed[k].id \in cancelled' /\ ~isActive(feed[k].status)
    <3>1. \/ feed[k].id \in stray \/ Matches(filter, feed[k])
          \/ feed[k].id \in cancelled /\ ~isActive(feed[k].status)
      BY DEF DashboardInv, Fitting
    <3>2. feed[k].id \in cancelled => feed[k].id \in cancelled' BY <1>1, <2>3
    <3> QED BY <2>1, <3>1, <3>2
  <2>4. ASSUME NEW x \in RowsOf(feed')
        PROVE  \/ x.id \in stray' \/ Matches(filter, x)
               \/ x.id \in cancelled' /\ ~isActive(x.status)
    <3>1. CASE x \in Latest(p) BY <2>2, <3>1
    <3>2. CASE x \notin Latest(p)
      <4>1. PICK k \in DOMAIN feed : x = merged[k] BY <1>14, <3>2
      <4>2. merged[k] = feed[k] /\ feed[k].id \notin settled BY <1>6, <3>2, <4>1
      <4> QED BY <2>3, <4>1, <4>2
    <3> QED BY <3>1, <3>2
  <2>5. \A i \in DOMAIN feed' :
          \/ feed'[i].id \in stray' \/ Matches(filter', feed'[i])
          \/ feed'[i].id \in cancelled' /\ ~isActive(feed'[i].status)
    BY <1>1, <1>12, <2>4
  <2>6. \A o \in polls' : o.phase = "refetch" /\ ~o.crossed =>
          \A x \in Latest(o) : x.id \in stray' \/ Matches(filter, x)
    BY <1>1, <2>1 DEF DashboardInv, Fitting
  <2> QED BY <1>1, <2>5, <2>6 DEF DashboardInv, Fitting
<1>22. OneLoad' BY <1>1 DEF DashboardInv, OneLoad
<1>23. Promised' BY <1>1, <1>11, SameSelection DEF DashboardInv, Promised
<1> QED BY <1>15, <1>16, <1>17, <1>18, <1>22, <1>23 DEF DashboardInv

-----------------------------------------------------------------------------
(* The page is opened.                                                       *)
LEMMA InitDashboard == FeedInit => DashboardInv
<1> SUFFICES ASSUME FeedInit PROVE DashboardInv
  OBVIOUS
<1> DEFINE new == PageRequest(DefaultFilter, 0)
<1>1. /\ status \in [Runs -> Statuses \union {"none"}] /\ feed = <<>> /\ seen = {} /\ offset = 0
      /\ loading = TRUE /\ done = FALSE /\ filter = DefaultFilter
      /\ pages = {PageRequest(DefaultFilter, 0)} /\ polls = {} /\ posting = {}
      /\ stray = {} /\ promised = Selected(DefaultFilter) /\ torn = FALSE
  BY DEF FeedInit, Statuses
<1>2. ServerType BY <1>1 DEF ServerType
<1>3. DefaultFilter \in Filters BY DEF DefaultFilter, Filters
<1>4. /\ new \in [filter : Filters, old : BOOLEAN, rows : Seq(FeedRow)]
      /\ ~new.old /\ new.filter = DefaultFilter
      /\ Single(new.rows)
      /\ \A x \in RowsOf(new.rows) : status[x.id] # "none" /\ Matches(DefaultFilter, x)
      /\ \A r \in Selected(DefaultFilter) :
           Above(r, Selected(DefaultFilter)) >= 0 /\ r \notin IdsOf(new.rows) =>
             /\ Len(new.rows) = PageSize
             /\ Above(r, Selected(DefaultFilter)) >= 0 + Len(new.rows)
  BY <1>2, <1>3, Requested
<1>5. pages = {new} BY <1>1
<1> HIDE DEF new
<1>6. DOMAIN feed = {} /\ IdsOf(feed) = {} BY <1>1 DEF IdsOf
<1>7. DashboardType
  BY <1>1, <1>2, <1>3, <1>4, <1>5, <1>6 DEF DashboardType, FeedType, PagesType, PollsType,
                                           CancelType
<1>8. Singles /\ Known BY <1>1, <1>4, <1>5, <1>6 DEF Singles, Single, Known
<1>9. Fitting BY <1>1, <1>4, <1>5, <1>6 DEF Fitting
<1>10. OneLoad BY <1>1, <1>5 DEF OneLoad
<1>11. Promised
  <2>1. ASSUME NEW r \in Selected(DefaultFilter) PROVE Above(r, Selected(DefaultFilter)) >= 0
    <3>1. IsFiniteSet(Selected(DefaultFilter)) BY <1>2, Lists
    <3>2. Above(r, Selected(DefaultFilter)) \in Nat BY <3>1, AboveGrows
    <3> QED BY <3>2
  <2> QED BY <1>1, <1>4, <1>5, <1>6, <2>1 DEF Promised, Ahead
<1> QED BY <1>7, <1>8, <1>9, <1>10, <1>11 DEF DashboardInv

(* The steps of the server.                                                  *)
LEMMA ServerSteps ==
  ASSUME DashboardInv, ServerStep
  PROVE  DashboardInv'
<1>1. ServerType BY DEF DashboardInv, DashboardType
<1>2. Final \subseteq {"success", "failed", "cancelled"} BY DashboardAssumption DEF Final
<1>3. ASSUME NEW r \in Runs, Create(r) PROVE DashboardInv'
  <2>1. status[r] = "none" /\ status' = [status EXCEPT ![r] = "running"] BY <1>3 DEF Create
  <2>2. ServerType' BY <1>1, <2>1 DEF ServerType, Statuses
  <2>3. \A q \in Runs : status[q] # "none" => status'[q] = status[q]
    BY <1>1, <2>1 DEF ServerType
  <2>4. UNCHANGED <<feedVars, filter, pages, polls, cancelled, posting, ghosts>>
    BY <1>3 DEF Create
  <2> QED BY <2>2, <2>3, <2>4, ServerKeeps
<1>4. ASSUME NEW r \in Runs, NEW s \in Final, Settles(r, s) PROVE DashboardInv'
  <2>1. isActive(status[r]) /\ status' = [status EXCEPT ![r] = s] BY <1>4 DEF Settles
  <2>2. s \in Statuses /\ s # "none" BY <1>2 DEF Statuses
  <2>3. ServerType' BY <1>1, <2>1, <2>2 DEF ServerType
  <2>4. \A q \in Runs : status[q] # "none" =>
          status'[q] # "none" /\ (~isActive(status[q]) => status'[q] = status[q])
    BY <1>1, <2>1, <2>2 DEF ServerType
  <2>5. UNCHANGED <<feedVars, filter, pages, polls, cancelled, posting, ghosts>>
    BY <1>4 DEF Settles
  <2> QED BY <2>3, <2>4, <2>5, ServerKeeps
<1> QED BY <1>3, <1>4 DEF ServerStep

(* The steps that load pages.                                                *)
LEMMA PageSteps ==
  ASSUME DashboardInv, PageStep
  PROVE  DashboardInv'
<1>1. filter \in Filters BY DEF DashboardInv, DashboardType, FeedType
<1>2. CASE LoadMore
  <2>1. /\ ~loading /\ loading' /\ pages' = pages \union {PageRequest(filter, offset)}
        /\ UNCHANGED <<status, feed, seen, offset, done, filter, polls, cancelled, posting,
                       ghosts>>
    BY <1>2 DEF LoadMore, serverVars
  <2> QED BY <1>1, <2>1, LoadStep
<1>3. ASSUME NEW p \in pages, FillViewport(p) PROVE DashboardInv'
  <2>1. p.filter \in Filters BY DEF DashboardInv, DashboardType, PagesType
  <2>2. /\ ~loading /\ loading'
        /\ pages' = (pages \ {p}) \union {PageRequest(p.filter, offset)}
        /\ UNCHANGED <<status, feed, seen, offset, done, filter, polls, cancelled, posting,
                       ghosts>>
    BY <1>3 DEF FillViewport, serverVars
  <2>3. pages \ {p} \subseteq pages OBVIOUS
  <2> QED BY <2>1, <2>2, <2>3, LoadStep
<1>4. ASSUME NEW p \in pages, PageAnswer(p) PROVE DashboardInv'
  <2>1. /\ pages' = pages \ {p}
        /\ UNCHANGED <<status, filter, polls, cancelled, posting, promised>>
    BY <1>4 DEF PageAnswer, serverVars
  <2>2. CASE p.old
    <3>1. UNCHANGED <<feed, seen, offset, loading, done, stray, torn>>
      BY <1>4, <2>2 DEF PageAnswer, feedVars
    <3> QED BY <2>1, <2>2, <3>1, DropStep
  <2>3. CASE ~p.old
    <3>1. Accept(p) BY <1>4, <2>3 DEF PageAnswer
    <3> QED BY <2>1, <2>3, <3>1, AcceptStep
  <2> QED BY <2>2, <2>3
<1>5. ASSUME NEW p \in pages, PageFails(p) PROVE DashboardInv'
  <2>1. /\ pages' = pages \ {p}
        /\ UNCHANGED <<status, feed, seen, offset, filter, polls, cancelled, posting, stray,
                       promised>>
        /\ p.old => UNCHANGED <<loading, done, torn>>
        /\ ~p.old => torn'
    BY <1>5 DEF PageFails, serverVars
  <2> QED BY <2>1, DropStep
<1>6. ASSUME NEW f \in ChangedFilters, ChangeFilter(f) PROVE DashboardInv'
  <2>1. f \in Filters BY <1>1 DEF ChangedFilters, Filters
  <2>2. /\ ResetFeed(f)
        /\ polls' = {[p EXCEPT !.crossed = (p.phase = "refetch")] : p \in polls}
        /\ UNCHANGED <<serverVars, cancelled, posting>>
    BY <1>6 DEF ChangeFilter
  <2> QED BY <2>1, <2>2, FilterStep
<1> QED BY <1>2, <1>3, <1>4, <1>5, <1>6 DEF PageStep

(* The steps of polls.                                                       *)
LEMMA PollSteps ==
  ASSUME DashboardInv, PollStep
  PROVE  DashboardInv'
<1>1. CASE BeginPoll
  <2>1. /\ polls' = polls \union {NewPoll}
        /\ UNCHANGED <<status, feedVars, filter, pages, cancelled, posting, ghosts>>
    BY <1>1 DEF BeginPoll, serverVars
  <2> QED BY <2>1, BeginStep
<1> QED BY <1>1, RecentStep, MergeStep DEF PollStep

(* The steps of a cancel.                                                    *)
LEMMA CancelSteps ==
  ASSUME DashboardInv, CancelStep
  PROVE  DashboardInv'
<1>1. posting \subseteq [id : Runs, ok : BOOLEAN] BY DEF DashboardInv, DashboardType, CancelType
<1>2. ASSUME NEW r \in Runs, Cancel(r) PROVE DashboardInv'
  <2>1. \E ok \in BOOLEAN : posting' = {[id |-> r, ok |-> ok]} BY <1>2 DEF Cancel
  <2>a. CancelType' BY <2>1 DEF CancelType
  <2>2. UNCHANGED <<status, feedVars, filter, pages, polls, cancelled, ghosts>>
    BY <1>2 DEF Cancel, serverVars
  <2> QED BY <2>a, <2>2, QuietStep
<1>3. ASSUME NEW c \in posting, CancelLost(c) PROVE DashboardInv'
  <2>1. CancelType' BY <1>3 DEF CancelLost, CancelType
  <2>2. UNCHANGED <<status, feedVars, filter, pages, polls, cancelled, ghosts>>
    BY <1>3 DEF CancelLost, serverVars
  <2> QED BY <2>1, <2>2, QuietStep
<1>4. ASSUME NEW c \in posting, CancelAnswer(c) PROVE DashboardInv'
  <2>1. /\ CancelType'
        /\ UNCHANGED <<status, seen, offset, loading, done, filter, pages, stray, promised,
                       torn>>
    BY <1>4 DEF CancelAnswer, CancelType, serverVars
  <2>2. CASE c.ok
    <3>1. MarkCancelled(c.id) BY <1>4, <2>2 DEF CancelAnswer
    <3>2. c.id \in Runs BY <1>1
    <3>3. /\ feed' = [k \in DOMAIN feed |-> IF feed[k].id = c.id
                                            THEN [feed[k] EXCEPT !.status = "cancelled"]
                                            ELSE feed[k]]
          /\ cancelled' = cancelled \union {c.id}
          /\ polls' = polls \union {NewPoll}
      BY <3>1 DEF MarkCancelled
    <3> QED BY <2>1, <3>2, <3>3, MarkStep
  <2>3. CASE ~c.ok
    <3>1. UNCHANGED <<status, feedVars, filter, pages, polls, cancelled, ghosts>>
      BY <1>4, <2>1, <2>3 DEF CancelAnswer, feedVars, ghosts
    <3> QED BY <2>1, <3>1, QuietStep
  <2> QED BY <2>2, <2>3
<1> QED BY <1>2, <1>3, <1>4 DEF CancelStep

(* Every step keeps the invariant.                                           *)
LEMMA StepDashboard == DashboardInv /\ [FeedNext]_dashboardVars => DashboardInv'
<1> SUFFICES ASSUME DashboardInv, [FeedNext]_dashboardVars PROVE DashboardInv'
  OBVIOUS
<1>1. CASE UNCHANGED dashboardVars
  <2>1. /\ CancelType'
        /\ UNCHANGED <<status, feedVars, filter, pages, polls, cancelled, ghosts>>
    BY <1>1 DEF dashboardVars, serverVars, DashboardInv, DashboardType, CancelType
  <2> QED BY <2>1, QuietStep
<1> QED BY <1>1, ServerSteps, PageSteps, PollSteps, CancelSteps DEF FeedNext

(* A list with no row twice has as many rows as ids.                         *)
LEMMA CountedOnce ==
  ASSUME NEW list \in Seq(FeedRow), Single(list)
  PROVE  Len(list) = Cardinality(IdsOf(list))
<1> DEFINE D == 1 .. Len(list)
           f == [i \in D |-> list[i].id]
<1>1. DOMAIN list = D /\ Len(list) \in Nat OBVIOUS
<1>2. IsFiniteSet(D) /\ Cardinality(D) = Len(list)
  <2>1. /\ IsFiniteSet(1 .. Len(list))
        /\ Cardinality(1 .. Len(list)) = IF 1 > Len(list) THEN 0 ELSE Len(list) - 1 + 1
    BY <1>1, FS_Interval
  <2> QED BY <1>1, <2>1
<1> HIDE DEF D
<1>3. f \in [D -> IdsOf(list)] BY <1>1 DEF IdsOf
<1>4. \A a, b \in D : f[a] = f[b] => a = b BY <1>1 DEF Single
<1>5. \A r \in IdsOf(list) : \E i \in D : f[i] = r BY <1>1 DEF IdsOf
<1> HIDE DEF f
<1>6. f \in Injection(D, IdsOf(list)) BY <1>3, <1>4 DEF Injection, IsInjective
<1>7. f \in Surjection(D, IdsOf(list)) BY <1>3, <1>5 DEF Surjection
<1>8. Cardinality(IdsOf(list)) = Cardinality(D) BY <1>2, <1>6, <1>7, FS_Surjection
<1> QED BY <1>2, <1>8

(* loadMore, poll and resetFeed: however answers, filters, polls and the     *)
(* activities on the server interleave, the feed shows each activity once,   *)
(* under the filters that are set, and at its end all that was promised.     *)
THEOREM FeedStaysRight == FeedSpec => []FeedRight
<1>1. DashboardInv => FeedRight
  <2> SUFFICES ASSUME DashboardInv PROVE FeedRight
    OBVIOUS
  <2>1. Len(feed) = Cardinality(IdsOf(feed))
    BY CountedOnce DEF DashboardInv, DashboardType, FeedType, Singles
  <2>2. FeedSound BY <2>1 DEF FeedSound, DashboardInv, Fitting
  <2>3. FeedComplete BY DEF FeedComplete, DashboardInv, Promised
  <2> QED BY <2>2, <2>3 DEF FeedRight
<1> QED BY <1>1, InitDashboard, StepDashboard, PTL DEF FeedSpec

(* A step that brings only rows that are not in the list, or keeps those that *)
(* are, does not turn one into an active one.                                *)
LEMMA ShownKept ==
  ASSUME \A x \in RowsOf(feed') :
           isActive(x.status) /\ x.id \in cancelled =>
             x.id \notin IdsOf(feed) \/ x \in RowsOf(feed),
         NEW r \in cancelled \intersect IdsOf(feed), ShownActive(r)'
  PROVE  ShownActive(r)
<1>1. PICK i \in DOMAIN feed' : feed'[i].id = r /\ isActive(feed'[i].status)
  BY DEF ShownActive
<1>2. feed'[i] \in RowsOf(feed') BY DEF RowsOf
<1>3. feed'[i] \in RowsOf(feed) BY <1>1, <1>2
<1>4. PICK k \in DOMAIN feed : feed[k] = feed'[i] BY <1>3 DEF RowsOf
<1> QED BY <1>1, <1>4 DEF ShownActive

(* The poll's merge.                                                         *)
LEMMA MergeShows ==
  ASSUME DashboardInv, NEW p \in polls, PollMerge(p),
         NEW x \in RowsOf(feed'), isActive(x.status), x.id \in cancelled
  PROVE  x.id \notin IdsOf(feed) \/ x \in RowsOf(feed)
<1> DEFINE fresh == Fresh(p.rows)
           merged == [k \in DOMAIN feed |-> Merge(p, feed[k])]
<1>1. feed' = fresh \o merged BY DEF PollMerge
<1>2. /\ p.rows \in Seq(FeedRow) /\ FeedType /\ Single(p.rows)
      /\ feed \in Seq(FeedRow) /\ \A k \in DOMAIN feed : feed[k] \in FeedRow
  BY DEF DashboardInv, DashboardType, FeedType, PollsType, Singles
<1>3. fresh \in Seq(FeedRow) /\ IdsOf(fresh) = IdsOf(p.rows) \ IdsOf(feed)
  BY <1>2, FreshRows
<1>4. DOMAIN merged = DOMAIN feed /\ \A k \in DOMAIN feed : merged[k] = Merge(p, feed[k])
  OBVIOUS
<1>5. ASSUME NEW k \in DOMAIN feed
      PROVE  /\ merged[k] \in FeedRow
             /\ merged[k] = feed[k] \/ (feed[k].id \in cancelled => ~isActive(merged[k].status))
             /\ merged[k].id = feed[k].id
  <2> HIDE DEF merged
  <2>1. feed[k] \in FeedRow BY <1>2
  <2> QED BY <1>4, <2>1, Merged
<1> HIDE DEF fresh, merged
<1>6. merged \in Seq(FeedRow)
  <2>1. DOMAIN feed = 1 .. Len(feed) /\ Len(feed) \in Nat BY <1>2
  <2>2. \A k \in 1 .. Len(feed) : merged[k] \in FeedRow BY <1>5, <2>1
  <2>3. merged = [k \in 1 .. Len(feed) |-> merged[k]] BY <1>4, <2>1 DEF merged
  <2>4. merged \in [1 .. Len(feed) -> FeedRow] BY <2>2, <2>3
  <2> QED BY <2>1, <2>4
<1>7. PICK i \in DOMAIN feed' : x = feed'[i] BY DEF RowsOf
<1>8. \/ i \in DOMAIN fresh /\ x = fresh[i]
      \/ i - Len(fresh) \in DOMAIN merged /\ x = merged[i - Len(fresh)]
  BY <1>1, <1>3, <1>6, <1>7
<1>9. CASE i \in DOMAIN fresh /\ x = fresh[i]
  <2>1. x.id \in IdsOf(fresh) BY <1>9 DEF IdsOf
  <2> QED BY <1>3, <2>1
<1>10. ASSUME NEW k \in DOMAIN feed, x = merged[k] PROVE x \in RowsOf(feed)
  <2>1. merged[k] = feed[k] BY <1>5, <1>10
  <2> QED BY <1>10, <2>1 DEF RowsOf
<1> QED BY <1>4, <1>8, <1>9, <1>10

(* What each step does to the rows that show a cancel.                       *)
LEMMA CancelShown ==
  ASSUME DashboardInv, [FeedNext]_dashboardVars,
         NEW r \in cancelled \intersect IdsOf(feed), ShownActive(r)'
  PROVE  ShownActive(r)
<1>1. CASE UNCHANGED feed BY <1>1 DEF ShownActive
<1>2. ASSUME NEW p \in pages, ~p.old, Accept(p) PROVE ShownActive(r)
  <2>1. /\ p.rows \in Seq(FeedRow) /\ FeedType /\ Single(p.rows) /\ Single(feed)
        /\ feed \in Seq(FeedRow)
    BY DEF DashboardInv, DashboardType, FeedType, PagesType, Singles
  <2> DEFINE fresh == Fresh(p.rows)
  <2>2. fresh \in Seq(FeedRow) /\ Single(fresh) /\ IdsOf(fresh) = IdsOf(p.rows) \ IdsOf(feed)
    BY <2>1, FreshRows
  <2>3. feed' = feed \o fresh BY <1>2 DEF Accept
  <2> HIDE DEF fresh
  <2>4. RowsOf(feed \o fresh) = RowsOf(feed) \union RowsOf(fresh) BY <2>1, <2>2, Joined
  <2>5. \A x \in RowsOf(fresh) : x.id \notin IdsOf(feed)
    <3>1. \A x \in RowsOf(fresh) : x.id \in IdsOf(fresh) BY DEF RowsOf, IdsOf
    <3> QED BY <2>2, <3>1
  <2>6. \A x \in RowsOf(feed') : x.id \notin IdsOf(feed) \/ x \in RowsOf(feed)
    BY <2>3, <2>4, <2>5
  <2> QED BY <2>6, ShownKept
<1>3. ASSUME NEW f, ResetFeed(f) PROVE ShownActive(r)
  <2>1. feed' = <<>> BY <1>3 DEF ResetFeed, StartOver
  <2> QED BY <2>1 DEF ShownActive
<1>4. ASSUME NEW q, MarkCancelled(q) PROVE ShownActive(r)
  <2>1. feed' = [k \in DOMAIN feed |-> IF feed[k].id = q
                                       THEN [feed[k] EXCEPT !.status = "cancelled"]
                                       ELSE feed[k]]
    BY <1>4 DEF MarkCancelled
  <2>2. PICK i \in DOMAIN feed : feed'[i].id = r /\ isActive(feed'[i].status)
    BY <2>1 DEF ShownActive
  <2>3. feed[i] \in FeedRow BY DEF DashboardInv, DashboardType, FeedType
  <2>4. CASE feed[i].id = q
    <3>1. feed'[i].status = "cancelled" BY <2>1, <2>3, <2>4 DEF FeedRow
    <3> QED BY <2>2, <3>1 DEF isActive
  <2>5. CASE feed[i].id # q
    <3>1. feed'[i] = feed[i] BY <2>1, <2>5
    <3> QED BY <2>2, <3>1 DEF ShownActive
  <2> QED BY <2>4, <2>5
<1>5. ASSUME NEW p \in polls, PollMerge(p) PROVE ShownActive(r)
  <2>1. \A x \in RowsOf(feed') :
          isActive(x.status) /\ x.id \in cancelled =>
            x.id \notin IdsOf(feed) \/ x \in RowsOf(feed)
    BY <1>5, MergeShows
  <2> QED BY <2>1, ShownKept
<1>6. CASE ServerStep BY <1>1, <1>6 DEF ServerStep, Create, Settles, feedVars
<1>7. CASE PageStep
  <2>1. CASE LoadMore BY <1>1, <2>1 DEF LoadMore
  <2>2. ASSUME NEW p \in pages, PageAnswer(p) PROVE ShownActive(r)
    <3>1. CASE p.old BY <1>1, <2>2, <3>1 DEF PageAnswer, feedVars
    <3>2. CASE ~p.old BY <1>2, <2>2, <3>2 DEF PageAnswer
    <3> QED BY <3>1, <3>2
  <2>3. ASSUME NEW p \in pages, FillViewport(p) PROVE ShownActive(r)
    BY <1>1, <2>3 DEF FillViewport
  <2>4. ASSUME NEW p \in pages, PageFails(p) PROVE ShownActive(r)
    BY <1>1, <2>4 DEF PageFails
  <2>5. ASSUME NEW f \in ChangedFilters, ChangeFilter(f) PROVE ShownActive(r)
    BY <1>3, <2>5 DEF ChangeFilter
  <2> QED BY <1>7, <2>1, <2>2, <2>3, <2>4, <2>5 DEF PageStep
<1>8. CASE PollStep
  <2>1. CASE BeginPoll BY <1>1, <2>1 DEF BeginPoll, feedVars
  <2>2. ASSUME NEW p \in polls, PollRecent(p) PROVE ShownActive(r)
    BY <1>1, <2>2 DEF PollRecent, feedVars
  <2> QED BY <1>5, <1>8, <2>1, <2>2 DEF PollStep
<1>9. CASE CancelStep
  <2>1. ASSUME NEW q \in Runs, Cancel(q) PROVE ShownActive(r)
    BY <1>1, <2>1 DEF Cancel, feedVars
  <2>2. ASSUME NEW c \in posting, CancelAnswer(c) PROVE ShownActive(r)
    <3>1. CASE c.ok BY <1>4, <2>2, <3>1 DEF CancelAnswer
    <3>2. CASE ~c.ok BY <1>1, <2>2, <3>2 DEF CancelAnswer
    <3> QED BY <3>1, <3>2
  <2>3. ASSUME NEW c \in posting, CancelLost(c) PROVE ShownActive(r)
    BY <1>1, <2>3 DEF CancelLost, feedVars
  <2> QED BY <1>9, <2>1, <2>2, <2>3 DEF CancelStep
<1>10. CASE UNCHANGED dashboardVars BY <1>1, <1>10 DEF dashboardVars, feedVars
<1> QED BY <1>6, <1>7, <1>8, <1>9, <1>10 DEF FeedNext

(* markCancelled and the merge of a poll: as long as a row stays in the list, *)
(* no answer turns the cancel it shows back into an activity that runs, until *)
(* a poll has found it ended.  A change of a filter empties the list, and the *)
(* code then does let an older answer show it running again.                 *)
THEOREM CancelKeeps == FeedSpec => CancelHolds
<1> USE DEF CancelHolds
<1>1. DashboardInv /\ [FeedNext]_dashboardVars =>
        [\A r \in cancelled \intersect IdsOf(feed) :
           ShownActive(r)' => ShownActive(r)]_dashboardVars
  BY CancelShown
<1> QED BY <1>1, InitDashboard, StepDashboard, PTL DEF FeedSpec

-----------------------------------------------------------------------------
(* The chart of RepoStats: sums, readings in their order, and the series.    *)

(* The sums of a function over the subsets of its domain.                     *)
PartSums(g, S, f) ==
  /\ g \in [SUBSET S -> Nat] /\ g[{}] = 0
  /\ \A s \in SUBSET S : \A x \in s : g[s] = f[x] + g[s \ {x}]

(* The total of a function adds its values one by one, in any order.          *)
LEMMA TotalParts ==
  ASSUME NEW S, IsFiniteSet(S), NEW f, f \in [S -> Nat]
  PROVE  \E g : PartSums(g, S, f) /\ Total(f) = g[S]
<1> DEFINE F(g, s) == IF s = {} THEN 0
                      ELSE f[CHOOSE x \in s : TRUE] + g[s \ {CHOOSE x \in s : TRUE}]
           it == CHOOSE g : g = [s \in SUBSET S |-> F(g, s)]
<1>1. Total(f) = it[S]
  <2>1. DOMAIN f = S OBVIOUS
  <2> QED BY <2>1 DEF Total, MapThenSumSet, MapThenFoldSet
<1>2. it = [s \in SUBSET S |-> F(it, s)]
  <2> HIDE DEF it
  <2>1. \E g : SumsUp(g, S, f) BY SetRecursion
  <2>2. \A g : SumsUp(g, S, f) <=> g = [s \in SUBSET S |-> F(g, s)] BY DEF SumsUp
  <2> HIDE DEF F
  <2> QED BY <2>1, <2>2 DEF it
<1> HIDE DEF it
<1>3. it[{}] = 0 BY <1>2
<1>4. ASSUME NEW s \in SUBSET S, s # {}
      PROVE  \E y \in s : it[s] = f[y] + it[s \ {y}]
  <2>1. PICK y : y = (CHOOSE z \in s : TRUE) /\ y \in s BY <1>4
  <2>2. it[s] = F(it, s) BY <1>2
  <2> QED BY <1>4, <2>1, <2>2
<1> HIDE DEF F
<1> DEFINE N == {s \in SUBSET S : it[s] \in Nat}
<1>5. \A s \in SUBSET S : it[s] \in Nat
  <2>1. ASSUME NEW s \in SUBSET S, s # {}, \A y \in s : s \ {y} \in N PROVE s \in N
    <3>1. PICK y \in s : it[s] = f[y] + it[s \ {y}] BY <1>4, <2>1
    <3> QED BY <2>1, <3>1
  <2>2. ASSUME NEW s \in SUBSET S PROVE s \in N
    <3>1. IsFiniteSet(s) BY FS_Subset
    <3> DEFINE M == N \intersect SUBSET s
    <3>2. {} \in M BY <1>3
    <3>3. \A u \in SUBSET s : u # {} /\ (\A x \in u : u \ {x} \in M) => u \in M BY <2>1
    <3>4. M \in SUBSET (SUBSET s) OBVIOUS
    <3> HIDE DEF M
    <3>5. s \in M BY <3>1, <3>2, <3>3, <3>4, SetInduction
    <3> QED BY <3>5 DEF M
  <2> QED BY <2>2
<1> DEFINE P == {s \in SUBSET S : \A x \in s : it[s] = f[x] + it[s \ {x}]}
<1>6. ASSUME NEW s \in SUBSET S, s # {}, \A y \in s : s \ {y} \in P PROVE s \in P
  <2>1. PICK y \in s : it[s] = f[y] + it[s \ {y}] BY <1>4, <1>6
  <2>2. ASSUME NEW x \in s, x # y PROVE it[s] = f[x] + it[s \ {x}]
    <3>1. it[s \ {y}] = f[x] + it[(s \ {y}) \ {x}] BY <1>6, <2>2
    <3>2. it[s \ {x}] = f[y] + it[(s \ {x}) \ {y}] BY <1>6, <2>2
    <3>3. (s \ {y}) \ {x} = (s \ {x}) \ {y} OBVIOUS
    <3>4. it[(s \ {x}) \ {y}] \in Nat BY <1>5
    <3>5. f[x] \in Nat /\ f[y] \in Nat OBVIOUS
    <3> QED BY <2>1, <3>1, <3>2, <3>3, <3>4, <3>5
  <2> QED BY <2>1, <2>2
<1>7. ASSUME NEW s \in SUBSET S PROVE s \in P
  <2>1. IsFiniteSet(s) BY FS_Subset
  <2> DEFINE M == P \intersect SUBSET s
  <2>2. {} \in M OBVIOUS
  <2>3. \A u \in SUBSET s : u # {} /\ (\A x \in u : u \ {x} \in M) => u \in M BY <1>6
  <2>4. M \in SUBSET (SUBSET s) OBVIOUS
  <2> HIDE DEF M
  <2>5. s \in M BY <2>1, <2>2, <2>3, <2>4, SetInduction
  <2> QED BY <2>5 DEF M
<1>8. it \in [SUBSET S -> Nat]
  <2>1. it = [s \in SUBSET S |-> it[s]] BY <1>2
  <2> QED BY <1>5, <2>1
<1> HIDE DEF P
<1>9. PartSums(it, S, f)
  <2>1. \A s \in SUBSET S : \A x \in s : it[s] = f[x] + it[s \ {x}] BY <1>7 DEF P
  <2> QED BY <1>3, <1>8, <2>1 DEF PartSums
<1> QED BY <1>1, <1>9

(* Repositories that were not read add nothing.                               *)
LEMMA TotalExtends ==
  ASSUME NEW S, IsFiniteSet(S), NEW D \in SUBSET S,
         NEW f, f \in [D -> Nat], NEW h, h \in [S -> Nat],
         \A x \in D : h[x] = f[x], \A x \in S \ D : h[x] = 0
  PROVE  Total(f) = Total(h)
<1>1. IsFiniteSet(D) BY FS_Subset
<1>a. PICK a : PartSums(a, D, f) /\ Total(f) = a[D] BY <1>1, TotalParts
<1>b. PICK b : PartSums(b, S, h) /\ Total(h) = b[S] BY TotalParts
<1>2. /\ a \in [SUBSET D -> Nat] /\ Total(f) = a[D] /\ a[{}] = 0
      /\ \A s \in SUBSET D : \A x \in s : a[s] = f[x] + a[s \ {x}]
  BY <1>a DEF PartSums
<1>3. /\ b \in [SUBSET S -> Nat] /\ Total(h) = b[S] /\ b[{}] = 0
      /\ \A s \in SUBSET S : \A x \in s : b[s] = h[x] + b[s \ {x}]
  BY <1>b DEF PartSums
<1> DEFINE P == {s \in SUBSET S : b[s] = a[s \intersect D]}
<1>4. {} \in P
  <2>1. {} \intersect D = {} OBVIOUS
  <2> QED BY <1>2, <1>3, <2>1
<1>5. ASSUME NEW s \in SUBSET S, s # {}, \A x \in s : s \ {x} \in P PROVE s \in P
  <2>1. PICK x : x \in s BY <1>5
  <2>2. b[s] = h[x] + b[s \ {x}] BY <1>3, <2>1
  <2>3. b[s \ {x}] = a[(s \ {x}) \intersect D] BY <1>5, <2>1
  <2>4. CASE x \in D
    <3>1. (s \ {x}) \intersect D = (s \intersect D) \ {x} OBVIOUS
    <3>2. a[s \intersect D] = f[x] + a[(s \intersect D) \ {x}] BY <1>2, <2>1, <2>4
    <3> QED BY <2>2, <2>3, <2>4, <3>1, <3>2
  <2>5. CASE x \notin D
    <3>1. (s \ {x}) \intersect D = s \intersect D BY <2>5
    <3>2. h[x] = 0 BY <2>1, <2>5
    <3>3. a[s \intersect D] \in Nat BY <1>2
    <3>4. b[s \ {x}] = a[s \intersect D] BY <2>3, <3>1
    <3>5. b[s \ {x}] \in Nat BY <1>3
    <3>6. b[s] = b[s \ {x}] BY <2>2, <3>2, <3>5
    <3> QED BY <3>4, <3>6
  <2> QED BY <2>4, <2>5
<1>6. S \in P
  <2>1. P \in SUBSET (SUBSET S) OBVIOUS
  <2>2. \A s \in SUBSET S : s # {} /\ (\A x \in s : s \ {x} \in P) => s \in P BY <1>5
  <2> HIDE DEF P
  <2> QED BY <1>4, <2>1, <2>2, SetInduction
<1>7. S \intersect D = D OBVIOUS
<1> QED BY <1>2, <1>3, <1>6, <1>7

(* A total is a number.                                                       *)
LEMMA TotalType ==
  ASSUME NEW S, IsFiniteSet(S), NEW f, f \in [S -> Nat]
  PROVE  Total(f) \in Nat
<1>1. PICK g : PartSums(g, S, f) /\ Total(f) = g[S] BY TotalParts
<1> QED BY <1>1 DEF PartSums

(* Readings, of which no two were made at the same instant.                   *)
Reading == [repo : Repos, at : Nat, fig : Nat]
Apart(points) == \A p, q \in points : p.at = q.at => p = q

(* The readings by measured_at: each once, the times rising.                  *)
LEMMA Ordered ==
  ASSUME NEW Q, Q \subseteq Reading, IsFiniteSet(Q), Apart(Q)
  PROVE  /\ InOrder(Q) \in Seq(Q)
         /\ Q = {InOrder(Q)[k] : k \in 1 .. Len(InOrder(Q))}
         /\ \A k, m \in 1 .. Len(InOrder(Q)) : k < m => InOrder(Q)[k].at < InOrder(Q)[m].at
<1> DEFINE T == {p.at : p \in Q}
           n == Cardinality(Q)
           later(p) == {q \in Q : q.at > p.at}
           s == InOrder(Q)
<1>1. T \subseteq Nat
  <2>1. \A p \in Q : p.at \in Nat BY DEF Reading
  <2> QED BY <2>1
<1>2. IsFiniteSet(T) /\ Cardinality(T) = n
  <2> DEFINE f == [p \in Q |-> p.at]
  <2>1. f \in [Q -> T] OBVIOUS
  <2>2. \A u \in T : \E p \in Q : f[p] = u OBVIOUS
  <2>3. \A p, q \in Q : f[p] = f[q] => p = q BY DEF Apart
  <2> HIDE DEF f, T
  <2>4. f \in Surjection(Q, T) BY <2>1, <2>2 DEF Surjection
  <2>5. f \in Injection(Q, T) BY <2>1, <2>3 DEF Injection, IsInjective
  <2> QED BY <2>4, <2>5, FS_Surjection
<1>3. ASSUME NEW p \in Q PROVE Cardinality(later(p)) = Above(p.at, T)
  <2> DEFINE A == {u \in T : u > p.at}
             L == later(p)
             f == [q \in L |-> q.at]
  <2>1. f \in [L -> A] OBVIOUS
  <2>2. \A u \in A : \E q \in L : f[q] = u OBVIOUS
  <2>3. \A q, r \in L : f[q] = f[r] => q = r BY DEF Apart
  <2>4. IsFiniteSet(L) BY FS_Subset
  <2>5. Above(p.at, T) = Cardinality(A) BY DEF Above
  <2> HIDE DEF f, A, L, T
  <2>6. f \in Surjection(L, A) BY <2>1, <2>2 DEF Surjection
  <2>7. f \in Injection(L, A) BY <2>1, <2>3 DEF Injection, IsInjective
  <2>8. Cardinality(A) = Cardinality(L) BY <2>4, <2>6, <2>7, FS_Surjection
  <2> QED BY <2>5, <2>8 DEF L
<1>4. /\ n \in Nat
      /\ \A x \in T : Above(x, T) \in 0 .. n - 1
      /\ \A x, y \in T : Above(x, T) = Above(y, T) => x = y
      /\ \A k \in 0 .. n - 1 : \E x \in T : Above(x, T) = k
  <2> HIDE DEF T, n
  <2> QED BY <1>1, <1>2, Ranks
<1>5. s = [k \in 1 .. n |-> CHOOSE p \in Q : Cardinality(later(p)) = n - k] BY DEF InOrder
<1> HIDE DEF n, later, s
<1>6. ASSUME NEW k \in 1 .. n PROVE s[k] \in Q /\ Above(s[k].at, T) = n - k
  <2>1. n - k \in 0 .. n - 1 BY <1>4
  <2>2. PICK x \in T : Above(x, T) = n - k BY <1>4, <2>1
  <2>3. PICK p \in Q : p.at = x OBVIOUS
  <2>4. Cardinality(later(p)) = n - k BY <1>3, <2>2, <2>3
  <2>5. s[k] \in Q /\ Cardinality(later(s[k])) = n - k BY <1>5, <2>4
  <2> QED BY <1>3, <2>5
<1>7. s \in Seq(Q) /\ Len(s) = n /\ DOMAIN s = 1 .. n
  <2> DEFINE at(k) == CHOOSE p \in Q : Cardinality(later(p)) = n - k
  <2>1. s = [k \in 1 .. n |-> at(k)] BY <1>5
  <2> HIDE DEF at
  <2>2. \A k \in 1 .. n : at(k) \in Q BY <1>6, <2>1
  <2>3. s \in [1 .. n -> Q] /\ DOMAIN s = 1 .. n BY <2>1, <2>2
  <2>4. s \in Seq(Q) BY <1>4, <2>3
  <2>5. Len(s) = n BY <1>4, <2>3, <2>4
  <2> QED BY <2>3, <2>4, <2>5
<1>8. ASSUME NEW p \in Q PROVE \E k \in 1 .. n : s[k] = p
  <2> DEFINE a == Above(p.at, T)
  <2>1. p.at \in T OBVIOUS
  <2>2. a \in 0 .. n - 1 BY <1>4, <2>1
  <2> HIDE DEF a
  <2>3. n - a \in 1 .. n /\ n - (n - a) = a BY <1>4, <2>2
  <2>4. s[n - a] \in Q /\ Above(s[n - a].at, T) = a BY <1>6, <2>3
  <2>5. s[n - a].at \in T BY <2>4
  <2>6. s[n - a].at = p.at BY <1>4, <2>1, <2>4, <2>5 DEF a
  <2>7. s[n - a] = p BY <2>4, <2>6 DEF Apart
  <2> QED BY <2>3, <2>7
<1>9. ASSUME NEW k \in 1 .. n, NEW m \in 1 .. n, k < m PROVE s[k].at < s[m].at
  <2> DEFINE x == s[k].at
             y == s[m].at
  <2>1. s[k] \in Q /\ s[m] \in Q BY <1>6
  <2>2. x \in T /\ y \in T BY <2>1
  <2>3. Above(x, T) = n - k /\ Above(y, T) = n - m BY <1>6
  <2> HIDE DEF x, y, T
  <2>4. x \in Nat /\ y \in Nat BY <1>1, <2>2
  <2>5. ASSUME y <= x PROVE Above(x, T) <= Above(y, T)
    <3> DEFINE U == {q \in T : q > x}
               V == {q \in T : q > y}
    <3>1. U \subseteq V
      <4>1. ASSUME NEW q \in T, q > x PROVE q > y
        <5>1. q \in Nat BY <1>1
        <5> QED BY <2>4, <2>5, <4>1, <5>1
      <4> QED BY <4>1
    <3>2. V \subseteq T OBVIOUS
    <3>3. Above(x, T) = Cardinality(U) /\ Above(y, T) = Cardinality(V) BY DEF Above
    <3> HIDE DEF U, V
    <3>4. IsFiniteSet(V) BY <1>2, <3>2, FS_Subset
    <3> QED BY <3>1, <3>3, <3>4, FS_Subset
  <2>6. ~(n - k <= n - m) BY <1>4, <1>9
  <2>7. x < y BY <2>3, <2>4, <2>5, <2>6
  <2> QED BY <2>7 DEF x, y
<1>10. Q = {s[k] : k \in 1 .. Len(s)} BY <1>6, <1>7, <1>8
<1> QED BY <1>7, <1>9, <1>10 DEF s

(* The latest reading of a repository up to some time is the one with the     *)
(* largest time.                                                              *)
LEMMA ReadingIs ==
  ASSUME NEW Q, Q \subseteq Reading, Apart(Q), NEW r, NEW t, NEW m \in Q,
         m.repo = r, m.at <= t, \A q \in Q : q.repo = r /\ q.at <= t => q.at <= m.at
  PROVE  ReadingAt(Q, r, t) = m.fig
<1> DEFINE U == {p \in Q : p.repo = r /\ p.at <= t}
           c == CHOOSE p \in U : \A q \in U : q.at <= p.at
<1>1. ReadingAt(Q, r, t) = IF U = {} THEN 0 ELSE c.fig BY DEF ReadingAt
<1>2. m \in U /\ \A q \in U : q.at <= m.at OBVIOUS
<1>3. c \in U /\ \A q \in U : q.at <= c.at BY <1>2
<1>4. U \subseteq Q OBVIOUS
<1> HIDE DEF U, c
<1>5. m.at \in Nat /\ c.at \in Nat BY <1>3, <1>4 DEF Reading
<1>6. m.at <= c.at /\ c.at <= m.at BY <1>2, <1>3
<1>7. c = m BY <1>3, <1>4, <1>5, <1>6 DEF Apart
<1> QED BY <1>1, <1>2, <1>7

(* There is one, or the repository counts nothing.                            *)
LEMMA ReadingFound ==
  ASSUME NEW Q, Q \subseteq Reading, Apart(Q), NEW r, NEW t \in Nat
  PROVE  \/ /\ ~ \E q \in Q : q.repo = r /\ q.at <= t
            /\ ReadingAt(Q, r, t) = 0
         \/ \E m \in Q : /\ m.repo = r /\ m.at <= t
                         /\ \A q \in Q : q.repo = r /\ q.at <= t => q.at <= m.at
                         /\ ReadingAt(Q, r, t) = m.fig
<1> DEFINE U == {p \in Q : p.repo = r /\ p.at <= t}
<1>1. CASE U = {}
  <2>1. ReadingAt(Q, r, t) = 0 BY <1>1 DEF ReadingAt
  <2> QED BY <1>1, <2>1
<1>2. CASE U # {}
  <2> DEFINE A == {t - p.at : p \in U}
  <2>1. \A p \in U : p.at \in Nat /\ p.at <= t BY DEF Reading
  <2>2. A \subseteq Nat /\ A # {} BY <1>2, <2>1
  <2> HIDE DEF A
  <2>3. PICK a \in A : \A b \in A : a <= b BY <2>2, Least
  <2>4. PICK m \in U : a = t - m.at BY <2>3 DEF A
  <2>5. ASSUME NEW q \in U PROVE q.at <= m.at
    <3>1. t - q.at \in A BY DEF A
    <3>2. t - m.at <= t - q.at BY <2>3, <2>4, <3>1
    <3>3. q.at \in Nat /\ m.at \in Nat BY <2>1
    <3> QED BY <3>2, <3>3
  <2>6. m \in Q /\ m.repo = r /\ m.at <= t OBVIOUS
  <2>7. \A q \in Q : q.repo = r /\ q.at <= t => q.at <= m.at BY <2>5
  <2> HIDE DEF U
  <2>8. ReadingAt(Q, r, t) = m.fig BY <2>6, <2>7, ReadingIs
  <2> QED BY <2>6, <2>7, <2>8
<1> QED BY <1>1, <1>2

(* The sum of the latest readings of all repositories.                        *)
TotalAt(points, t) == Total([r \in Repos |-> ReadingAt(points, r, t)])

(* What was read of a repository is a number.                                 *)
LEMMA ReadingsType ==
  ASSUME NEW Q, Q \subseteq Reading, Apart(Q), NEW t \in Nat
  PROVE  /\ [r \in Repos |-> ReadingAt(Q, r, t)] \in [Repos -> Nat]
         /\ TotalAt(Q, t) \in Nat
<1>1. ASSUME NEW r \in Repos PROVE ReadingAt(Q, r, t) \in Nat
  <2>1. \A m \in Q : m.fig \in Nat BY DEF Reading
  <2>2. 0 \in Nat OBVIOUS
  <2> QED BY <2>1, <2>2, ReadingFound
<1> DEFINE f == [r \in Repos |-> ReadingAt(Q, r, t)]
<1>2. f \in [Repos -> Nat] BY <1>1
<1>3. TotalAt(Q, t) = Total(f) BY DEF TotalAt
<1> HIDE DEF f
<1>4. Total(f) \in Nat BY <1>2, FiniteRepos, TotalType
<1> QED BY <1>2, <1>3, <1>4 DEF f

(* A point at the end of the series is what the pointer shows from its time   *)
(* on, and nothing before.                                                    *)
Point == [t : Nat, bytes : Nat]
LEMMA HoverLast ==
  ASSUME NEW out \in Seq(Point), NEW e \in Point, NEW t \in Nat, e.t <= t
  PROVE  Hovered(Append(out, e), t) = e.bytes
<1> DEFINE s == Append(out, e)
           n == Len(out) + 1
           U == {k \in DOMAIN s : s[k].t <= t}
<1>1. n \in Nat /\ Len(s) = n /\ DOMAIN s = 1 .. n /\ s[n] = e OBVIOUS
<1>2. Hovered(s, t) = s[IF U = {} THEN 1 ELSE Max(U)].bytes BY DEF Hovered
<1> HIDE DEF s
<1>3. n \in U BY <1>1
<1>4. U \subseteq 1 .. n BY <1>1
<1> HIDE DEF U
<1>5. Max(U) = n
  <2>1. \A k \in U : n >= k BY <1>1, <1>4
  <2>2. ASSUME NEW x \in U, \A y \in U : x >= y PROVE x = n
    <3>1. x >= n /\ x \in 1 .. n BY <1>3, <1>4, <2>2
    <3> QED BY <1>1, <3>1
  <2> QED BY <1>3, <2>1, <2>2 DEF Max
<1> QED BY <1>1, <1>2, <1>3, <1>5 DEF s

(* Before its time it changes nothing of what is shown.                      *)
LEMMA HoverBefore ==
  ASSUME NEW out \in Seq(Point), out # <<>>, NEW e \in Point, NEW t \in Nat, ~(e.t <= t)
  PROVE  Hovered(Append(out, e), t) = Hovered(out, t)
<1> DEFINE s == Append(out, e)
           n == Len(out)
           U == {k \in DOMAIN s : s[k].t <= t}
           V == {k \in DOMAIN out : out[k].t <= t}
<1>1. n \in Nat /\ n >= 1 /\ DOMAIN out = 1 .. n OBVIOUS
<1>2. DOMAIN s = 1 .. n + 1 /\ s[n + 1] = e /\ \A k \in 1 .. n : s[k] = out[k] OBVIOUS
<1>3. Hovered(s, t) = s[IF U = {} THEN 1 ELSE Max(U)].bytes BY DEF Hovered
<1>4. Hovered(out, t) = out[IF V = {} THEN 1 ELSE Max(V)].bytes BY DEF Hovered
<1> HIDE DEF s, n
<1>5. U = V
  <2>1. ASSUME NEW k \in 1 .. n + 1, s[k].t <= t PROVE k \in 1 .. n
    <3>1. k # n + 1 BY <1>2, <2>1
    <3> QED BY <1>1, <3>1
  <2>2. 1 .. n \subseteq 1 .. n + 1 BY <1>1
  <2> QED BY <1>1, <1>2, <2>1, <2>2
<1>6. V \subseteq 1 .. n BY <1>1
<1> DEFINE i == IF V = {} THEN 1 ELSE Max(V)
<1> HIDE DEF U, V
<1>7. i \in 1 .. n
  <2>1. CASE V = {} BY <1>1, <2>1
  <2>2. CASE V # {}
    <3>1. V \subseteq Nat BY <1>1, <1>6
    <3> DEFINE A == {n - k : k \in V}
    <3>2. A \subseteq Nat /\ A # {}
      <4>1. \A k \in V : n - k \in Nat BY <1>1, <1>6
      <4> QED BY <2>2, <4>1
    <3> HIDE DEF A
    <3>3. PICK a \in A : \A b \in A : a <= b BY <3>2, Least
    <3>4. PICK k \in V : a = n - k BY <3>3 DEF A
    <3>5. ASSUME NEW y \in V PROVE k >= y
      <4>1. n - y \in A BY DEF A
      <4>2. n - k <= n - y BY <3>3, <3>4, <4>1
      <4>3. k \in Nat /\ y \in Nat BY <3>1
      <4> QED BY <1>1, <4>2, <4>3
    <3>6. Max(V) \in V BY <3>5 DEF Max
    <3> QED BY <1>6, <2>2, <3>6
  <2> QED BY <2>1, <2>2
<1>8. s[i] = out[i]
  <2> HIDE DEF i
  <2> QED BY <1>2, <1>7
<1> QED BY <1>3, <1>4, <1>5, <1>8 DEF s

(* What totalStorageSeries holds after some of the readings: the latest of    *)
(* each repository; whether all lie before the window; and points which show  *)
(* the right total from the first of them on.                                 *)
Newest(p, points) == \A q \in points : q.repo = p.repo => q.at <= p.at
Holding(latest, points) ==
  /\ latest \in [{p.repo : p \in points} -> Nat]
  /\ \A p \in points : Newest(p, points) => latest[p.repo] = p.fig
Before(points, since) == \A p \in points : p.at < since
Showing(out, points, since) ==
  /\ out \in Seq(Point)
  /\ out = <<>> <=> Before(points, since)
  /\ out # <<>> => \A t \in Nat : (\A p \in points : p.at <= t) =>
                                    out[Len(out)].bytes = TotalAt(points, t)
  /\ out # <<>> => \A t \in Nat : since <= t /\ out[1].t <= t =>
                                    Hovered(out, t) = TotalAt(points, t)
Drawn(acc, points, since) ==
  /\ Holding(acc.latest, points)
  /\ acc.seeded \in BOOLEAN
  /\ acc.seeded <=> points # {} /\ Before(points, since)
  /\ Showing(acc.out, points, since)

(* The total of the latest readings is the one of every later time.           *)
LEMMA TotalLatest ==
  ASSUME NEW Q, Q \subseteq Reading, Apart(Q), NEW f, Holding(f, Q),
         NEW t \in Nat, \A p \in Q : p.at <= t
  PROVE  Total(f) = TotalAt(Q, t)
<1> DEFINE D == {p.repo : p \in Q}
           h == [r \in Repos |-> ReadingAt(Q, r, t)]
<1>1. f \in [D -> Nat] BY DEF Holding
<1>2. h \in [Repos -> Nat] BY ReadingsType
<1>3. D \subseteq Repos BY DEF Reading
<1>4. ASSUME NEW r \in D PROVE h[r] = f[r]
  <2>1. PICK p \in Q : p.repo = r OBVIOUS
  <2>2. p.at <= t OBVIOUS
  <2>3. PICK m \in Q : /\ m.repo = r /\ m.at <= t
                       /\ \A q \in Q : q.repo = r /\ q.at <= t => q.at <= m.at
                       /\ ReadingAt(Q, r, t) = m.fig
    BY <2>1, <2>2, ReadingFound
  <2>4. Newest(m, Q) BY <2>3 DEF Newest
  <2>5. f[r] = m.fig BY <2>3, <2>4 DEF Holding
  <2>6. r \in Repos BY <1>3
  <2> QED BY <2>3, <2>5, <2>6
<1>5. ASSUME NEW r \in Repos \ D PROVE h[r] = 0
  <2>1. ~ \E q \in Q : q.repo = r BY <1>5
  <2>2. ReadingAt(Q, r, t) = 0 BY <2>1, ReadingFound
  <2> QED BY <2>2
<1>6. TotalAt(Q, t) = Total(h) BY DEF TotalAt
<1> HIDE DEF D, h
<1> QED BY <1>1, <1>2, <1>3, <1>4, <1>5, <1>6, FiniteRepos, TotalExtends

(* A later reading changes no earlier total.                                  *)
LEMMA TotalBefore ==
  ASSUME NEW Q, NEW p, NEW t, ~(p.at <= t)
  PROVE  TotalAt(Q \cup {p}, t) = TotalAt(Q, t)
<1>1. ASSUME NEW r PROVE ReadingAt(Q \cup {p}, r, t) = ReadingAt(Q, r, t)
  <2> DEFINE U == {q \in Q \cup {p} : q.repo = r /\ q.at <= t}
             V == {q \in Q : q.repo = r /\ q.at <= t}
  <2>1. U = V OBVIOUS
  <2>2. ReadingAt(Q \cup {p}, r, t)
          = IF U = {} THEN 0 ELSE (CHOOSE m \in U : \A q \in U : q.at <= m.at).fig
    BY DEF ReadingAt
  <2>3. ReadingAt(Q, r, t)
          = IF V = {} THEN 0 ELSE (CHOOSE m \in V : \A q \in V : q.at <= m.at).fig
    BY DEF ReadingAt
  <2> HIDE DEF U, V
  <2> QED BY <2>1, <2>2, <2>3
<1> QED BY <1>1 DEF TotalAt

(* The reading that comes next takes the place of its repository's last one.  *)
LEMMA NextHeld ==
  ASSUME NEW Q, Q \subseteq Reading, NEW p \in Reading, \A q \in Q : q.at < p.at,
         NEW f, Holding(f, Q)
  PROVE  Holding([r \in DOMAIN f \cup {p.repo} |-> IF r = p.repo THEN p.fig ELSE f[r]],
                 Q \cup {p})
<1> DEFINE D == {q.repo : q \in Q}
           E == {q.repo : q \in Q \cup {p}}
           g == [r \in DOMAIN f \cup {p.repo} |-> IF r = p.repo THEN p.fig ELSE f[r]]
<1>1. f \in [D -> Nat] BY DEF Holding
<1>2. E = D \cup {p.repo} OBVIOUS
<1>3. p.fig \in Nat /\ p.at \in Nat /\ \A q \in Q : q.at \in Nat BY DEF Reading
<1>4. g \in [E -> Nat]
  <2> HIDE DEF D, E
  <2> QED BY <1>1, <1>2, <1>3
<1>5. ASSUME NEW q \in Q \cup {p}, Newest(q, Q \cup {p}) PROVE g[q.repo] = q.fig
  <2>1. CASE q.repo = p.repo
    <3>1. q = p
      <4>1. p.at <= q.at BY <1>5, <2>1 DEF Newest
      <4> QED BY <1>3, <4>1
    <3> QED BY <3>1
  <2>2. CASE q.repo # p.repo
    <3>1. q \in Q /\ Newest(q, Q) BY <1>5, <2>2 DEF Newest
    <3>2. f[q.repo] = q.fig BY <3>1 DEF Holding
    <3>3. q.repo \in DOMAIN f BY <1>1, <3>1
    <3> QED BY <2>2, <3>2, <3>3
  <2> QED BY <2>1, <2>2
<1> QED BY <1>4, <1>5 DEF Holding

(* One round of the loop.                                                     *)
LEMMA PlotKeeps ==
  ASSUME NEW Q, Q \subseteq Reading, NEW p \in Reading, Apart(Q \cup {p}),
         \A q \in Q : q.at < p.at, NEW since \in Nat, NEW acc, Drawn(acc, Q, since)
  PROVE  Drawn(Plot(acc, p, since), Q \cup {p}, since)
<1> DEFINE R == Q \cup {p}
           latest == [r \in DOMAIN acc.latest \cup {p.repo} |->
                        IF r = p.repo THEN p.fig ELSE acc.latest[r]]
           seed == [t |-> since, bytes |-> Total(acc.latest)]
           e == [t |-> p.at, bytes |-> Total(latest)]
           before == IF acc.seeded THEN Append(acc.out, seed) ELSE acc.out
<1>1. Plot(acc, p, since) =
        IF p.at < since
          THEN [latest |-> latest, seeded |-> TRUE, out |-> acc.out]
          ELSE [latest |-> latest, seeded |-> FALSE, out |-> Append(before, e)]
  BY DEF Plot
<1>2. Holding(latest, R) BY NextHeld DEF Drawn
<1>3. R \subseteq Reading /\ Apart(R) /\ Apart(Q) /\ p \in R BY DEF Apart
<1>4. p.at \in Nat /\ \A q \in Q : q.at \in Nat BY DEF Reading
<1>5. \A t \in Nat : p.at <= t => \A q \in R : q.at <= t
  <2>1. ASSUME NEW t \in Nat, p.at <= t, NEW q \in Q PROVE q.at <= t
    <3>1. q.at < p.at OBVIOUS
    <3> QED BY <1>4, <2>1, <3>1
  <2> QED BY <2>1
<1>6. \A t \in Nat : p.at <= t => Total(latest) = TotalAt(R, t)
  <2> HIDE DEF latest, R
  <2> QED BY <1>2, <1>3, <1>5, TotalLatest
<1>7. \A t \in Nat : ~(p.at <= t) => TotalAt(R, t) = TotalAt(Q, t) BY TotalBefore
<1>8. e \in Point
  <2>1. TotalAt(R, p.at) \in Nat
    <3> HIDE DEF R
    <3> QED BY <1>3, <1>4, ReadingsType
  <2>2. Total(latest) \in Nat
    <3> HIDE DEF latest, R
    <3> QED BY <1>4, <1>6, <2>1
  <2> HIDE DEF latest
  <2> QED BY <1>4, <2>2 DEF Point
<1>9. CASE p.at < since
  <2>1. \A q \in Q : q.at < since
    <3>1. ASSUME NEW q \in Q PROVE q.at < since
      <4>1. q.at < p.at OBVIOUS
      <4> QED BY <1>4, <1>9, <4>1
    <3> QED BY <3>1
  <2>2. Before(Q, since) /\ Before(R, since) BY <1>9, <2>1 DEF Before
  <2>3. acc.out = <<>> BY <2>2 DEF Drawn, Showing
  <2>4. Showing(acc.out, R, since) BY <2>2, <2>3 DEF Showing
  <2> HIDE DEF latest
  <2>5. Plot(acc, p, since) = [latest |-> latest, seeded |-> TRUE, out |-> acc.out]
    BY <1>1, <1>9
  <2> DEFINE w == Plot(acc, p, since)
  <2>6. w.latest = latest /\ w.seeded = TRUE /\ w.out = acc.out BY <2>5
  <2>7. R # {} OBVIOUS
  <2> HIDE DEF w, R
  <2>8. Drawn(w, R, since) BY <1>2, <2>2, <2>4, <2>6, <2>7 DEF Drawn
  <2> QED BY <2>8 DEF w, R
<1>10. CASE ~(p.at < since)
  <2>1. ~Before(R, since) BY <1>10 DEF Before
  <2>2. since <= p.at BY <1>4, <1>10
  <2> HIDE DEF latest
  <2>3. Plot(acc, p, since) = [latest |-> latest, seeded |-> FALSE, out |-> Append(before, e)]
    BY <1>1, <1>10
  <2>4. ASSUME NEW t \in Nat, since <= t, ~(p.at <= t), acc.seeded
        PROVE  seed.bytes = TotalAt(Q, t) /\ seed.t <= t
    <3>1. Before(Q, since) BY <2>4 DEF Drawn
    <3>2. ASSUME NEW q \in Q PROVE q.at <= t
      <4>1. q.at < since BY <3>1 DEF Before
      <4> QED BY <1>4, <2>4, <4>1
    <3>3. Holding(acc.latest, Q) BY DEF Drawn
    <3>4. Total(acc.latest) = TotalAt(Q, t) BY <1>3, <3>2, <3>3, TotalLatest
    <3> QED BY <2>4, <3>4
  <2>5. seed \in Point
    <3>1. Holding(acc.latest, Q) BY DEF Drawn
    <3> DEFINE D == {q.repo : q \in Q}
    <3>2. acc.latest \in [D -> Nat] BY <3>1 DEF Holding
    <3>3. D \subseteq Repos BY DEF Reading
    <3> HIDE DEF D
    <3>4. IsFiniteSet(D) BY <3>3, FiniteRepos, FS_Subset
    <3>5. Total(acc.latest) \in Nat BY <3>2, <3>4, TotalType
    <3> QED BY <3>5 DEF Point
  <2>6. acc.out \in Seq(Point) BY DEF Drawn, Showing
  <2>7. before \in Seq(Point)
    <3> HIDE DEF seed
    <3> QED BY <2>5, <2>6
  <2>8. before # <<>> =>
          \A t \in Nat : since <= t /\ ~(p.at <= t) /\ before[1].t <= t =>
            Hovered(before, t) = TotalAt(Q, t)
    <3>1. CASE acc.seeded
      <4>1. acc.out = <<>> BY <3>1 DEF Drawn, Showing
      <4> SUFFICES ASSUME NEW t \in Nat, since <= t, ~(p.at <= t)
                   PROVE  Hovered(before, t) = TotalAt(Q, t)
        OBVIOUS
      <4>2. seed.bytes = TotalAt(Q, t) /\ seed.t <= t BY <2>4, <3>1
      <4> HIDE DEF seed
      <4>3. Hovered(Append(acc.out, seed), t) = seed.bytes BY <2>5, <2>6, <4>2, HoverLast
      <4> QED BY <3>1, <4>2, <4>3
    <3>2. CASE ~acc.seeded
      <4>1. before = acc.out BY <3>2
      <4> QED BY <4>1 DEF Drawn, Showing
    <3> QED BY <3>1, <3>2 DEF Drawn
  <2> HIDE DEF before, seed, e
  <2> DEFINE out == Append(before, e)
  <2>9. out \in Seq(Point) /\ out # <<>> /\ Len(out) \in Nat /\ out[Len(out)] = e
    BY <1>8, <2>7
  <2>10. before # <<>> => out[1] = before[1] BY <2>7
  <2>11. before = <<>> => out[1] = e BY <2>7
  <2>12. \A t \in Nat : (\A q \in R : q.at <= t) => out[Len(out)].bytes = TotalAt(R, t)
    <3>1. e.bytes = Total(latest) BY DEF e
    <3> QED BY <1>3, <1>6, <2>9, <3>1
  <2>13. ASSUME NEW t \in Nat, since <= t, out[1].t <= t PROVE Hovered(out, t) = TotalAt(R, t)
    <3>1. CASE p.at <= t
      <4>1. e.t <= t /\ e.bytes = TotalAt(R, t) BY <1>6, <3>1 DEF e
      <4> QED BY <1>8, <2>7, <4>1, HoverLast
    <3>2. CASE ~(p.at <= t)
      <4>1. ~(e.t <= t) BY <3>2 DEF e
      <4>2. before # <<>> BY <2>11, <2>13, <4>1
      <4>3. Hovered(out, t) = Hovered(before, t) BY <1>8, <2>7, <4>1, <4>2, HoverBefore
      <4>4. Hovered(before, t) = TotalAt(Q, t) BY <2>8, <2>10, <2>13, <3>2, <4>2
      <4> QED BY <1>7, <3>2, <4>3, <4>4
    <3> QED BY <3>1, <3>2
  <2> HIDE DEF out, R
  <2>14. Showing(out, R, since) BY <2>1, <2>9, <2>12, <2>13 DEF Showing
  <2>15. Plot(acc, p, since) = [latest |-> latest, seeded |-> FALSE, out |-> out]
    BY <2>3 DEF out
  <2> DEFINE w == Plot(acc, p, since)
  <2>16. w.latest = latest /\ w.seeded = FALSE /\ w.out = out BY <2>15
  <2> HIDE DEF w
  <2>17. Drawn(w, R, since) BY <1>2, <2>1, <2>14, <2>16 DEF Drawn
  <2> QED BY <2>17 DEF w, R
<1> QED BY <1>9, <1>10

(* The loop of totalStorageSeries draws the readings it is given.             *)
LEMMA PlottedRight ==
  ASSUME NEW Q, Q \subseteq Reading, IsFiniteSet(Q), Apart(Q), NEW since \in Nat
  PROVE  Drawn(Plotted(InOrder(Q), since), Q, since)
<1> DEFINE s == InOrder(Q)
           n == Len(s)
           F(g, k) == IF k = 0 THEN NothingYet ELSE Plot(g[k - 1], s[k], since)
           acc == CHOOSE g : g = [k \in 0 .. n |-> F(g, k)]
<1>1. Plotted(s, since) = acc[n] BY DEF Plotted
<1>2. /\ s \in Seq(Q) /\ Q = {s[k] : k \in 1 .. n}
      /\ \A k, m \in 1 .. n : k < m => s[k].at < s[m].at
  BY Ordered
<1> HIDE DEF s
<1>3. n \in Nat /\ \A k \in 1 .. n : s[k] \in Q BY <1>2
<1> HIDE DEF n, acc
<1> DEFINE D == {m \in Nat : \E g : g = [k \in 0 .. m |-> F(g, k)]}
<1>4. 0 \in D
  <2> DEFINE g == [k \in 0 .. 0 |-> NothingYet]
  <2>1. \A k \in 0 .. 0 : k = 0 OBVIOUS
  <2>2. g = [k \in 0 .. 0 |-> F(g, k)] BY <2>1
  <2> QED BY <2>2
<1>5. ASSUME NEW m \in Nat, m \in D PROVE m + 1 \in D
  <2>1. PICK g : g = [k \in 0 .. m |-> F(g, k)] BY <1>5
  <2> DEFINE h == [k \in 0 .. m + 1 |-> F(g, k)]
  <2>2. ASSUME NEW k \in 0 .. m PROVE k \in 0 .. m + 1 /\ h[k] = g[k]
    <3>1. k \in 0 .. m + 1 OBVIOUS
    <3>2. h[k] = F(g, k) BY <3>1
    <3>3. g[k] = F(g, k) BY <2>1
    <3> QED BY <3>1, <3>2, <3>3
  <2>3. ASSUME NEW k \in 0 .. m + 1 PROVE F(g, k) = F(h, k)
    <3> HIDE DEF h
    <3>1. CASE k = 0 BY <3>1
    <3>2. CASE k # 0
      <4>1. k - 1 \in 0 .. m BY <3>2
      <4>2. g[k - 1] = h[k - 1] BY <2>2, <4>1
      <4> QED BY <3>2, <4>2
    <3> QED BY <3>1, <3>2
  <2>4. h = [k \in 0 .. m + 1 |-> F(h, k)]
    <3> HIDE DEF F
    <3> QED BY <2>3
  <2> HIDE DEF F, h
  <2> QED BY <2>4
<1>6. Nat \subseteq D
  <2> HIDE DEF D
  <2> QED BY <1>4, <1>5, Induction
<1>7. acc = [k \in 0 .. n |-> F(acc, k)]
  <2>1. n \in D BY <1>3, <1>6
  <2> HIDE DEF F
  <2> QED BY <2>1 DEF acc
<1> DEFINE part(m) == {s[k] : k \in 1 .. m}
           E == {m \in Nat : m <= n => Drawn(acc[m], part(m), since)}
<1>8. 0 \in E
  <2>1. acc[0] = NothingYet
    <3>1. 0 \in 0 .. n BY <1>3
    <3> QED BY <1>7, <3>1
  <2>2. part(0) = {} OBVIOUS
  <2>3. Holding(NothingYet.latest, {}) BY DEF Holding, NothingYet
  <2>4. NothingYet.seeded = FALSE /\ NothingYet.out = <<>> BY DEF NothingYet
  <2>5. Showing(<<>>, {}, since) BY DEF Showing, Before
  <2>6. Drawn(NothingYet, {}, since) BY <2>3, <2>4, <2>5 DEF Drawn
  <2> HIDE DEF part
  <2> QED BY <2>1, <2>2, <2>6
<1>9. ASSUME NEW m \in Nat, m \in E PROVE m + 1 \in E
  <2> SUFFICES ASSUME m + 1 <= n PROVE Drawn(acc[m + 1], part(m + 1), since)
    OBVIOUS
  <2>1. m + 1 \in 1 .. n /\ m + 1 \in 0 .. n /\ m <= n BY <1>3
  <2>2. Drawn(acc[m], part(m), since) BY <1>9, <2>1
  <2>3. acc[m + 1] = Plot(acc[m], s[m + 1], since)
    <3>1. acc[m + 1] = F(acc, m + 1) BY <1>7, <2>1
    <3>2. m + 1 # 0 /\ (m + 1) - 1 = m OBVIOUS
    <3> QED BY <3>1, <3>2
  <2>4. part(m) \subseteq Q
    <3>1. \A k \in 1 .. m : k \in 1 .. n BY <1>3, <2>1
    <3> QED BY <1>3, <3>1
  <2>5. part(m + 1) = part(m) \cup {s[m + 1]}
    <3>1. \A k \in 1 .. m + 1 : k \in 1 .. m \/ k = m + 1 OBVIOUS
    <3>2. 1 .. m \subseteq 1 .. m + 1 /\ m + 1 \in 1 .. m + 1 OBVIOUS
    <3> QED BY <3>1, <3>2
  <2>6. \A q \in part(m) : q.at < s[m + 1].at
    <3>1. \A k \in 1 .. m : k \in 1 .. n /\ k < m + 1 BY <1>3, <2>1
    <3> QED BY <1>2, <2>1, <3>1
  <2>7. s[m + 1] \in Q BY <1>3, <2>1
  <2> HIDE DEF part
  <2>8. part(m) \subseteq Reading /\ s[m + 1] \in Reading BY <2>4, <2>7
  <2>9. Apart(part(m) \cup {s[m + 1]}) BY <2>4, <2>7 DEF Apart
  <2>10. Drawn(Plot(acc[m], s[m + 1], since), part(m) \cup {s[m + 1]}, since)
    BY <2>2, <2>6, <2>8, <2>9, PlotKeeps
  <2> QED BY <2>3, <2>5, <2>10
<1>10. Nat \subseteq E
  <2> HIDE DEF E
  <2> QED BY <1>8, <1>9, Induction
<1>11. part(n) = Q BY <1>2
<1>12. Drawn(acc[n], part(n), since) BY <1>3, <1>10
<1> HIDE DEF part
<1> QED BY <1>1, <1>11, <1>12 DEF s, n

(* The readings that statsHistory selects tell all that was read by any time  *)
(* of the window.                                                             *)
LEMMA PointsTell ==
  ASSUME NEW since \in Nat, NEW t \in Nat, since <= t,
         Range(history) \subseteq Reading, Apart(Range(history))
  PROVE  /\ Points(since) \subseteq Range(history)
         /\ TotalAt(Points(since), t) = TotalAt(Range(history), t)
<1> DEFINE H == Range(history)
           P == Points(since)
<1>1. \A p : p \in P <=> /\ p \in H
                         /\ \/ p.at >= since
                            \/ /\ p.at < since
                               /\ \A q \in H : q.repo = p.repo /\ q.at < since => q.at <= p.at
  BY DEF Points
<1>2. P \subseteq H BY <1>1
<1> HIDE DEF H, P
<1>3. H \subseteq Reading /\ Apart(H) BY DEF H
<1>4. P \subseteq Reading /\ Apart(P) BY <1>2, <1>3 DEF Apart
<1>5. \A q \in H : q.at \in Nat BY <1>3 DEF Reading
<1>6. ASSUME NEW r PROVE ReadingAt(P, r, t) = ReadingAt(H, r, t)
  <2>1. CASE ~ \E q \in H : q.repo = r /\ q.at <= t
    <3>1. ~ \E q \in P : q.repo = r /\ q.at <= t BY <1>2, <2>1
    <3>2. ReadingAt(H, r, t) = 0 BY <1>3, <2>1, ReadingFound
    <3>3. ReadingAt(P, r, t) = 0 BY <1>4, <3>1, ReadingFound
    <3> QED BY <3>2, <3>3
  <2>2. CASE \E q \in H : q.repo = r /\ q.at <= t
    <3>1. PICK m \in H : /\ m.repo = r /\ m.at <= t
                         /\ \A q \in H : q.repo = r /\ q.at <= t => q.at <= m.at
                         /\ ReadingAt(H, r, t) = m.fig
      BY <1>3, <2>2, ReadingFound
    <3>2. m \in P
      <4>1. CASE m.at >= since BY <1>1, <4>1
      <4>2. CASE m.at < since
        <5>1. ASSUME NEW q \in H, q.repo = m.repo, q.at < since PROVE q.at <= m.at
          <6>1. q.at <= t BY <1>5, <5>1
          <6> QED BY <3>1, <5>1, <6>1
        <5> QED BY <1>1, <4>2, <5>1
      <4> QED BY <1>5, <4>1, <4>2
    <3>3. \A q \in P : q.repo = r /\ q.at <= t => q.at <= m.at BY <1>2, <3>1
    <3>4. ReadingAt(P, r, t) = m.fig BY <1>4, <3>1, <3>2, <3>3, ReadingIs
    <3> QED BY <3>1, <3>4
  <2> QED BY <2>1, <2>2
<1>7. TotalAt(P, t) = TotalAt(H, t) BY <1>6 DEF TotalAt
<1> QED BY <1>2, <1>7 DEF H, P

(* The chart shows at every instant of the window what the repositories were  *)
(* last found to hold, and at its right edge the last total.                  *)
LEMMA SeriesRight ==
  ASSUME NEW since \in Nat, now \in Nat, since <= now + 1,
         Range(history) \subseteq Reading, IsFiniteSet(Range(history)),
         Apart(Range(history)), \A p \in Range(history) : p.at <= now,
         TotalStorageSeries(since) # <<>>
  PROVE  LET series == TotalStorageSeries(since)
         IN  /\ \A t \in since .. now : series[1].t <= t =>
                  Hovered(series, t) = TotalAt(Range(history), t)
             /\ series[Len(series)].bytes = TotalAt(Range(history), now + 1)
<1> DEFINE H == Range(history)
           P == Points(since)
           end == Plotted(InOrder(P), since)
           seed == [t |-> since, bytes |-> Total(end.latest)]
           out == IF end.seeded THEN Append(end.out, seed) ELSE end.out
           series == TotalStorageSeries(since)
           last == [t |-> now, bytes |-> out[Len(out)].bytes]
<1>1. series = IF out = <<>> THEN out ELSE Append(out, last) BY DEF TotalStorageSeries
<1>2. P \subseteq H /\ \A t \in Nat : since <= t => TotalAt(P, t) = TotalAt(H, t)
  <2>1. since <= since OBVIOUS
  <2> HIDE DEF P
  <2>2. P \subseteq H BY <2>1, PointsTell DEF P
  <2>3. \A t \in Nat : since <= t => TotalAt(P, t) = TotalAt(H, t) BY PointsTell DEF P
  <2> QED BY <2>2, <2>3
<1> HIDE DEF P, H
<1>3. /\ P \subseteq Reading /\ Apart(P) /\ IsFiniteSet(P)
      /\ \A p \in P : p.at <= now /\ p.at \in Nat
  <2>1. P \subseteq Reading BY <1>2 DEF H
  <2>2. Apart(P) BY <1>2 DEF H, Apart
  <2>3. IsFiniteSet(P) BY <1>2, FS_Subset DEF H
  <2>4. \A p \in P : p.at <= now BY <1>2 DEF H
  <2> QED BY <2>1, <2>2, <2>3, <2>4 DEF Reading
<1>4. Drawn(end, P, since) BY <1>3, PlottedRight
<1> HIDE DEF end
<1>5. \A t \in Nat : now <= t => \A p \in P : p.at <= t
  <2>1. ASSUME NEW t \in Nat, now <= t, NEW p \in P PROVE p.at <= t
    <3>1. p.at <= now /\ p.at \in Nat BY <1>3
    <3> QED BY <2>1, <3>1
  <2> QED BY <2>1
<1>6. /\ out \in Seq(Point)
      /\ out # <<>> => \A t \in Nat : now <= t /\ since <= t =>
                                        out[Len(out)].bytes = TotalAt(P, t)
      /\ out # <<>> => \A t \in Nat : since <= t /\ out[1].t <= t =>
                                        Hovered(out, t) = TotalAt(P, t)
  <2>1. CASE end.seeded
    <3>1. Before(P, since) /\ Holding(end.latest, P) BY <1>4, <2>1 DEF Drawn
    <3>2. end.out = <<>> BY <1>4, <3>1 DEF Drawn, Showing
    <3>3. ASSUME NEW t \in Nat, since <= t PROVE seed.bytes = TotalAt(P, t)
      <4>1. ASSUME NEW p \in P PROVE p.at <= t
        <5>1. p.at < since /\ p.at \in Nat BY <1>3, <3>1 DEF Before
        <5> QED BY <3>3, <5>1
      <4>2. Total(end.latest) = TotalAt(P, t) BY <1>3, <3>1, <4>1, TotalLatest
      <4> QED BY <4>2
    <3>4. seed \in Point
      <4>1. TotalAt(P, since) \in Nat BY <1>3, ReadingsType
      <4>2. seed.bytes = TotalAt(P, since) BY <3>3
      <4> QED BY <4>1, <4>2 DEF Point
    <3>5. out = Append(<<>>, seed) BY <2>1, <3>2
    <3>6. seed.t = since OBVIOUS
    <3> HIDE DEF seed, out
    <3>7. out \in Seq(Point) /\ Len(out) = 1 /\ out[1] = seed BY <3>4, <3>5
    <3>8. ASSUME NEW t \in Nat, since <= t PROVE Hovered(out, t) = TotalAt(P, t)
      <4>1. <<>> \in Seq(Point) /\ seed.t <= t BY <3>6, <3>8
      <4>2. Hovered(out, t) = seed.bytes BY <3>4, <3>5, <4>1, HoverLast
      <4> QED BY <3>3, <3>8, <4>2
    <3> QED BY <3>3, <3>7, <3>8
  <2>2. CASE ~end.seeded
    <3>1. out = end.out BY <2>2
    <3>2. Showing(end.out, P, since) BY <1>4 DEF Drawn
    <3> HIDE DEF out
    <3> QED BY <1>5, <3>1, <3>2 DEF Showing
  <2> QED BY <2>1, <2>2
<1> HIDE DEF out, seed
<1>7. out # <<>> /\ series = Append(out, last) BY <1>1
<1> HIDE DEF series
<1> DEFINE final == out[Len(out)]
<1>8. final \in Point /\ Len(out) \in Nat \ {0} BY <1>6, <1>7
<1>9. last \in Point /\ last.t = now /\ last.bytes = final.bytes BY <1>8 DEF Point
<1>10. ASSUME NEW t \in Nat, now <= t, since <= t PROVE final.bytes = TotalAt(H, t)
  <2>1. final.bytes = TotalAt(P, t) BY <1>6, <1>7, <1>10
  <2> QED BY <1>2, <1>10, <2>1
<1> HIDE DEF final, last
<1>11. Len(series) \in Nat /\ series[Len(series)] = last /\ series[1] = out[1]
  BY <1>6, <1>7, <1>9
<1>12. series[Len(series)].bytes = TotalAt(H, now + 1)
  <2>1. now + 1 \in Nat /\ now <= now + 1 OBVIOUS
  <2> QED BY <1>9, <1>10, <1>11, <2>1
<1>13. ASSUME NEW t \in since .. now, series[1].t <= t PROVE Hovered(series, t) = TotalAt(H, t)
  <2>1. t \in Nat /\ since <= t /\ t <= now BY <1>13
  <2>2. CASE t = now
    <3>1. Hovered(series, t) = last.bytes BY <1>6, <1>7, <1>9, <2>1, <2>2, HoverLast
    <3> QED BY <1>9, <1>10, <2>1, <2>2, <3>1
  <2>3. CASE t # now
    <3>1. ~(last.t <= t) BY <1>9, <2>1, <2>3
    <3>2. Hovered(series, t) = Hovered(out, t)
      BY <1>6, <1>7, <1>9, <2>1, <3>1, HoverBefore
    <3>3. Hovered(out, t) = TotalAt(P, t) BY <1>6, <1>7, <1>11, <1>13, <2>1
    <3> QED BY <1>2, <2>1, <3>2, <3>3
  <2> QED BY <2>2, <2>3
<1> QED BY <1>12, <1>13 DEF H, series

-----------------------------------------------------------------------------
(* The recordings of RepoStats.                                              *)

(* What a slot holds: from the answer of restic on figures or a failure, and  *)
(* the history is appended for figures only.                                  *)
SlotRight(w) ==
  /\ w.st \in {"idle", "restic", "select", "update", "append"}
  /\ w.st # "idle" => w.repo \in Repos
  /\ w.st \in {"select", "update", "append"} => w.got \in Nat \cup {Failed}
  /\ w.st = "update" => w \in [st : {"update"}, repo : Repos, by : Readers,
                               got : Nat \cup {Failed},
                               prev : [fig : Nat \cup {NoReading}, err : BOOLEAN], at : Nat]
  /\ w.st = "append" => w.got \in Nat /\ w.at \in Nat
  /\ w.st # "idle" => w.by \in Readers
StatsShape ==
  /\ size \in [Repos -> Nat] /\ now \in Nat
  /\ cached \in [Repos -> [fig : Nat \cup {NoReading}, err : BOOLEAN]]
  /\ history \in Seq(Reading) /\ IsFiniteSet(Range(history))
  /\ requested \subseteq Repos /\ tasks \subseteq Repos
  /\ \A p \in posts : p.repo \in Repos /\ p.got \in Nat \cup {Failed}
  /\ slot = [i \in Slots |-> slot[i]] /\ \A i \in Slots : SlotRight(slot[i])

(* The readings are told apart by their times, and so are those whose history *)
(* is still to be appended.                                                   *)
Appending(i) == slot[i].st = "append"
Timed ==
  /\ Apart(Range(history)) /\ \A p \in Range(history) : p.at <= now
  /\ \A i \in Slots : Appending(i) =>
       /\ slot[i].at <= now
       /\ \A p \in Range(history) : p.at # slot[i].at
       /\ \A j \in Slots : Appending(j) /\ slot[i].at = slot[j].at => i = j

(* The last reading of a repository in the history has these figures.         *)
Told(r, fig, points) ==
  IF fig = NoReading THEN \A p \in points : p.repo # r
  ELSE \E m \in points : m.repo = r /\ m.fig = fig /\ Newest(m, points)

(* The recordings of one repository follow one another as long as none        *)
(* overlapped another: the row selected is the row updated, and the history   *)
(* says what the row does, but for a reading that is still to be appended.    *)
On(i, r) == Recording(i) /\ slot[i].repo = r
InTurn(r) ==
  /\ \A i, j \in Slots : On(i, r) /\ On(j, r) => i = j
  /\ \A i \in Slots : On(i, r) /\ slot[i].st = "update" => slot[i].prev.fig = cached[r].fig
  /\ \A i \in Slots : On(i, r) /\ Appending(i) =>
       /\ cached[r].fig = slot[i].got
       /\ Told(r, slot[i].prev.fig, Range(history))
       /\ \A p \in Range(history) : p.repo = r => p.at < slot[i].at
  /\ (\A i \in Slots : On(i, r) => ~Appending(i)) => Told(r, cached[r].fig, Range(history))
RecordedInTurn == \A r \in Repos \ overlapped : InTurn(r)

StatsInv == StatsShape /\ Timed /\ RecordedInTurn

(* The times stay apart where nothing is read or appended.                    *)
LEMMA TimedStays ==
  ASSUME Timed, UNCHANGED <<history, now>>,
         \A i \in Slots : Appending(i)' => Appending(i) /\ slot'[i] = slot[i]
  PROVE  Timed'
<1> DEFINE H == Range(history)
<1>1. Range(history)' = H /\ now' = now BY DEF Range
<1>2. Apart(H) /\ \A p \in H : p.at <= now BY DEF Timed
<1> HIDE DEF H
<1>3. \A i \in Slots : Appending(i)' =>
        /\ slot'[i].at <= now
        /\ \A p \in H : p.at # slot'[i].at
        /\ \A j \in Slots : Appending(j)' /\ slot'[i].at = slot'[j].at => i = j
  BY DEF Timed, H
<1> QED BY <1>1, <1>2, <1>3 DEF Timed, H, Apart

(* Nothing is read and nothing under way at the start.                       *)
LEMMA StatsAtStart == StatsInit => StatsInv
<1> SUFFICES ASSUME StatsInit PROVE StatsInv
  OBVIOUS
<1> USE DEF StatsInit
<1>1. Range(history) = {} BY DEF Range
<1>2. \A i \in Slots : slot[i] = IdleSlot /\ slot[i].st = "idle" BY DEF IdleSlot
<1>3. StatsShape
  <2>1. \A i \in Slots : SlotRight(slot[i]) BY <1>2 DEF SlotRight
  <2>2. IsFiniteSet(Range(history)) BY <1>1, FS_EmptySet
  <2>3. NewRow \in [fig : Nat \cup {NoReading}, err : BOOLEAN] BY DEF NewRow
  <2>4. cached \in [Repos -> [fig : Nat \cup {NoReading}, err : BOOLEAN]] BY <2>3
  <2>5. size \in [Repos -> Nat] /\ now \in Nat /\ history \in Seq(Reading) OBVIOUS
  <2>6. slot = [i \in Slots |-> slot[i]] OBVIOUS
  <2>7. requested \subseteq Repos /\ tasks \subseteq Repos /\ posts = {} OBVIOUS
  <2> QED BY <2>1, <2>2, <2>4, <2>5, <2>6, <2>7 DEF StatsShape
<1>4. Timed BY <1>1, <1>2 DEF Timed, Apart, Appending
<1>5. RecordedInTurn
  <2>1. ASSUME NEW r \in Repos PROVE InTurn(r)
    <3>1. \A i \in Slots : ~On(i, r) BY <1>2 DEF On, Recording
    <3>2. cached[r].fig = NoReading BY DEF NewRow
    <3>3. Told(r, cached[r].fig, Range(history)) BY <1>1, <3>2 DEF Told
    <3> QED BY <3>1, <3>3 DEF InTurn
  <2> QED BY <2>1 DEF RecordedInTurn
<1> QED BY <1>3, <1>4, <1>5 DEF StatsInv

(* What changes nothing of the recordings under way, the rows and the history.*)
Elsewhere ==
  /\ size' \in [Repos -> Nat] /\ requested' \subseteq Repos /\ tasks' \subseteq Repos
  /\ \A p \in posts' : p.repo \in Repos /\ p.got \in Nat \cup {Failed}
  /\ UNCHANGED <<cached, history, now, overlapped>>
(* Slots that read, wait for restic or are free disturb no recording.        *)
LEMMA QuietStats ==
  ASSUME StatsInv, Elsewhere, slot' = [i \in Slots |-> slot'[i]],
         \A i \in Slots : \/ slot'[i] = slot[i]
                          \/ ~Recording(i) /\ ~Recording(i)' /\ SlotRight(slot'[i])
  PROVE  StatsInv'
<1> USE DEF Elsewhere
<1>1. StatsShape /\ Timed /\ RecordedInTurn BY DEF StatsInv
<1>2. \A i \in Slots : SlotRight(slot'[i]) BY <1>1 DEF StatsShape
<1>3. StatsShape'
  <2>1. /\ now' \in Nat /\ cached' \in [Repos -> [fig : Nat \cup {NoReading}, err : BOOLEAN]]
        /\ history' \in Seq(Reading) /\ IsFiniteSet(Range(history)')
    BY <1>1 DEF StatsShape, Range
  <2> QED BY <1>2, <2>1 DEF StatsShape
<1>4. ASSUME NEW i \in Slots
      PROVE  /\ Recording(i)' <=> Recording(i)
             /\ Recording(i) => slot'[i] = slot[i]
             /\ Appending(i)' <=> Appending(i)
  BY DEF Recording, Appending
<1>5. Range(history)' = Range(history) BY DEF Range
<1>6. Timed'
  <2>1. \A i \in Slots : Appending(i)' => Appending(i) /\ slot'[i] = slot[i]
    BY <1>4 DEF Recording, Appending
  <2> QED BY <1>1, <2>1, TimedStays
<1>7. RecordedInTurn'
  <2>1. ASSUME NEW r \in Repos \ overlapped PROVE InTurn(r)'
    <3>1. InTurn(r) BY <1>1 DEF RecordedInTurn
    <3>2. \A i \in Slots : /\ On(i, r)' <=> On(i, r)
                           /\ On(i, r) => slot'[i] = slot[i]
                           /\ Appending(i)' <=> Appending(i)
      BY <1>4 DEF On, Recording
    <3>3. \A f : Told(r, f, Range(history))' <=> Told(r, f, Range(history)) BY <1>5 DEF Told, Newest
    <3> QED BY <1>5, <3>1, <3>2, <3>3 DEF InTurn
  <2> QED BY <2>1 DEF RecordedInTurn
<1> QED BY <1>3, <1>6, <1>7 DEF StatsInv

(* One slot that is free or reading goes on.                                 *)
LEMMA OneQuiet ==
  ASSUME StatsInv, Elsewhere, NEW i \in Slots, ~Recording(i), NEW w, SlotRight(w),
         w.st \notin {"update", "append"}, slot' = [slot EXCEPT ![i] = w]
  PROVE  StatsInv'
<1>1. slot = [j \in Slots |-> slot[j]] BY DEF StatsInv, StatsShape
<1>2. slot' = [j \in Slots |-> slot'[j]] BY <1>1
<1>3. \A j \in Slots : slot'[j] = IF j = i THEN w ELSE slot[j] BY <1>1
<1>4. ~Recording(i)' BY <1>3 DEF Recording
<1> QED BY <1>2, <1>3, <1>4, QuietStats

(* No slot moves.                                                            *)
LEMMA StatsStill ==
  ASSUME StatsInv, Elsewhere, UNCHANGED slot
  PROVE  StatsInv'
<1>1. slot' = [j \in Slots |-> slot'[j]] BY DEF StatsInv, StatsShape
<1> QED BY <1>1, QuietStats

(* recordStats selects the row; when another recording of the repository is  *)
(* under way, the two overlap from here on.                                  *)
LEMMA SelectKeeps ==
  ASSUME StatsInv, NEW i \in Slots, SelectRow(i)
  PROVE  StatsInv'
<1> DEFINE q == slot[i].repo
           w == [st |-> "update", repo |-> q, by |-> slot[i].by,
                 got |-> slot[i].got, prev |-> cached[q], at |-> 0]
<1> USE DEF SelectRow
<1>1. StatsShape /\ Timed /\ RecordedInTurn BY DEF StatsInv
<1>2. /\ q \in Repos /\ slot[i].by \in Readers /\ slot[i].got \in Nat \cup {Failed}
      /\ ~Recording(i)
  BY <1>1 DEF StatsShape, SlotRight, Recording
<1>3. slot = [j \in Slots |-> slot[j]] BY <1>1 DEF StatsShape
<1>4. slot' = [slot EXCEPT ![i] = w] OBVIOUS
<1>5. /\ w.st = "update" /\ w.repo = q /\ w.by \in Readers /\ w.got \in Nat \cup {Failed}
      /\ w.prev = cached[q]
      /\ w \in [st : {"update"}, repo : Repos, by : Readers, got : Nat \cup {Failed},
                prev : [fig : Nat \cup {NoReading}, err : BOOLEAN], at : Nat]
  <2>1. cached[q] \in [fig : Nat \cup {NoReading}, err : BOOLEAN] BY <1>1, <1>2 DEF StatsShape
  <2> QED BY <1>2, <2>1
<1> HIDE DEF w
<1>6. /\ slot' = [j \in Slots |-> slot'[j]]
      /\ \A j \in Slots : slot'[j] = IF j = i THEN w ELSE slot[j]
  BY <1>3, <1>4
<1>7. SlotRight(w) BY <1>2, <1>5 DEF SlotRight
<1>8. StatsShape'
  <2>1. \A j \in Slots : SlotRight(slot'[j]) BY <1>1, <1>6, <1>7 DEF StatsShape
  <2> HIDE DEF q
  <2> QED BY <1>1, <1>6, <2>1 DEF StatsShape, Range
<1>9. \A j \in Slots : Appending(j)' => Appending(j) /\ slot'[j] = slot[j] /\ j # i
  BY <1>5, <1>6 DEF Appending
<1>10. Range(history)' = Range(history) BY DEF Range
<1>11. Timed' BY <1>1, <1>9, TimedStays
<1>12. RecordedInTurn'
  <2>1. ASSUME NEW r \in Repos \ overlapped' PROVE InTurn(r)'
    <3>1. r \notin overlapped
      <4>1. overlapped \subseteq overlapped' OBVIOUS
      <4> QED BY <4>1
    <3>2. InTurn(r) BY <1>1, <3>1 DEF RecordedInTurn
    <3>3. \A f : Told(r, f, Range(history))' <=> Told(r, f, Range(history))
      BY <1>10 DEF Told, Newest
    <3>4. \A j \in Slots : j # i => /\ On(j, r)' <=> On(j, r)
                                    /\ slot'[j] = slot[j]
                                    /\ Appending(j)' <=> Appending(j)
      BY <1>6 DEF On, Recording, Appending
    <3>5. ~On(i, r) /\ ~Appending(i) /\ ~Appending(i)'
      BY <1>2, <1>5, <1>6 DEF On, Recording, Appending
    <3>6. CASE r # q
      <4>1. ~On(i, r)' BY <1>5, <1>6, <3>6 DEF On
      <4>2. \A j \in Slots : /\ On(j, r)' <=> On(j, r)
                             /\ On(j, r) => slot'[j] = slot[j]
                             /\ Appending(j)' <=> Appending(j)
        BY <3>4, <3>5, <4>1
      <4>3. cached' = cached OBVIOUS
      <4> HIDE DEF SelectRow, q
      <4> QED BY <1>10, <3>2, <3>3, <4>2, <4>3 DEF InTurn
    <3>7. CASE r = q
      <4>1. \A j \in Slots : ~On(j, r)
        <5>1. \A j \in Slots : Recording(j) => slot[j].repo # q BY <2>1, <3>7
        <5> QED BY <3>7, <5>1 DEF On
      <4>2. \A j \in Slots : On(j, r)' => j = i BY <3>4, <4>1
      <4>3. Told(r, cached[r].fig, Range(history)) BY <3>2, <4>1 DEF InTurn
      <4>4. slot'[i].prev.fig = cached[r].fig BY <1>5, <1>6, <3>7
      <4>5. cached' = cached OBVIOUS
      <4> HIDE DEF SelectRow, q
      <4> QED BY <3>3, <3>5, <4>2, <4>3, <4>4, <4>5 DEF InTurn
    <3> QED BY <3>6, <3>7
  <2> QED BY <2>1 DEF RecordedInTurn
<1> QED BY <1>8, <1>11, <1>12 DEF StatsInv

(* A failed reading leaves the figures alone and ends the recording.         *)
LEMMA ErrorKeeps ==
  ASSUME StatsInv, NEW i \in Slots, UpdateError(i)
  PROVE  StatsInv'
<1> DEFINE q == slot[i].repo
<1> USE DEF UpdateError
<1>1. StatsShape /\ Timed /\ RecordedInTurn BY DEF StatsInv
<1>2. q \in Repos /\ Recording(i) /\ ~Appending(i)
  BY <1>1 DEF StatsShape, SlotRight, Recording, Appending
<1>3. slot = [j \in Slots |-> slot[j]] BY <1>1 DEF StatsShape
<1>4. /\ slot' = [j \in Slots |-> slot'[j]]
      /\ \A j \in Slots : slot'[j] = IF j = i THEN IdleSlot ELSE slot[j]
  BY <1>3
<1>5. /\ cached' \in [Repos -> [fig : Nat \cup {NoReading}, err : BOOLEAN]]
      /\ \A r \in Repos : cached'[r].fig = cached[r].fig
  <2> DEFINE v == [cached[q] EXCEPT !.err = TRUE]
  <2>1. cached \in [Repos -> [fig : Nat \cup {NoReading}, err : BOOLEAN]] BY <1>1 DEF StatsShape
  <2>2. cached' = [cached EXCEPT ![q] = v] OBVIOUS
  <2>3. cached[q] \in [fig : Nat \cup {NoReading}, err : BOOLEAN] BY <1>2, <2>1
  <2>4. v \in [fig : Nat \cup {NoReading}, err : BOOLEAN] /\ v.fig = cached[q].fig BY <2>3
  <2> HIDE DEF v, q
  <2> QED BY <1>2, <2>1, <2>2, <2>4
<1>6. SlotRight(IdleSlot) BY DEF SlotRight, IdleSlot
<1>7. StatsShape'
  <2>1. \A j \in Slots : SlotRight(slot'[j]) BY <1>1, <1>4, <1>6 DEF StatsShape
  <2>2. UNCHANGED <<size, history, now, requested, tasks, posts>> OBVIOUS
  <2> HIDE DEF UpdateError
  <2> QED BY <1>1, <1>4, <1>5, <2>1, <2>2 DEF StatsShape, Range
<1>8. ~Appending(i)' /\ \A r : ~On(i, r)' BY <1>4 DEF Appending, On, Recording, IdleSlot
<1>9. \A j \in Slots : Appending(j)' => Appending(j) /\ slot'[j] = slot[j]
  BY <1>4, <1>8 DEF Appending
<1>10. Range(history)' = Range(history) BY DEF Range
<1>11. Timed' BY <1>1, <1>9, TimedStays
<1>12. RecordedInTurn'
  <2>1. ASSUME NEW r \in Repos \ overlapped PROVE InTurn(r)'
    <3>1. InTurn(r) BY <1>1, <2>1 DEF RecordedInTurn
    <3>2. \A f : Told(r, f, Range(history))' <=> Told(r, f, Range(history))
      BY <1>10 DEF Told, Newest
    <3>3. \A j \in Slots : /\ On(j, r)' => On(j, r)
                           /\ On(j, r) /\ j # i => On(j, r)'
                           /\ j # i => slot'[j] = slot[j]
                           /\ j # i => (Appending(j)' <=> Appending(j))
      BY <1>4, <1>8 DEF On, Recording, Appending
    <3>4. cached'[r].fig = cached[r].fig BY <1>5, <2>1
    <3> HIDE DEF UpdateError
    <3>5. ASSUME \A j \in Slots : On(j, r)' => ~Appending(j)'
          PROVE  Told(r, cached[r].fig, Range(history))
      <4>1. \A j \in Slots : On(j, r) => ~Appending(j) BY <1>2, <3>3, <3>5
      <4> QED BY <3>1, <4>1 DEF InTurn
    <3>6. \A j \in Slots : On(j, r)' =>
            On(j, r) /\ slot'[j] = slot[j] /\ (Appending(j)' <=> Appending(j))
      BY <1>8, <3>3
    <3> QED BY <1>10, <3>1, <3>2, <3>4, <3>5, <3>6 DEF InTurn
  <2>2. overlapped' = overlapped OBVIOUS
  <2> QED BY <2>1, <2>2 DEF RecordedInTurn
<1> QED BY <1>7, <1>11, <1>12 DEF StatsInv

(* The row holds the figures from now on, and they are still to be appended. *)
LEMMA UpdateKeeps ==
  ASSUME StatsInv, NEW i \in Slots, UpdateRow(i)
  PROVE  StatsInv'
<1> DEFINE q == slot[i].repo
           g == slot[i].got
           w == slot'[i]
           row == [fig |-> g, err |-> FALSE]
<1>1. StatsShape /\ Timed /\ RecordedInTurn BY DEF StatsInv
<1>2. /\ slot[i].st = "update" /\ q \in Repos /\ g \in Nat /\ slot[i].by \in Readers
      /\ slot[i] \in [st : {"update"}, repo : Repos, by : Readers, got : Nat \cup {Failed},
                      prev : [fig : Nat \cup {NoReading}, err : BOOLEAN], at : Nat]
  <2>1. SlotRight(slot[i]) BY <1>1 DEF StatsShape
  <2>2. slot[i].st = "update" /\ g # Failed BY DEF UpdateRow
  <2> QED BY <2>1, <2>2 DEF SlotRight
<1>3. slot = [j \in Slots |-> slot[j]] BY <1>1 DEF StatsShape
<1>4. /\ now' = now + 1 /\ now \in Nat /\ cached' = [cached EXCEPT ![q] = row]
      /\ UNCHANGED <<size, history, requested, tasks, posts, overlapped>>
  BY <1>1 DEF UpdateRow, StatsShape
<1>5. /\ slot' = [j \in Slots |-> slot'[j]]
      /\ \A j \in Slots : j # i => slot'[j] = slot[j]
      /\ w = [[slot[i] EXCEPT !.st = "append"] EXCEPT !.at = now']
  BY <1>3 DEF UpdateRow
<1>6. /\ w.st = "append" /\ w.at = now + 1 /\ w.repo = q /\ w.got = g
      /\ w.prev = slot[i].prev /\ w.by = slot[i].by
  <2> DEFINE x == slot[i]
  <2>1. x \in [st : {"update"}, repo : Repos, by : Readers, got : Nat \cup {Failed},
               prev : [fig : Nat \cup {NoReading}, err : BOOLEAN], at : Nat]
    BY <1>2
  <2> HIDE DEF x
  <2>2. w = [[x EXCEPT !.st = "append"] EXCEPT !.at = now + 1] BY <1>4, <1>5 DEF x
  <2> HIDE DEF w
  <2>3. /\ w.st = "append" /\ w.at = now + 1 /\ w.repo = x.repo /\ w.got = x.got
        /\ w.prev = x.prev /\ w.by = x.by
    BY <2>1, <2>2
  <2> QED BY <2>3 DEF x
<1> HIDE DEF w
<1>7. \A j \in Slots : slot'[j] = IF j = i THEN w ELSE slot[j] BY <1>5 DEF w
<1>8. SlotRight(w)
  <2>1. w.at \in Nat BY <1>4, <1>6
  <2> QED BY <1>2, <1>6, <2>1 DEF SlotRight
<1>9. StatsShape'
  <2>1. \A j \in Slots : SlotRight(slot'[j]) BY <1>1, <1>7, <1>8 DEF StatsShape
  <2>2. row \in [fig : Nat \cup {NoReading}, err : BOOLEAN] BY <1>2
  <2> HIDE DEF row
  <2>3. cached' \in [Repos -> [fig : Nat \cup {NoReading}, err : BOOLEAN]]
    BY <1>1, <1>4, <2>2 DEF StatsShape
  <2>4. now' \in Nat BY <1>4
  <2> QED BY <1>1, <1>4, <1>5, <2>1, <2>3, <2>4 DEF StatsShape, Range
<1>10. Range(history)' = Range(history) BY <1>4 DEF Range
<1> DEFINE H == Range(history)
<1>11. Apart(H) /\ \A p \in H : p.at \in Nat /\ p.at <= now /\ p.at < now + 1
  <2>1. H \subseteq Reading BY <1>1 DEF StatsShape, Range
  <2>2. \A p \in H : p.at \in Nat BY <2>1 DEF Reading
  <2>3. Apart(H) /\ \A p \in H : p.at <= now BY <1>1 DEF Timed
  <2> QED BY <1>4, <2>2, <2>3
<1>12. \A j \in Slots : j # i /\ Appending(j)' => Appending(j) /\ slot'[j] = slot[j]
  BY <1>5 DEF Appending
<1>13. Appending(i)' BY <1>6, <1>7 DEF Appending
<1>14. \A j \in Slots : Appending(j) => slot[j].at \in Nat /\ slot[j].at <= now
  BY <1>1 DEF StatsShape, SlotRight, Timed, Appending
<1>15. Timed'
  <2>1. \A p \in H : p.at <= now' BY <1>4, <1>11
  <2>2. ASSUME NEW j \in Slots, Appending(j)', j # i
        PROVE  /\ slot'[j].at <= now' /\ slot'[j].at # w.at
               /\ \A p \in H : p.at # slot'[j].at
    <3>1. Appending(j) /\ slot'[j] = slot[j] BY <1>12, <2>2
    <3>2. slot[j].at \in Nat /\ slot[j].at <= now BY <1>14, <3>1
    <3>3. \A p \in H : p.at # slot[j].at BY <1>1, <3>1 DEF Timed
    <3> HIDE DEF H
    <3> QED BY <1>4, <1>6, <3>1, <3>2, <3>3
  <2>3. /\ slot'[i] = w /\ w.at <= now' /\ \A p \in H : p.at # w.at
    <3> HIDE DEF H
    <3> QED BY <1>4, <1>6, <1>7, <1>11
  <2>4. ASSUME NEW j \in Slots, NEW k \in Slots, Appending(j)', Appending(k)',
               slot'[j].at = slot'[k].at
        PROVE  j = k
    <3>1. CASE j = i \/ k = i BY <2>2, <2>3, <2>4, <3>1
    <3>2. CASE j # i /\ k # i
      <4>1. Appending(j) /\ slot'[j] = slot[j] /\ Appending(k) /\ slot'[k] = slot[k]
        BY <1>12, <2>4, <3>2
      <4>2. slot[j].at = slot[k].at BY <2>4, <4>1
      <4> QED BY <1>1, <4>1, <4>2 DEF Timed
    <3> QED BY <3>1, <3>2
  <2>5. Apart(H)' BY <1>10, <1>11 DEF Apart
  <2>6. \A p \in H' : p.at <= now' BY <1>10, <2>1
  <2>7. ASSUME NEW j \in Slots, Appending(j)'
        PROVE  /\ slot'[j].at <= now'
               /\ \A p \in H' : p.at # slot'[j].at
               /\ \A k \in Slots : Appending(k)' /\ slot'[j].at = slot'[k].at => j = k
    <3>1. slot'[j].at <= now' BY <2>2, <2>3, <2>7
    <3>2. \A p \in H' : p.at # slot'[j].at
      <4> HIDE DEF H
      <4>1. H' = H BY <1>10 DEF H
      <4> QED BY <2>2, <2>3, <2>7, <4>1
    <3>3. \A k \in Slots : Appending(k)' /\ slot'[j].at = slot'[k].at => j = k BY <2>4, <2>7
    <3> QED BY <3>1, <3>2, <3>3
  <2> QED BY <2>5, <2>6, <2>7 DEF Timed
<1>16. RecordedInTurn'
  <2>1. ASSUME NEW r \in Repos \ overlapped PROVE InTurn(r)'
    <3>1. InTurn(r) BY <1>1, <2>1 DEF RecordedInTurn
    <3>2. \A f : Told(r, f, Range(history))' <=> Told(r, f, Range(history))
      BY <1>10 DEF Told, Newest
    <3>3. \A j \in Slots : /\ On(j, r)' <=> On(j, r)
                           /\ j # i => slot'[j] = slot[j] /\ (Appending(j)' <=> Appending(j))
      BY <1>2, <1>6, <1>7 DEF On, Recording, Appending
    <3>4. ~Appending(i) BY <1>2 DEF Appending
    <3>5. On(i, r) <=> r = q BY <1>2 DEF On, Recording
    <3>6. cached \in [Repos -> [fig : Nat \cup {NoReading}, err : BOOLEAN]] BY <1>1 DEF StatsShape
    <3>7. CASE r # q
      <4>1. cached'[r] = cached[r] BY <1>4, <2>1, <3>6, <3>7
      <4>2. \A j \in Slots : On(j, r) => slot'[j] = slot[j] /\ (Appending(j)' <=> Appending(j))
        BY <3>3, <3>5, <3>7
      <4> HIDE DEF q
      <4> QED BY <1>10, <3>1, <3>2, <3>3, <4>1, <4>2 DEF InTurn
    <3>8. CASE r = q
      <4>1. \A j \in Slots : On(j, r) => j = i BY <3>1, <3>5, <3>8 DEF InTurn
      <4>2. slot[i].prev.fig = cached[r].fig BY <1>2, <3>1, <3>5, <3>8 DEF InTurn
      <4>3. Told(r, cached[r].fig, H) BY <3>1, <3>4, <4>1 DEF InTurn
      <4>4. cached'[r].fig = g
        <5> HIDE DEF q, g
        <5> QED BY <1>4, <2>1, <3>6, <3>8
      <4>5. /\ slot'[i] = w /\ w.got = g /\ w.st = "append" /\ Told(r, w.prev.fig, H)
            /\ \A p \in H : p.at < w.at
        <5>1. Told(r, w.prev.fig, H) BY <1>6, <4>2, <4>3
        <5> HIDE DEF H
        <5> QED BY <1>6, <1>7, <1>11, <5>1
      <4>6. \A j \in Slots : On(j, r)' => j = i BY <3>3, <4>1
      <4>7. On(i, r)' /\ Appending(i)' BY <1>13, <3>3, <3>5, <3>8
      <4> HIDE DEF q, g
      <4> QED BY <1>10, <3>2, <4>4, <4>5, <4>6, <4>7 DEF InTurn
    <3> QED BY <3>7, <3>8
  <2>2. overlapped' = overlapped BY <1>4
  <2> QED BY <2>1, <2>2 DEF RecordedInTurn
<1> QED BY <1>9, <1>15, <1>16 DEF StatsInv

(* The history says what the row does again.                                 *)
LEMMA AppendKeeps ==
  ASSUME StatsInv, NEW i \in Slots, AppendHistory(i)
  PROVE  StatsInv'
<1> DEFINE q == slot[i].repo
           g == slot[i].got
           H == Range(history)
           K == Range(history)'
           e == [repo |-> q, at |-> slot[i].at, fig |-> g]
<1>1. StatsShape /\ Timed /\ RecordedInTurn BY DEF StatsInv
<1>2. slot[i].st = "append" /\ q \in Repos /\ g \in Nat /\ slot[i].at \in Nat
  BY <1>1 DEF StatsShape, SlotRight, AppendHistory
<1>3. slot = [j \in Slots |-> slot[j]] BY <1>1 DEF StatsShape
<1>4. /\ slot' = [j \in Slots |-> slot'[j]]
      /\ \A j \in Slots : slot'[j] = IF j = i THEN IdleSlot ELSE slot[j]
  BY <1>3 DEF AppendHistory
<1>5. /\ history' = IF Changed(i) THEN Append(history, e) ELSE history
      /\ UNCHANGED <<size, cached, now, requested, tasks, posts, overlapped>>
  BY DEF AppendHistory
<1>6. e \in Reading /\ e.repo = q /\ e.at = slot[i].at /\ e.fig = g BY <1>2 DEF Reading
<1> HIDE DEF e
<1>7. history \in Seq(Reading) /\ H \subseteq Reading BY <1>1 DEF StatsShape, Range
<1>8. K = IF Changed(i) THEN H \cup {e} ELSE H
  <2>1. CASE Changed(i)
    <3>1. history' = Append(history, e) BY <1>5, <2>1
    <3> DEFINE n == Len(history)
    <3>2. n \in Nat /\ DOMAIN history = 1 .. n /\ DOMAIN history' = 1 .. n + 1 BY <1>7, <3>1
    <3>3. history'[n + 1] = e /\ \A k \in 1 .. n : history'[k] = history[k] BY <1>7, <3>1
    <3>4. H = {history[k] : k \in 1 .. n} BY <3>2 DEF Range
    <3>5. K = {history'[k] : k \in 1 .. n + 1} BY <3>2 DEF Range
    <3> HIDE DEF H, K, n
    <3>6. \A k \in 1 .. n + 1 : k \in 1 .. n \/ k = n + 1 BY <3>2
    <3>7. 1 .. n \subseteq 1 .. n + 1 /\ n + 1 \in 1 .. n + 1 BY <3>2
    <3>8. K = H \cup {e} BY <3>3, <3>4, <3>5, <3>6, <3>7
    <3> QED BY <2>1, <3>8
  <2>2. CASE ~Changed(i) BY <1>5, <2>2 DEF Range
  <2> QED BY <2>1, <2>2
<1> HIDE DEF K, H
<1>9. SlotRight(IdleSlot) BY DEF SlotRight, IdleSlot
<1>10. StatsShape'
  <2>1. \A j \in Slots : SlotRight(slot'[j]) BY <1>1, <1>4, <1>9 DEF StatsShape
  <2>2. history' \in Seq(Reading) BY <1>5, <1>6, <1>7
  <2>3. IsFiniteSet(H) BY <1>1 DEF StatsShape, H
  <2>4. IsFiniteSet(H \cup {e}) BY <2>3, FS_AddElement
  <2>5. IsFiniteSet(Range(history)') BY <1>8, <2>3, <2>4 DEF K
  <2> QED BY <1>1, <1>4, <1>5, <2>1, <2>2, <2>5 DEF StatsShape
<1>11. /\ Apart(H) /\ \A p \in H : p.at \in Nat /\ p.at <= now
       /\ e.at <= now /\ \A p \in H : p.at # e.at
       /\ \A j \in Slots : Appending(j) => /\ slot[j].at <= now
                                           /\ \A p \in H : p.at # slot[j].at
                                           /\ slot[j].at = e.at => j = i
  <2>1. \A p \in H : p.at \in Nat BY <1>7 DEF Reading
  <2>2. Apart(H) /\ \A p \in H : p.at <= now BY <1>1 DEF Timed, H
  <2>3. Appending(i) BY <1>2 DEF Appending
  <2>4. e.at <= now /\ \A p \in H : p.at # e.at BY <1>1, <1>6, <2>3 DEF Timed, H
  <2>5. \A j \in Slots : Appending(j) => slot[j].at <= now /\ \A p \in H : p.at # slot[j].at
    BY <1>1 DEF Timed, H
  <2>6. \A j \in Slots : Appending(j) /\ slot[j].at = e.at => j = i
    BY <1>1, <1>6, <2>3 DEF Timed
  <2> QED BY <2>1, <2>2, <2>4, <2>5, <2>6
<1>12. \A j \in Slots : Appending(j)' => Appending(j) /\ slot'[j] = slot[j] /\ j # i
  BY <1>4 DEF Appending, IdleSlot
<1>13. Timed'
  <2>1. K \subseteq H \cup {e} BY <1>8
  <2>2. Apart(K) /\ \A p \in K : p.at <= now BY <1>11, <2>1 DEF Apart
  <2>3. ASSUME NEW j \in Slots, Appending(j)'
        PROVE  /\ slot'[j].at <= now
               /\ \A p \in K : p.at # slot'[j].at
               /\ \A k \in Slots : Appending(k)' /\ slot'[j].at = slot'[k].at => j = k
    <3>1. Appending(j) /\ slot'[j] = slot[j] /\ j # i BY <1>12, <2>3
    <3>2. slot[j].at <= now /\ \A p \in K : p.at # slot[j].at BY <1>11, <2>1, <3>1
    <3>3. \A k \in Slots : Appending(k)' /\ slot'[j].at = slot'[k].at => j = k
      BY <1>1, <1>12, <3>1 DEF Timed
    <3> QED BY <3>1, <3>2, <3>3
  <2>4. now' = now BY <1>5
  <2>5. Apart(Range(history))' BY <2>2 DEF K, Apart
  <2> QED BY <2>2, <2>3, <2>4, <2>5 DEF Timed, K
<1>14. RecordedInTurn'
  <2>1. ASSUME NEW r \in Repos \ overlapped PROVE InTurn(r)'
    <3>1. InTurn(r) BY <1>1, <2>1 DEF RecordedInTurn
    <3>2. \A j \in Slots : On(j, r)' => On(j, r) /\ j # i /\ slot'[j] = slot[j]
      BY <1>4 DEF On, Recording, IdleSlot
    <3>3. \A j \in Slots : j # i => /\ On(j, r)' <=> On(j, r)
                                    /\ Appending(j)' <=> Appending(j)
      BY <1>4 DEF On, Recording, Appending
    <3>4. /\ Appending(i) /\ ~On(i, r)' /\ (On(i, r) <=> r = q)
      BY <1>2, <1>4 DEF Appending, On, Recording, IdleSlot
    <3>5. cached' = cached BY <1>5
    <3>6. CASE r # q
      <4>1. \A p : p.repo = r => (p \in K <=> p \in H) BY <1>6, <1>8, <3>6
      <4>2. \A f : Told(r, f, K) <=> Told(r, f, H) BY <4>1 DEF Told, Newest
      <4>3. \A j \in Slots : On(j, r)' <=> On(j, r) BY <3>2, <3>3, <3>4, <3>6
      <4>4. \A j \in Slots : On(j, r)' /\ Appending(j)' =>
              /\ cached[r].fig = slot'[j].got
              /\ Told(r, slot'[j].prev.fig, K)
              /\ \A p \in K : p.repo = r => p.at < slot'[j].at
        <5>1. ASSUME NEW j \in Slots, On(j, r)', Appending(j)'
              PROVE  /\ cached[r].fig = slot'[j].got
                     /\ Told(r, slot'[j].prev.fig, K)
                     /\ \A p \in K : p.repo = r => p.at < slot'[j].at
          <6>1. On(j, r) /\ Appending(j) /\ slot'[j] = slot[j] BY <3>2, <3>3, <5>1
          <6>2. /\ cached[r].fig = slot[j].got /\ Told(r, slot[j].prev.fig, H)
                /\ \A p \in H : p.repo = r => p.at < slot[j].at
            BY <3>1, <6>1 DEF InTurn, H
          <6> QED BY <4>1, <4>2, <6>1, <6>2
        <5> QED BY <5>1
      <4>5. (\A j \in Slots : On(j, r)' => ~Appending(j)') => Told(r, cached[r].fig, K)
        <5>1. ASSUME \A j \in Slots : On(j, r)' => ~Appending(j)'
              PROVE  Told(r, cached[r].fig, H)
          <6>1. \A j \in Slots : On(j, r) => ~Appending(j) BY <3>2, <3>3, <3>4, <3>6, <5>1
          <6> QED BY <3>1, <6>1 DEF InTurn, H
        <5> QED BY <4>2, <5>1
      <4>6. \A j \in Slots : On(j, r)' /\ slot'[j].st = "update" =>
              slot'[j].prev.fig = cached[r].fig
        BY <3>1, <3>2 DEF InTurn
      <4>7. \A j, k \in Slots : On(j, r)' /\ On(k, r)' => j = k BY <3>1, <3>2 DEF InTurn
      <4> HIDE DEF q
      <4> QED BY <3>5, <4>4, <4>5, <4>6, <4>7 DEF InTurn, K
    <3>7. CASE r = q
      <4>1. \A j \in Slots : ~On(j, r)' BY <3>1, <3>2, <3>4, <3>7 DEF InTurn
      <4>2. /\ cached[r].fig = g /\ Told(r, slot[i].prev.fig, H)
            /\ \A p \in H : p.repo = r => p.at < e.at
        BY <1>6, <3>1, <3>4, <3>7 DEF InTurn, H
      <4>3. Told(r, g, K)
        <5>1. CASE Changed(i)
          <6>1. e \in K /\ K = H \cup {e} BY <1>8, <5>1
          <6>2. \A p \in K : p.repo = e.repo => p.at <= e.at
            <7>1. e.at \in Nat BY <1>2, <1>6
            <7>2. \A p \in H : p.repo = r => p.at <= e.at BY <1>11, <4>2, <7>1
            <7> QED BY <1>6, <3>7, <6>1, <7>1, <7>2
          <6>3. g # NoReading BY <1>2 DEF NoReading
          <6>4. Newest(e, K) BY <6>2 DEF Newest
          <6> QED BY <1>6, <3>7, <6>1, <6>3, <6>4 DEF Told
        <5>2. CASE ~Changed(i)
          <6>1. slot[i].prev.fig = g BY <5>2 DEF Changed
          <6> QED BY <1>8, <4>2, <5>2, <6>1
        <5> QED BY <5>1, <5>2
      <4>4. Told(r, cached[r].fig, K) BY <4>2, <4>3
      <4> HIDE DEF q, g
      <4> QED BY <3>5, <4>1, <4>4 DEF InTurn, K
    <3> QED BY <3>6, <3>7
  <2>2. overlapped' = overlapped BY <1>5
  <2> QED BY <2>1, <2>2 DEF RecordedInTurn
<1> QED BY <1>10, <1>13, <1>14 DEF StatsInv

(* A restart ends the recordings; those that had stored the row and not the  *)
(* history are counted among the overlapped.                                 *)
LEMMA RestartKeeps ==
  ASSUME StatsInv, ServerRestart
  PROVE  StatsInv'
<1>1. StatsShape /\ Timed /\ RecordedInTurn BY DEF StatsInv
<1>2. /\ slot' = [j \in Slots |-> IdleSlot]
      /\ UNCHANGED <<size, cached, history, now, requested, tasks, posts>>
      /\ \A r : r \in overlapped' <=>
           r \in overlapped \/ \E j \in Slots : Appending(j) /\ slot[j].repo = r
  BY DEF ServerRestart, Appending
<1>3. SlotRight(IdleSlot) BY DEF SlotRight, IdleSlot
<1>4. StatsShape' BY <1>1, <1>2, <1>3 DEF StatsShape, Range
<1>5. \A j \in Slots : ~Appending(j)' /\ \A r : ~On(j, r)'
  BY <1>2 DEF Appending, On, Recording, IdleSlot
<1>6. Timed' BY <1>1, <1>2, <1>5, TimedStays
<1>7. Range(history)' = Range(history) BY <1>2 DEF Range
<1>8. RecordedInTurn'
  <2>1. ASSUME NEW r \in Repos \ overlapped' PROVE InTurn(r)'
    <3>1. r \notin overlapped BY <1>2, <2>1
    <3>2. InTurn(r) BY <1>1, <3>1 DEF RecordedInTurn
    <3>3. \A j \in Slots : On(j, r) => ~Appending(j) BY <1>2, <2>1 DEF On
    <3>4. Told(r, cached[r].fig, Range(history)) BY <3>2, <3>3 DEF InTurn
    <3>5. Told(r, cached[r].fig, Range(history))' BY <1>2, <1>7, <3>4 DEF Told, Newest
    <3> QED BY <1>5, <3>5 DEF InTurn
  <2> QED BY <2>1 DEF RecordedInTurn
<1> QED BY <1>4, <1>6, <1>8 DEF StatsInv

(* Every step of the server, the agent and the users.                        *)
LEMMA StatsStep ==
  ASSUME StatsInv, [StatsNext]_statsVars
  PROVE  StatsInv'
<1>1. StatsShape BY DEF StatsInv
<1>2. /\ size \in [Repos -> Nat] /\ requested \subseteq Repos /\ tasks \subseteq Repos
      /\ \A p \in posts : p.repo \in Repos /\ p.got \in Nat \cup {Failed}
      /\ slot = [j \in Slots |-> slot[j]] /\ \A j \in Slots : SlotRight(slot[j])
  BY <1>1 DEF StatsShape
<1>3. \A r \in Repos, by \in Readers :
        /\ SlotRight(Begin(r, by)) /\ Begin(r, by).st \notin {"update", "append"}
        /\ \A g \in Nat \cup {Failed} :
             SlotRight(Have(r, by, g)) /\ Have(r, by, g).st \notin {"update", "append"}
  BY DEF SlotRight, Begin, Have
<1>4. Claimed \subseteq Repos BY <1>2 DEF Claimed
<1>5. ASSUME NEW i \in Slots, NEW r \in Repos, NEW by \in Readers, Start(i, r, by), Elsewhere
      PROVE  StatsInv'
  <2>1. ~Recording(i) /\ slot' = [slot EXCEPT ![i] = Begin(r, by)]
    BY <1>5 DEF Start, Busy, Recording
  <2> QED BY <1>3, <1>5, <2>1, OneQuiet
<1>6. {"page", "background", "agent"} \subseteq Readers BY DEF Readers
<1>7. ASSUME NEW i \in Slots, ReadRestic(i) PROVE StatsInv'
  <2>1. /\ slot[i].repo \in Repos /\ slot[i].by \in Readers /\ ~Recording(i)
        /\ size[slot[i].repo] \in Nat
    BY <1>2, <1>7 DEF ReadRestic, SlotRight, Recording
  <2>2. Elsewhere BY <1>2, <1>7 DEF ReadRestic, Elsewhere
  <2>3. PICK g \in Nat \cup {Failed} :
          slot' = [slot EXCEPT ![i] = Have(slot[i].repo, slot[i].by, g)]
    BY <2>1, <1>7 DEF ReadRestic
  <2> QED BY <1>3, <2>1, <2>2, <2>3, OneQuiet
<1>8. ASSUME NEW r \in Repos, BackupEnds(r) PROVE StatsInv'
  <2>1. /\ size' \in [Repos -> Nat]
        /\ UNCHANGED <<cached, history, now, requested, tasks, overlapped>>
    BY <1>2, <1>8 DEF BackupEnds
  <2>2. CASE owner[r] = "server" \/ ~capable
    <3>1. PICK i \in Slots : Start(i, r, "background") BY <1>8, <2>2 DEF BackupEnds
    <3>2. UNCHANGED posts BY <1>8, <2>2 DEF BackupEnds
    <3>3. Elsewhere BY <1>2, <2>1, <3>2 DEF Elsewhere
    <3> QED BY <1>5, <1>6, <3>1, <3>3
  <2>3. CASE ~(owner[r] = "server" \/ ~capable)
    <3>1. UNCHANGED slot BY <1>8, <2>3 DEF BackupEnds
    <3>2. PICK g \in Nat \cup {Failed} :
            posts' = posts \cup {[repo |-> r, got |-> g, kind |-> "backup"]}
      <4>1. Reported(r) \in Nat BY <1>2 DEF Reported
      <4> QED BY <1>8, <2>3, <4>1 DEF BackupEnds
    <3>3. Elsewhere BY <1>2, <2>1, <3>2 DEF Elsewhere
    <3> QED BY <3>1, <3>3, StatsStill
  <2> QED BY <2>2, <2>3
<1>9. ASSUME NEW r \in Repos, RefreshStatsFor(r) PROVE StatsInv'
  <2>1. /\ requested' \subseteq Repos
        /\ UNCHANGED <<size, cached, history, now, tasks, posts, overlapped>>
    BY <1>2, <1>9 DEF RefreshStatsFor
  <2>2. Elsewhere BY <1>2, <2>1 DEF Elsewhere
  <2>3. (\E i \in Slots : Start(i, r, "page")) \/ UNCHANGED slot BY <1>9 DEF RefreshStatsFor
  <2> QED BY <1>5, <1>6, <2>2, <2>3, StatsStill
<1>10. ASSUME NEW r \in Repos, FindOne(r) PROVE StatsInv'
  <2>1. Elsewhere BY <1>2, <1>10 DEF Elsewhere, FindOne
  <2>2. \E i \in Slots : Start(i, r, "background") BY <1>10 DEF FindOne
  <2> QED BY <1>5, <1>6, <2>1, <2>2
<1>11. ASSUME NEW r \in Repos, RunStats(r) PROVE StatsInv'
  <2>1. PICK g \in Nat \cup {Failed} :
          posts' = posts \cup {[repo |-> r, got |-> g, kind |-> "stats"]}
    BY <1>2, <1>11 DEF RunStats
  <2>2. tasks' \subseteq Repos BY <1>2, <1>11 DEF RunStats
  <2>3. UNCHANGED <<size, cached, history, now, requested, slot, overlapped>>
    BY <1>11 DEF RunStats
  <2>4. Elsewhere BY <1>2, <2>1, <2>2, <2>3 DEF Elsewhere
  <2> QED BY <2>3, <2>4, StatsStill
<1>12. ASSUME NEW r \in Repos, MoveJob(r) PROVE StatsInv'
  <2>1. Elsewhere BY <1>2, <1>12 DEF Elsewhere, MoveJob
  <2> QED BY <1>12, <2>1, StatsStill DEF MoveJob
<1>13. ASSUME PollStats PROVE StatsInv'
  <2>1. /\ requested' \subseteq Repos /\ tasks' \subseteq Repos
        /\ UNCHANGED <<size, cached, history, now, posts, overlapped>>
    BY <1>2, <1>4, <1>13 DEF PollStats
  <2>2. Elsewhere BY <1>2, <2>1 DEF Elsewhere
  <2>3. CASE UNCHANGED slot BY <2>2, <2>3, StatsStill
  <2>4. CASE ReadHere
    <3>1. PICK f \in Injection(Claimed, {i \in Slots : ~Busy(i)}) :
            slot' = [i \in Slots |-> IF \E r \in Claimed : f[r] = i
                       THEN Begin(CHOOSE r \in Claimed : f[r] = i, "background")
                       ELSE slot[i]]
      BY <2>4 DEF ReadHere
    <3>2. \A r \in Claimed : ~Busy(f[r]) BY <3>1 DEF Injection
    <3>3. slot' = [i \in Slots |-> slot'[i]] BY <3>1
    <3>4. ASSUME NEW i \in Slots
          PROVE  \/ slot'[i] = slot[i]
                 \/ ~Recording(i) /\ ~Recording(i)' /\ SlotRight(slot'[i])
      <4>1. CASE \E r \in Claimed : f[r] = i
        <5> DEFINE c == CHOOSE r \in Claimed : f[r] = i
        <5>1. c \in Claimed /\ f[c] = i BY <4>1
        <5>2. slot'[i] = Begin(c, "background") BY <3>1, <4>1
        <5> HIDE DEF c
        <5>3. ~Recording(i) BY <3>2, <5>1 DEF Busy, Recording
        <5>4. SlotRight(slot'[i]) /\ slot'[i].st \notin {"update", "append"}
          BY <1>3, <1>4, <1>6, <5>1, <5>2
        <5> QED BY <5>3, <5>4 DEF Recording
      <4>2. CASE ~ \E r \in Claimed : f[r] = i BY <3>1, <4>2
      <4> QED BY <4>1, <4>2
    <3> QED BY <2>2, <3>3, <3>4, QuietStats
  <2> QED BY <1>13, <2>3, <2>4 DEF PollStats
<1>14. ASSUME NEW p \in posts, Submit(p) PROVE StatsInv'
  <2>1. Elsewhere BY <1>2, <1>14 DEF Elsewhere, Submit
  <2>2. CASE UNCHANGED slot BY <2>1, <2>2, StatsStill
  <2>3. CASE \E i \in Slots : /\ ~Busy(i)
                              /\ slot' = [slot EXCEPT ![i] = Have(p.repo, "agent", p.got)]
    <3>1. PICK i \in Slots : /\ ~Busy(i)
                             /\ slot' = [slot EXCEPT ![i] = Have(p.repo, "agent", p.got)]
      BY <2>3
    <3>2. ~Recording(i) BY <3>1 DEF Busy, Recording
    <3> QED BY <1>2, <1>3, <1>6, <2>1, <3>1, <3>2, OneQuiet
  <2> QED BY <1>14, <2>2, <2>3 DEF Submit
<1>15. ASSUME NEW p \in posts, LosePost(p) PROVE StatsInv'
  <2>1. Elsewhere BY <1>2, <1>15 DEF Elsewhere, LosePost
  <2> QED BY <1>15, <2>1, StatsStill DEF LosePost
<1>16. ASSUME AgentRestart PROVE StatsInv'
  <2>1. Elsewhere BY <1>2, <1>16 DEF Elsewhere, AgentRestart
  <2> QED BY <1>16, <2>1, StatsStill DEF AgentRestart
<1>17. ASSUME UNCHANGED statsVars PROVE StatsInv'
  <2>1. Elsewhere /\ UNCHANGED slot BY <1>2, <1>17 DEF Elsewhere, statsVars
  <2> QED BY <2>1, StatsStill
<1> QED
  BY <1>7, <1>8, <1>9, <1>10, <1>11, <1>12, <1>13, <1>14, <1>15, <1>16, <1>17,
     SelectKeeps, ErrorKeeps, UpdateKeeps, AppendKeeps, RestartKeeps DEF StatsNext

(* The cached sizes are the latest readings when nothing overlapped and every *)
(* history row is written.                                                    *)
LEMMA RowsAreLatest ==
  ASSUME StatsInv, Settled, NEW r \in Repos
  PROVE  ReadingAt(Range(history), r, now + 1) = CachedSize(r)
<1> DEFINE H == Range(history)
<1>1. StatsShape /\ Timed /\ RecordedInTurn BY DEF StatsInv
<1>2. H \subseteq Reading /\ Apart(H) /\ now \in Nat BY <1>1 DEF StatsShape, Timed, Range
<1>3. \A p \in H : p.at \in Nat /\ p.at <= now BY <1>1, <1>2 DEF Reading, Timed
<1>4. Told(r, cached[r].fig, H)
  <2>1. InTurn(r) BY <1>1 DEF RecordedInTurn, Settled
  <2>2. \A i \in Slots : ~Appending(i) BY DEF Settled, Appending
  <2> QED BY <2>1, <2>2 DEF InTurn
<1> HIDE DEF H
<1>5. CASE cached[r].fig = NoReading
  <2>1. \A p \in H : p.repo # r BY <1>4, <1>5 DEF Told
  <2>2. now + 1 \in Nat BY <1>2
  <2>3. ReadingAt(H, r, now + 1) = 0 BY <1>2, <2>1, <2>2, ReadingFound
  <2> QED BY <1>5, <2>3 DEF CachedSize, H
<1>6. CASE cached[r].fig # NoReading
  <2>1. PICK m \in H : m.repo = r /\ m.fig = cached[r].fig /\ Newest(m, H)
    BY <1>4, <1>6 DEF Told
  <2>2. m.at <= now + 1 BY <1>2, <1>3
  <2>3. \A q \in H : q.repo = r /\ q.at <= now + 1 => q.at <= m.at BY <2>1 DEF Newest
  <2>4. ReadingAt(H, r, now + 1) = m.fig BY <1>2, <2>1, <2>2, <2>3, ReadingIs
  <2> QED BY <1>6, <2>1, <2>4 DEF CachedSize, H
<1> QED BY <1>5, <1>6

(* The chart of the dashboard and the cached sizes of the repositories never  *)
(* drift apart.                                                               *)
THEOREM ChartStaysCurrent == StatsSpec => []ChartCurrent
<1>1. StatsInv => ChartCurrent
  <2> SUFFICES ASSUME StatsInv PROVE ChartCurrent
    OBVIOUS
  <2> DEFINE H == Range(history)
  <2>1. StatsShape /\ Timed BY DEF StatsInv
  <2>2. /\ H \subseteq Reading /\ IsFiniteSet(H) /\ Apart(H) /\ now \in Nat
        /\ \A p \in H : p.at <= now
    BY <2>1 DEF StatsShape, Timed, Range
  <2>3. ASSUME NEW since \in 0 .. now + 1, TotalStorageSeries(since) # <<>>
        PROVE  LET series == TotalStorageSeries(since)
               IN  /\ \A t \in {u \in since .. now : series[1].t <= u} :
                        Hovered(series, t) = Total([r \in Repos |-> ReadingAt(H, r, t)])
                   /\ Settled =>
                        series[Len(series)].bytes = Total([r \in Repos |-> CachedSize(r)])
    <3> DEFINE series == TotalStorageSeries(since)
    <3>1. since \in Nat /\ since <= now + 1 BY <2>2
    <3>2. /\ \A t \in since .. now : series[1].t <= t => Hovered(series, t) = TotalAt(H, t)
          /\ series[Len(series)].bytes = TotalAt(H, now + 1)
      BY <2>2, <2>3, <3>1, SeriesRight
    <3> HIDE DEF series, H
    <3>3. ASSUME Settled
          PROVE  series[Len(series)].bytes = Total([r \in Repos |-> CachedSize(r)])
      <4> DEFINE U == [r \in Repos |-> ReadingAt(H, r, now + 1)]
                 V == [r \in Repos |-> CachedSize(r)]
      <4>1. \A r \in Repos : ReadingAt(H, r, now + 1) = CachedSize(r)
        BY <3>3, RowsAreLatest DEF H
      <4>2. U = V BY <4>1
      <4>3. TotalAt(H, now + 1) = Total(U) BY DEF TotalAt
      <4> HIDE DEF U, V
      <4>4. series[Len(series)].bytes = Total(V) BY <3>2, <4>2, <4>3
      <4> QED BY <4>4 DEF V
    <3>4. \A t \in {u \in since .. now : series[1].t <= u} :
            Hovered(series, t) = Total([r \in Repos |-> ReadingAt(H, r, t)])
      BY <3>2 DEF TotalAt
    <3> QED BY <3>3, <3>4 DEF series, H
  <2> HIDE DEF H
  <2>4. \A since \in 0 .. now + 1 :
          LET series == TotalStorageSeries(since)
          IN  series # <<>> =>
                /\ \A t \in {u \in since .. now : series[1].t <= u} :
                     Hovered(series, t) = Total([r \in Repos |-> ReadingAt(H, r, t)])
                /\ Settled =>
                     series[Len(series)].bytes = Total([r \in Repos |-> CachedSize(r)])
    BY <2>3
  <2> QED BY <2>4 DEF ChartCurrent, H
<1> QED BY <1>1, StatsAtStart, StatsStep, PTL DEF StatsSpec
=============================================================================
