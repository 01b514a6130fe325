--------------------------- MODULE AccountsProofs ---------------------------
(***************************************************************************)
(* Proofs about Accounts: a revoked session is refused, an administrator   *)
(* and a way to sign in remain, credentials fit together and a second      *)
(* factor counts once, for every number of accounts and requests.          *)
(*                                                                         *)
(* A handler writes what it decided from a row it read earlier, so the     *)
(* inductive invariant says of every request in flight what its read       *)
(* established and, unless another request has written since (`stale'),    *)
(* that it is still true.                                                  *)
(***************************************************************************)
EXTENDS Accounts, TLAPS

-----------------------------------------------------------------------------
(* The invariant.  First the shape of the requests: each handler's steps,  *)
(* arguments and account.                                                  *)
UserOps == {"update", "remove", "login", "loginTotp", "passkey", "sso",
            "changePw", "setup", "enable", "disable"}

Reading == {"passkeys", "write", "verify"}

Pcs == Reading \cup {"burn", "forUser", "link", "sign", "deliver"}

Guesses == [code: Codes \cup {"totp"}, burned: BOOLEAN]

Ssos == [enabled: BOOLEAN, provider: BOOLEAN]

Args == Dtos \cup {{}} \cup Nat \cup Guesses \cup [local: BOOLEAN] \cup Ssos

Requests ==
  [op: UserOps \cup {"setLocal", "updateSso"}, u: Users \cup {{}}, pc: Pcs,
   row: Row \cup {{}}, stale: BOOLEAN, arg: Args]

Shaped(r) ==
  r.pc # "idle" =>
    /\ r.op \in UserOps => r.u \in created /\ r.row \in Row
    /\ r.op \notin UserOps => r.pc = "write"
    /\ r.op = "update" => r.arg \in Dtos /\ r.pc \in Reading
    /\ r.op = "loginTotp" => r.arg \in Guesses
    /\ r.op = "setup" => r.arg \in Nat
    /\ r.op = "setLocal" => r.arg \in [local: BOOLEAN]
    /\ r.op = "updateSso" => r.arg \in Ssos
    /\ r.pc = "passkeys" => r.op = "update"
    /\ r.pc = "verify" => r.op = "loginTotp"

\* a read that nothing has overtaken still shows the row
Fresh(r) ==
  r.pc \in Reading /\ r.op \in UserOps /\ ~r.stale =>
    r.u \in DOMAIN users /\ users[r.u] = r.row

\* a signed token carries no generation the account has not reached
Reached(u, e) == u \in created /\ (u \in DOMAIN users => e <= users[u].epoch)

Signed(r) == r.pc = "deliver" => Reached(r.u, r.row.epoch)

\* the guards of the handlers, as long as nothing has overtaken them
AdminKept(r) ==
  r.pc \in Reading /\ ~r.stale =>
    /\ r.op = "update" => ~(LosesAdmin(r.row, r.arg) /\ ActiveAdmins = {r.u})
    /\ r.op = "remove" => ActiveAdmins # {r.u}

WayKept(r) ==
  r.pc \in Reading /\ ~r.stale =>
    /\ r.op = "setLocal" /\ ~r.arg.local => HasUsableSso
    /\ r.op = "updateSso" /\ ~(r.arg.enabled /\ r.arg.provider) => settings.local

ToLocal(row, dto) == WillBeLocal(row, dto) /\ row.source # "local"

ToSso(row, dto) == ~WillBeLocal(row, dto) /\ row.source = "local"

SourceKept(r) ==
  /\ ToLocal(r.row, r.arg) => Has(r.arg, "pw")
  /\ ToSso(r.row, r.arg) /\ r.pc = "write" => ~Has(r.arg, "pw")
  /\ ~ToSso(r.row, r.arg) => (Has(r.arg, "pw") => WillBeLocal(r.row, r.arg))

FactorKept(r) ==
  r.pc \in Reading /\ ~r.stale =>
    /\ r.op = "update" => SourceKept(r)
    /\ r.op = "changePw" => r.row.source = "local"
    /\ r.op = "setup" => ~r.row.totp
    /\ r.op = "enable" => r.row.source = "local" /\ r.row.secret \in history.confirmed

Offered(r) == r.pc = "verify" => r.arg.code \in r.row.codes \cup {"totp"}

UsersType ==
  /\ DOMAIN users \subseteq created /\ created \subseteq Users
  /\ users \in [DOMAIN users -> Row]

SideType ==
  /\ passkeys \subseteq DOMAIN users /\ bound \subseteq DOMAIN users
  /\ regTok \subseteq Users

SettingsType == settings \in [local: BOOLEAN, enabled: BOOLEAN, provider: BOOLEAN]

ChalType ==
  chal \in [u: SUBSET Users, left: 0..ChallengeTtl, attempts: 0..MaxTotpAttempts,
            track: 0..TrackTtl]

CountType == count \in 0..MaxRequests

HistoryType ==
  history \in [raced: BOOLEAN, revoked: SUBSET Token, confirmed: SUBSET Nat,
               spent: SUBSET (Users \X Codes), twice: BOOLEAN, guesses: Nat,
               burned: BOOLEAN]

ReqType ==
  req \in [Slots -> Requests \cup {Idle}] /\ \A s \in Slots : Shaped(req[s])

FreshReads == \A s \in Slots : Fresh(req[s])

Generations ==
  /\ sessions \subseteq Token
  /\ \A t \in sessions : Reached(t.u, t.se)
  /\ \A s \in Slots : Signed(req[s])
  /\ \A t \in history.revoked : Reached(t.u, t.se + 1)

Admins ==
  history.raced \/ (ActiveAdmins # {} /\ \A s \in Slots : AdminKept(req[s]))

Ways ==
  \/ history.raced
  \/ (settings.local \/ HasUsableSso) /\ \A s \in Slots : WayKept(req[s])

Factors == CredentialsFit /\ (history.raced \/ \A s \in Slots : FactorKept(req[s]))

Recovery ==
  /\ \A s \in Slots : Offered(req[s])
  /\ \/ history.raced
     \/ /\ ~history.twice
        /\ \A u \in DOMAIN users : \A c \in users[u].codes : <<u, c>> \notin history.spent

\* The tracking entry outlives the token, and counts every guess made against
\* it; without an entry nothing has been guessed.
Tracked ==
  /\ history.guesses <= MaxTotpAttempts
  /\ chal.track = 0 => history.guesses = 0 /\ ~history.burned
  /\ chal.left > 0 /\ chal.track > 0 =>
       /\ chal.left < chal.track
       /\ history.guesses <= chal.attempts
       /\ history.burned => chal.attempts = MaxTotpAttempts
  /\ \A s \in Slots : req[s].pc = "verify" => ~req[s].arg.burned

Inv ==
  /\ UsersType /\ SideType /\ SettingsType /\ ChalType /\ CountType
  /\ HistoryType /\ ReqType /\ FreshReads /\ Generations
  /\ Admins /\ Ways /\ Factors /\ Recovery /\ Tracked

-----------------------------------------------------------------------------
(* What the steps have in common.                                          *)

\* what a request must satisfy to be put into a slot
Sound(r) ==
  /\ Shaped(r) /\ Fresh(r) /\ Signed(r) /\ Offered(r)
  /\ history.raced \/ (AdminKept(r) /\ WayKept(r) /\ FactorKept(r))
  /\ r.pc = "verify" => ~r.arg.burned

\* A request that is neither about to write nor to deliver a token, or that is
\* over, promises nothing but its shape.
LEMMA RestingSound ==
  ASSUME NEW r, Shaped(r), r.pc \notin Reading \cup {"deliver"}
  PROVE  Sound(r)
  BY DEF Sound, Fresh, Signed, AdminKept, WayKept, FactorKept, Offered, Reading

\* The end of a handler leaves an idle slot.
LEMMA IdleSound == Idle.pc = "idle" /\ Sound(Idle)
  BY RestingSound DEF Idle, Shaped, Reading

\* The part of the invariant about the challenge: it does not move unless the
\* challenge, its counters or a new guess do.
LEMMA TrackedSame ==
  ASSUME ChalType, HistoryType, Tracked, chal' = chal,
         history'.guesses = history.guesses, history'.burned = history.burned,
         \A t \in Slots : req'[t] = req[t] \/ Sound(req'[t])
  PROVE  ChalType' /\ Tracked'
  BY DEF ChalType, Tracked, Sound

\* A step that writes neither the accounts nor the settings (a handler's read,
\* or its way on) keeps the invariant if what the requests that moved now
\* promise is true.
LEMMA RequestStep ==
  ASSUME Inv, req' \in [Slots -> Requests \cup {Idle}],
         \A t \in Slots :
           \/ req'[t] = req[t]
           \/ Sound(req'[t])
           \/ /\ req'[t].op = "enable" /\ Shaped(req'[t]) /\ Fresh(req'[t])
              /\ req'[t].pc = "write" /\ req'[t].row.source = "local"
              /\ req'[t].row.secret \in history'.confirmed,
         UNCHANGED <<users, settings, created>>,
         sessions' \subseteq Token, \A t \in sessions' : Reached(t.u, t.se),
         history.raced => history'.raced, history'.revoked = history.revoked,
         history'.spent = history.spent, history'.twice = history.twice,
         history.confirmed \subseteq history'.confirmed,
         HistoryType', SideType', CountType', ChalType', Tracked'
  PROVE  Inv'
<1>a. /\ UsersType /\ SettingsType /\ HistoryType /\ ReqType /\ FreshReads
      /\ Generations /\ Admins /\ Ways /\ Factors /\ Recovery
  BY DEF Inv
<1>1. UsersType' /\ SettingsType'
  BY <1>a DEF UsersType, SettingsType
<1>2. ReqType'
  BY <1>a DEF ReqType, Shaped, Sound
<1>3. FreshReads'
  BY <1>a DEF FreshReads, Fresh, Sound
<1>4. Generations'
  BY <1>a DEF Generations, Signed, Reached, Sound
<1>5. Admins'
  BY <1>a DEF Admins, AdminKept, ActiveAdmins, Sound
<1>6. Ways'
  BY <1>a DEF Ways, WayKept, HasUsableSso, Sound
<1>7. Factors'
  BY <1>a DEF Factors, FactorKept, CredentialsFit, SourceKept, Sound
<1>8. Recovery'
  BY <1>a DEF Recovery, Offered, Sound
<1>9. QED
  BY <1>1, <1>2, <1>3, <1>4, <1>5, <1>6, <1>7, <1>8 DEF Inv

\* The same for the step of one request that changes nothing else but passkeys,
\* bindings and cookies.
LEMMA SlotStep ==
  ASSUME Inv, NEW s \in Slots, NEW r \in Requests \cup {Idle}, Sound(r),
         req' = [req EXCEPT ![s] = r],
         UNCHANGED <<users, settings, chal, sessions, created, history>>,
         SideType', CountType'
  PROVE  Inv'
<1>a. ReqType /\ HistoryType /\ ChalType /\ Tracked /\ Generations
  BY DEF Inv
<1>b. /\ req' \in [Slots -> Requests \cup {Idle}]
      /\ \A t \in Slots : req'[t] = req[t] \/ Sound(req'[t])
  BY <1>a DEF ReqType
<1>1. ChalType' /\ Tracked' /\ HistoryType'
  BY <1>a, <1>b, TrackedSame DEF HistoryType
<1>2. sessions' \subseteq Token /\ \A t \in sessions' : Reached(t.u, t.se)
  BY <1>a DEF Generations
<1>3. QED
  BY <1>b, <1>1, <1>2, RequestStep

\* An account appears under an id that was never used, and no request knows it.
LEMMA InsertStep ==
  ASSUME Inv, NEW u \in Users \ created, NEW source \in {"local", "sso"},
         NEW admin \in BOOLEAN, Insert(u, NewRow(source, admin)),
         \/ req' = req /\ ~admin
         \/ req' = [t \in Slots |-> Idle],
         UNCHANGED <<settings, sessions>>,
         history'.raced = history.raced, history'.revoked = history.revoked,
         history'.spent = history.spent, history'.twice = history.twice,
         history'.confirmed = history.confirmed,
         HistoryType', SideType', CountType', ChalType', Tracked'
  PROVE  Inv'
<1>a. /\ UsersType /\ SettingsType /\ HistoryType /\ ReqType /\ FreshReads
      /\ Generations /\ Admins /\ Ways /\ Factors /\ Recovery
  BY DEF Inv
<1>b. /\ users' = [x \in DOMAIN users \cup {u} |->
                     IF x = u THEN NewRow(source, admin) ELSE users[x]]
      /\ created' = created \cup {u} /\ u \notin DOMAIN users
  BY <1>a DEF Insert, UsersType
<1>c. req' \in [Slots -> Requests \cup {Idle}] /\ \A t \in Slots : req'[t] \in {req[t], Idle}
  BY <1>a DEF ReqType
<1>d. /\ DOMAIN users' = DOMAIN users \cup {u} /\ users'[u] = NewRow(source, admin)
      /\ \A x \in DOMAIN users : users'[x] = users[x] /\ x # u
  BY <1>b
<1>e. /\ NewRow(source, admin) \in Row
      /\ ~NewRow(source, admin).totp /\ NewRow(source, admin).codes = {}
      /\ NewRow(source, admin).source = source /\ NewRow(source, admin).admin = admin
      /\ NewRow(source, admin).pw = (source = "local")
  BY DEF NewRow, Row
<1>1. UsersType' /\ SettingsType'
  BY <1>a, <1>b, <1>d, <1>e DEF UsersType, SettingsType
<1>2. ReqType'
  BY <1>a, <1>b, <1>c DEF ReqType, Shaped, Idle
<1>3. FreshReads'
  BY <1>a, <1>c, <1>d DEF FreshReads, Fresh, Idle, Reading
<1>4. Generations'
  BY <1>a, <1>b, <1>c, <1>d DEF Generations, Signed, Reached, Idle
<1>5. Admins'
  <2>1. CASE ~admin
    <3>1. ActiveAdmins' = ActiveAdmins
      BY <1>d, <1>e, <2>1 DEF ActiveAdmins
    <3>2. QED
      BY <1>a, <1>c, <3>1 DEF Admins, AdminKept, Idle, Reading
  <2>2. CASE admin
    <3>1. ActiveAdmins \subseteq ActiveAdmins'
      BY <1>d DEF ActiveAdmins
    <3>2. \A t \in Slots : AdminKept(req[t])'
      BY <2>2 DEF AdminKept, Idle, Reading
    <3>3. QED
      BY <1>a, <3>1, <3>2 DEF Admins
  <2>3. QED
    BY <2>1, <2>2
<1>6. Ways'
  BY <1>a, <1>c DEF Ways, WayKept, HasUsableSso, Idle, Reading
<1>7. Factors'
  <2>1. CredentialsFit'
    BY <1>a, <1>d, <1>e DEF Factors, CredentialsFit
  <2>2. QED
    BY <1>a, <1>c, <2>1 DEF Factors, FactorKept, SourceKept, Idle, Reading
<1>8. Recovery'
  BY <1>a, <1>c, <1>d, <1>e DEF Recovery, Offered, Idle
<1>9. QED
  BY <1>1, <1>2, <1>3, <1>4, <1>5, <1>6, <1>7, <1>8 DEF Inv

\* A request that became stale, or reads again, is the same otherwise.
LEMMA MarkedRequest ==
  ASSUME NEW A, NEW B, NEW C, NEW D, NEW S, NEW E, NEW v \in S,
         NEW q \in [op: A, u: B, pc: C, row: D, stale: S, arg: E]
  PROVE  [q EXCEPT !.stale = v] =
           [op |-> q.op, u |-> q.u, pc |-> q.pc, row |-> q.row, stale |-> v, arg |-> q.arg]
  OBVIOUS

\* A write makes stale what it overtakes and leaves the other requests alone.
LEMMA WrittenMarks ==
  ASSUME ReqType, NEW s \in Slots, NEW r \in Requests \cup {Idle}
  PROVE  /\ Written(s, r) \in [Slots -> Requests \cup {Idle}]
         /\ Written(s, r)[s] = r
         /\ \A t \in Slots \ {s} :
              /\ req[t].pc = "idle" => Written(s, r)[t] = req[t]
              /\ req[t].pc # "idle" =>
                   /\ req[t] \in Requests
                   /\ Written(s, r)[t].op = req[t].op /\ Written(s, r)[t].u = req[t].u
                   /\ Written(s, r)[t].pc = req[t].pc /\ Written(s, r)[t].row = req[t].row
                   /\ Written(s, r)[t].arg = req[t].arg
                   /\ ~Written(s, r)[t].stale => ~req[t].stale /\ ~Touches(req[s], req[t])
<1>1. ASSUME NEW t \in Slots, req[t].pc # "idle"
      PROVE  /\ req[t] \in Requests
             /\ [req[t] EXCEPT !.stale = TRUE] =
                  [op |-> req[t].op, u |-> req[t].u, pc |-> req[t].pc, row |-> req[t].row,
                   stale |-> TRUE, arg |-> req[t].arg]
  <2>1. req[t] \in Requests
    BY <1>1 DEF ReqType, Idle
  <2>2. \A v \in BOOLEAN :
          [req[t] EXCEPT !.stale = v] =
            [op |-> req[t].op, u |-> req[t].u, pc |-> req[t].pc, row |-> req[t].row,
             stale |-> v, arg |-> req[t].arg]
    BY <2>1, MarkedRequest DEF Requests
  <2>3. QED
    BY <2>1, <2>2, Zenon
<1>2. ASSUME NEW t \in Slots, req[t].pc # "idle"
      PROVE  [req[t] EXCEPT !.stale = TRUE] \in Requests
  BY <1>1, <1>2 DEF Requests
<1>3. Written(s, r) \in [Slots -> Requests \cup {Idle}]
  BY <1>2 DEF Written, ReqType
<1>4. ASSUME NEW t \in Slots \ {s}
      PROVE  Written(s, r)[t] = IF req[t].pc # "idle" /\ Touches(req[s], req[t])
                                THEN [req[t] EXCEPT !.stale = TRUE] ELSE req[t]
  BY <1>4 DEF Written
<1>5. ASSUME NEW t \in Slots \ {s}
      PROVE  /\ req[t].pc = "idle" => Written(s, r)[t] = req[t]
             /\ req[t].pc # "idle" =>
                   /\ req[t] \in Requests
                   /\ Written(s, r)[t].op = req[t].op /\ Written(s, r)[t].u = req[t].u
                   /\ Written(s, r)[t].pc = req[t].pc /\ Written(s, r)[t].row = req[t].row
                   /\ Written(s, r)[t].arg = req[t].arg
                   /\ ~Written(s, r)[t].stale => ~req[t].stale /\ ~Touches(req[s], req[t])
  <2>1. CASE req[t].pc = "idle"
    BY <1>4, <2>1
  <2>2. CASE req[t].pc # "idle" /\ ~Touches(req[s], req[t])
    <3>1. Written(s, r)[t] = req[t]
      BY <1>4, <2>2
    <3>2. req[t] \in Requests
      BY <1>1, <2>2
    <3>3. QED
      BY <2>2, <3>1, <3>2
  <2>3. CASE req[t].pc # "idle" /\ Touches(req[s], req[t])
    <3>1. Written(s, r)[t] = [req[t] EXCEPT !.stale = TRUE]
      BY <1>4, <2>3
    <3>2. /\ req[t] \in Requests
          /\ Written(s, r)[t] = [op |-> req[t].op, u |-> req[t].u, pc |-> req[t].pc,
                                 row |-> req[t].row, stale |-> TRUE, arg |-> req[t].arg]
      BY <1>1, <2>3, <3>1
    <3>3. QED
      BY <2>3, <3>2
  <2>4. QED
    BY <2>1, <2>2, <2>3
<1>6. Written(s, r)[s] = r
  BY DEF Written
<1>7. QED
  BY <1>3, <1>5, <1>6

\* A write of slot s: what stays true whatever account or setting it changes.
LEMMA WriteKeeps ==
  ASSUME Inv, NEW s \in Slots, NEW r \in Requests \cup {Idle}, Shaped(r),
         r.pc \notin Reading \cup {"deliver"},
         req' = Written(s, r), UsersType',
         UNCHANGED <<chal, created, sessions, count>>,
         history'.confirmed = history.confirmed, history'.guesses = history.guesses,
         history'.burned = history.burned, history.raced => history'.raced,
         \A x \in DOMAIN users' :
           /\ x \in DOMAIN users /\ (x # req[s].u => users'[x] = users[x])
           /\ users[x].epoch <= users'[x].epoch,
         \A x \in DOMAIN users : x # req[s].u => x \in DOMAIN users'
  PROVE  /\ ChalType' /\ CountType' /\ ReqType' /\ FreshReads' /\ Tracked'
         /\ \A t \in sessions : Reached(t.u, t.se)'
         /\ \A t \in Slots : Signed(req[t])'
         /\ \A t \in history.revoked : Reached(t.u, t.se + 1)'
         /\ \A t \in Slots : Offered(req[t])'
         /\ (history.raced \/ \A t \in Slots : FactorKept(req[t]))'
         /\ ActiveAdmins' = ActiveAdmins \/ req[s].op \in AdminOps =>
              (history.raced \/ \A t \in Slots : AdminKept(req[t]))'
         /\ settings' = settings \/ req[s].op \in SettingsOps =>
              (history.raced \/ \A t \in Slots : WayKept(req[t]))'
<1>a. /\ UsersType /\ ChalType /\ CountType /\ HistoryType /\ ReqType /\ FreshReads
      /\ Generations /\ Admins /\ Ways /\ Factors /\ Recovery /\ Tracked
  BY DEF Inv
<1>b. /\ req' \in [Slots -> Requests \cup {Idle}] /\ req'[s] = r
      /\ \A t \in Slots \ {s} :
           /\ req[t].pc = "idle" => req'[t] = req[t]
           /\ req[t].pc # "idle" =>
                /\ req[t] \in Requests
                /\ req'[t].op = req[t].op /\ req'[t].u = req[t].u /\ req'[t].pc = req[t].pc
                /\ req'[t].row = req[t].row /\ req'[t].arg = req[t].arg
                /\ ~req'[t].stale => ~req[t].stale /\ ~Touches(req[s], req[t])
  BY <1>a, WrittenMarks
<1>c. "idle" \notin Reading \cup {"deliver", "passkeys", "write", "verify"}
  BY DEF Reading
<1>1. ChalType' /\ CountType'
  BY <1>a DEF ChalType, CountType
<1>2. ReqType'
  BY <1>a, <1>b DEF ReqType, Shaped
<1>3. FreshReads'
  <2> SUFFICES ASSUME NEW t \in Slots PROVE Fresh(req[t])'
    BY DEF FreshReads
  <2>1. CASE t = s
    BY <1>b, <2>1 DEF Fresh
  <2>2. CASE t # s
    BY <1>a, <1>b, <1>c, <2>2 DEF FreshReads, Fresh, Touches
  <2>3. QED
    BY <2>1, <2>2
<1>4. Tracked'
  BY <1>a, <1>b, <1>c DEF Tracked, Reading
<1>5. ASSUME NEW u, NEW e \in Nat, Reached(u, e)
      PROVE  Reached(u, e)'
  BY <1>a, <1>5 DEF Reached, UsersType, Row
<1>6. \A t \in sessions : Reached(t.u, t.se)'
  BY <1>a, <1>5 DEF Generations, Token
<1>7. \A t \in history.revoked : Reached(t.u, t.se + 1)'
  BY <1>a, <1>5 DEF Generations, Token, HistoryType
<1>8. \A t \in Slots : Signed(req[t])'
  <2> SUFFICES ASSUME NEW t \in Slots, req'[t].pc = "deliver"
               PROVE  Reached(req[t].u, req[t].row.epoch)'
    BY DEF Signed
  <2>1. t # s /\ req[t].pc = "deliver" /\ req'[t].u = req[t].u /\ req'[t].row = req[t].row
    BY <1>b
  <2>2. req[t].op \in UserOps /\ req[t].row \in Row
    BY <1>a, <1>b, <2>1 DEF ReqType, Shaped
  <2>3. req[t].row.epoch \in Nat /\ Reached(req[t].u, req[t].row.epoch)
    BY <1>a, <2>1, <2>2 DEF Generations, Signed, Row
  <2>4. QED
    BY <1>5, <2>1, <2>3
<1>9. \A t \in Slots : Offered(req[t])'
  BY <1>a, <1>b, <1>c DEF Recovery, Offered, Reading
<1>10. (history.raced \/ \A t \in Slots : FactorKept(req[t]))'
  BY <1>a, <1>b, <1>c DEF Factors, FactorKept, SourceKept
<1>11. ActiveAdmins' = ActiveAdmins \/ req[s].op \in AdminOps =>
         (history.raced \/ \A t \in Slots : AdminKept(req[t]))'
  BY <1>a, <1>b, <1>c DEF Admins, AdminKept, Touches, AdminOps
<1>12. settings' = settings \/ req[s].op \in SettingsOps =>
         (history.raced \/ \A t \in Slots : WayKept(req[t]))'
  BY <1>a, <1>b, <1>c DEF Ways, WayKept, Touches, SettingsOps, HasUsableSso
<1>13. QED
  BY <1>1, <1>2, <1>3, <1>4, <1>6, <1>7, <1>8, <1>9, <1>10, <1>11, <1>12

\* The request a read leaves behind, and its fields.
LEMMA NewRequest ==
  ASSUME UsersType, NEW u \in DOMAIN users, NEW op \in UserOps, NEW pc \in Pcs,
         NEW more \in Args
  PROVE  /\ Request(op, u, pc, more) \in Requests
         /\ Request(op, u, pc, more).op = op /\ Request(op, u, pc, more).u = u
         /\ Request(op, u, pc, more).pc = pc /\ Request(op, u, pc, more).row = users[u]
         /\ Request(op, u, pc, more).arg = more /\ ~Request(op, u, pc, more).stale
         /\ Fresh(Request(op, u, pc, more))
         /\ u \in created /\ users[u] \in Row
<1>1. u \in created /\ u \in Users /\ users[u] \in Row
  BY DEF UsersType
<1>2. QED
  BY <1>1 DEF Request, Requests, Fresh

\* A request that goes on to its next step keeps its other fields.
LEMMA Advanced ==
  ASSUME NEW q \in Requests, NEW p \in Pcs
  PROVE  /\ [q EXCEPT !.pc = p] \in Requests
         /\ [q EXCEPT !.pc = p].op = q.op /\ [q EXCEPT !.pc = p].u = q.u
         /\ [q EXCEPT !.pc = p].pc = p /\ [q EXCEPT !.pc = p].row = q.row
         /\ [q EXCEPT !.pc = p].arg = q.arg /\ [q EXCEPT !.pc = p].stale = q.stale
<1>1. [q EXCEPT !.pc = p] = [op |-> q.op, u |-> q.u, pc |-> p, row |-> q.row,
                             stale |-> q.stale, arg |-> q.arg]
  BY DEF Requests
<1>2. QED
  BY <1>1 DEF Requests

\* The same for a request that reads again (Continue).
LEMMA Continued ==
  ASSUME NEW s, req[s] \in Requests, NEW p \in Pcs
  PROVE  /\ Continue(s, p) \in Requests
         /\ Continue(s, p).op = req[s].op /\ Continue(s, p).u = req[s].u
         /\ Continue(s, p).pc = p /\ Continue(s, p).row = req[s].row
         /\ Continue(s, p).arg = req[s].arg
         /\ Continue(s, p) = [op |-> req[s].op, u |-> req[s].u, pc |-> p, row |-> req[s].row,
                              stale |-> FALSE, arg |-> req[s].arg]
<1> DEFINE q(v) == [op |-> req[s].op, u |-> req[s].u, pc |-> p, row |-> req[s].row,
                 stale |-> v, arg |-> req[s].arg]
<1>1. \A v \in BOOLEAN : [req[s] EXCEPT !.pc = p, !.stale = v] = q(v)
  <2> TAKE v \in BOOLEAN
  <2> DEFINE q1 == [op |-> req[s].op, u |-> req[s].u, pc |-> p, row |-> req[s].row,
                    stale |-> req[s].stale, arg |-> req[s].arg]
  <2>1. [req[s] EXCEPT !.pc = p, !.stale = v] = [[req[s] EXCEPT !.pc = p] EXCEPT !.stale = v]
    BY DEF Requests
  <2>2. [req[s] EXCEPT !.pc = p] = q1
    BY DEF Requests
  <2>3. [req[s] EXCEPT !.pc = p, !.stale = v] = [q1 EXCEPT !.stale = v]
    BY <2>1, <2>2
  <2>4. QED
    BY <2>3
<1>2. Continue(s, p) = q(FALSE)
  BY <1>1, Zenon DEF Continue
<1>3. \A v \in BOOLEAN : q(v) \in Requests
  BY DEF Requests
<1>4. Continue(s, p) \in Requests
  BY <1>2, <1>3, Zenon
<1>5. QED
  BY <1>2, <1>4

\* ... and whose row the second read may replace.
LEMMA ContinuedRow ==
  ASSUME NEW s, req[s] \in Requests, NEW p \in Pcs, NEW w \in Row \cup {{}}
  PROVE  /\ [Continue(s, p) EXCEPT !.row = w] \in Requests
         /\ [Continue(s, p) EXCEPT !.row = w].op = req[s].op
         /\ [Continue(s, p) EXCEPT !.row = w].u = req[s].u
         /\ [Continue(s, p) EXCEPT !.row = w].pc = p
         /\ [Continue(s, p) EXCEPT !.row = w].row = w
         /\ [Continue(s, p) EXCEPT !.row = w].arg = req[s].arg
<1> DEFINE q(v) == [op |-> req[s].op, u |-> req[s].u, pc |-> p, row |-> req[s].row,
                 stale |-> v, arg |-> req[s].arg]
<1> DEFINE q2(v) == [op |-> req[s].op, u |-> req[s].u, pc |-> p, row |-> w,
                 stale |-> v, arg |-> req[s].arg]
<1>1. Continue(s, p) = q(FALSE)
  BY Continued
<1>2. \A v \in BOOLEAN : [q(v) EXCEPT !.row = w] = q2(v) /\ q2(v) \in Requests
  BY DEF Requests
<1>3. [Continue(s, p) EXCEPT !.row = w] = q2(FALSE) /\ q2(FALSE) \in Requests
  BY <1>1, <1>2, Zenon
<1>4. QED
  BY <1>3

-----------------------------------------------------------------------------
(* The administrator's requests keep the invariant.                        *)
LEMMA AdminReads ==
  ASSUME Inv, NEW s \in Slots, NEW u \in DOMAIN users,
         (\E dto \in Dtos : UpdateRead(s, u, dto)) \/ RemoveCheck(s, u)
  PROVE  Inv'
<1>a. UsersType /\ SideType /\ CountType
  BY DEF Inv
<1>b. (SideType /\ count < MaxRequests /\ count' = count + 1
         /\ UNCHANGED <<users, passkeys, bound, regTok>>) => SideType' /\ CountType'
  BY <1>a, AccountsBounds DEF SideType, CountType
<1>1. ASSUME NEW dto \in Dtos, UpdateRead(s, u, dto)
      PROVE  Inv'
  <2> DEFINE toSso == ~WillBeLocal(users[u], dto) /\ users[u].source = "local"
             pc == IF toSso THEN "passkeys" ELSE "write"
             r == Request("update", u, pc, dto)
  <2>1. pc \in Pcs /\ pc \in Reading /\ dto \in Args /\ "update" \in UserOps
    BY DEF Pcs, Reading, Args, UserOps
  <2> HIDE DEF pc
  <2>2. /\ r \in Requests /\ r.op = "update" /\ r.u = u /\ r.pc = pc /\ r.row = users[u]
        /\ r.arg = dto /\ ~r.stale /\ Fresh(r) /\ u \in created /\ users[u] \in Row
    BY <1>a, <2>1, NewRequest
  <2> HIDE DEF r
  <2>3. Shaped(r) /\ Signed(r) /\ Offered(r) /\ WayKept(r) /\ pc # "verify"
    BY <2>1, <2>2 DEF Shaped, Signed, Offered, WayKept, pc
  <2>4. AdminKept(r)
    BY <1>1, <2>2 DEF AdminKept, UpdateRead, IsLastActiveAdmin
  <2>5. FactorKept(r)
    BY <1>1, <2>1, <2>2 DEF FactorKept, SourceKept, ToLocal, ToSso, UpdateRead, pc
  <2>6. req' = [req EXCEPT ![s] = r] /\ SideType' /\ CountType'
    BY <1>1, <1>a, <1>b DEF UpdateRead, Begin, r, pc
  <2>7. QED
    BY <1>1, <2>2, <2>3, <2>4, <2>5, <2>6, SlotStep DEF UpdateRead, Sound
<1>2. ASSUME RemoveCheck(s, u)
      PROVE  Inv'
  <2> DEFINE r == Request("remove", u, "write", {})
  <2>1. "write" \in Pcs /\ {} \in Args /\ "remove" \in UserOps
    BY DEF Pcs, Reading, Args, UserOps
  <2>2. /\ r \in Requests /\ r.op = "remove" /\ r.u = u /\ r.pc = "write" /\ r.row = users[u]
        /\ Fresh(r) /\ u \in created /\ users[u] \in Row
    BY <1>a, <2>1, NewRequest
  <2> HIDE DEF r
  <2>3. Shaped(r) /\ Signed(r) /\ Offered(r) /\ WayKept(r) /\ FactorKept(r)
    BY <2>1, <2>2 DEF Shaped, Signed, Offered, WayKept, FactorKept
  <2>4. AdminKept(r)
    BY <1>2, <2>2 DEF AdminKept, RemoveCheck, IsLastActiveAdmin
  <2>5. req' = [req EXCEPT ![s] = r] /\ SideType' /\ CountType'
    BY <1>2, <1>a, <1>b DEF RemoveCheck, Begin, r
  <2>6. QED
    BY <1>2, <2>2, <2>3, <2>4, <2>5, SlotStep DEF RemoveCheck, Sound
<1>3. QED
  BY <1>1, <1>2

\* UpdatePasskeys keeps the invariant: the request goes on as it was, or is over.
LEMMA PasskeysGone ==
  ASSUME Inv, NEW s \in Slots, UpdatePasskeys(s)
  PROVE  Inv'
<1>a. /\ ReqType /\ SideType /\ CountType /\ FreshReads /\ Admins /\ Factors /\ Ways
      /\ Generations /\ HistoryType
  BY DEF Inv
<1>b. req[s] \in Requests /\ req[s].op = "update" /\ req[s].arg \in Dtos /\ "write" \in Pcs
  BY <1>a DEF UpdatePasskeys, ReqType, Idle, Shaped, Pcs, Reading
<1> DEFINE q == [req[s] EXCEPT !.pc = "write"]
<1>c. /\ q \in Requests /\ q.op = "update" /\ q.u = req[s].u /\ q.pc = "write"
      /\ q.row = req[s].row /\ q.arg = req[s].arg /\ q.stale = req[s].stale
  BY <1>b, Advanced
<1> HIDE DEF q
<1>d. /\ UNCHANGED <<users, bound, settings, chal, regTok, sessions, count, created, history>>
      /\ req' = [req EXCEPT ![s] = IF Has(req[s].arg, "pw") THEN Idle ELSE q]
      /\ passkeys' = passkeys \ {req[s].u} /\ req[s].pc = "passkeys"
  BY <1>a DEF UpdatePasskeys, ReqType, q
<1>e. SideType' /\ CountType'
  BY <1>a, <1>d DEF SideType, CountType
<1>1. CASE Has(req[s].arg, "pw")
  BY <1>1, <1>d, <1>e, IdleSound, SlotStep
<1>2. CASE ~Has(req[s].arg, "pw")
  <2>1. Shaped(q) /\ Signed(q) /\ Offered(q) /\ WayKept(q) /\ Fresh(q)
    BY <1>a, <1>b, <1>c, <1>d DEF ReqType, FreshReads, Shaped, Signed, Offered, WayKept, Fresh,
       Reading
  <2>2. history.raced \/ AdminKept(q)
    BY <1>a, <1>b, <1>c, <1>d DEF Admins, AdminKept, Reading
  <2>3. history.raced \/ FactorKept(q)
    BY <1>a, <1>b, <1>c, <1>d, <1>2 DEF Factors, FactorKept, SourceKept, Reading
  <2>4. QED
    BY <1>2, <1>c, <1>d, <1>e, <2>1, <2>2, <2>3, SlotStep DEF Sound
<1>3. QED
  BY <1>1, <1>2


\* The reads of logins leave requests that promise nothing but their shape, and
\* so do those of settings but for their guard.
LEMMA LoginReads ==
  ASSUME Inv, NEW s \in Slots, NEW u \in DOMAIN users,
         NEW op \in {"login", "passkey", "sso"}, NEW pc \in {"sign", "forUser", "link"},
         Begin(s, Request(op, u, pc, {})),
         UNCHANGED <<users, passkeys, bound, settings, chal, regTok, sessions, created, history>>
  PROVE  Inv'
<1>a. UsersType /\ SideType /\ CountType
  BY DEF Inv
<1> DEFINE r == Request(op, u, pc, {})
<1>1. pc \in Pcs /\ pc \notin Reading \cup {"deliver"} /\ {} \in Args /\ op \in UserOps
  BY DEF Pcs, Reading, Args, UserOps
<1>2. /\ r \in Requests /\ r.op = op /\ r.u = u /\ r.pc = pc /\ r.row = users[u]
      /\ u \in created /\ users[u] \in Row
  BY <1>a, <1>1, NewRequest
<1>b. req' = [req EXCEPT ![s] = r] /\ SideType' /\ CountType'
  BY <1>a, AccountsBounds DEF Begin, SideType, CountType
<1> HIDE DEF r
<1>3. Sound(r)
  <2>1. Shaped(r)
    BY <1>1, <1>2 DEF Shaped
  <2>2. QED
    BY <1>1, <1>2, <2>1, RestingSound
<1>4. QED
  BY <1>2, <1>3, <1>b, SlotStep

\* The reads behind a password change and the TOTP requests: the session is
\* accepted, so the account is there, and it is a local one.
LEMMA SelfReads ==
  ASSUME Inv, NEW s \in Slots, NEW u \in DOMAIN users, NEW more \in {{}} \cup Nat,
         NEW op \in {"changePw", "setup", "enable", "disable"},
         Begin(s, Request(op, u, "write", more)), op # "changePw" => more \in Nat,
         users[u].source = "local", op = "setup" => ~users[u].totp,
         UNCHANGED <<users, passkeys, bound, settings, chal, regTok, sessions, created>>,
         op # "enable" => history' = history,
         op = "enable" => history' = [history EXCEPT !.confirmed = @ \cup {users[u].secret}]
  PROVE  Inv'
<1>a. UsersType /\ SideType /\ CountType /\ HistoryType /\ ReqType /\ Generations
      /\ ChalType /\ Tracked
  BY DEF Inv
<1> DEFINE r == Request(op, u, "write", more)
<1>1. "write" \in Pcs /\ "write" \in Reading /\ more \in Args /\ op \in UserOps
  BY DEF Pcs, Reading, Args, UserOps
<1>2. /\ r \in Requests /\ r.op = op /\ r.u = u /\ r.pc = "write" /\ r.row = users[u]
      /\ r.arg = more /\ ~r.stale /\ Fresh(r) /\ u \in created /\ users[u] \in Row
  BY <1>a, <1>1, NewRequest
<1>b. req' = [req EXCEPT ![s] = r] /\ SideType' /\ CountType'
  BY <1>a, AccountsBounds DEF Begin, SideType, CountType
<1> HIDE DEF r
<1>3. Shaped(r) /\ Signed(r) /\ Offered(r) /\ WayKept(r) /\ AdminKept(r)
  BY <1>1, <1>2 DEF Shaped, Signed, Offered, WayKept, AdminKept
<1>4. CASE op # "enable"
  <2>1. FactorKept(r)
    BY <1>2, <1>4 DEF FactorKept
  <2>2. QED
    BY <1>2, <1>3, <1>4, <1>b, <2>1, SlotStep DEF Sound
<1>5. CASE op = "enable"
  <2>1. /\ req' \in [Slots -> Requests \cup {Idle}]
        /\ \A t \in Slots : req'[t] = req[t] \/ (t = s /\ req'[t] = r)
    BY <1>a, <1>b, <1>2 DEF ReqType
  <2>2. users[u].secret \in Nat
    BY <1>2 DEF Row
  <2>3. /\ HistoryType' /\ history'.raced = history.raced
        /\ history'.revoked = history.revoked /\ history'.spent = history.spent
        /\ history'.twice = history.twice /\ history'.guesses = history.guesses
        /\ history'.burned = history.burned
        /\ history'.confirmed = history.confirmed \cup {users[u].secret}
    BY <1>5, <1>a, <2>2 DEF HistoryType
  <2>4. ChalType' /\ Tracked'
    BY <1>a, <1>2, <2>1, <2>3 DEF ChalType, Tracked
  <2>5. sessions' \subseteq Token /\ \A t \in sessions' : Reached(t.u, t.se)
    BY <1>a DEF Generations
  <2>6. \A t \in Slots :
           \/ req'[t] = req[t]
           \/ /\ req'[t].op = "enable" /\ Shaped(req'[t]) /\ Fresh(req'[t])
              /\ req'[t].pc = "write" /\ req'[t].row.source = "local"
              /\ req'[t].row.secret \in history'.confirmed
    BY <1>2, <1>3, <1>5, <2>1, <2>3
  <2>7. QED
    BY <1>b, <2>1, <2>3, <2>4, <2>5, <2>6, RequestStep
<1>6. QED
  BY <1>4, <1>5

\* The checks of the two settings: what they saw is true when they start.
LEMMA SettingsReads ==
  ASSUME Inv, NEW s \in Slots, NEW on \in BOOLEAN,
         \/ SetLocalLoginCheck(s, on)
         \/ \E providers \in {"undefined", "blankSecret", "withSecret", "empty"} :
              UpdateSsoCheck(s, on, providers)
  PROVE  Inv'
<1>a. UsersType /\ SideType /\ CountType /\ SettingsType
  BY DEF Inv
<1> DEFINE q(op, arg) == [op |-> op, u |-> {}, pc |-> "write", row |-> {},
                          stale |-> FALSE, arg |-> arg]
<1>b. ASSUME NEW op, NEW arg, SettingsBegin(s, op, arg)
      PROVE  /\ req' = [req EXCEPT ![s] = q(op, arg)] /\ SideType' /\ CountType'
             /\ UNCHANGED <<users, settings, chal, sessions, created, history>>
  BY <1>a, <1>b, AccountsBounds DEF SettingsBegin, SideType, CountType
<1>c. ASSUME NEW op \in {"setLocal", "updateSso"}, NEW arg,
             op = "setLocal" => arg \in [local: BOOLEAN],
             op = "updateSso" => arg \in Ssos
      PROVE  /\ q(op, arg) \in Requests /\ Shaped(q(op, arg)) /\ Fresh(q(op, arg))
             /\ Signed(q(op, arg)) /\ Offered(q(op, arg)) /\ AdminKept(q(op, arg))
             /\ FactorKept(q(op, arg))
  <2>1. q(op, arg) \in Requests
    BY <1>c DEF Requests, Args, Pcs, Reading
  <2>2. QED
    BY <1>c, <2>1 DEF Shaped, Fresh, Signed, Offered, AdminKept, FactorKept, UserOps
<1>1. ASSUME SetLocalLoginCheck(s, on)
      PROVE  Inv'
  <2> DEFINE r == q("setLocal", [local |-> on])
  <2>1. r.pc = "write" /\ WayKept(r)
    BY <1>1 DEF SetLocalLoginCheck, WayKept
  <2>2. r \in Requests /\ Sound(r)
    BY <2>1, <1>c DEF Sound
  <2>3. QED
    BY <1>1, <1>b, <2>2, SlotStep DEF SetLocalLoginCheck
<1>2. ASSUME NEW providers \in {"undefined", "blankSecret", "withSecret", "empty"},
             UpdateSsoCheck(s, on, providers)
      PROVE  Inv'
  <2> DEFINE arg == [enabled |-> on, provider |-> Merged(providers)]
             r == q("updateSso", arg)
  <2>1. Merged(providers) \in BOOLEAN
    <3>1. settings.provider \in BOOLEAN
      BY <1>a DEF SettingsType
    <3>2. CASE providers \in {"undefined", "blankSecret"}
      <4>1. Merged(providers) = settings.provider
        BY <3>2 DEF Merged
      <4>2. QED
        BY <3>1, <4>1
    <3>3. CASE providers = "withSecret"
      BY <3>3 DEF Merged
    <3>4. CASE providers = "empty"
      BY <3>4 DEF Merged
    <3>5. QED
      BY <3>2, <3>3, <3>4
  <2>2. r.pc = "write" /\ WayKept(r)
    BY <1>2 DEF UpdateSsoCheck, WayKept
  <2>3. r \in Requests /\ Sound(r)
    BY <2>1, <2>2, <1>c DEF Sound, Ssos
  <2>4. QED
    BY <1>2, <1>b, <2>3, SlotStep DEF UpdateSsoCheck
<1>3. QED
  BY <1>1, <1>2

-----------------------------------------------------------------------------
(* Logins on their way, and the life of a challenge.                       *)

\* A guess is counted in the entry of the challenge, and is refused once the
\* challenge is burned: the entry outlives the token.
LEMMA GuessCounted ==
  ASSUME ChalType, HistoryType, Tracked, chal.left > 0, ConsumeAttempt
  PROVE  /\ ChalType' /\ ~history.burned
         /\ chal'.left = chal.left /\ chal'.track > chal'.left
         /\ history.guesses + 1 <= chal'.attempts
         /\ chal'.attempts <= MaxTotpAttempts
<1>1. CASE chal.track = 0
  <2>1. chal' = [u |-> chal.u, left |-> chal.left, attempts |-> 1, track |-> TrackTtl]
    BY <1>1 DEF ConsumeAttempt, ChalType
  <2>2. QED
    BY <1>1, <2>1, AccountsBounds DEF ConsumeAttempt, ChalType, Tracked, HistoryType
<1>2. CASE chal.track # 0
  <2>1. chal' = [u |-> chal.u, left |-> chal.left, attempts |-> chal.attempts + 1,
                 track |-> chal.track]
    BY <1>2 DEF ConsumeAttempt, ChalType
  <2>2. QED
    BY <1>2, <2>1, AccountsBounds DEF ConsumeAttempt, ChalType, Tracked, HistoryType
<1>3. QED
  BY <1>1, <1>2

\* A guess that is right: the request holds a code of the account.
LEMMA GuessRead ==
  ASSUME Inv, NEW s \in Slots, NEW u \in DOMAIN users, NEW code \in Codes \cup {"totp"},
         LoginTotpRead(s, u, code)
  PROVE  Inv'
<1>a. /\ UsersType /\ SideType /\ CountType /\ HistoryType /\ ReqType /\ Generations
      /\ ChalType /\ Tracked
  BY DEF Inv
<1> DEFINE arg == [code |-> code, burned |-> history.burned]
           r == Request("loginTotp", u, "verify", arg)
<1>1. "verify" \in Pcs /\ "verify" \in Reading /\ arg \in Guesses /\ arg \in Args
      /\ "loginTotp" \in UserOps
  BY <1>a DEF Pcs, Reading, Args, UserOps, Guesses, HistoryType
<1>2. /\ r \in Requests /\ r.op = "loginTotp" /\ r.u = u /\ r.pc = "verify"
      /\ r.row = users[u] /\ r.arg = arg /\ ~r.stale /\ Fresh(r) /\ u \in created
      /\ users[u] \in Row
  BY <1>a, <1>1, NewRequest
<1>3. /\ ChalType' /\ ~history.burned
      /\ chal'.left = chal.left /\ chal'.track > chal'.left
      /\ history.guesses + 1 <= chal'.attempts /\ chal'.attempts <= MaxTotpAttempts
  BY <1>a, GuessCounted DEF LoginTotpRead
<1>4. /\ HistoryType' /\ history'.raced = history.raced
      /\ history'.revoked = history.revoked /\ history'.spent = history.spent
      /\ history'.twice = history.twice /\ history'.guesses = history.guesses + 1
      /\ history'.burned = history.burned /\ history'.confirmed = history.confirmed
  BY <1>a DEF HistoryType, LoginTotpRead
<1>b. req' = [req EXCEPT ![s] = r] /\ SideType' /\ CountType'
  BY <1>a, AccountsBounds DEF Begin, SideType, CountType, LoginTotpRead
<1>5. ~arg.burned /\ code \in users[u].codes \cup {"totp"} /\ arg.code = code
  BY <1>3 DEF LoginTotpRead
<1> HIDE DEF r, arg
<1>6. Sound(r)
  <2>1. Shaped(r) /\ Signed(r) /\ Offered(r) /\ WayKept(r) /\ AdminKept(r) /\ FactorKept(r)
    BY <1>1, <1>2, <1>5 DEF Shaped, Signed, Offered, WayKept, AdminKept, FactorKept
  <2>2. QED
    BY <1>2, <1>5, <2>1 DEF Sound
<1>7. /\ req' \in [Slots -> Requests \cup {Idle}]
      /\ \A t \in Slots : req'[t] = req[t] \/ Sound(req'[t])
  BY <1>a, <1>b, <1>2, <1>6 DEF ReqType
<1>8. Tracked'
  BY <1>a, <1>3, <1>4, <1>7, AccountsBounds DEF Tracked, Sound, HistoryType, ChalType
<1>9. sessions' \subseteq Token /\ \A t \in sessions' : Reached(t.u, t.se)
  BY <1>a DEF Generations, LoginTotpRead
<1>10. QED
  BY <1>b, <1>3, <1>4, <1>7, <1>8, <1>9, RequestStep DEF LoginTotpRead

\* What moves the challenge alone: a login that needs a second factor, a guess
\* that is wrong, and time.
LEMMA ChallengeMoves ==
  ASSUME Inv, UNCHANGED <<users, settings, created, sessions, req>>, SideType', CountType',
         history'.raced = history.raced, history'.revoked = history.revoked,
         history'.spent = history.spent, history'.twice = history.twice,
         history'.confirmed = history.confirmed,
         HistoryType', ChalType', Tracked'
  PROVE  Inv'
<1>a. ReqType /\ Generations
  BY DEF Inv
<1>1. req' \in [Slots -> Requests \cup {Idle}] /\ \A t \in Slots : req'[t] = req[t]
  BY <1>a DEF ReqType
<1>2. sessions' \subseteq Token /\ \A t \in sessions' : Reached(t.u, t.se)
  BY <1>a DEF Generations
<1>3. QED
  BY <1>1, <1>2, RequestStep

\* A password login: a challenge for an account with TOTP, else a request.
LEMMA PasswordLogin ==
  ASSUME Inv, NEW s \in Slots, NEW u \in DOMAIN users, LoginRead(s, u)
  PROVE  Inv'
<1>a. UsersType /\ SideType /\ CountType /\ HistoryType /\ ChalType /\ Tracked
  BY DEF Inv
<1>1. CASE users[u].totp
  <2>1. /\ chal = NoChallenge /\ chal' = [NoChallenge EXCEPT !.u = {u}, !.left = ChallengeTtl]
        /\ count < MaxRequests /\ count' = count + 1
        /\ UNCHANGED <<req, users, passkeys, bound, settings, regTok, sessions, created, history>>
    BY <1>1 DEF LoginRead
  <2>2. chal' = [u |-> {u}, left |-> ChallengeTtl, attempts |-> 0, track |-> 0]
    BY <2>1 DEF NoChallenge
  <2>3. ChalType' /\ CountType' /\ SideType' /\ HistoryType'
    BY <1>a, <2>1, <2>2, AccountsBounds DEF ChalType, CountType, SideType, HistoryType, UsersType
  <2>4. Tracked'
    BY <1>a, <2>1, <2>2 DEF Tracked, NoChallenge
  <2>5. QED
    BY <2>1, <2>3, <2>4, ChallengeMoves
<1>2. CASE ~users[u].totp
  BY <1>2, LoginReads DEF LoginRead
<1>3. QED
  BY <1>1, <1>2

\* A wrong code uses up an attempt.
LEMMA WrongGuess ==
  ASSUME Inv, LoginTotpWrong
  PROVE  Inv'
<1>a. SideType /\ CountType /\ HistoryType /\ ChalType /\ Tracked
  BY DEF Inv
<1>1. /\ ChalType' /\ ~history.burned
      /\ chal'.left = chal.left /\ chal'.track > chal'.left
      /\ history.guesses + 1 <= chal'.attempts /\ chal'.attempts <= MaxTotpAttempts
  BY <1>a, GuessCounted DEF LoginTotpWrong
<1>2. /\ HistoryType' /\ history'.raced = history.raced
      /\ history'.revoked = history.revoked /\ history'.spent = history.spent
      /\ history'.twice = history.twice /\ history'.guesses = history.guesses + 1
      /\ history'.burned = history.burned /\ history'.confirmed = history.confirmed
  BY <1>a DEF HistoryType, LoginTotpWrong
<1>3. Tracked'
  BY <1>a, <1>1, <1>2, AccountsBounds DEF Tracked, HistoryType, ChalType, LoginTotpWrong
<1>4. SideType' /\ CountType'
  BY <1>a DEF SideType, CountType, LoginTotpWrong
<1>5. QED
  BY <1>1, <1>2, <1>3, <1>4, ChallengeMoves DEF LoginTotpWrong

\* Time: token and entry age together, and both are gone before another
\* challenge is counted.
LEMMA TimePasses ==
  ASSUME Inv, Tick
  PROVE  Inv'
<1>a. SideType /\ CountType /\ HistoryType /\ ChalType /\ Tracked
  BY DEF Inv
<1>b. SideType' /\ CountType'
  BY <1>a DEF SideType, CountType, Tick
<1>1. CASE Dec(chal.left) = 0 /\ Dec(chal.track) = 0
  <2>1. chal' = NoChallenge /\ history' = [history EXCEPT !.guesses = 0, !.burned = FALSE]
    BY <1>1 DEF Tick
  <2>2. ChalType'
    BY <2>1, AccountsBounds DEF ChalType, NoChallenge
  <2>3. /\ HistoryType' /\ history'.raced = history.raced
        /\ history'.revoked = history.revoked /\ history'.spent = history.spent
        /\ history'.twice = history.twice /\ history'.confirmed = history.confirmed
        /\ history'.guesses = 0 /\ ~history'.burned
    BY <1>a, <2>1 DEF HistoryType
  <2>4. Tracked'
    <3>1. chal'.left = 0 /\ chal'.track = 0
      BY <2>1 DEF NoChallenge
    <3>2. req' = req
      BY DEF Tick
    <3>3. QED
      BY <1>a, <2>3, <3>1, <3>2, AccountsBounds DEF Tracked
  <2>5. QED
    BY <1>b, <2>2, <2>3, <2>4, ChallengeMoves DEF Tick
<1>2. CASE ~(Dec(chal.left) = 0 /\ Dec(chal.track) = 0)
  <2>1. /\ chal' = [chal EXCEPT !.left = Dec(@), !.track = Dec(@)] /\ history' = history
        /\ UNCHANGED <<users, settings, created, sessions, req>>
    BY <1>2 DEF Tick
  <2>2. chal' = [u |-> chal.u, left |-> Dec(chal.left), attempts |-> chal.attempts,
                 track |-> Dec(chal.track)]
    BY <1>a, <2>1 DEF ChalType
  <2>3. /\ Dec(chal.left) \in 0..ChallengeTtl /\ Dec(chal.track) \in 0..TrackTtl
        /\ Dec(chal.left) > 0 => Dec(chal.left) = chal.left - 1
        /\ Dec(chal.track) > 0 => Dec(chal.track) = chal.track - 1
        /\ Dec(chal.track) = 0 => chal.track \in {0, 1}
        /\ Dec(chal.left) = 0 => chal.left \in {0, 1}
    BY <1>a, AccountsBounds DEF ChalType, Dec
  <2>4. ChalType' /\ HistoryType'
    BY <1>a, <2>1, <2>2, <2>3 DEF ChalType, HistoryType
  <2>5. Tracked'
    BY <1>2, <1>a, <2>1, <2>2, <2>3, AccountsBounds DEF Tracked, ChalType, HistoryType
  <2>6. QED
    BY <1>b, <2>1, <2>4, <2>5, ChallengeMoves
<1>3. QED
  BY <1>1, <1>2

\* A step of slot s that changes neither accounts, settings, challenge nor
\* sessions, and at most sets `raced'.
LEMMA LoginGoesOn ==
  ASSUME Inv, NEW s \in Slots, NEW r \in Requests, Sound(r),
         req' = [req EXCEPT ![s] = r],
         UNCHANGED <<users, passkeys, bound, settings, chal, regTok, sessions, count, created>>,
         history' = [history EXCEPT !.raced = Raced(s)], req[s].stale \in BOOLEAN
  PROVE  Inv'
<1>a. /\ SideType /\ CountType /\ HistoryType /\ ReqType /\ Generations
      /\ ChalType /\ Tracked
  BY DEF Inv
<1>1. Raced(s) \in BOOLEAN /\ (history.raced => Raced(s))
  BY <1>a DEF Raced, HistoryType
<1>2. /\ HistoryType' /\ (history.raced => history'.raced)
      /\ history'.revoked = history.revoked /\ history'.spent = history.spent
      /\ history'.twice = history.twice /\ history'.guesses = history.guesses
      /\ history'.burned = history.burned /\ history'.confirmed = history.confirmed
  BY <1>a, <1>1 DEF HistoryType
<1>3. /\ req' \in [Slots -> Requests \cup {Idle}]
      /\ \A t \in Slots : req'[t] = req[t] \/ Sound(req'[t])
  BY <1>a DEF ReqType
<1>4. ChalType' /\ Tracked'
  BY <1>a, <1>2, <1>3, TrackedSame
<1>5. SideType' /\ CountType'
  BY <1>a DEF SideType, CountType
<1>6. sessions' \subseteq Token /\ \A t \in sessions' : Reached(t.u, t.se)
  BY <1>a DEF Generations
<1>7. QED
  BY <1>2, <1>3, <1>4, <1>5, <1>6, RequestStep

\* Signing reads the generation the account has now.
LEMMA TokenSigned ==
  ASSUME Inv, NEW s \in Slots, Sign(s)
  PROVE  Inv'
<1>a. UsersType /\ ReqType
  BY DEF Inv
<1>b. /\ req[s].pc = "sign" /\ req[s] \in Requests /\ req[s].op \in UserOps
      /\ req[s].row \in Row /\ req[s].u \in created /\ req[s].u \in Users
      /\ req[s].op # "update" /\ req[s].stale \in BOOLEAN
  <2>1. req[s].pc = "sign" /\ req[s] \in Requests
    BY <1>a DEF Sign, ReqType, Idle
  <2>2. QED
    BY <1>a, <2>1 DEF ReqType, Shaped, Reading, UsersType, Requests
<1> DEFINE q == req[s]
           e == IF q.u \in DOMAIN users THEN users[q.u].epoch ELSE 0
           w == [q.row EXCEPT !.epoch = e]
           r == [op |-> q.op, u |-> q.u, pc |-> "deliver", row |-> w, stale |-> q.stale,
                 arg |-> q.arg]
<1>1. e \in Nat
  BY <1>a DEF UsersType, Row
<1> HIDE DEF e
<1>2. w \in Row /\ w.epoch = e
  <2>1. w = [admin |-> q.row.admin, disabled |-> q.row.disabled, source |-> q.row.source,
             pw |-> q.row.pw, epoch |-> e, totp |-> q.row.totp, secret |-> q.row.secret,
             codes |-> q.row.codes]
    BY <1>b DEF Row
  <2>2. QED
    BY <1>1, <1>b, <2>1 DEF Row
<1>3. [q EXCEPT !.pc = "deliver", !.row.epoch = e] = r
  <2>1. [q EXCEPT !.pc = "deliver", !.row.epoch = e]
        = [[q EXCEPT !.pc = "deliver"] EXCEPT !.row.epoch = e]
    BY <1>b DEF Requests
  <2> DEFINE q1 == [op |-> q.op, u |-> q.u, pc |-> "deliver", row |-> q.row,
                    stale |-> q.stale, arg |-> q.arg]
  <2>2. [q EXCEPT !.pc = "deliver"] = q1
    BY <1>b DEF Requests
  <2>3. [q EXCEPT !.pc = "deliver", !.row.epoch = e] = [q1 EXCEPT !.row.epoch = e]
    BY <2>1, <2>2
  <2>4. [q1 EXCEPT !.row.epoch = e] = r
    OBVIOUS
  <2>5. QED
    BY <2>3, <2>4
<1>4. req' = [req EXCEPT ![s] = r]
  BY <1>a, <1>3 DEF Sign, ReqType, e
<1> HIDE DEF w
<1>5. r \in Requests
  BY <1>b, <1>2 DEF Requests, Pcs
<1>6. Sound(r)
  <2>1. Shaped(r)
    BY <1>a, <1>b, <1>2 DEF ReqType, Shaped
  <2>2. Signed(r)
    BY <1>a, <1>b, <1>1, <1>2 DEF Signed, Reached, e, UsersType, Row
  <2>3. QED
    BY <2>1, <2>2 DEF Sound, Fresh, AdminKept, WayKept, FactorKept, Offered, Reading
<1>7. QED
  BY <1>b, <1>4, <1>5, <1>6, LoginGoesOn DEF Sign

\* A token that reaches a browser names a generation its account has reached.
LEMMA TokenDelivered ==
  ASSUME Inv, NEW s \in Slots, NEW admin, req[s].pc = "deliver", Deliver(s, admin)
  PROVE  Inv'
<1>a. /\ UsersType /\ SideType /\ CountType /\ HistoryType /\ ReqType /\ Generations
      /\ ChalType /\ Tracked
  BY DEF Inv
<1>b. req[s] \in Requests /\ req[s].op \in UserOps /\ req[s].row \in Row /\ req[s].u \in Users
  BY <1>a DEF ReqType, Shaped, Idle, UsersType
<1>1. [u |-> req[s].u, se |-> req[s].row.epoch] \in Token
  BY <1>b DEF Token, Row
<1>2. Reached(req[s].u, req[s].row.epoch)
  BY <1>a DEF Generations, Signed
<1>3. sessions' \subseteq Token /\ \A t \in sessions' : Reached(t.u, t.se)
  BY <1>a, <1>1, <1>2 DEF Generations, Deliver
<1>4. /\ req' \in [Slots -> Requests \cup {Idle}]
      /\ \A t \in Slots : req'[t] = req[t] \/ Sound(req'[t])
  BY <1>a, IdleSound DEF ReqType, Deliver
<1>5. HistoryType' /\ SideType' /\ CountType' /\ ChalType' /\ Tracked'
  BY <1>a, <1>4, TrackedSame DEF Deliver, HistoryType, SideType, CountType
<1>6. QED
  BY <1>3, <1>4, <1>5, RequestStep DEF Deliver

\* issueForUser reads the account again, or gives up.
LEMMA AccountReadAgain ==
  ASSUME Inv, NEW s \in Slots, IssueForUser(s)
  PROVE  Inv'
<1>a. UsersType /\ ReqType /\ SideType /\ CountType
  BY DEF Inv
<1>b. /\ req[s].pc = "forUser" /\ req[s] \in Requests /\ req[s].op \in UserOps
      /\ req[s].u \in created /\ req[s].op # "update" /\ "sign" \in Pcs
  <2>1. req[s].pc = "forUser" /\ req[s] \in Requests
    BY <1>a DEF IssueForUser, ReqType, Idle
  <2>2. QED
    BY <1>a, <2>1 DEF ReqType, Shaped, Reading, Pcs
<1>c. SideType' /\ CountType'
  BY <1>a DEF SideType, CountType, IssueForUser
<1>1. CASE req[s].u \in DOMAIN users /\ ~users[req[s].u].disabled
  <2> DEFINE r == [Continue(s, "sign") EXCEPT !.row = users[req[s].u]]
  <2>1. users[req[s].u] \in Row
    BY <1>1, <1>a DEF UsersType
  <2>2. /\ r \in Requests /\ r.op = req[s].op /\ r.u = req[s].u /\ r.pc = "sign"
        /\ r.row = users[req[s].u] /\ r.arg = req[s].arg
    BY <1>b, <2>1, ContinuedRow
  <2>3. req' = [req EXCEPT ![s] = r]
    BY <1>1 DEF IssueForUser
  <2> HIDE DEF r
  <2>4. Sound(r)
    <3>1. Shaped(r)
      BY <1>a, <1>b, <2>1, <2>2 DEF ReqType, Shaped
    <3>2. QED
      BY <2>2, <3>1, RestingSound DEF Reading
  <2>5. QED
    BY <1>c, <2>2, <2>3, <2>4, SlotStep DEF IssueForUser
<1>2. CASE ~(req[s].u \in DOMAIN users /\ ~users[req[s].u].disabled)
  <2>1. req' = [req EXCEPT ![s] = Idle]
    BY <1>2 DEF IssueForUser
  <2>2. QED
    BY <1>c, <2>1, IdleSound, SlotStep DEF IssueForUser
<1>3. QED
  BY <1>1, <1>2

\* The SSO callback binds the subject and goes on, or ends.
LEMMA SubjectLinked ==
  ASSUME Inv, NEW s \in Slots, SsoLink(s)
  PROVE  Inv'
<1>a. UsersType /\ ReqType /\ SideType /\ CountType
  BY DEF Inv
<1>b. req[s].pc = "link" /\ req[s] \in Requests /\ req[s].op \in UserOps
      /\ req[s].op # "update" /\ "sign" \in Pcs
  <2>1. req[s].pc = "link" /\ req[s] \in Requests
    BY <1>a DEF SsoLink, ReqType, Idle
  <2>2. QED
    BY <1>a, <2>1 DEF ReqType, Shaped, Reading, Pcs
<1>c. SideType' /\ CountType'
  BY <1>a DEF SideType, CountType, SsoLink
<1> DEFINE r == [req[s] EXCEPT !.pc = "sign"]
<1>1. /\ r \in Requests /\ r.op = req[s].op /\ r.u = req[s].u /\ r.pc = "sign"
      /\ r.row = req[s].row /\ r.arg = req[s].arg
  BY <1>b, Advanced
<1>2. req' = [req EXCEPT ![s] = Idle] \/ req' = [req EXCEPT ![s] = r]
  BY <1>a DEF SsoLink, ReqType
<1> HIDE DEF r
<1>3. Sound(r)
  <2>1. Shaped(r)
    BY <1>a, <1>b, <1>1 DEF ReqType, Shaped
  <2>2. QED
    BY <1>1, <2>1, RestingSound DEF Reading
<1>4. QED
  BY <1>c, <1>1, <1>2, <1>3, IdleSound, SlotStep DEF SsoLink

\* A challenge is burned once a code was accepted.
LEMMA ChallengeBurned ==
  ASSUME Inv, NEW s \in Slots, BurnChallenge(s)
  PROVE  Inv'
<1>a. /\ UsersType /\ SideType /\ CountType /\ HistoryType /\ ReqType /\ Generations
      /\ ChalType /\ Tracked
  BY DEF Inv
<1>b. req[s].pc = "burn" /\ req[s] \in Requests /\ req[s].op \in UserOps
      /\ req[s].op # "update" /\ "sign" \in Pcs
  <2>1. req[s].pc = "burn" /\ req[s] \in Requests
    BY <1>a DEF BurnChallenge, ReqType, Idle
  <2>2. QED
    BY <1>a, <2>1 DEF ReqType, Shaped, Reading, Pcs
<1> DEFINE r == [req[s] EXCEPT !.pc = "sign"]
<1>1. /\ r \in Requests /\ r.op = req[s].op /\ r.u = req[s].u /\ r.pc = "sign"
      /\ r.row = req[s].row /\ r.arg = req[s].arg
  BY <1>b, Advanced
<1>2. req' = [req EXCEPT ![s] = r]
  BY <1>a DEF BurnChallenge, ReqType
<1> HIDE DEF r
<1>3. Sound(r)
  <2>1. Shaped(r)
    BY <1>a, <1>b, <1>1 DEF ReqType, Shaped
  <2>2. QED
    BY <1>1, <2>1, RestingSound DEF Reading
<1>4. /\ req' \in [Slots -> Requests \cup {Idle}]
      /\ \A t \in Slots : req'[t] = req[t] \/ (t = s /\ req'[t] = r)
  BY <1>a, <1>1, <1>2 DEF ReqType
<1>5. chal' = [u |-> chal.u, left |-> chal.left, attempts |-> MaxTotpAttempts, track |-> TrackTtl]
  BY <1>a DEF BurnChallenge, ChalType
<1>6. /\ HistoryType' /\ history'.raced = history.raced
      /\ history'.revoked = history.revoked /\ history'.spent = history.spent
      /\ history'.twice = history.twice /\ history'.guesses = history.guesses
      /\ history'.confirmed = history.confirmed
  BY <1>a DEF HistoryType, BurnChallenge
<1>7. ChalType' /\ SideType' /\ CountType'
  BY <1>a, <1>5, AccountsBounds DEF ChalType, SideType, CountType, BurnChallenge
<1>8. Tracked'
  BY <1>a, <1>1, <1>4, <1>5, <1>6, AccountsBounds DEF Tracked, ChalType, HistoryType
<1>9. sessions' \subseteq Token /\ \A t \in sessions' : Reached(t.u, t.se)
  BY <1>a DEF Generations, BurnChallenge
<1>10. QED
  BY <1>3, <1>4, <1>6, <1>7, <1>8, <1>9, RequestStep DEF BurnChallenge

-----------------------------------------------------------------------------
(* The writes.                                                             *)

\* A write to the row of the request's account.  It keeps the invariant if the
\* administrators, the credentials and the codes come out right, and if it
\* starts a generation when it revokes the sessions of the old one.
LEMMA RowWrite ==
  ASSUME Inv, NEW s \in Slots, req[s].op \in UserOps, NEW r \in Requests \cup {Idle},
         Shaped(r), r.pc \notin Reading \cup {"deliver"}, req' = Written(s, r),
         UNCHANGED <<passkeys, bound, settings, chal, regTok, sessions, count, created>>,
         NEW new,
         users' = IF req[s].u \in DOMAIN users THEN [users EXCEPT ![req[s].u] = new] ELSE users,
         req[s].u \in DOMAIN users => new \in Row /\ users[req[s].u].epoch <= new.epoch,
         HistoryType', history'.confirmed = history.confirmed,
         history'.guesses = history.guesses, history'.burned = history.burned,
         history.raced => history'.raced,
         \/ history'.revoked = history.revoked
         \/ /\ history'.revoked = history.revoked \cup {t \in sessions : t.u = req[s].u}
            /\ req[s].u \in DOMAIN users => users[req[s].u].epoch < new.epoch,
         \/ ActiveAdmins' = ActiveAdmins
         \/ req[s].op \in AdminOps /\ (history'.raced \/ ActiveAdmins' # {}),
         CredentialsFit',
         \/ history'.raced
         \/ /\ ~history'.twice
            /\ \A u \in DOMAIN users' : \A c \in users'[u].codes : <<u, c>> \notin history'.spent
  PROVE  Inv'
<1>a. /\ UsersType /\ SideType /\ SettingsType /\ HistoryType /\ Generations /\ Admins /\ Ways
  BY DEF Inv
<1>b. /\ DOMAIN users' = DOMAIN users
      /\ \A x \in DOMAIN users : users'[x] = IF x = req[s].u THEN new ELSE users[x]
  BY <1>a DEF UsersType
<1>1. UsersType' /\ SideType' /\ SettingsType'
  BY <1>a, <1>b DEF UsersType, SideType, SettingsType
<1>2. \A x \in DOMAIN users' :
        /\ x \in DOMAIN users /\ (x # req[s].u => users'[x] = users[x])
        /\ users[x].epoch <= users'[x].epoch
  BY <1>a, <1>b DEF UsersType, Row
<1>3. /\ ChalType' /\ CountType' /\ ReqType' /\ FreshReads' /\ Tracked'
      /\ \A t \in sessions : Reached(t.u, t.se)'
      /\ \A t \in Slots : Signed(req[t])'
      /\ \A t \in history.revoked : Reached(t.u, t.se + 1)'
      /\ \A t \in Slots : Offered(req[t])'
      /\ (history.raced \/ \A t \in Slots : FactorKept(req[t]))'
      /\ ActiveAdmins' = ActiveAdmins \/ req[s].op \in AdminOps =>
           (history.raced \/ \A t \in Slots : AdminKept(req[t]))'
      /\ settings' = settings \/ req[s].op \in SettingsOps =>
           (history.raced \/ \A t \in Slots : WayKept(req[t]))'
  BY <1>1, <1>2, <1>b, WriteKeeps
<1>4. Generations'
  <2>1. \A t \in history'.revoked : Reached(t.u, t.se + 1)'
    <3> SUFFICES ASSUME NEW t \in history'.revoked, t \notin history.revoked
                 PROVE  Reached(t.u, t.se + 1)'
      BY <1>3
    <3>1. /\ t \in sessions /\ t.u = req[s].u /\ t.se \in Nat /\ Reached(t.u, t.se)
          /\ req[s].u \in DOMAIN users => users[req[s].u].epoch < new.epoch
      BY <1>a DEF Generations, Token
    <3>2. QED
      BY <1>a, <1>b, <3>1 DEF Reached, UsersType, Row
  <2>2. QED
    BY <1>a, <1>3, <2>1 DEF Generations
<1>5. Admins' /\ Ways' /\ Factors' /\ Recovery'
  BY <1>a, <1>3 DEF Admins, Ways, Factors, Recovery, HasUsableSso
<1>6. QED
  BY <1>1, <1>3, <1>4, <1>5 DEF Inv

\* What a request that is about to write knows of its account.
LEMMA Writing ==
  ASSUME Inv, NEW s \in Slots, req[s].pc \in Reading, req[s].op \in UserOps
  PROVE  /\ req[s] \in Requests /\ req[s].row \in Row /\ req[s].stale \in BOOLEAN
         /\ req[s].u \in Users /\ Raced(s) \in BOOLEAN /\ (history.raced => Raced(s))
         /\ req[s].u \in DOMAIN users => users[req[s].u] \in Row
         /\ ~Raced(s) =>
              /\ ~req[s].stale /\ ~history.raced
              /\ req[s].u \in DOMAIN users /\ users[req[s].u] = req[s].row
              /\ AdminKept(req[s]) /\ FactorKept(req[s])
<1>a. UsersType /\ HistoryType /\ ReqType /\ FreshReads /\ Admins /\ Factors
  BY DEF Inv
<1>1. req[s] \in Requests
  BY <1>a DEF ReqType, Idle, Reading
<1>2. req[s].row \in Row /\ req[s].u \in Users /\ req[s].stale \in BOOLEAN
  BY <1>a, <1>1 DEF ReqType, Shaped, UsersType, Requests, Reading
<1>3. Raced(s) \in BOOLEAN /\ (history.raced => Raced(s))
      /\ (~Raced(s) => ~req[s].stale /\ ~history.raced)
  BY <1>a, <1>2 DEF Raced, HistoryType
<1>4. QED
  BY <1>a, <1>1, <1>2, <1>3 DEF UsersType, FreshReads, Fresh, Admins, Factors

\* The credentials still fit if those of the account written do.
LEMMA FitKept ==
  ASSUME CredentialsFit, NEW u, DOMAIN users' = DOMAIN users,
         \A x \in DOMAIN users : x # u => users'[x] = users[x],
         history'.confirmed = history.confirmed, ~history'.raced => ~history.raced,
         u \in DOMAIN users /\ ~history'.raced =>
           /\ users'[u].totp => users'[u].source = "local"
                                /\ users'[u].secret \in history.confirmed
           /\ users'[u].pw = (users'[u].source = "local")
  PROVE  CredentialsFit'
<1> SUFFICES ASSUME ~history'.raced, NEW x \in DOMAIN users'
             PROVE  /\ users'[x].totp => users'[x].source = "local"
                                         /\ users'[x].secret \in history'.confirmed
                    /\ users'[x].pw = (users'[x].source = "local")
  BY DEF CredentialsFit
<1>1. CASE x # u
  BY <1>1 DEF CredentialsFit
<1>2. CASE x = u
  BY <1>2
<1>3. QED
  BY <1>1, <1>2

\* What a write notes for the properties.
Noted(raced, revoked, spent, twice) ==
  [raced |-> raced, revoked |-> revoked, confirmed |-> history.confirmed, spent |-> spent,
   twice |-> twice, guesses |-> history.guesses, burned |-> history.burned]

\* The histories the writes leave, field by field.
LEMMA NotedRaced ==
  ASSUME HistoryType, NEW v \in BOOLEAN
  PROVE  [history EXCEPT !.raced = v] = Noted(v, history.revoked, history.spent, history.twice)
  BY DEF HistoryType, Noted

\* A write that revokes sessions.
LEMMA NotedRevoked ==
  ASSUME HistoryType, NEW v \in BOOLEAN, NEW R
  PROVE  [[history EXCEPT !.revoked = R] EXCEPT !.raced = v] =
           Noted(v, R, history.spent, history.twice)
<1> DEFINE h == [raced |-> history.raced, revoked |-> R, confirmed |-> history.confirmed,
                 spent |-> history.spent, twice |-> history.twice,
                 guesses |-> history.guesses, burned |-> history.burned]
<1>1. [history EXCEPT !.revoked = R] = h
  BY DEF HistoryType
<1>2. [h EXCEPT !.raced = v] = Noted(v, R, history.spent, history.twice)
  BY DEF Noted
<1>3. QED
  BY <1>1, <1>2, Zenon

\* A write that forgets or spends recovery codes.
LEMMA NotedSpent ==
  ASSUME HistoryType, NEW v \in BOOLEAN, NEW X, NEW w \in BOOLEAN
  PROVE  /\ [history EXCEPT !.raced = v, !.spent = X] =
              Noted(v, history.revoked, X, history.twice)
         /\ [history EXCEPT !.raced = v, !.twice = w, !.spent = X] =
              Noted(v, history.revoked, X, w)
<1> DEFINE h1 == Noted(v, history.revoked, history.spent, history.twice)
           h2 == Noted(v, history.revoked, history.spent, w)
<1>1. [history EXCEPT !.raced = v] = h1
  BY NotedRaced
<1>2. [history EXCEPT !.raced = v, !.spent = X] =
          [[history EXCEPT !.raced = v] EXCEPT !.spent = X]
  BY DEF HistoryType
<1>3. [h1 EXCEPT !.spent = X] = Noted(v, history.revoked, X, history.twice)
  BY DEF Noted
<1>4. [history EXCEPT !.raced = v, !.twice = w, !.spent = X] =
          [[[history EXCEPT !.raced = v] EXCEPT !.twice = w] EXCEPT !.spent = X]
  BY DEF HistoryType
<1>5. [h1 EXCEPT !.twice = w] = h2
  BY DEF Noted
<1>6. [h2 EXCEPT !.spent = X] = Noted(v, history.revoked, X, w)
  BY DEF Noted
<1>7. QED
  BY <1>1, <1>2, <1>3, <1>4, <1>5, <1>6, Zenon

\* Such a history has the type of a history, and only these fields move.
LEMMA NotedType ==
  ASSUME HistoryType, NEW v \in BOOLEAN, NEW R \in SUBSET Token,
         NEW X \in SUBSET (Users \X Codes), NEW w \in BOOLEAN,
         history' = Noted(v, R, X, w)
  PROVE  /\ HistoryType' /\ history'.confirmed = history.confirmed
         /\ history'.guesses = history.guesses /\ history'.burned = history.burned
         /\ history'.raced = v /\ history'.revoked = R /\ history'.spent = X
         /\ history'.twice = w
  BY DEF HistoryType, Noted

\* A change of password starts a generation.
LEMMA PasswordWritten ==
  ASSUME Inv, NEW s \in Slots, ChangePasswordWrite(s)
  PROVE  Inv'
<1>a. UsersType /\ HistoryType /\ ReqType /\ Factors /\ Recovery /\ Generations
  BY DEF Inv
<1>b. req[s].pc \in Reading /\ req[s].op = "changePw" /\ req[s].op \in UserOps /\ "forUser" \in Pcs
  BY DEF ChangePasswordWrite, Reading, UserOps, Pcs
<1>c. /\ req[s] \in Requests /\ req[s].row \in Row /\ req[s].u \in Users
      /\ Raced(s) \in BOOLEAN /\ (history.raced => Raced(s))
      /\ req[s].u \in DOMAIN users => users[req[s].u] \in Row
      /\ ~Raced(s) => req[s].u \in DOMAIN users /\ req[s].row.source = "local"
                      /\ users[req[s].u] = req[s].row
  BY <1>b, Writing DEF FactorKept
<1> DEFINE r == Continue(s, "forUser")
           u == req[s].u
           now == users[u]
           new == [now EXCEPT !.pw = TRUE, !.epoch = @ + 1]
<1>1. /\ r \in Requests /\ r.op = "changePw" /\ r.u = u /\ r.pc = "forUser"
      /\ r.row = req[s].row
  <2>1. /\ Continue(s, "forUser") \in Requests
        /\ Continue(s, "forUser").op = req[s].op /\ Continue(s, "forUser").u = req[s].u
        /\ Continue(s, "forUser").pc = "forUser" /\ Continue(s, "forUser").row = req[s].row
    BY <1>b, <1>c, Continued
  <2>2. QED
    BY <1>b, <2>1
<1>d. req' = Written(s, r)
  BY DEF ChangePasswordWrite
<1> HIDE DEF r
<1>2. Shaped(r) /\ r.pc \notin Reading \cup {"deliver"}
  BY <1>a, <1>b, <1>c, <1>1 DEF ReqType, Shaped, Reading
<1>3. ASSUME u \in DOMAIN users
      PROVE  /\ new = [admin |-> now.admin, disabled |-> now.disabled, source |-> now.source,
                       pw |-> TRUE, epoch |-> now.epoch + 1, totp |-> now.totp,
                       secret |-> now.secret, codes |-> now.codes]
             /\ new \in Row
  <2> DEFINE q(v) == [admin |-> now.admin, disabled |-> now.disabled, source |-> now.source,
                      pw |-> v, epoch |-> now.epoch + 1, totp |-> now.totp,
                      secret |-> now.secret, codes |-> now.codes]
             q1(v) == [admin |-> now.admin, disabled |-> now.disabled, source |-> now.source,
                      pw |-> v, epoch |-> now.epoch, totp |-> now.totp,
                      secret |-> now.secret, codes |-> now.codes]
  <2>1. now \in Row
    BY <1>3, <1>c
  <2> HIDE DEF now
  <2>2. \A v \in BOOLEAN : [now EXCEPT !.pw = v, !.epoch = @ + 1] = q(v) /\ q(v) \in Row
    <3> TAKE v \in BOOLEAN
    <3>1. [now EXCEPT !.pw = v, !.epoch = @ + 1] = [[now EXCEPT !.pw = v] EXCEPT !.epoch = @ + 1]
      BY <2>1 DEF Row
    <3>2. [now EXCEPT !.pw = v] = q1(v)
      BY <2>1 DEF Row
    <3>3. [q1(v) EXCEPT !.epoch = @ + 1] = q(v)
      OBVIOUS
    <3>4. q(v) \in Row
      BY <2>1 DEF Row
    <3>5. QED
      BY <3>1, <3>2, <3>3, <3>4, Zenon
  <2>3. QED
    BY <2>2, Zenon
<1>4. users' = IF u \in DOMAIN users THEN [users EXCEPT ![u] = new] ELSE users
  BY <1>a DEF ChangePasswordWrite, UsersType
<1>5. /\ HistoryType' /\ history'.confirmed = history.confirmed
      /\ history'.guesses = history.guesses /\ history'.burned = history.burned
      /\ history'.spent = history.spent /\ history'.twice = history.twice
      /\ history.raced => history'.raced
      /\ ~history'.raced => ~history.raced
      /\ u \in DOMAIN users =>
           /\ history'.revoked = history.revoked \cup {t \in sessions : t.u = u}
           /\ history'.raced = Raced(s)
      /\ u \notin DOMAIN users => history'.revoked = history.revoked /\ Raced(s)
  <2>1. CASE u \in DOMAIN users
    <3> DEFINE R == history.revoked \cup {t \in sessions : t.u = u}
    <3>1. history' = [[history EXCEPT !.revoked = R] EXCEPT !.raced = Raced(s)]
      BY <2>1, <1>a DEF ChangePasswordWrite, Revoke, HistoryType
    <3>2. /\ R \in SUBSET Token /\ history.spent \in SUBSET (Users \X Codes)
          /\ history.twice \in BOOLEAN
      BY <1>a DEF HistoryType, Generations
    <3> HIDE DEF R
    <3>3. history' = Noted(Raced(s), R, history.spent, history.twice)
      BY <1>a, <1>c, <3>1, <3>2, NotedRevoked
    <3>4. QED
      BY <1>a, <1>c, <2>1, <3>2, <3>3, NotedType DEF R
  <2>2. CASE u \notin DOMAIN users
    BY <2>2, <1>a, <1>c DEF ChangePasswordWrite, HistoryType
  <2>3. QED
    BY <2>1, <2>2
<1>6. /\ DOMAIN users' = DOMAIN users
      /\ \A x \in DOMAIN users : users'[x] = IF x = u THEN new ELSE users[x]
  BY <1>4, <1>a DEF UsersType
<1>7. /\ u \in DOMAIN users =>
           /\ new.admin = now.admin /\ new.disabled = now.disabled /\ new.source = now.source
           /\ new.epoch = now.epoch + 1 /\ new.codes = now.codes /\ new.totp = now.totp
           /\ new.secret = now.secret /\ new.pw /\ new \in Row /\ now.epoch \in Nat
  BY <1>3, <1>c DEF Row
<1> HIDE DEF new, now
<1>8. ActiveAdmins' = ActiveAdmins
  BY <1>6, <1>7 DEF ActiveAdmins, now
<1>9. CredentialsFit'
  <2>1. ASSUME u \in DOMAIN users, ~history'.raced
        PROVE  /\ new.totp => new.source = "local" /\ new.secret \in history.confirmed
               /\ new.pw = (new.source = "local")
    <3>1. now.totp => now.secret \in history.confirmed
      BY <1>a, <1>5, <2>1 DEF Factors, CredentialsFit, now
    <3>2. new.source = "local" /\ new.pw \in BOOLEAN
      BY <1>c, <1>5, <1>7, <2>1 DEF now, Row
    <3>3. QED
      BY <1>7, <2>1, <3>1, <3>2
  <2>2. u \in DOMAIN users => users'[u] = new
    BY <1>6
  <2>3. QED
    BY <1>a, <1>5, <1>6, <2>1, <2>2, FitKept DEF Factors
<1>10. \/ history'.raced
       \/ /\ ~history'.twice
          /\ \A x \in DOMAIN users' : \A c \in users'[x].codes : <<x, c>> \notin history'.spent
  BY <1>a, <1>5, <1>6, <1>7 DEF Recovery, now
<1>11. UNCHANGED <<passkeys, bound, settings, chal, regTok, sessions, count, created>>
  BY DEF ChangePasswordWrite
<1>12. /\ u \in DOMAIN users => new \in Row /\ users[u].epoch <= new.epoch
                                /\ users[u].epoch < new.epoch
  BY <1>7 DEF now
<1>13. QED
  BY <1>b, <1>d, <1>1, <1>2, <1>4, <1>5, <1>8, <1>9, <1>10, <1>11, <1>12, RowWrite


\* A recovery code is taken from the codes the request read.
LEMMA CodeVerified ==
  ASSUME Inv, NEW s \in Slots, LoginTotpVerify(s)
  PROVE  Inv'
<1>a. /\ UsersType /\ HistoryType /\ ReqType /\ Factors /\ Recovery /\ Generations
      /\ SideType /\ CountType
  BY DEF Inv
<1>b. /\ req[s].pc = "verify" /\ req[s].pc \in Reading /\ req[s].op = "loginTotp"
      /\ req[s].op \in UserOps /\ "burn" \in Pcs
  BY DEF LoginTotpVerify, Reading, UserOps, Pcs
<1>c. /\ req[s] \in Requests /\ req[s].row \in Row /\ req[s].u \in Users
      /\ Raced(s) \in BOOLEAN /\ (history.raced => Raced(s))
      /\ req[s].u \in DOMAIN users => users[req[s].u] \in Row
      /\ ~Raced(s) => req[s].u \in DOMAIN users /\ users[req[s].u] = req[s].row
  BY <1>b, Writing
<1>d. /\ req[s].arg \in Guesses /\ req[s].arg.code \in req[s].row.codes \cup {"totp"}
      /\ req[s].row.codes \in SUBSET Codes
  BY <1>a, <1>b, <1>c DEF ReqType, Shaped, Recovery, Offered, Row
<1> DEFINE r == [req[s] EXCEPT !.pc = "burn"]
           u == req[s].u
           now == users[u]
           code == req[s].arg.code
           new == [now EXCEPT !.codes = req[s].row.codes \ {code}]
<1>1. /\ r \in Requests /\ r.op = "loginTotp" /\ r.u = u /\ r.pc = "burn"
      /\ r.row = req[s].row /\ r.arg = req[s].arg
  BY <1>b, <1>c, Advanced
<1>e. code = "totp" => req' = [req EXCEPT ![s] = r]
  BY <1>a DEF LoginTotpVerify, ReqType
<1>f. code # "totp" => req' = Written(s, r)
  BY DEF LoginTotpVerify
<1> HIDE DEF r
<1>2. Shaped(r) /\ r.pc \notin Reading \cup {"deliver"}
  BY <1>a, <1>b, <1>c, <1>1 DEF ReqType, Shaped, Reading
<1>3. CASE code = "totp"
  <2>1. /\ UNCHANGED <<users, history, passkeys, bound, settings, chal, regTok, sessions, count,
                       created>>
    BY <1>3 DEF LoginTotpVerify
  <2>2. SideType' /\ CountType'
    BY <1>a, <2>1 DEF SideType, CountType
  <2>3. QED
    BY <1>1, <1>2, <1>3, <1>e, <2>1, <2>2, RestingSound, SlotStep
<1>4. CASE code # "totp"
  <2>1. users' = IF u \in DOMAIN users THEN [users EXCEPT ![u] = new] ELSE users
    BY <1>4, <1>a DEF LoginTotpVerify, UsersType
  <2>2. u \in DOMAIN users =>
           /\ new.admin = now.admin /\ new.disabled = now.disabled /\ new.source = now.source
           /\ new.epoch = now.epoch /\ new.codes = req[s].row.codes \ {code}
           /\ new.totp = now.totp /\ new.secret = now.secret /\ new.pw = now.pw
           /\ new \in Row /\ now.epoch \in Nat
    BY <1>c, <1>d DEF Row
  <2>3. /\ DOMAIN users' = DOMAIN users
        /\ \A x \in DOMAIN users : users'[x] = IF x = u THEN new ELSE users[x]
    BY <2>1, <1>a DEF UsersType
  <2> HIDE DEF new, now
  <2> DEFINE X == history.spent \cup {<<u, code>>}
             w == history.twice \/ <<u, code>> \in history.spent
  <2>4. /\ X \in SUBSET (Users \X Codes) /\ w \in BOOLEAN
        /\ history.revoked \in SUBSET Token
    BY <1>4, <1>a, <1>c, <1>d DEF HistoryType
  <2>5. history' = [history EXCEPT !.raced = Raced(s), !.twice = w, !.spent = X]
    <3>1. history' = [history EXCEPT !.raced = Raced(s),
                           !.twice = @ \/ <<u, code>> \in history.spent,
                           !.spent = @ \cup {<<u, code>>}]
      BY <1>4 DEF LoginTotpVerify
    <3>2. QED
      BY <1>a, <3>1 DEF HistoryType
  <2> HIDE DEF X, w
  <2>6. history' = Noted(Raced(s), history.revoked, X, w)
    BY <1>a, <1>c, <2>4, <2>5, NotedSpent
  <2>7. /\ HistoryType' /\ history'.confirmed = history.confirmed
        /\ history'.guesses = history.guesses /\ history'.burned = history.burned
        /\ history'.raced = Raced(s) /\ history'.revoked = history.revoked
        /\ history'.spent = X /\ history'.twice = w
    BY <1>a, <1>c, <2>4, <2>6, NotedType
  <2>8. ActiveAdmins' = ActiveAdmins
    BY <2>2, <2>3 DEF ActiveAdmins, now
  <2>9. CredentialsFit'
    <3>1. ASSUME u \in DOMAIN users, ~history'.raced
          PROVE  /\ new.totp => new.source = "local" /\ new.secret \in history.confirmed
                 /\ new.pw = (new.source = "local")
      BY <1>a, <1>c, <2>2, <2>7, <3>1 DEF Factors, CredentialsFit, now
    <3>2. ~history'.raced => ~history.raced
      BY <1>c, <2>7
    <3>3. u \in DOMAIN users => users'[u] = new
      BY <2>3
    <3>4. QED
      BY <1>a, <2>3, <2>7, <3>1, <3>2, <3>3, FitKept DEF Factors
  <2>10. \/ history'.raced
         \/ /\ ~history'.twice
            /\ \A x \in DOMAIN users' : \A c \in users'[x].codes : <<x, c>> \notin history'.spent
    <3> SUFFICES ASSUME ~Raced(s)
                 PROVE  /\ ~w
                        /\ \A x \in DOMAIN users' : \A c \in users'[x].codes : <<x, c>> \notin X
      BY <2>7
    <3>1. /\ ~history.raced /\ u \in DOMAIN users /\ now = req[s].row
          /\ code \in now.codes
      BY <1>4, <1>c, <1>d DEF now
    <3>2. /\ ~history.twice /\ <<u, code>> \notin history.spent
          /\ \A x \in DOMAIN users : \A c \in users[x].codes : <<x, c>> \notin history.spent
      BY <1>a, <3>1 DEF Recovery, now
    <3>3. ASSUME NEW x \in DOMAIN users, NEW c \in users'[x].codes
          PROVE  c \in users[x].codes /\ (x = u => c # code)
      BY <2>2, <2>3, <3>1, <3>3 DEF now
    <3>4. ASSUME NEW x \in DOMAIN users, NEW c \in users'[x].codes
          PROVE  <<x, c>> \notin X
      <4>1. <<x, c>> # <<u, code>>
        BY <3>3, <3>4
      <4>2. QED
        BY <3>2, <3>3, <3>4, <4>1 DEF X
    <3>5. QED
      BY <2>3, <3>2, <3>4 DEF w
  <2>11. UNCHANGED <<passkeys, bound, settings, chal, regTok, sessions, count, created>>
    BY DEF LoginTotpVerify
  <2>12. u \in DOMAIN users => new \in Row /\ users[u].epoch <= new.epoch
    BY <2>2 DEF now
  <2>13. QED
    BY <1>4, <1>b, <1>c, <1>f, <1>1, <1>2, <2>1, <2>7, <2>8, <2>9, <2>10, <2>11, <2>12, RowWrite
<1>5. QED
  BY <1>3, <1>4

\* A TOTP request writes the second factor of its account and nothing else.
LEMMA FactorWritten ==
  ASSUME Inv, NEW s \in Slots, NEW op \in {"setup", "enable", "disable"}, NEW row,
         TotpUpdate(s, op, row),
         req[s].u \in DOMAIN users =>
           /\ row \in Row /\ row.admin = users[req[s].u].admin
           /\ row.disabled = users[req[s].u].disabled /\ row.source = users[req[s].u].source
           /\ row.pw = users[req[s].u].pw /\ row.epoch = users[req[s].u].epoch
           /\ op = "enable" \/ row.codes \subseteq users[req[s].u].codes,
         ~Raced(s) => (row.totp => row.source = "local" /\ row.secret \in history.confirmed)
  PROVE  Inv'
<1>a. /\ UsersType /\ HistoryType /\ ReqType /\ Factors /\ Recovery /\ Generations
  BY DEF Inv
<1>b. /\ req[s].pc \in Reading /\ req[s].op = op /\ req[s].op \in UserOps
  BY DEF TotpUpdate, Reading, UserOps
<1> DEFINE u == req[s].u
           X == IF op = "enable" THEN {x \in history.spent : x[1] # u} ELSE history.spent
<1>c. /\ Raced(s) \in BOOLEAN /\ (history.raced => Raced(s))
      /\ u \in DOMAIN users => users[u] \in Row
      /\ ~Raced(s) => ~history.raced /\ u \in DOMAIN users
  BY <1>b, Writing
<1>1. users' = IF u \in DOMAIN users THEN [users EXCEPT ![u] = row] ELSE users
  BY DEF TotpUpdate
<1>2. /\ DOMAIN users' = DOMAIN users
      /\ \A x \in DOMAIN users : users'[x] = IF x = u THEN row ELSE users[x]
  BY <1>1, <1>a DEF UsersType
<1>3. history' = [history EXCEPT !.raced = Raced(s), !.spent = X]
  <2>1. history' = [history EXCEPT !.raced = Raced(s),
                   !.spent = IF op = "enable" THEN {x \in @ : x[1] # u} ELSE @]
    BY DEF TotpUpdate
  <2>2. QED
    BY <1>a, <2>1 DEF HistoryType
<1>4. /\ X \in SUBSET (Users \X Codes) /\ X \subseteq history.spent
      /\ history.revoked \in SUBSET Token /\ history.twice \in BOOLEAN
  BY <1>a DEF HistoryType
<1>d. op = "enable" => \A c : <<u, c>> \notin X
  <2>1. \A c : <<u, c>>[1] = u
    OBVIOUS
  <2>2. QED
    BY <2>1
<1> HIDE DEF X
<1>5. history' = Noted(Raced(s), history.revoked, X, history.twice)
  BY <1>a, <1>c, <1>3, <1>4, NotedSpent
<1>6. /\ HistoryType' /\ history'.confirmed = history.confirmed
      /\ history'.guesses = history.guesses /\ history'.burned = history.burned
      /\ history'.raced = Raced(s) /\ history'.revoked = history.revoked
      /\ history'.spent = X /\ history'.twice = history.twice
  BY <1>a, <1>c, <1>4, <1>5, NotedType
<1>7. ActiveAdmins' = ActiveAdmins
  BY <1>2 DEF ActiveAdmins
<1>8. CredentialsFit'
  <2>1. ~history'.raced => ~history.raced
    BY <1>c, <1>6
  <2>2. ASSUME u \in DOMAIN users, ~history'.raced
        PROVE  /\ users'[u].totp => users'[u].source = "local"
                                    /\ users'[u].secret \in history.confirmed
               /\ users'[u].pw = (users'[u].source = "local")
    <3>1. users[u].pw = (users[u].source = "local")
      BY <1>a, <2>1, <2>2 DEF Factors, CredentialsFit
    <3>2. users'[u] = row
      BY <1>2, <2>2
    <3>3. row.totp => row.source = "local" /\ row.secret \in history.confirmed
      BY <1>6, <2>2
    <3>4. QED
      BY <2>2, <3>1, <3>2, <3>3
  <2>3. QED
    BY <1>a, <1>2, <1>6, <2>1, <2>2, FitKept DEF Factors
<1>9. \/ history'.raced
      \/ /\ ~history'.twice
         /\ \A x \in DOMAIN users' : \A c \in users'[x].codes : <<x, c>> \notin history'.spent
  <2> SUFFICES ASSUME ~Raced(s)
               PROVE  /\ ~history.twice
                      /\ \A x \in DOMAIN users' : \A c \in users'[x].codes : <<x, c>> \notin X
    BY <1>6
  <2>1. /\ ~history.twice
        /\ \A x \in DOMAIN users : \A c \in users[x].codes : <<x, c>> \notin X
    BY <1>a, <1>c, <1>4 DEF Recovery
  <2>2. QED
    BY <1>2, <1>d, <2>1
<1>10. /\ UNCHANGED <<passkeys, bound, settings, chal, regTok, sessions, count, created>>
       /\ req' = Written(s, Idle)
  BY DEF TotpUpdate
<1>11. u \in DOMAIN users => row \in Row /\ users[u].epoch <= row.epoch
  BY <1>c DEF Row
<1>12. Shaped(Idle) /\ Idle.pc \notin Reading \cup {"deliver"}
  BY DEF Idle, Shaped, Reading
<1>13. history.raced => history'.raced
  BY <1>c, <1>6
<1>14. QED
  BY <1>b, <1>1, <1>6, <1>7, <1>8, <1>9, <1>10, <1>11, <1>12, <1>13, RowWrite

\* The three TOTP writes: a secret only while TOTP is off, TOTP on only for a
\* local account and a secret that was confirmed, or all of it off.
LEMMA TotpWrites ==
  ASSUME Inv, NEW s \in Slots,
         TotpSetupWrite(s) \/ TotpEnableWrite(s) \/ TotpDisableWrite(s)
  PROVE  Inv'
<1>a. UsersType /\ ReqType
  BY DEF Inv
<1> DEFINE u == req[s].u
           now == users[u]
<1>b. ASSUME req[s].pc = "write", req[s].op \in {"setup", "enable", "disable"}
      PROVE  /\ u \in DOMAIN users => now \in Row
             /\ ~Raced(s) => u \in DOMAIN users /\ now = req[s].row /\ FactorKept(req[s])
                             /\ ~req[s].stale
  BY <1>b, Writing DEF Reading, UserOps
<1>1. ASSUME TotpSetupWrite(s)
      PROVE  Inv'
  <2> DEFINE row == [now EXCEPT !.secret = req[s].arg]
  <2>1. /\ req[s].pc = "write" /\ req[s].op = "setup" /\ TotpUpdate(s, "setup", row)
        /\ req[s].arg \in Nat
    BY <1>1, <1>a DEF TotpSetupWrite, TotpUpdate, ReqType, Shaped
  <2>2. u \in DOMAIN users =>
          /\ row \in Row /\ row.admin = now.admin /\ row.disabled = now.disabled
          /\ row.source = now.source /\ row.pw = now.pw /\ row.epoch = now.epoch
          /\ row.codes = now.codes /\ row.totp = now.totp
    BY <1>b, <2>1 DEF Row
  <2>3. ~Raced(s) => ~row.totp
    BY <1>b, <2>1, <2>2 DEF FactorKept, Reading
  <2> HIDE DEF row
  <2>4. QED
    BY <2>1, <2>2, <2>3, FactorWritten
<1>2. ASSUME TotpEnableWrite(s)
      PROVE  Inv'
  <2> DEFINE row == [now EXCEPT !.totp = TRUE, !.codes = Codes]
  <2>1. req[s].pc = "write" /\ req[s].op = "enable" /\ TotpUpdate(s, "enable", row)
    BY <1>2 DEF TotpEnableWrite, TotpUpdate
  <2>2. u \in DOMAIN users =>
          /\ row \in Row /\ row.admin = now.admin /\ row.disabled = now.disabled
          /\ row.source = now.source /\ row.pw = now.pw /\ row.epoch = now.epoch
          /\ row.secret = now.secret
    BY <1>b, <2>1 DEF Row
  <2>3. ~Raced(s) => row.source = "local" /\ row.secret \in history.confirmed
    BY <1>b, <2>1, <2>2 DEF FactorKept, Reading
  <2> HIDE DEF row
  <2>4. QED
    BY <2>1, <2>2, <2>3, FactorWritten
<1>3. ASSUME TotpDisableWrite(s)
      PROVE  Inv'
  <2> DEFINE row == [now EXCEPT !.totp = FALSE, !.secret = 0, !.codes = {}]
  <2>1. req[s].pc = "write" /\ req[s].op = "disable" /\ TotpUpdate(s, "disable", row)
    BY <1>3 DEF TotpDisableWrite, TotpUpdate
  <2>2. u \in DOMAIN users =>
          /\ row \in Row /\ row.admin = now.admin /\ row.disabled = now.disabled
          /\ row.source = now.source /\ row.pw = now.pw /\ row.epoch = now.epoch
          /\ row.codes = {} /\ ~row.totp
    BY <1>b, <2>1 DEF Row
  <2>3. ~Raced(s) => ~row.totp
    BY <1>b, <2>1, <2>2
  <2> HIDE DEF row
  <2>4. QED
    BY <2>1, <2>2, <2>3, FactorWritten
<1>4. QED
  BY <1>1, <1>2, <1>3

\* The fields of an update request have the types of the columns.
LEMMA DtoFields ==
  ASSUME NEW dto \in Dtos
  PROVE  /\ Has(dto, "admin") => dto.admin \in BOOLEAN
         /\ Has(dto, "disabled") => dto.disabled \in BOOLEAN
         /\ Has(dto, "source") => dto.source \in {"local", "sso"}
<1>1. CASE dto = [admin |-> FALSE]
  BY <1>1 DEF Has
<1>2. CASE dto = [disabled |-> TRUE]
  BY <1>2 DEF Has
<1>3. CASE dto = [disabled |-> FALSE]
  BY <1>3 DEF Has
<1>4. CASE dto = [pw |-> TRUE]
  BY <1>4 DEF Has
<1>5. CASE dto = [source |-> "sso"]
  BY <1>5 DEF Has
<1>6. CASE dto = [source |-> "local", pw |-> TRUE]
  BY <1>6 DEF Has
<1>7. CASE dto = [source |-> "sso", pw |-> TRUE]
  BY <1>7 DEF Has
<1>8. QED
  BY <1>1, <1>2, <1>3, <1>4, <1>5, <1>6, <1>7 DEF Dtos

\* What the UPDATE of a request makes of a row: an account that moves to SSO
\* loses its local credentials, and a change of source or password starts a
\* generation.
LEMMA PatchedRow ==
  ASSUME NEW now \in Row, NEW row \in Row, NEW dto \in Dtos, NEW p,
         p = Patched(now, row, dto)
  PROVE  /\ p \in Row
         /\ p.admin = (IF Has(dto, "admin") THEN dto.admin ELSE now.admin)
         /\ p.disabled = (IF Has(dto, "disabled") THEN dto.disabled ELSE now.disabled)
         /\ ToSso(row, dto) => p.source = "sso" /\ ~p.pw /\ ~p.totp /\ p.codes = {}
         /\ ToLocal(row, dto) => p.source = "local"
         /\ ~ToSso(row, dto) /\ ~ToLocal(row, dto) => p.source = now.source
         /\ ~ToSso(row, dto) => /\ p.pw <=> now.pw \/ Has(dto, "pw")
                      /\ p.totp = now.totp /\ p.codes = now.codes /\ p.secret = now.secret
         /\ now.epoch <= p.epoch
         /\ Has(dto, "pw") \/ p.source # now.source => now.epoch < p.epoch
<1> DEFINE switched == WillBeLocal(row, dto) # (row.source = "local")
<1>0. /\ WillBeLocal(row, dto) \in BOOLEAN /\ Has(dto, "pw") \in BOOLEAN
      /\ switched <=> ToSso(row, dto) \/ ToLocal(row, dto)
      /\ ToSso(row, dto) \in BOOLEAN
  <2>1. WillBeLocal(row, dto) \in BOOLEAN
    <3>1. CASE Has(dto, "source")
      BY <3>1 DEF WillBeLocal
    <3>2. CASE ~Has(dto, "source")
      BY <3>2 DEF WillBeLocal
    <3>3. QED
      BY <3>1, <3>2
  <2>2. Has(dto, "pw") \in BOOLEAN /\ ToSso(row, dto) \in BOOLEAN
    BY DEF Has, ToSso
  <2>3. switched <=> ToSso(row, dto) \/ ToLocal(row, dto)
    BY <2>1 DEF ToSso, ToLocal
  <2>4. QED
    BY <2>1, <2>2, <2>3
<1>1. switched =>
        Has(dto, "source") /\ dto.source = (IF ToSso(row, dto) THEN "sso" ELSE "local")
  BY <1>0, DtoFields DEF WillBeLocal, ToSso, ToLocal
<1>2. PICK a \in BOOLEAN, b \in BOOLEAN, d \in BOOLEAN, e \in BOOLEAN :
        /\ a = (IF Has(dto, "admin") THEN dto.admin ELSE now.admin)
        /\ b = (IF Has(dto, "disabled") THEN dto.disabled ELSE now.disabled)
        /\ d = ((now.pw \/ Has(dto, "pw")) /\ ~ToSso(row, dto))
        /\ e = (now.totp /\ ~ToSso(row, dto))
  <2>1. /\ (IF Has(dto, "admin") THEN dto.admin ELSE now.admin) \in BOOLEAN
        /\ (IF Has(dto, "disabled") THEN dto.disabled ELSE now.disabled) \in BOOLEAN
    BY DtoFields DEF Row
  <2>2. /\ ((now.pw \/ Has(dto, "pw")) /\ ~ToSso(row, dto)) \in BOOLEAN
        /\ (now.totp /\ ~ToSso(row, dto)) \in BOOLEAN
    OBVIOUS
  <2>3. QED
    BY <2>1, <2>2, Zenon
<1>3. PICK c \in {"local", "sso"}, f \in Nat, g \in SUBSET Codes, h \in Nat :
        /\ c = (IF switched THEN dto.source ELSE now.source)
        /\ f = (IF ToSso(row, dto) THEN 0 ELSE now.secret)
        /\ g = (IF ToSso(row, dto) THEN {} ELSE now.codes)
        /\ h = (IF switched \/ Has(dto, "pw") THEN now.epoch + 1 ELSE now.epoch)
  <2>1. (IF switched THEN dto.source ELSE now.source) \in {"local", "sso"}
    BY <1>1 DEF Row
  <2>2. /\ (IF ToSso(row, dto) THEN 0 ELSE now.secret) \in Nat
        /\ (IF ToSso(row, dto) THEN {} ELSE now.codes) \in SUBSET Codes
        /\ (IF switched \/ Has(dto, "pw") THEN now.epoch + 1 ELSE now.epoch) \in Nat
    BY DEF Row
  <2>3. QED
    BY <2>1, <2>2, Zenon
<1>4. p = [now EXCEPT !.admin = a, !.disabled = b, !.source = c, !.pw = d, !.totp = e,
                      !.secret = f, !.codes = g, !.epoch = h]
  <2>1. p = [now EXCEPT
               !.admin = IF Has(dto, "admin") THEN dto.admin ELSE now.admin,
               !.disabled = IF Has(dto, "disabled") THEN dto.disabled ELSE now.disabled,
               !.source = IF switched THEN dto.source ELSE now.source,
               !.pw = (now.pw \/ Has(dto, "pw")) /\ ~ToSso(row, dto),
               !.totp = now.totp /\ ~ToSso(row, dto),
               !.secret = IF ToSso(row, dto) THEN 0 ELSE now.secret,
               !.codes = IF ToSso(row, dto) THEN {} ELSE now.codes,
               !.epoch = IF switched \/ Has(dto, "pw") THEN now.epoch + 1 ELSE now.epoch]
    BY Zenon DEF Patched, ToSso
  <2> HIDE DEF switched
  <2>2. QED
    BY <1>2, <1>3, <2>1, Zenon
<1> HIDE DEF switched
<1>5. /\ p \in Row /\ p.admin = a /\ p.disabled = b /\ p.source = c /\ p.pw = d
      /\ p.totp = e /\ p.secret = f /\ p.codes = g /\ p.epoch = h
  <2>1. /\ a \in BOOLEAN /\ b \in BOOLEAN /\ c \in {"local", "sso"} /\ d \in BOOLEAN
        /\ e \in BOOLEAN /\ f \in Nat /\ g \in SUBSET Codes /\ h \in Nat
    OBVIOUS
  <2>2. p \in Row
    BY <1>4, <2>1 DEF Row
  <2>3. /\ p.admin = a /\ p.disabled = b /\ p.pw = d /\ p.totp = e
    BY <1>4, <2>1 DEF Row
  <2>4. /\ p.source = c /\ p.secret = f /\ p.codes = g /\ p.epoch = h
    BY <1>4, <2>1 DEF Row
  <2>5. QED
    BY <2>2, <2>3, <2>4
<1>6. /\ ToSso(row, dto) => p.source = "sso"
      /\ ToLocal(row, dto) => p.source = "local"
      /\ ~ToSso(row, dto) /\ ~ToLocal(row, dto) => p.source = now.source
  BY <1>0, <1>1, <1>3, <1>5 DEF ToSso, ToLocal
<1>7. ToSso(row, dto) => ~p.pw /\ ~p.totp /\ p.codes = {}
  BY <1>2, <1>3, <1>5
<1>8. ~ToSso(row, dto) =>
        /\ p.pw <=> now.pw \/ Has(dto, "pw")
        /\ p.totp = now.totp /\ p.codes = now.codes /\ p.secret = now.secret
  <2>1. now.totp \in BOOLEAN /\ now.pw \in BOOLEAN
    BY DEF Row
  <2>2. QED
    BY <1>0, <1>2, <1>3, <1>5, <2>1
<1>9. /\ now.epoch <= p.epoch
      /\ Has(dto, "pw") \/ p.source # now.source => now.epoch < p.epoch
  BY <1>0, <1>3, <1>5 DEF Row
<1>10. QED
  BY <1>2, <1>5, <1>6, <1>7, <1>8, <1>9

\* The UPDATE of an administrator's request.
LEMMA UpdateWritten ==
  ASSUME Inv, NEW s \in Slots, UpdateWrite(s)
  PROVE  Inv'
<1>a. /\ UsersType /\ HistoryType /\ ReqType /\ Factors /\ Recovery /\ Generations
      /\ SideType /\ CountType /\ Admins
  BY DEF Inv
<1>b. /\ req[s].pc = "write" /\ req[s].pc \in Reading /\ req[s].op = "update"
      /\ req[s].op \in UserOps /\ req[s].op \in AdminOps /\ req[s].arg \in Dtos
  BY <1>a DEF UpdateWrite, Reading, UserOps, AdminOps, ReqType, Shaped
<1> DEFINE u == req[s].u
           now == users[u]
           row == req[s].row
           dto == req[s].arg
           new == Patched(now, row, dto)
           changed == Has(dto, "pw") \/ new.source # now.source
<1>c. /\ row \in Row /\ Raced(s) \in BOOLEAN /\ (history.raced => Raced(s))
      /\ u \in DOMAIN users => now \in Row
      /\ ~Raced(s) => /\ ~history.raced /\ u \in DOMAIN users /\ now = row
                      /\ ~(LosesAdmin(row, dto) /\ ActiveAdmins = {u}) /\ SourceKept(req[s])
  BY <1>b, Writing DEF AdminKept, FactorKept
<1>d. Shaped(Idle) /\ Idle.pc \notin Reading \cup {"deliver"}
  BY DEF Idle, Shaped, Reading
<1>e. UNCHANGED <<passkeys, bound, settings, chal, regTok, sessions, count, created>>
  BY DEF UpdateWrite
<1>1. CASE u \notin DOMAIN users
  <2>1. req' = [req EXCEPT ![s] = Idle] /\ UNCHANGED <<users, history>>
    BY <1>1 DEF UpdateWrite
  <2>2. SideType' /\ CountType'
    BY <1>a, <1>e, <2>1 DEF SideType, CountType
  <2>3. QED
    BY <1>e, <2>1, <2>2, IdleSound, SlotStep
<1>2. CASE u \in DOMAIN users
  <2>1. /\ users' = [users EXCEPT ![u] = new] /\ req' = Written(s, Idle)
        /\ history' = [Revoke(history, u, changed) EXCEPT !.raced = Raced(s)]
    BY <1>2 DEF UpdateWrite
  <2>2. /\ new \in Row
        /\ new.admin = (IF Has(dto, "admin") THEN dto.admin ELSE now.admin)
        /\ new.disabled = (IF Has(dto, "disabled") THEN dto.disabled ELSE now.disabled)
        /\ ToSso(row, dto) => new.source = "sso" /\ ~new.pw /\ ~new.totp /\ new.codes = {}
        /\ ToLocal(row, dto) => new.source = "local"
        /\ ~ToSso(row, dto) /\ ~ToLocal(row, dto) => new.source = now.source
        /\ ~ToSso(row, dto) => /\ new.pw <=> now.pw \/ Has(dto, "pw")
                     /\ new.totp = now.totp /\ new.codes = now.codes /\ new.secret = now.secret
        /\ now.epoch <= new.epoch
        /\ changed => now.epoch < new.epoch
    BY <1>2, <1>b, <1>c, PatchedRow
  <2>3. /\ DOMAIN users' = DOMAIN users /\ users'[u] = new
        /\ \A x \in DOMAIN users : x # u => users'[x] = users[x]
    BY <2>1, <1>2, <1>a DEF UsersType
  <2> HIDE DEF new, changed
  <2> DEFINE R == IF changed THEN history.revoked \cup {t \in sessions : t.u = u}
                  ELSE history.revoked
  <2>4. history' = Noted(Raced(s), R, history.spent, history.twice)
    <3>1. CASE changed
      <4>1. history' = [[history EXCEPT !.revoked = R] EXCEPT !.raced = Raced(s)]
        BY <3>1, <2>1, <1>a DEF Revoke, HistoryType
      <4>2. QED
        BY <4>1, <1>a, <1>c, NotedRevoked
    <3>2. CASE ~changed
      BY <3>2, <2>1, <1>a, <1>c, NotedRaced DEF Revoke
    <3>3. QED
      BY <3>1, <3>2
  <2>5. /\ R \in SUBSET Token /\ history.spent \in SUBSET (Users \X Codes)
        /\ history.twice \in BOOLEAN
    BY <1>a DEF HistoryType, Generations
  <2>6. \/ R = history.revoked
        \/ R = history.revoked \cup {t \in sessions : t.u = u} /\ users[u].epoch < new.epoch
    BY <2>2
  <2> HIDE DEF R
  <2>7. /\ HistoryType' /\ history'.confirmed = history.confirmed
        /\ history'.guesses = history.guesses /\ history'.burned = history.burned
        /\ history'.raced = Raced(s) /\ history'.revoked = R
        /\ history'.spent = history.spent /\ history'.twice = history.twice
    BY <1>a, <1>c, <2>4, <2>5, NotedType
  <2>8. /\ history.raced => history'.raced
        /\ ~history'.raced => ~history.raced /\ ~Raced(s)
    BY <1>c, <2>7
  <2>9. history'.raced \/ ActiveAdmins' # {}
    <3> SUFFICES ASSUME ~history'.raced
                 PROVE  ActiveAdmins' # {}
      OBVIOUS
    <3>1. ActiveAdmins # {} /\ ~(LosesAdmin(row, dto) /\ ActiveAdmins = {u}) /\ now = row
      BY <1>a, <1>c, <2>8 DEF Admins
    <3>2. \A x \in ActiveAdmins : x # u => x \in ActiveAdmins'
      BY <2>3 DEF ActiveAdmins
    <3>3. CASE LosesAdmin(row, dto)
      BY <3>1, <3>2, <3>3
    <3>4. CASE ~LosesAdmin(row, dto)
      <4>1. u \in ActiveAdmins => new.admin /\ ~new.disabled
        BY <2>2, <3>1, <3>4 DEF LosesAdmin, ActiveAdmins
      <4>2. u \in ActiveAdmins => u \in ActiveAdmins'
        BY <1>2, <2>3, <4>1 DEF ActiveAdmins
      <4>3. QED
        BY <3>1, <3>2, <4>2
    <3>5. QED
      BY <3>3, <3>4
  <2>10. CredentialsFit'
    <3>1. ASSUME ~history'.raced
          PROVE  /\ new.totp => new.source = "local" /\ new.secret \in history.confirmed
                 /\ new.pw = (new.source = "local")
      <4>1. /\ now = row /\ SourceKept(req[s])
            /\ now.totp => now.source = "local" /\ now.secret \in history.confirmed
            /\ now.pw = (now.source = "local")
        BY <1>2, <1>a, <1>c, <2>8, <3>1 DEF Factors, CredentialsFit
      <4>2. new.pw \in BOOLEAN /\ now.pw \in BOOLEAN
        BY <1>2, <1>c, <2>2 DEF Row
      <4>3. CASE ToSso(row, dto)
        BY <2>2, <4>2, <4>3
      <4>4. CASE ToLocal(row, dto)
        <5>1. ~ToSso(row, dto) /\ now.source # "local" /\ Has(dto, "pw")
          BY <4>1, <4>4 DEF SourceKept, ToSso, ToLocal
        <5>2. QED
          BY <2>2, <4>1, <4>2, <4>4, <5>1
      <4>5. CASE ~ToSso(row, dto) /\ ~ToLocal(row, dto)
        <5>1. Has(dto, "pw") => now.source = "local"
          BY <4>1, <4>5 DEF SourceKept, ToLocal
        <5>2. QED
          BY <2>2, <4>1, <4>2, <4>5, <5>1
      <4>6. QED
        BY <4>3, <4>4, <4>5
    <3>2. QED
      BY <1>a, <2>3, <2>7, <2>8, <3>1, FitKept DEF Factors
  <2>11. \/ history'.raced
         \/ /\ ~history'.twice
            /\ \A x \in DOMAIN users' : \A c \in users'[x].codes : <<x, c>> \notin history'.spent
    <3>1. new.codes \subseteq now.codes
      BY <2>2
    <3>2. QED
      BY <1>a, <2>3, <2>7, <2>8, <3>1 DEF Recovery
  <2>12. /\ users' = IF u \in DOMAIN users THEN [users EXCEPT ![u] = new] ELSE users
         /\ new \in Row /\ users[u].epoch <= new.epoch
    BY <1>2, <2>1, <2>2
  <2>13. QED
    BY <1>b, <1>d, <1>e, <2>1, <2>6, <2>7, <2>8, <2>9, <2>10, <2>11, <2>12, RowWrite
<1>3. QED
  BY <1>1, <1>2

\* The DELETE of an account takes its passkeys and bindings along.
LEMMA AccountRemoved ==
  ASSUME Inv, NEW s \in Slots, RemoveDelete(s)
  PROVE  Inv'
<1>a. /\ UsersType /\ HistoryType /\ ReqType /\ Factors /\ Recovery /\ Generations
      /\ SideType /\ SettingsType /\ Admins /\ Ways
  BY DEF Inv
<1>b. /\ req[s].pc \in Reading /\ req[s].op = "remove"
      /\ req[s].op \in UserOps /\ req[s].op \in AdminOps
  BY DEF RemoveDelete, Reading, UserOps, AdminOps
<1> DEFINE u == req[s].u
<1>c. /\ Raced(s) \in BOOLEAN /\ (history.raced => Raced(s))
      /\ ~Raced(s) => ~history.raced /\ ActiveAdmins # {u}
  BY <1>b, Writing DEF AdminKept
<1>d. Shaped(Idle) /\ Idle.pc \notin Reading \cup {"deliver"}
  BY DEF Idle, Shaped, Reading
<1>e. /\ UNCHANGED <<settings, chal, regTok, sessions, count, created>>
      /\ req' = Written(s, Idle) /\ history' = [history EXCEPT !.raced = Raced(s)]
      /\ passkeys' = passkeys \ {u} /\ bound' = bound \ {u}
      /\ users' = [x \in DOMAIN users \ {u} |-> users[x]]
  BY DEF RemoveDelete
<1>1. /\ DOMAIN users' = DOMAIN users \ {u}
      /\ \A x \in DOMAIN users' : users'[x] = users[x]
  BY <1>e
<1>2. /\ HistoryType' /\ history'.confirmed = history.confirmed
      /\ history'.guesses = history.guesses /\ history'.burned = history.burned
      /\ history'.raced = Raced(s) /\ history'.revoked = history.revoked
      /\ history'.spent = history.spent /\ history'.twice = history.twice
  BY <1>a, <1>c, <1>e DEF HistoryType
<1>3. /\ history.raced => history'.raced
      /\ ~history'.raced => ~history.raced /\ ~Raced(s)
  BY <1>c, <1>2
<1>4. UsersType' /\ SideType' /\ SettingsType'
  BY <1>a, <1>1, <1>e DEF UsersType, SideType, SettingsType
<1>5. /\ \A x \in DOMAIN users' :
           /\ x \in DOMAIN users /\ (x # u => users'[x] = users[x])
           /\ users[x].epoch <= users'[x].epoch
      /\ \A x \in DOMAIN users : x # u => x \in DOMAIN users'
  BY <1>a, <1>1 DEF UsersType, Row
<1>6. /\ ChalType' /\ CountType' /\ ReqType' /\ FreshReads' /\ Tracked'
      /\ \A t \in sessions : Reached(t.u, t.se)'
      /\ \A t \in Slots : Signed(req[t])'
      /\ \A t \in history.revoked : Reached(t.u, t.se + 1)'
      /\ \A t \in Slots : Offered(req[t])'
      /\ (history.raced \/ \A t \in Slots : FactorKept(req[t]))'
      /\ (history.raced \/ \A t \in Slots : AdminKept(req[t]))'
      /\ (history.raced \/ \A t \in Slots : WayKept(req[t]))'
  BY <1>b, <1>d, <1>e, <1>2, <1>3, <1>4, <1>5, WriteKeeps
<1>7. Generations'
  BY <1>a, <1>2, <1>6, <1>e DEF Generations
<1>8. Admins'
  <2>1. ASSUME ~history'.raced
        PROVE  ActiveAdmins' # {}
    <3>1. ActiveAdmins # {} /\ ActiveAdmins # {u}
      BY <1>a, <1>c, <1>3, <2>1 DEF Admins
    <3>2. \A x \in ActiveAdmins : x # u => x \in ActiveAdmins'
      BY <1>1 DEF ActiveAdmins
    <3>3. QED
      BY <3>1, <3>2
  <2>2. QED
    BY <1>6, <2>1 DEF Admins
<1>9. Ways'
  BY <1>a, <1>3, <1>6, <1>e DEF Ways, HasUsableSso
<1>10. CredentialsFit'
  <2> SUFFICES ASSUME ~history'.raced, NEW x \in DOMAIN users'
               PROVE  /\ users'[x].totp => users'[x].source = "local"
                                           /\ users'[x].secret \in history'.confirmed
                      /\ users'[x].pw = (users'[x].source = "local")
    BY DEF CredentialsFit
  <2>1. QED
    BY <1>a, <1>1, <1>2, <1>3 DEF Factors, CredentialsFit
<1>11. Factors' /\ Recovery'
  BY <1>a, <1>1, <1>2, <1>3, <1>6, <1>10 DEF Factors, Recovery
<1>12. QED
  BY <1>2, <1>4, <1>6, <1>7, <1>8, <1>9, <1>11 DEF Inv

\* The writes of the two settings: unless they overlapped, the other way in is
\* open.
LEMMA SettingsWritten ==
  ASSUME Inv, NEW s \in Slots, SetLocalLoginWrite(s) \/ UpdateSsoWrite(s)
  PROVE  Inv'
<1>a. /\ UsersType /\ HistoryType /\ ReqType /\ Factors /\ Recovery /\ Generations
      /\ SideType /\ SettingsType /\ Admins /\ Ways
  BY DEF Inv
<1>b. /\ req[s].pc = "write" /\ req[s].pc \in Reading /\ req[s] \in Requests
      /\ req[s].op \in {"setLocal", "updateSso"} /\ req[s].op \in SettingsOps
  BY <1>a DEF SetLocalLoginWrite, UpdateSsoWrite, Reading, SettingsOps, ReqType, Idle
<1>c. /\ Raced(s) \in BOOLEAN /\ (history.raced => Raced(s))
      /\ ~Raced(s) => ~history.raced /\ WayKept(req[s]) /\ ~req[s].stale
                      /\ (settings.local \/ HasUsableSso)
  <2>1. req[s].stale \in BOOLEAN
    BY <1>b DEF Requests
  <2>2. Raced(s) \in BOOLEAN /\ (history.raced => Raced(s))
        /\ (~Raced(s) => ~history.raced /\ ~req[s].stale)
    BY <1>a, <2>1 DEF Raced, HistoryType
  <2>3. QED
    BY <1>a, <2>2 DEF Ways
<1>d. Shaped(Idle) /\ Idle.pc \notin Reading \cup {"deliver"}
  BY DEF Idle, Shaped, Reading
<1>e. /\ UNCHANGED <<users, passkeys, bound, chal, regTok, sessions, count, created>>
      /\ req' = Written(s, Idle) /\ history' = [history EXCEPT !.raced = Raced(s)]
  BY DEF SetLocalLoginWrite, UpdateSsoWrite
<1>1. /\ HistoryType' /\ history'.confirmed = history.confirmed
      /\ history'.guesses = history.guesses /\ history'.burned = history.burned
      /\ history'.raced = Raced(s) /\ history'.revoked = history.revoked
      /\ history'.spent = history.spent /\ history'.twice = history.twice
  BY <1>a, <1>c, <1>e DEF HistoryType
<1>2. /\ history.raced => history'.raced
      /\ ~history'.raced => ~history.raced /\ ~Raced(s)
  BY <1>c, <1>1
<1>3. UsersType' /\ SideType'
  BY <1>a, <1>e DEF UsersType, SideType
<1>4. /\ \A x \in DOMAIN users' :
           /\ x \in DOMAIN users /\ (x # req[s].u => users'[x] = users[x])
           /\ users[x].epoch <= users'[x].epoch
      /\ \A x \in DOMAIN users : x # req[s].u => x \in DOMAIN users'
  BY <1>a, <1>e DEF UsersType, Row
<1>5. ActiveAdmins' = ActiveAdmins
  BY <1>e DEF ActiveAdmins
<1>6. /\ ChalType' /\ CountType' /\ ReqType' /\ FreshReads' /\ Tracked'
      /\ \A t \in sessions : Reached(t.u, t.se)'
      /\ \A t \in Slots : Signed(req[t])'
      /\ \A t \in history.revoked : Reached(t.u, t.se + 1)'
      /\ \A t \in Slots : Offered(req[t])'
      /\ (history.raced \/ \A t \in Slots : FactorKept(req[t]))'
      /\ (history.raced \/ \A t \in Slots : AdminKept(req[t]))'
      /\ (history.raced \/ \A t \in Slots : WayKept(req[t]))'
  BY <1>b, <1>d, <1>e, <1>1, <1>2, <1>3, <1>4, <1>5, WriteKeeps
<1>7. SettingsType' /\ (history'.raced \/ (settings.local \/ HasUsableSso)')
  <2>1. CASE SetLocalLoginWrite(s)
    <3>1. req[s].op = "setLocal" /\ settings' = [settings EXCEPT !.local = req[s].arg.local]
      BY <2>1 DEF SetLocalLoginWrite
    <3>2. req[s].arg \in [local: BOOLEAN]
      BY <1>a, <1>b, <3>1 DEF ReqType, Shaped
    <3>3. /\ SettingsType' /\ settings'.local = req[s].arg.local
          /\ settings'.enabled = settings.enabled /\ settings'.provider = settings.provider
      BY <1>a, <3>1, <3>2 DEF SettingsType
    <3>4. ~Raced(s) => req[s].arg.local \/ HasUsableSso
      BY <1>b, <1>c, <3>1 DEF WayKept
    <3>5. QED
      BY <1>2, <3>3, <3>4 DEF HasUsableSso
  <2>2. CASE UpdateSsoWrite(s)
    <3>1. /\ req[s].op = "updateSso"
          /\ settings' = [settings EXCEPT !.enabled = req[s].arg.enabled,
                                          !.provider = req[s].arg.provider]
      BY <2>2 DEF UpdateSsoWrite
    <3>2. req[s].arg \in Ssos
      BY <1>a, <1>b, <3>1 DEF ReqType, Shaped
    <3>3. /\ SettingsType' /\ settings'.local = settings.local
          /\ settings'.enabled = req[s].arg.enabled /\ settings'.provider = req[s].arg.provider
      BY <1>a, <3>1, <3>2 DEF SettingsType, Ssos
    <3>4. ~Raced(s) => settings.local \/ (req[s].arg.enabled /\ req[s].arg.provider)
      BY <1>b, <1>c, <3>1 DEF WayKept
    <3>5. QED
      BY <1>2, <3>3, <3>4 DEF HasUsableSso
  <2>3. QED
    BY <2>1, <2>2
<1>8. Generations'
  BY <1>a, <1>1, <1>6, <1>e DEF Generations
<1>9. Admins' /\ Ways'
  BY <1>a, <1>2, <1>5, <1>6, <1>7 DEF Admins, Ways
<1>10. CredentialsFit'
  BY <1>a, <1>1, <1>2, <1>e DEF Factors, CredentialsFit
<1>11. Factors' /\ Recovery'
  BY <1>a, <1>1, <1>2, <1>6, <1>10, <1>e DEF Factors, Recovery
<1>12. QED
  BY <1>1, <1>3, <1>6, <1>7, <1>8, <1>9, <1>11 DEF Inv

-----------------------------------------------------------------------------
(* New accounts, passkeys and the restart.                                 *)

\* Creating and provisioning an account keep the invariant.
LEMMA AccountsAppear ==
  ASSUME Inv, NEW s \in Slots, NEW u \in Users, Create(s, u) \/ SsoProvision(s, u)
  PROVE  Inv'
<1>a. /\ UsersType /\ SideType /\ CountType /\ HistoryType /\ ChalType /\ Tracked
  BY DEF Inv
<1>1. /\ u \notin created /\ count < MaxRequests /\ count' = count + 1 /\ req' = req
      /\ UNCHANGED <<passkeys, settings, chal, regTok, sessions, history>>
      /\ bound' = bound \/ bound' = bound \cup {u}
      /\ Insert(u, NewRow("local", FALSE)) \/ Insert(u, NewRow("sso", FALSE))
  BY DEF Create, SsoProvision
<1>2. DOMAIN users' = DOMAIN users \cup {u}
  BY <1>1 DEF Insert
<1>3. HistoryType' /\ SideType' /\ CountType' /\ ChalType' /\ Tracked'
  BY <1>a, <1>1, <1>2, AccountsBounds DEF HistoryType, SideType, CountType, ChalType, Tracked
<1>4. QED
  BY <1>1, <1>3, InsertStep

\* Registering and removing a passkey keep the invariant.
LEMMA PasskeysChange ==
  ASSUME Inv, NEW u \in DOMAIN users,
         RegistrationOptions(u) \/ VerifyRegistration(u) \/ RemovePasskey(u)
  PROVE  Inv'
<1>a. /\ UsersType /\ SideType /\ CountType /\ HistoryType /\ ChalType /\ Tracked
  BY DEF Inv
<1>1. /\ UNCHANGED <<users, bound, settings, chal, sessions, req, created, history>>
      /\ count < MaxRequests /\ count' = count + 1
      /\ passkeys' \subseteq passkeys \cup {u} /\ regTok' \subseteq regTok \cup {u}
  BY DEF RegistrationOptions, VerifyRegistration, RemovePasskey
<1>2. HistoryType' /\ SideType' /\ CountType' /\ ChalType' /\ Tracked'
  BY <1>a, <1>1, AccountsBounds
     DEF HistoryType, SideType, CountType, ChalType, Tracked, UsersType
<1>3. QED
  BY <1>1, <1>2, ChallengeMoves

\* A restart ends the requests and forgets the entry of the challenge.
LEMMA ServerRestarts ==
  ASSUME Inv, Restart
  PROVE  Inv'
<1>a. /\ UsersType /\ SideType /\ CountType /\ HistoryType /\ ChalType /\ Tracked
      /\ ReqType /\ Generations
  BY DEF Inv
<1>1. /\ req' = [s \in Slots |-> Idle]
      /\ UNCHANGED <<passkeys, bound, settings, regTok, sessions, count>>
      /\ history' = [history EXCEPT !.guesses = 0, !.burned = FALSE]
      /\ chal' = IF chal.left = 0 THEN NoChallenge ELSE [chal EXCEPT !.attempts = 0, !.track = 0]
  BY DEF Restart
<1>2. /\ HistoryType' /\ history'.raced = history.raced
      /\ history'.revoked = history.revoked /\ history'.spent = history.spent
      /\ history'.twice = history.twice /\ history'.confirmed = history.confirmed
      /\ history'.guesses = 0 /\ ~history'.burned
  BY <1>a, <1>1 DEF HistoryType
<1>3. ChalType' /\ chal'.track = 0
  <2>1. CASE chal.left = 0
    BY <1>1, <2>1, AccountsBounds DEF ChalType, NoChallenge
  <2>2. CASE chal.left # 0
    <3>1. chal' = [chal EXCEPT !.attempts = 0, !.track = 0]
      BY <1>1, <2>2
    <3>2. chal' = [u |-> chal.u, left |-> chal.left, attempts |-> 0, track |-> 0]
      BY <1>a, <3>1 DEF ChalType
    <3>3. QED
      BY <1>a, <3>2, AccountsBounds DEF ChalType
  <2>3. QED
    BY <2>1, <2>2
<1>4. /\ req' \in [Slots -> Requests \cup {Idle}]
      /\ \A t \in Slots : req'[t] = Idle
  BY <1>1
<1>5. Tracked'
  BY <1>2, <1>3, <1>4, IdleSound, AccountsBounds DEF Tracked
<1>6. CASE DOMAIN users = {} /\ Users \ created # {}
  <2> DEFINE u == CHOOSE u \in Users \ created : TRUE
  <2>1. u \in Users \ created /\ Insert(u, NewRow("local", TRUE))
    BY <1>6 DEF Restart
  <2>2. SideType' /\ CountType'
    BY <1>a, <1>1, <2>1 DEF SideType, CountType, Insert
  <2> HIDE DEF u
  <2>3. QED
    BY <1>1, <1>2, <1>3, <1>5, <2>1, <2>2, InsertStep
<1>7. CASE ~(DOMAIN users = {} /\ Users \ created # {})
  <2>1. UNCHANGED <<users, created>>
    BY <1>7 DEF Restart
  <2>2. SideType' /\ CountType'
    BY <1>a, <1>1, <2>1 DEF SideType, CountType
  <2>3. sessions' \subseteq Token /\ \A t \in sessions' : Reached(t.u, t.se)
    BY <1>a, <1>1 DEF Generations
  <2>4. QED
    BY <1>1, <1>2, <1>3, <1>4, <1>5, <2>1, <2>2, <2>3, IdleSound, RequestStep
<1>8. QED
  BY <1>6, <1>7

-----------------------------------------------------------------------------
(* The theorems.                                                           *)

\* The window begins with sound accounts and no request.
LEMMA InitInv == Init => Inv
<1> SUFFICES ASSUME Init
             PROVE  Inv
  OBVIOUS
<1>1. DOMAIN users \in SUBSET Users /\ users \in [DOMAIN users -> InitialRow]
  BY DEF Init
<1>2. ASSUME NEW r \in InitialRow
      PROVE  /\ r \in Row /\ r.epoch = 0 /\ r.pw = (r.source = "local")
             /\ r.totp => r.source = "local" /\ r.secret = 1
  <2>1. CASE \E t \in BOOLEAN :
               r = [admin |-> TRUE, disabled |-> FALSE, source |-> "local", pw |-> TRUE,
                    epoch |-> 0, totp |-> t, secret |-> IF t THEN 1 ELSE 0,
                    codes |-> IF t THEN Codes ELSE {}]
    <3>1. PICK t \in BOOLEAN :
               r = [admin |-> TRUE, disabled |-> FALSE, source |-> "local", pw |-> TRUE,
                    epoch |-> 0, totp |-> t, secret |-> IF t THEN 1 ELSE 0,
                    codes |-> IF t THEN Codes ELSE {}]
      BY <2>1
    <3>2. r.epoch = 0 /\ r.source = "local" /\ r.pw = TRUE /\ (r.totp => r.secret = 1)
      BY <3>1
    <3>3. r \in Row
      BY <3>1 DEF Row
    <3>4. QED
      BY <3>2, <3>3
  <2>2. CASE \E a \in BOOLEAN :
               r = [admin |-> a, disabled |-> FALSE, source |-> "sso", pw |-> FALSE,
                    epoch |-> 0, totp |-> FALSE, secret |-> 0, codes |-> {}]
    <3>1. PICK a \in BOOLEAN :
               r = [admin |-> a, disabled |-> FALSE, source |-> "sso", pw |-> FALSE,
                    epoch |-> 0, totp |-> FALSE, secret |-> 0, codes |-> {}]
      BY <2>2
    <3>2. r.epoch = 0 /\ r.source = "sso" /\ r.pw = FALSE /\ ~r.totp
      BY <3>1
    <3>3. r \in Row
      BY <3>1 DEF Row
    <3>4. QED
      BY <3>2, <3>3
  <2>3. QED
    BY <1>2, <2>1, <2>2 DEF InitialRow
<1>3. UsersType
  BY <1>1, <1>2 DEF UsersType, Init
<1>4. SideType /\ SettingsType /\ CountType
  <2>1. SideType /\ CountType
    BY AccountsBounds DEF Init, SideType, CountType
  <2>2. settings \in [local: {TRUE}, enabled: BOOLEAN, provider: {TRUE}]
    BY DEF Init
  <2>3. SettingsType
    BY <2>2 DEF SettingsType
  <2>4. QED
    BY <2>1, <2>3
<1>5. ChalType
  BY AccountsBounds DEF Init, ChalType, NoChallenge
<1>6. HistoryType /\ history.revoked = {} /\ history.confirmed = {1} /\ history.spent = {}
      /\ history.guesses = 0 /\ ~history.twice /\ ~history.burned
  BY DEF Init, HistoryType, HistoryInit
<1>7. /\ req \in [Slots -> Requests \cup {Idle}]
      /\ \A s \in Slots : req[s] = Idle
  BY DEF Init
<1>8. ReqType /\ FreshReads
  BY <1>7, IdleSound DEF ReqType, FreshReads, Sound
<1>9. Generations
  <2>1. \A t \in sessions : t \in Token /\ Reached(t.u, t.se)
    BY <1>1, <1>2 DEF Init, Token, Reached
  <2>2. QED
    BY <1>6, <1>7, <2>1, IdleSound DEF Generations, Sound
<1>10. Admins
  BY <1>7, IdleSound DEF Init, Admins, AdminKept, Idle, Reading
<1>11. Ways
  BY <1>7 DEF Init, Ways, WayKept, Idle, Reading
<1>12. Factors
  <2>1. CredentialsFit
    BY <1>1, <1>2, <1>6 DEF CredentialsFit
  <2>2. QED
    BY <1>7, <2>1 DEF Factors, FactorKept, Idle, Reading
<1>13. Recovery
  BY <1>6, <1>7, IdleSound DEF Recovery, Sound
<1>14. Tracked
  BY <1>6, <1>7, IdleSound, AccountsBounds DEF Tracked, Init, NoChallenge
<1>15. QED
  BY <1>3, <1>4, <1>5, <1>6, <1>8, <1>9, <1>10, <1>11, <1>12, <1>13, <1>14 DEF Inv

\* The administrator's steps.
LEMMA AdminStep ==
  ASSUME Inv, AdminNext
  PROVE  Inv'
<1>1. ASSUME NEW s \in Slots, NEW u \in DOMAIN users,
             (\E dto \in Dtos : UpdateRead(s, u, dto)) \/ RemoveCheck(s, u)
      PROVE  Inv'
  BY <1>1, AdminReads
<1>2. ASSUME NEW s \in Slots, UpdatePasskeys(s) PROVE Inv'
  BY <1>2, PasskeysGone
<1>3. ASSUME NEW s \in Slots, UpdateWrite(s) PROVE Inv'
  BY <1>3, UpdateWritten
<1>4. ASSUME NEW s \in Slots, RemoveDelete(s) PROVE Inv'
  BY <1>4, AccountRemoved
<1>5. ASSUME NEW s \in Slots, NEW u \in Users, Create(s, u) PROVE Inv'
  BY <1>5, AccountsAppear
<1>6. ASSUME NEW s \in Slots, NEW on \in BOOLEAN,
             \/ SetLocalLoginCheck(s, on)
             \/ \E providers \in {"undefined", "blankSecret", "withSecret", "empty"} :
                  UpdateSsoCheck(s, on, providers)
      PROVE  Inv'
  BY <1>6, SettingsReads
<1>7. ASSUME NEW s \in Slots, SetLocalLoginWrite(s) \/ UpdateSsoWrite(s) PROVE Inv'
  BY <1>7, SettingsWritten
<1>8. QED
  BY <1>1, <1>2, <1>3, <1>4, <1>5, <1>6, <1>7 DEF AdminNext

\* The steps of logins.
LEMMA LoginStep ==
  ASSUME Inv, LoginNext
  PROVE  Inv'
<1>1. ASSUME LoginTotpWrong PROVE Inv'
  BY <1>1, WrongGuess
<1>2. ASSUME NEW s \in Slots, NEW u \in DOMAIN users, LoginRead(s, u) PROVE Inv'
  BY <1>2, PasswordLogin
<1>3. ASSUME NEW s \in Slots, NEW u \in DOMAIN users, PasskeyLogin(s, u) PROVE Inv'
  BY <1>3, LoginReads DEF PasskeyLogin
<1>4. ASSUME NEW s \in Slots, NEW u \in DOMAIN users, SsoResolve(s, u) PROVE Inv'
  BY <1>4, LoginReads DEF SsoResolve
<1>5. ASSUME NEW s \in Slots, NEW u \in DOMAIN users, NEW code \in Codes \cup {"totp"},
             LoginTotpRead(s, u, code)
      PROVE  Inv'
  BY <1>5, GuessRead
<1>6. ASSUME NEW s \in Slots, NEW u \in Users, SsoProvision(s, u) PROVE Inv'
  BY <1>6, AccountsAppear
<1>7. ASSUME NEW s \in Slots, LoginTotpVerify(s) PROVE Inv'
  BY <1>7, CodeVerified
<1>8. ASSUME NEW s \in Slots, BurnChallenge(s) PROVE Inv'
  BY <1>8, ChallengeBurned
<1>9. ASSUME NEW s \in Slots, IssueForUser(s) PROVE Inv'
  BY <1>9, AccountReadAgain
<1>10. ASSUME NEW s \in Slots, SsoLink(s) PROVE Inv'
  BY <1>10, SubjectLinked
<1>11. ASSUME NEW s \in Slots, Sign(s) PROVE Inv'
  BY <1>11, TokenSigned
<1>12. ASSUME NEW s \in Slots,
              LoginEnd(s) \/ LoginTotpEnd(s) \/ PasskeyLoginEnd(s) \/ CallbackEnd(s)
       PROVE  Inv'
  BY <1>12, TokenDelivered DEF LoginEnd, LoginTotpEnd, PasskeyLoginEnd, CallbackEnd
<1>13. QED
  BY <1>1, <1>2, <1>3, <1>4, <1>5, <1>6, <1>7, <1>8, <1>9, <1>10, <1>11, <1>12 DEF LoginNext

\* The steps of a signed-in user.
LEMMA SelfStep ==
  ASSUME Inv, SelfNext
  PROVE  Inv'
<1>a. CountType
  BY DEF Inv
<1>1. ASSUME NEW u \in DOMAIN users,
             RegistrationOptions(u) \/ VerifyRegistration(u) \/ RemovePasskey(u)
      PROVE  Inv'
  BY <1>1, PasskeysChange
<1>2. ASSUME NEW s \in Slots, NEW u \in DOMAIN users, ChangePasswordRead(s, u) PROVE Inv'
  BY <1>2, SelfReads DEF ChangePasswordRead
<1>3. ASSUME NEW s \in Slots, NEW u \in DOMAIN users,
             TotpSetupRead(s, u) \/ TotpEnableRead(s, u) \/ TotpDisableRead(s, u)
      PROVE  Inv'
  <2>1. count + 2 \in Nat
    BY <1>a, AccountsBounds DEF CountType
  <2>2. CASE TotpSetupRead(s, u)
    BY <2>1, <2>2, SelfReads DEF TotpSetupRead, LoadLocalUser
  <2>3. CASE TotpEnableRead(s, u)
    BY <2>1, <2>3, SelfReads DEF TotpEnableRead, LoadLocalUser
  <2>4. CASE TotpDisableRead(s, u)
    BY <2>1, <2>4, SelfReads DEF TotpDisableRead, LoadLocalUser
  <2>5. QED
    BY <1>3, <2>2, <2>3, <2>4
<1>4. ASSUME NEW s \in Slots, ChangePasswordWrite(s) PROVE Inv'
  BY <1>4, PasswordWritten
<1>5. ASSUME NEW s \in Slots, ChangePasswordEnd(s) PROVE Inv'
  BY <1>5, TokenDelivered DEF ChangePasswordEnd
<1>6. ASSUME NEW s \in Slots, TotpSetupWrite(s) \/ TotpEnableWrite(s) \/ TotpDisableWrite(s)
      PROVE  Inv'
  BY <1>6, TotpWrites
<1>7. QED
  BY <1>1, <1>2, <1>3, <1>4, <1>5, <1>6 DEF SelfNext

\* A step of nothing modelled here changes nothing.
LEMMA StutterInv ==
  ASSUME Inv, UNCHANGED vars
  PROVE  Inv'
<1>a. ReqType /\ Generations /\ HistoryType /\ SideType /\ CountType /\ ChalType /\ Tracked
  BY DEF Inv
<1>1. HistoryType' /\ SideType' /\ CountType' /\ ChalType' /\ Tracked'
  BY <1>a DEF vars, HistoryType, SideType, CountType, ChalType, Tracked
<1>2. QED
  BY <1>1, ChallengeMoves DEF vars

\* Every step keeps the invariant.
LEMMA StepInv == Inv /\ [Next]_vars => Inv'
<1> SUFFICES ASSUME Inv, [Next]_vars
             PROVE  Inv'
  OBVIOUS
<1>1. QED
  BY AdminStep, LoginStep, SelfStep, TimePasses, ServerRestarts, StutterInv DEF Next

\* The invariant holds in every state.
LEMMA Invariant == Spec => []Inv
  BY InitInv, StepInv, PTL DEF Spec

\* users.session_epoch does what it is for: a session that was in a browser when
\* the password or the auth source of its account changed is never accepted
\* again, whatever requests run beside the change.
THEOREM RevokedStaysRefused == Spec => []RevokedRefused
<1>1. Inv => RevokedRefused
  <2> SUFFICES ASSUME Inv, NEW t \in history.revoked, Accepted(t)
               PROVE  FALSE
    BY DEF RevokedRefused
  <2>1. t \in Token /\ Reached(t.u, t.se + 1) /\ UsersType
    BY DEF Inv, Generations, HistoryType
  <2>2. QED
    BY <2>1 DEF Accepted, Reached, UsersType, Row, Token
<1>2. QED
  BY <1>1, Invariant, PTL

\* UsersService.update and remove never take away the last enabled
\* administrator, unless two of them overlapped.
THEOREM AnAdminRemains == Spec => []AdminRemains
<1>1. Inv => AdminRemains
  BY DEF Inv, Admins, AdminRemains
<1>2. QED
  BY <1>1, Invariant, PTL

\* The accounts have the shape of their tables, a way to sign in remains, and an
\* account's password, source and TOTP fit together, unless the requests that
\* change them overlapped.
THEOREM AccountsStayFit == Spec => []AccountsFit
<1>1. Inv => AccountsFit
  <2> SUFFICES ASSUME Inv
               PROVE  TypeOK /\ WayIn /\ CredentialsFit
    BY DEF AccountsFit
  <2>1. TypeOK
    BY DEF Inv, TypeOK, UsersType, SideType, SettingsType, ChalType, CountType, Generations
  <2>2. WayIn /\ CredentialsFit
    BY DEF Inv, Ways, WayIn, Factors
  <2>3. QED
    BY <2>1, <2>2
<1>2. QED
  BY <1>1, Invariant, PTL

\* No challenge accepts more guesses than MAX_TOTP_ATTEMPTS or one after it was
\* burned, and a recovery code opens its account once unless logins overlapped.
THEOREM SecondFactorCountsOnce == Spec => []SecondFactorOnce
<1>1. Inv => SecondFactorOnce
  BY DEF Inv, Tracked, Recovery, SecondFactorOnce, ChallengeSpent, RecoveryOnce
<1>2. QED
  BY <1>1, Invariant, PTL
=============================================================================
