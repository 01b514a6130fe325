------------------------------ MODULE Accounts ------------------------------
(***************************************************************************)
(* User accounts of the server (src/server/src/auth): the users table with *)
(* its local and SSO accounts, password, TOTP, recovery-code, passkey and  *)
(* SSO logins, the session generation that revokes sessions, and the two   *)
(* settings that can take away a way to sign in.                           *)
(*                                                                         *)
(* Every handler reads a row, checks it and writes later: a request is a   *)
(* record in a slot, with the row it read (`row'), and each statement of   *)
(* the handler is an action.  Other requests run in between.  A request    *)
(* that is refused changes nothing but the audit log, so the read of a     *)
(* handler is enabled only if its checks pass.                             *)
(***************************************************************************)
EXTENDS Naturals, FiniteSets

CONSTANTS
  Users,            \* accounts, named by e-mail; a deleted id never returns
  Slots,            \* requests the server works on at the same time
  Codes,            \* the recovery codes of one enrollment
  MaxRequests,      \* bound: requests started
  MaxTotpAttempts,  \* guesses a challenge accepts
  ChallengeTtl,     \* life of a challenge token, in ticks
  TrackTtl          \* life of its entry in challengeState, in ticks

ASSUME AccountsBounds ==
  /\ MaxRequests \in Nat /\ MaxTotpAttempts \in Nat
  /\ ChallengeTtl \in Nat /\ TrackTtl \in Nat /\ ChallengeTtl < TrackTtl

VARIABLES
  users,      \* the table: a function from the existing accounts to rows
  passkeys,   \* accounts with a row in webauthn_credentials
  bound,      \* accounts with a row in sso_identities
  settings,   \* app_settings: local_login, sso.enabled, and whether a provider
              \* of sso.providers is fully configured
  chal,       \* the challenge token of a 2FA login and its tracking entry
  regTok,     \* accounts whose browser holds a passkey registration cookie
  sessions,   \* session JWTs in browsers: account and generation
  req,        \* the requests in flight
  count,      \* requests started
  created,    \* ids ever used
  history     \* what the properties remember: see HistoryInit

vars == <<users, passkeys, bound, settings, chal, regTok, sessions, req,
          count, created, history>>

Row == [admin: BOOLEAN, disabled: BOOLEAN, source: {"local", "sso"},
        pw: BOOLEAN, epoch: Nat, totp: BOOLEAN, secret: Nat, codes: SUBSET Codes]

Token == [u: Users, se: Nat]

Idle == [pc |-> "idle"]

NoChallenge == [u |-> {}, left |-> 0, attempts |-> 0, track |-> 0]

Accepted(t) ==
  /\ t.u \in DOMAIN users
  /\ ~users[t.u].disabled
  /\ t.se = users[t.u].epoch

SignedIn(u) == \E t \in sessions : t.u = u /\ Accepted(t)

ActiveAdmins == {u \in DOMAIN users : users[u].admin /\ ~users[u].disabled}

\* Mutant: a disabled administrator counts as one who remains.
IsLastAdmin(u) == {x \in DOMAIN users : users[x].admin} = {u}

IsLastActiveAdmin(u) == ActiveAdmins = {u}

HasUsableSso == settings.enabled /\ settings.provider

-----------------------------------------------------------------------------
(* The rows the table may hold when the window begins: sound accounts.     *)
InitialRow ==
  {[admin |-> TRUE, disabled |-> FALSE, source |-> "local", pw |-> TRUE,
    epoch |-> 0, totp |-> t, secret |-> IF t THEN 1 ELSE 0,
    codes |-> IF t THEN Codes ELSE {}] : t \in BOOLEAN}
  \cup
  {[admin |-> a, disabled |-> FALSE, source |-> "sso", pw |-> FALSE,
    epoch |-> 0, totp |-> FALSE, secret |-> 0, codes |-> {}] : a \in BOOLEAN}

HistoryInit ==
  [raced     |-> FALSE, \* a statement relied on a row changed since its read
   revoked   |-> {},    \* sessions that existed when their credential changed
   confirmed |-> {1},   \* secrets a code was entered for
   spent     |-> {},    \* recovery codes accepted, each with its account
   twice     |-> FALSE, \* a recovery code was accepted again
   guesses   |-> 0,     \* guesses accepted against the challenge
   burned    |-> FALSE] \* it has been burned

Init ==
  /\ \E E \in SUBSET Users : users \in [E -> InitialRow]
  /\ ActiveAdmins # {}
  /\ passkeys = {u \in DOMAIN users : users[u].totp}
  /\ bound = {u \in DOMAIN users : users[u].source = "sso" /\ ~users[u].admin}
  /\ settings \in [local: {TRUE}, enabled: BOOLEAN, provider: {TRUE}]
  /\ chal = NoChallenge
  /\ regTok = {}
  /\ sessions = {[u |-> u, se |-> 0] : u \in DOMAIN users}
  /\ req = [s \in Slots |-> Idle]
  /\ count = 0
  /\ created = DOMAIN users
  /\ history = HistoryInit

-----------------------------------------------------------------------------
(* Bookkeeping of requests.  A write of one request makes the reads of the *)
(* others stale: those of the same account, those of the admin checks and  *)
(* those of the settings.                                                  *)
AdminOps == {"update", "remove"}
SettingsOps == {"setLocal", "updateSso", "update"}

Begin(s, r) ==
  /\ req[s].pc = "idle"
  /\ count < MaxRequests
  /\ count' = count + 1
  /\ req' = [req EXCEPT ![s] = r]

Request(op, u, pc, more) ==
  [op |-> op, u |-> u, pc |-> pc, row |-> users[u], stale |-> FALSE, arg |-> more]

Touches(r, t) ==
  \/ r.u = t.u
  \/ r.op \in AdminOps /\ t.op \in AdminOps
  \/ r.op \in SettingsOps /\ t.op \in SettingsOps

\* req after slot s goes on to r and has written
Written(s, r) ==
  [t \in Slots |->
     IF t = s THEN r
     ELSE IF req[t].pc # "idle" /\ Touches(req[s], req[t])
          THEN [req[t] EXCEPT !.stale = TRUE] ELSE req[t]]

Raced(s) == history.raced \/ req[s].stale

Continue(s, pc) == [req[s] EXCEPT !.pc = pc, !.stale = FALSE]

-----------------------------------------------------------------------------
(* UsersService: the administrator's operations.                           *)
Dtos ==
  {[admin |-> FALSE], [disabled |-> TRUE], [disabled |-> FALSE],
   [pw |-> TRUE], [source |-> "sso"], [source |-> "local", pw |-> TRUE],
   [source |-> "sso", pw |-> TRUE]}

Has(dto, f) == f \in DOMAIN dto

WillBeLocal(row, dto) ==
  IF Has(dto, "source") THEN dto.source = "local" ELSE row.source = "local"

LosesAdmin(row, dto) ==
  /\ row.admin
  /\ \/ Has(dto, "admin") /\ ~dto.admin
     \/ Has(dto, "disabled") /\ dto.disabled

UpdateRead(s, u, dto) ==
  LET row == users[u]
      toLocal == WillBeLocal(row, dto) /\ row.source # "local"
      toSso == ~WillBeLocal(row, dto) /\ row.source = "local"
  IN /\ ~(LosesAdmin(row, dto) /\ IsLastActiveAdmin(u))
     /\ toLocal => Has(dto, "pw")
     /\ toSso => HasUsableSso
     /\ ~toSso => (Has(dto, "pw") => WillBeLocal(row, dto))
     /\ Begin(s, Request("update", u, IF toSso THEN "passkeys" ELSE "write", dto))
     /\ UNCHANGED <<users, passkeys, bound, settings, chal, regTok, sessions,
                    created, history>>

\* Moving to SSO deletes the passkeys first; a password in the same request
\* is refused only after that.
UpdatePasskeys(s) ==
  /\ req[s].pc = "passkeys"
  /\ passkeys' = passkeys \ {req[s].u}
  /\ req' = [req EXCEPT ![s] = IF Has(@.arg, "pw") THEN Idle
                               ELSE [@ EXCEPT !.pc = "write"]]
  /\ UNCHANGED <<users, bound, settings, chal, regTok, sessions, count, created,
                 history>>

\* Mutant: TOTP stays active when the account moves to SSO.
PatchedKeepsTotp(now, row, dto) ==
  LET toSso == ~WillBeLocal(row, dto) /\ row.source = "local"
      switched == WillBeLocal(row, dto) # (row.source = "local")
  IN [now EXCEPT
        !.admin = IF Has(dto, "admin") THEN dto.admin ELSE @,
        !.disabled = IF Has(dto, "disabled") THEN dto.disabled ELSE @,
        !.source = IF switched THEN dto.source ELSE @,
        !.pw = (@ \/ Has(dto, "pw")) /\ ~toSso,
        !.secret = IF toSso THEN 0 ELSE @,
        !.codes = IF toSso THEN {} ELSE @,
        !.epoch = IF switched \/ Has(dto, "pw") THEN @ + 1 ELSE @]

\* The UPDATE: the fields of the request, and what follows from them.
Patched(now, row, dto) ==
  LET toSso == ~WillBeLocal(row, dto) /\ row.source = "local"
      switched == WillBeLocal(row, dto) # (row.source = "local")
  IN [now EXCEPT
        !.admin = IF Has(dto, "admin") THEN dto.admin ELSE @,
        !.disabled = IF Has(dto, "disabled") THEN dto.disabled ELSE @,
        !.source = IF switched THEN dto.source ELSE @,
        !.pw = (@ \/ Has(dto, "pw")) /\ ~toSso,
        !.totp = @ /\ ~toSso,
        !.secret = IF toSso THEN 0 ELSE @,
        !.codes = IF toSso THEN {} ELSE @,
        !.epoch = IF switched \/ Has(dto, "pw") THEN @ + 1 ELSE @]

\* sessions that exist when the credential of u changes are to be revoked
Revoke(h, u, changed) ==
  IF changed THEN [h EXCEPT !.revoked = @ \cup {t \in sessions : t.u = u}] ELSE h

UpdateWrite(s) ==
  LET u == req[s].u IN
  /\ req[s].pc = "write" /\ req[s].op = "update"
  /\ IF u \in DOMAIN users
     THEN LET new == Patched(users[u], req[s].row, req[s].arg)
              changed == Has(req[s].arg, "pw") \/ new.source # users[u].source
          IN /\ users' = [users EXCEPT ![u] = new]
             /\ history' = [Revoke(history, u, changed) EXCEPT !.raced = Raced(s)]
             /\ req' = Written(s, Idle)
     ELSE /\ req' = [req EXCEPT ![s] = Idle]       \* executeTakeFirstOrThrow
          /\ UNCHANGED <<users, history>>
  /\ UNCHANGED <<passkeys, bound, settings, chal, regTok, sessions, count, created>>

RemoveCheck(s, u) ==
  /\ ~IsLastActiveAdmin(u)
  /\ Begin(s, Request("remove", u, "write", {}))
  /\ UNCHANGED <<users, passkeys, bound, settings, chal, regTok, sessions,
                 created, history>>

\* DELETE, with its ON DELETE CASCADE
RemoveDelete(s) ==
  LET u == req[s].u IN
  /\ req[s].pc = "write" /\ req[s].op = "remove"
  /\ users' = [x \in DOMAIN users \ {u} |-> users[x]]
  /\ passkeys' = passkeys \ {u}
  /\ bound' = bound \ {u}
  /\ req' = Written(s, Idle)
  /\ history' = [history EXCEPT !.raced = Raced(s)]
  /\ UNCHANGED <<settings, chal, regTok, sessions, count, created>>

NewRow(source, admin) ==
  [admin |-> admin, disabled |-> source # "local", source |-> source,
   pw |-> source = "local", epoch |-> 0, totp |-> FALSE,
   secret |-> 0, codes |-> {}]

Insert(u, row) ==
  /\ users' = [x \in DOMAIN users \cup {u} |-> IF x = u THEN row ELSE users[x]]
  /\ created' = created \cup {u}

\* POST /users; the UNIQUE e-mail makes the check and the INSERT one step
Create(s, u) ==
  /\ u \notin created
  /\ req[s].pc = "idle" /\ count < MaxRequests
  /\ Insert(u, NewRow("local", FALSE))
  /\ count' = count + 1
  /\ UNCHANGED <<passkeys, bound, settings, chal, regTok, sessions, req, history>>

-----------------------------------------------------------------------------
(* Logins.                                                                 *)
LoginRead(s, u) ==
  LET row == users[u] IN
  /\ settings.local
  /\ row.source = "local" /\ ~row.disabled /\ row.pw
  /\ IF row.totp
     THEN /\ chal = NoChallenge              \* bound: one challenge at a time
          /\ chal' = [NoChallenge EXCEPT !.u = {u}, !.left = ChallengeTtl]
          /\ req[s].pc = "idle" /\ count < MaxRequests
          /\ count' = count + 1
          /\ UNCHANGED req
     ELSE /\ Begin(s, Request("login", u, "sign", {}))
          /\ UNCHANGED chal
  /\ UNCHANGED <<users, passkeys, bound, settings, regTok, sessions, created, history>>

\* consumeAttempt: an entry past its time has been dropped
ConsumeAttempt ==
  /\ IF chal.track = 0 THEN 0 < MaxTotpAttempts ELSE chal.attempts < MaxTotpAttempts
  /\ chal' = [chal EXCEPT !.attempts = IF chal.track = 0 THEN 1 ELSE @ + 1,
                          !.track = IF chal.track = 0 THEN TrackTtl ELSE @]

LoginTotpRead(s, u, code) ==
  /\ settings.local
  /\ chal.left > 0 /\ chal.u = {u}
  /\ ConsumeAttempt
  /\ ~users[u].disabled /\ users[u].totp /\ users[u].secret # 0
  /\ code \in users[u].codes \cup {"totp"}
  /\ Begin(s, Request("loginTotp", u, "verify",
                      [code |-> code, burned |-> history.burned]))
  /\ history' = [history EXCEPT !.guesses = @ + 1]
  /\ UNCHANGED <<users, passkeys, bound, settings, regTok, sessions, created>>

\* A code that is wrong uses up an attempt.
LoginTotpWrong ==
  /\ settings.local /\ chal.left > 0 /\ chal.u # {}
  /\ ConsumeAttempt
  /\ history' = [history EXCEPT !.guesses = @ + 1]
  /\ UNCHANGED <<users, passkeys, bound, settings, regTok, sessions, req, count, created>>

\* Mutant: a recovery code is not removed.
LoginTotpVerifyKeeps(s) ==
  LET u == req[s].u
      code == req[s].arg.code
  IN
  /\ req[s].pc = "verify" /\ req[s].op = "loginTotp"
  /\ IF code = "totp"
     THEN /\ req' = [req EXCEPT ![s].pc = "burn"]
          /\ UNCHANGED <<users, history>>
     ELSE /\ users' = IF u \in DOMAIN users
                      THEN [users EXCEPT ![u].codes = req[s].row.codes]
                      ELSE users
          /\ req' = Written(s, [req[s] EXCEPT !.pc = "burn"])
          /\ history' = [history EXCEPT !.raced = Raced(s),
                           !.twice = @ \/ <<u, code>> \in history.spent,
                           !.spent = @ \cup {<<u, code>>}]
  /\ UNCHANGED <<passkeys, bound, settings, chal, regTok, sessions, count, created>>

\* consumeRecoveryCode writes the codes it read less the one used.
LoginTotpVerify(s) ==
  LET u == req[s].u
      code == req[s].arg.code
  IN
  /\ req[s].pc = "verify" /\ req[s].op = "loginTotp"
  /\ IF code = "totp"
     THEN /\ req' = [req EXCEPT ![s].pc = "burn"]
          /\ UNCHANGED <<users, history>>
     ELSE /\ users' = IF u \in DOMAIN users
                      THEN [users EXCEPT ![u].codes = req[s].row.codes \ {code}]
                      ELSE users
          /\ req' = Written(s, [req[s] EXCEPT !.pc = "burn"])
          /\ history' = [history EXCEPT !.raced = Raced(s),
                           !.twice = @ \/ <<u, code>> \in history.spent,
                           !.spent = @ \cup {<<u, code>>}]
  /\ UNCHANGED <<passkeys, bound, settings, chal, regTok, sessions, count, created>>

BurnChallenge(s) ==
  /\ req[s].pc = "burn"
  /\ chal' = [chal EXCEPT !.attempts = MaxTotpAttempts, !.track = TrackTtl]
  /\ history' = [history EXCEPT !.burned = TRUE]
  /\ req' = [req EXCEPT ![s].pc = "sign"]
  /\ UNCHANGED <<users, passkeys, bound, settings, regTok, sessions, count, created>>

\* verifyAuthentication finds the credential, then issueForUser the account.
PasskeyLogin(s, u) ==
  /\ settings.local
  /\ u \in passkeys
  /\ Begin(s, Request("passkey", u, "forUser", {}))
  /\ UNCHANGED <<users, passkeys, bound, settings, chal, regTok, sessions,
                 created, history>>

IssueForUser(s) ==
  LET u == req[s].u IN
  /\ req[s].pc = "forUser"
  /\ req' = [req EXCEPT ![s] =
               IF u \in DOMAIN users /\ ~users[u].disabled
               THEN [Continue(s, "sign") EXCEPT !.row = users[u]] ELSE Idle]
  /\ UNCHANGED <<users, passkeys, bound, settings, chal, regTok, sessions,
                 count, created, history>>

\* handleCallback: the subject decides; a verified e-mail creates the binding
\* of an SSO account or provisions a disabled one.
SsoResolve(s, u) ==
  /\ HasUsableSso
  /\ u \in DOMAIN users
  /\ users[u].source = "sso"
  /\ u \in bound => ~users[u].disabled        \* else refused as pending
  /\ Begin(s, Request("sso", u, IF u \in bound THEN "sign" ELSE "link", {}))
  /\ UNCHANGED <<users, passkeys, bound, settings, chal, regTok, sessions,
                 created, history>>

SsoLink(s) ==
  LET u == req[s].u IN
  /\ req[s].pc = "link"
  /\ IF u \in DOMAIN users
     THEN /\ bound' = bound \cup {u}
          /\ req' = [req EXCEPT ![s] = IF @.row.disabled THEN Idle
                                       ELSE [@ EXCEPT !.pc = "sign"]]
     ELSE /\ req' = [req EXCEPT ![s] = Idle]       \* foreign key
          /\ UNCHANGED bound
  /\ UNCHANGED <<users, passkeys, settings, chal, regTok, sessions, count,
                 created, history>>

SsoProvision(s, u) ==
  /\ HasUsableSso
  /\ u \notin created
  /\ req[s].pc = "idle" /\ count < MaxRequests
  /\ Insert(u, NewRow("sso", FALSE))
  /\ bound' = bound \cup {u}
  /\ count' = count + 1
  /\ UNCHANGED <<passkeys, settings, chal, regTok, sessions, req, history>>

\* AuthService.issue: the generation is read now, not when the proof was
\* checked, and the token reaches the browser only if the account is still
\* there (findById).
Sign(s) ==
  LET u == req[s].u IN
  /\ req[s].pc = "sign"
  /\ req' = [req EXCEPT ![s] = [@ EXCEPT !.pc = "deliver",
               !.row.epoch = IF u \in DOMAIN users THEN users[u].epoch ELSE 0]]
  /\ history' = [history EXCEPT !.raced = Raced(s)]
  /\ UNCHANGED <<users, passkeys, bound, settings, chal, regTok, sessions,
                 count, created>>

\* The end of a login in its controller.  `admin' says if the administrator IP
\* allowlist is consulted: it may refuse the address the request came from.
Deliver(s, admin) ==
  LET u == req[s].u IN
  /\ \/ /\ u \in DOMAIN users
        /\ sessions' = sessions \cup {[u |-> u, se |-> req[s].row.epoch]}
     \/ /\ u \in DOMAIN users => admin
        /\ UNCHANGED sessions
  /\ req' = [req EXCEPT ![s] = Idle]
  /\ UNCHANGED <<users, passkeys, bound, settings, chal, regTok, count, created,
                 history>>

\* assertLoginAllowed looks at the row findById returned with the token ...
AssertLoginAllowed(u) == u \in DOMAIN users => users[u].admin

LoginEnd(s) ==
  /\ req[s].pc = "deliver" /\ req[s].op = "login"
  /\ Deliver(s, AssertLoginAllowed(req[s].u))

LoginTotpEnd(s) ==
  /\ req[s].pc = "deliver" /\ req[s].op = "loginTotp"
  /\ Deliver(s, AssertLoginAllowed(req[s].u))

PasskeyLoginEnd(s) ==
  /\ req[s].pc = "deliver" /\ req[s].op = "passkey"
  /\ Deliver(s, AssertLoginAllowed(req[s].u))

\* ... the SSO callback at the row it resolved, and a change of password at
\* nothing.
CallbackEnd(s) ==
  /\ req[s].pc = "deliver" /\ req[s].op = "sso"
  /\ Deliver(s, req[s].row.admin)

ChangePasswordEnd(s) ==
  /\ req[s].pc = "deliver" /\ req[s].op = "changePw"
  /\ Deliver(s, FALSE)

-----------------------------------------------------------------------------
(* What a signed-in user changes: password, TOTP and passkeys.             *)
ChangePasswordRead(s, u) ==
  /\ SignedIn(u)
  /\ users[u].source = "local" /\ users[u].pw
  /\ Begin(s, Request("changePw", u, "write", {}))
  /\ UNCHANGED <<users, passkeys, bound, settings, chal, regTok, sessions,
                 created, history>>

\* Mutant: the generation is not bumped.
ChangePasswordWriteKeeps(s) ==
  LET u == req[s].u IN
  /\ req[s].pc = "write" /\ req[s].op = "changePw"
  /\ req' = Written(s, Continue(s, "forUser"))
  /\ IF u \in DOMAIN users
     THEN /\ users' = [users EXCEPT ![u].pw = TRUE]
          /\ history' = [Revoke(history, u, TRUE) EXCEPT !.raced = Raced(s)]
     ELSE UNCHANGED <<users, history>>
  /\ UNCHANGED <<passkeys, bound, settings, chal, regTok, sessions, count, created>>

ChangePasswordWrite(s) ==
  LET u == req[s].u IN
  /\ req[s].pc = "write" /\ req[s].op = "changePw"
  /\ req' = Written(s, Continue(s, "forUser"))
  /\ IF u \in DOMAIN users
     THEN /\ users' = [users EXCEPT ![u].pw = TRUE, ![u].epoch = @ + 1]
          /\ history' = [Revoke(history, u, TRUE) EXCEPT !.raced = Raced(s)]
     ELSE UNCHANGED <<users, history>>
  /\ UNCHANGED <<passkeys, bound, settings, chal, regTok, sessions, count, created>>

\* TOTP: setup and enable are refused once it is active, disable needs the
\* password.  All of them read the account first (loadLocalUser).
LoadLocalUser(s, u, op) ==
  /\ SignedIn(u)
  /\ users[u].source = "local"
  /\ Begin(s, Request(op, u, "write", count + 2))
  /\ UNCHANGED <<users, passkeys, bound, settings, chal, regTok, sessions, created>>

TotpSetupRead(s, u) ==
  ~users[u].totp /\ LoadLocalUser(s, u, "setup") /\ UNCHANGED history

TotpEnableRead(s, u) ==
  /\ ~users[u].totp /\ users[u].secret # 0
  /\ LoadLocalUser(s, u, "enable")
  /\ history' = [history EXCEPT !.confirmed = @ \cup {users[u].secret}]

TotpDisableRead(s, u) ==
  users[u].pw /\ LoadLocalUser(s, u, "disable") /\ UNCHANGED history

\* the UPDATEs are by id: they change what is there, or nothing
TotpUpdate(s, op, row) ==
  LET u == req[s].u IN
  /\ req[s].pc = "write" /\ req[s].op = op
  /\ users' = IF u \in DOMAIN users THEN [users EXCEPT ![u] = row] ELSE users
  /\ req' = Written(s, Idle)
  /\ history' = [history EXCEPT !.raced = Raced(s),
                   !.spent = IF op = "enable" THEN {x \in @ : x[1] # u} ELSE @]
  /\ UNCHANGED <<passkeys, bound, settings, chal, regTok, sessions, count, created>>

TotpSetupWrite(s) ==
  TotpUpdate(s, "setup", [users[req[s].u] EXCEPT !.secret = req[s].arg])

TotpEnableWrite(s) ==
  TotpUpdate(s, "enable", [users[req[s].u] EXCEPT !.totp = TRUE, !.codes = Codes])

TotpDisableWrite(s) ==
  TotpUpdate(s, "disable", [users[req[s].u] EXCEPT !.totp = FALSE, !.secret = 0, !.codes = {}])

RegistrationOptions(u) ==
  /\ SignedIn(u) /\ count < MaxRequests /\ count' = count + 1
  /\ users[u].source = "local"
  /\ regTok' = regTok \cup {u}
  /\ UNCHANGED <<users, passkeys, bound, settings, chal, sessions, req,
                 created, history>>

\* The account is not read again: only the session and the cookie count.
VerifyRegistration(u) ==
  /\ SignedIn(u) /\ count < MaxRequests /\ count' = count + 1
  /\ u \in regTok
  /\ passkeys' = passkeys \cup {u}
  /\ regTok' = regTok \ {u}
  /\ UNCHANGED <<users, bound, settings, chal, sessions, req, created,
                 history>>

RemovePasskey(u) ==
  /\ SignedIn(u) /\ count < MaxRequests /\ count' = count + 1
  /\ u \in passkeys
  /\ passkeys' = passkeys \ {u}
  /\ UNCHANGED <<users, bound, settings, chal, regTok, sessions, req,
                 created, history>>

-----------------------------------------------------------------------------
(* SettingsService: neither way in may be taken away while it is the only  *)
(* one.  The settings are two rows, checked and written one after another. *)
SettingsBegin(s, op, value) ==
  /\ req[s].pc = "idle" /\ count < MaxRequests
  /\ count' = count + 1
  /\ req' = [req EXCEPT ![s] = [op |-> op, u |-> {}, pc |-> "write",
                                row |-> {}, stale |-> FALSE, arg |-> value]]
  /\ UNCHANGED <<users, passkeys, bound, settings, chal, regTok, sessions,
                 created, history>>

SetLocalLoginCheck(s, on) ==
  /\ ActiveAdmins # {}
  /\ ~on => HasUsableSso
  /\ SettingsBegin(s, "setLocal", [local |-> on])

SetLocalLoginWrite(s) ==
  /\ req[s].pc = "write" /\ req[s].op = "setLocal"
  /\ settings' = [settings EXCEPT !.local = req[s].arg.local]
  /\ req' = Written(s, Idle)
  /\ history' = [history EXCEPT !.raced = Raced(s)]
  /\ UNCHANGED <<users, passkeys, bound, chal, regTok, sessions, count, created>>

\* The stored providers after an update: none is sent and they are kept, one
\* is sent with a blank secret and keeps its own, or the list is emptied.
Merged(providers) ==
  CASE providers \in {"undefined", "blankSecret"} -> settings.provider
    [] providers = "withSecret" -> TRUE
    [] providers = "empty" -> FALSE

UpdateSsoCheck(s, enabled, providers) ==
  /\ ActiveAdmins # {}
  /\ ~(enabled /\ Merged(providers)) => settings.local
  /\ SettingsBegin(s, "updateSso",
       [enabled |-> enabled, provider |-> Merged(providers)])

UpdateSsoWrite(s) ==
  /\ req[s].pc = "write" /\ req[s].op = "updateSso"
  /\ settings' = [settings EXCEPT !.enabled = req[s].arg.enabled,
                                 !.provider = req[s].arg.provider]
  /\ req' = Written(s, Idle)
  /\ history' = [history EXCEPT !.raced = Raced(s)]
  /\ UNCHANGED <<users, passkeys, bound, chal, regTok, sessions, count, created>>

-----------------------------------------------------------------------------
(* Time and restart.                                                       *)
Dec(n) == IF n = 0 THEN 0 ELSE n - 1

\* The challenge token, its entry and the registration cookie grow old.  When
\* token and entry are gone, a new login starts afresh.
Tick ==
  /\ chal.left > 0 \/ chal.track > 0 \/ regTok # {}
  /\ chal' = IF Dec(chal.left) = 0 /\ Dec(chal.track) = 0 THEN NoChallenge
             ELSE [chal EXCEPT !.left = Dec(@), !.track = Dec(@)]
  /\ regTok' = {}
  /\ history' = IF Dec(chal.left) = 0 /\ Dec(chal.track) = 0
                THEN [history EXCEPT !.guesses = 0, !.burned = FALSE]
                ELSE history
  /\ UNCHANGED <<users, passkeys, bound, settings, sessions, req, count, created>>

\* The server restarts: requests and challengeState are lost, and the
\* bootstrap admin is created if there is no user left.
Restart ==
  /\ \E s \in Slots : req[s].pc # "idle"
  /\ req' = [s \in Slots |-> Idle]
  /\ chal' = IF chal.left = 0 THEN NoChallenge ELSE [chal EXCEPT !.attempts = 0, !.track = 0]
  /\ history' = [history EXCEPT !.guesses = 0, !.burned = FALSE]
  /\ IF DOMAIN users = {} /\ Users \ created # {}
     THEN Insert(CHOOSE u \in Users \ created : TRUE, NewRow("local", TRUE))
     ELSE UNCHANGED <<users, created>>
  /\ UNCHANGED <<passkeys, bound, settings, regTok, sessions, count>>

-----------------------------------------------------------------------------
AdminNext ==
  \E s \in Slots :
    \/ \E u \in DOMAIN users :
         \/ \E dto \in Dtos : UpdateRead(s, u, dto)
         \/ RemoveCheck(s, u)
    \/ UpdatePasskeys(s) \/ UpdateWrite(s) \/ RemoveDelete(s)
    \/ \E u \in Users : Create(s, u)
    \/ \E on \in BOOLEAN :
         \/ SetLocalLoginCheck(s, on)
         \/ \E providers \in {"undefined", "blankSecret", "withSecret", "empty"} :
              UpdateSsoCheck(s, on, providers)
    \/ SetLocalLoginWrite(s) \/ UpdateSsoWrite(s)

LoginNext ==
  \/ LoginTotpWrong
  \/ \E s \in Slots :
       \/ \E u \in DOMAIN users :
            \/ LoginRead(s, u) \/ PasskeyLogin(s, u) \/ SsoResolve(s, u)
            \/ \E code \in Codes \cup {"totp"} : LoginTotpRead(s, u, code)
       \/ \E u \in Users : SsoProvision(s, u)
       \/ LoginTotpVerify(s) \/ BurnChallenge(s) \/ IssueForUser(s)
       \/ SsoLink(s) \/ Sign(s) \/ LoginEnd(s) \/ LoginTotpEnd(s)
       \/ PasskeyLoginEnd(s) \/ CallbackEnd(s)

SelfNext ==
  \/ \E u \in DOMAIN users : RegistrationOptions(u) \/ VerifyRegistration(u)
                             \/ RemovePasskey(u)
  \/ \E s \in Slots :
       \/ \E u \in DOMAIN users :
            \/ ChangePasswordRead(s, u)
            \/ TotpSetupRead(s, u) \/ TotpEnableRead(s, u) \/ TotpDisableRead(s, u)
       \/ ChangePasswordWrite(s) \/ ChangePasswordEnd(s)
       \/ TotpSetupWrite(s) \/ TotpEnableWrite(s) \/ TotpDisableWrite(s)

Next == AdminNext \/ LoginNext \/ SelfNext \/ Tick \/ Restart

Spec == Init /\ [][Next]_vars
-----------------------------------------------------------------------------
(* The properties.                                                         *)

\* Every variable keeps the shape of the tables and maps it stands for.
TypeOK ==
  /\ DOMAIN users \subseteq created /\ created \subseteq Users
  /\ users \in [DOMAIN users -> Row]
  /\ passkeys \subseteq DOMAIN users /\ bound \subseteq DOMAIN users
  /\ settings \in [local: BOOLEAN, enabled: BOOLEAN, provider: BOOLEAN]
  /\ chal.left \in 0..ChallengeTtl /\ chal.track \in 0..TrackTtl
  /\ chal.attempts \in 0..MaxTotpAttempts
  /\ regTok \subseteq Users
  /\ sessions \subseteq Token
  /\ count \in 0..MaxRequests

\* A session that was in a browser when the password or the auth source of its
\* account changed is never accepted again, whatever requests run beside the
\* change and whatever is signed after it (users.session_epoch, fromJwt).
RevokedRefused == \A t \in history.revoked : ~Accepted(t)

\* While the server runs, a challenge accepts no more guesses than
\* MAX_TOTP_ATTEMPTS, and no guess that comes after it was burned gets past
\* consumeAttempt: the entry outlives the token it guards.
ChallengeSpent ==
  /\ history.guesses <= MaxTotpAttempts
  /\ \A s \in Slots : req[s].pc = "verify" => ~req[s].arg.burned

\* Somebody can always administer the instance: update and remove never take
\* away the last enabled administrator, unless two of them overlapped.
AdminRemains == history.raced \/ ActiveAdmins # {}

\* There is always a way to sign in: local login is not switched off without a
\* usable provider, nor the last provider without local login, unless the two
\* requests overlapped.
WayIn == history.raced \/ settings.local \/ HasUsableSso

\* Unless requests for one account overlapped, its credentials fit together:
\* TOTP is active only on a local account and with a secret that a code was
\* entered for, and an account has a password exactly if it is local.
CredentialsFit ==
  history.raced \/ \A u \in DOMAIN users :
    /\ users[u].totp => users[u].source = "local" /\ users[u].secret \in history.confirmed
    /\ users[u].pw = (users[u].source = "local")

\* Unless logins overlapped, a recovery code opens the account once.
RecoveryOnce == history.raced \/ ~history.twice

\* A second factor counts once: neither a challenge nor a recovery code that
\* was used opens an account again.
SecondFactorOnce == ChallengeSpent /\ RecoveryOnce

\* The accounts and the login settings fit together.
AccountsFit == TypeOK /\ WayIn /\ CredentialsFit
=============================================================================
