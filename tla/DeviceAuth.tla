----------------------------- MODULE DeviceAuth -----------------------------
(***************************************************************************)
(* Pairing the command line client with the server (`ambb login', after    *)
(* RFC 8628) and the API keys it ends in: device-auth.service.ts and       *)
(* api-keys.service.ts on the server, the approval page of the web client  *)
(* and login.go of the command line client.                                *)
(*                                                                         *)
(* The client polls.  A poll may be answered, lost on its way back, or     *)
(* handled twice (a proxy repeats the POST); the exchange reads the row of *)
(* the pairing and claims it later, in one transaction.                    *)
(***************************************************************************)
EXTENDS Naturals, FiniteSets

CONSTANTS
  Users,      \* accounts that can approve
  Polls,      \* exchanges the server works on at the same time
  CodeTtl,    \* life of a pairing in ticks (DEVICE_CODE_TTL_SECONDS)
  KeyTtl,     \* life of an API key that expires, in ticks
  MaxKeys,    \* bound: keys ever minted
  MaxChanges, \* bound: changes administrators make to accounts
  MaxFaults   \* bound: lost answers, repeated polls, files not written

ASSUME DeviceBounds ==
  /\ CodeTtl \in Nat \ {0} /\ KeyTtl \in Nat \ {0} /\ MaxKeys \in Nat
  /\ MaxChanges \in Nat /\ MaxFaults \in Nat

VARIABLES
  accounts,  \* existing users: [admin, disabled]
  pairing,   \* the row of device_authorizations, or NoRow
  keys,      \* api_keys: ids 1..minted to rows, of those not deleted
  minted,    \* keys ever inserted
  exchange,  \* the polls the server is working on
  page,      \* the approval page: its phase, and whose session it runs in
  cli,       \* the command line client: where it is and the key it stores
  changes,   \* changes made so far
  faults,    \* faults so far
  approvals  \* what approvers chose, for the properties

deviceVars == <<accounts, pairing, keys, minted, exchange, page, cli, changes,
                faults, approvals>>

NoRow == [status |-> "none"]
NoUser == "nobody"
Access == {"read", "full"}
Never == KeyTtl + 1                    \* expires_at is NULL

Live(p) == p.status # "none" /\ p.left > 0

\* fromApiKey accepts a key of an enabled user that has not expired.
Usable(k) ==
  /\ k \in DOMAIN keys
  /\ keys[k].left > 0
  /\ ~accounts[keys[k].user].disabled

DeviceInit ==
  /\ \E a \in Users : accounts = [u \in Users |-> [admin |-> u = a, disabled |-> FALSE]]
  /\ pairing = NoRow
  /\ keys = <<>> /\ minted = 0
  /\ exchange = [s \in Polls |-> "idle"]
  /\ page = [phase |-> "enter", user |-> NoUser]
  /\ cli = [pc |-> "start", key |-> 0, refused |-> FALSE]
  /\ changes = 0 /\ faults = 0
  /\ approvals = {}

Fault == faults < MaxFaults /\ faults' = faults + 1

-----------------------------------------------------------------------------
(* The command line client.                                                *)
RequestCode ==
  [status |-> "pending", user |-> NoUser, access |-> "none", expires |-> Never,
   left |-> CodeTtl, key |-> 0]

RunLogin ==
  /\ cli.pc = "start"
  /\ pairing = NoRow
  /\ cli' = [cli EXCEPT !.pc = "wait"]
  /\ pairing' = RequestCode
  /\ UNCHANGED <<accounts, keys, minted, exchange, page, changes, faults, approvals>>

SendPoll(s) ==
  /\ cli.pc = "wait" /\ exchange[s] = "idle"
  /\ cli' = [cli EXCEPT !.pc = "poll"]
  /\ exchange' = [exchange EXCEPT ![s] = "read"]
  /\ UNCHANGED <<accounts, pairing, keys, minted, page, changes, faults, approvals>>

RepeatPoll(s) ==
  /\ cli.pc = "poll" /\ exchange[s] = "idle"
  /\ \E t \in Polls : exchange[t] # "idle"
  /\ Fault
  /\ exchange' = [exchange EXCEPT ![s] = "read"]
  /\ UNCHANGED <<accounts, pairing, keys, minted, page, cli, changes, approvals>>

\* What the client does with an answer; one that is not waited for is dropped.
OnAnswer(status, key) ==
  IF cli.pc # "poll" THEN cli
  ELSE CASE status \in {"pending", "slow_down"} -> [cli EXCEPT !.pc = "wait"]
         [] status \in {"denied", "expired"} -> [cli EXCEPT !.pc = "failed"]
         [] status = "approved" -> [cli EXCEPT !.pc = "done", !.key = key]

\* The answer is lost, or the credentials file cannot be written: the client
\* gives up, and a key it was given stays behind on the server.
LoseAnswer ==
  /\ cli.pc = "poll"
  /\ Fault
  /\ cli' = [cli EXCEPT !.pc = "failed"]
  /\ UNCHANGED <<accounts, pairing, keys, minted, exchange, page, changes, approvals>>

\* The deadline of the client is set after the row was inserted.
Deadline ==
  /\ cli.pc = "wait"
  /\ pairing # NoRow /\ pairing.left = 0
  /\ cli' = [cli EXCEPT !.pc = "failed"]
  /\ UNCHANGED <<accounts, pairing, keys, minted, exchange, page, changes, faults, approvals>>

\* DELETE FROM api_keys WHERE id = k
RemoveKey(k) == [x \in DOMAIN keys \ {k} |-> keys[x]]

\* The handler of logout deletes the key the guard has just accepted.
RevokeCurrentKey(k) == IF Usable(k) THEN RemoveKey(k) ELSE keys

\* runLogout: the server deletes the key (revokeCurrentKey) or answers 401;
\* either way the client forgets it.
RunLogout ==
  /\ cli.pc = "done"
  /\ keys' = RevokeCurrentKey(cli.key)
  /\ cli' = [cli EXCEPT !.pc = "out", !.refused = ~Usable(cli.key)]
  /\ UNCHANGED <<accounts, pairing, minted, exchange, page, changes, faults, approvals>>

\* The answer is lost: the key is gone, the client keeps its copy to retry.
LoseLogout ==
  /\ cli.pc = "done" /\ Usable(cli.key)
  /\ Fault
  /\ keys' = RevokeCurrentKey(cli.key)
  /\ UNCHANGED <<accounts, pairing, minted, exchange, page, cli, changes, approvals>>

-----------------------------------------------------------------------------
(* The server.                                                             *)
Answer(s, status) ==
  /\ exchange' = [exchange EXCEPT ![s] = "idle"]
  /\ cli' = OnAnswer(status, 0)

ExchangeRead(s) ==
  /\ exchange[s] = "read"
  /\ \/ /\ ~Live(pairing) \/ pairing.status = "consumed"
        /\ Answer(s, "expired")
     \/ /\ Live(pairing) /\ pairing.status = "denied"
        /\ Answer(s, "denied")
     \/ /\ Live(pairing) /\ pairing.status = "pending"
        /\ \E status \in {"pending", "slow_down"} : Answer(s, status)
     \/ /\ Live(pairing) /\ pairing.status = "approved"
        /\ exchange' = [exchange EXCEPT ![s] = "claim"]
        /\ UNCHANGED cli
  /\ UNCHANGED <<accounts, pairing, keys, minted, page, changes, faults, approvals>>

CreateKey(user, access, expires) ==
  /\ minted < MaxKeys
  /\ minted' = minted + 1
  /\ keys' = [k \in DOMAIN keys \cup {minted + 1} |->
                IF k \in DOMAIN keys THEN keys[k]
                ELSE [user |-> user, access |-> access, left |-> expires]]

\* Mutant: the status is not part of the WHERE clause.
ClaimAny(s) ==
  /\ exchange[s] = "claim"
  /\ exchange' = [exchange EXCEPT ![s] = "idle"]
  /\ IF Live(pairing) /\ pairing.user \in DOMAIN accounts
     THEN /\ CreateKey(pairing.user, pairing.access, pairing.expires)
          /\ pairing' = [pairing EXCEPT !.status = "consumed", !.key = minted + 1]
          /\ cli' = OnAnswer("approved", minted + 1)
     ELSE /\ UNCHANGED <<keys, minted, pairing>>
          /\ cli' = OnAnswer("expired", 0)
  /\ UNCHANGED <<accounts, page, changes, faults, approvals>>

\* Mutant: a claim that finds the pairing decided otherwise is not answered.
ClaimSilent(s) ==
  /\ exchange[s] = "claim"
  /\ exchange' = [exchange EXCEPT ![s] = "idle"]
  /\ \/ /\ Live(pairing) /\ pairing.status = "approved"
        /\ \/ /\ ~accounts[pairing.user].disabled
              /\ CreateKey(pairing.user, pairing.access, pairing.expires)
              /\ pairing' = [pairing EXCEPT !.status = "consumed", !.key = minted + 1]
              /\ cli' = OnAnswer("approved", minted + 1)
           \/ /\ accounts[pairing.user].disabled
              /\ pairing' = [pairing EXCEPT !.status = "consumed"]
              /\ cli' = OnAnswer("expired", 0)
              /\ UNCHANGED <<keys, minted>>
     \/ /\ ~(Live(pairing) /\ pairing.status = "approved")
        /\ UNCHANGED <<cli, keys, minted, pairing>>
  /\ UNCHANGED <<accounts, page, changes, faults, approvals>>

\* claim: UPDATE ... WHERE status = 'approved', the check of the user and the
\* INSERT of the key are one transaction.  A disabled user consumes the code.
Claim(s) ==
  /\ exchange[s] = "claim"
  /\ exchange' = [exchange EXCEPT ![s] = "idle"]
  /\ \/ /\ Live(pairing) /\ pairing.status = "approved"
        /\ \/ /\ ~accounts[pairing.user].disabled
              /\ CreateKey(pairing.user, pairing.access, pairing.expires)
              /\ pairing' = [pairing EXCEPT !.status = "consumed", !.key = minted + 1]
              /\ cli' = OnAnswer("approved", minted + 1)
           \/ /\ accounts[pairing.user].disabled
              /\ pairing' = [pairing EXCEPT !.status = "consumed"]
              /\ cli' = OnAnswer("expired", 0)
              /\ UNCHANGED <<keys, minted>>
     \/ /\ ~(Live(pairing) /\ pairing.status = "approved")
        /\ cli' = OnAnswer("expired", 0)
        /\ UNCHANGED <<keys, minted, pairing>>
  /\ UNCHANGED <<accounts, page, changes, faults, approvals>>

-----------------------------------------------------------------------------
(* The approval page and the endpoints behind it.  The session belongs to  *)
(* an enabled user when the guard lets the request in.                     *)
SessionOf(u) == u \in DOMAIN accounts /\ ~accounts[u].disabled

\* What the approval page offers in a phase: the form, or the two decisions.
EnterForm == page.phase = "enter"
ReviewPanel == page.phase = "review"

\* WHERE status = 'pending' AND expires_at > now; anything else answers 404.
Pending == Live(pairing) /\ pairing.status = "pending"

PageLookup(u) ==
  /\ SessionOf(u)
  /\ EnterForm
  /\ Pending
  /\ page' = [phase |-> "review", user |-> u]
  /\ UNCHANGED <<accounts, pairing, keys, minted, exchange, cli, changes, faults, approvals>>

Approved(u, access, expires) ==
  [pairing EXCEPT !.status = "approved", !.user = u, !.access = access,
                  !.expires = expires]

Denied(u) == [pairing EXCEPT !.status = "denied", !.user = u]

\* decide: a refused decision leaves the page where it is
Approve(access, expires) ==
  /\ ReviewPanel /\ SessionOf(page.user)
  /\ Pending
  /\ pairing' = Approved(page.user, access, expires)
  /\ approvals' = approvals \cup {[user |-> page.user, access |-> access]}
  /\ page' = [page EXCEPT !.phase = "approved"]
  /\ UNCHANGED <<accounts, keys, minted, exchange, cli, changes, faults>>

Deny(u) ==
  /\ SessionOf(u)
  /\ Pending
  /\ pairing' = Denied(u)
  /\ page' = IF page.user = u THEN [page EXCEPT !.phase = "denied"] ELSE page
  /\ UNCHANGED <<accounts, keys, minted, exchange, cli, changes, faults, approvals>>

\* purgeExpired, a day after the pairing expired
PurgeExpired ==
  /\ pairing.status # "none" /\ pairing.left = 0
  /\ cli.pc \notin {"wait", "poll"}
  /\ pairing' = NoRow
  /\ UNCHANGED <<accounts, keys, minted, exchange, page, cli, changes, faults, approvals>>

-----------------------------------------------------------------------------
(* Administrators change accounts meanwhile (see Accounts).                *)
Change == changes < MaxChanges /\ changes' = changes + 1

SetDisabled(u, d) ==
  /\ u \in DOMAIN accounts
  /\ Change
  /\ accounts' = [accounts EXCEPT ![u].disabled = d]
  /\ UNCHANGED <<pairing, keys, minted, exchange, page, cli, faults, approvals>>

\* The keys and the pairing of a deleted user go with the account.
DeleteUser(u) ==
  /\ u \in DOMAIN accounts
  /\ Change
  /\ accounts' = [x \in DOMAIN accounts \ {u} |-> accounts[x]]
  /\ keys' = [k \in {x \in DOMAIN keys : keys[x].user # u} |-> keys[k]]
  /\ pairing' = IF pairing # NoRow /\ pairing.user = u THEN NoRow ELSE pairing
  /\ UNCHANGED <<minted, exchange, page, cli, faults, approvals>>

Dec(n) == IF n = 0 THEN 0 ELSE n - 1

DeviceTick ==
  /\ \/ Live(pairing)
     \/ \E k \in DOMAIN keys : keys[k].left \in 1..KeyTtl
  /\ pairing' = IF pairing = NoRow THEN NoRow
                ELSE [pairing EXCEPT !.left = Dec(@)]
  /\ keys' = [k \in DOMAIN keys |->
                [keys[k] EXCEPT !.left = IF @ = Never THEN @ ELSE Dec(@)]]
  /\ UNCHANGED <<accounts, minted, exchange, page, cli, changes, faults, approvals>>

ServerStep == \E s \in Polls : ExchangeRead(s) \/ Claim(s)
ClientStep == Deadline \/ \E s \in Polls : SendPoll(s)

DeviceNext ==
  \/ RunLogin \/ ClientStep \/ ServerStep
  \/ LoseAnswer \/ RunLogout \/ LoseLogout \/ PurgeExpired \/ DeviceTick
  \/ \E s \in Polls : RepeatPoll(s)
  \/ \E u \in Users :
       \/ PageLookup(u) \/ Deny(u) \/ DeleteUser(u)
       \/ \E d \in BOOLEAN : SetDisabled(u, d)
  \/ \E access \in Access, expires \in {KeyTtl, Never} : Approve(access, expires)

-----------------------------------------------------------------------------
DeviceTypeOK ==
  /\ accounts \in [DOMAIN accounts -> [admin: BOOLEAN, disabled: BOOLEAN]]
  /\ pairing.status \in {"none", "pending", "approved", "denied", "consumed"}
  /\ minted \in 0..MaxKeys /\ DOMAIN keys \subseteq 1..minted
  /\ \A k \in DOMAIN keys : keys[k].user \in DOMAIN accounts
  /\ exchange \in [Polls -> {"idle", "read", "claim"}]
  /\ page.phase \in {"enter", "review", "approved", "denied"}
  /\ cli.pc \in {"start", "wait", "poll", "done", "failed", "out"}

\* "a device code yields at most one key" (device-auth.service.ts): whatever
\* polls are repeated and however their exchanges interleave.
OneKeyPerCode == minted <= 1

\* A key of a pairing belongs to a user who approved it and has the access that
\* user chose, whoever else looked at, denied or approved it meanwhile.
KeyAsApproved ==
  \A k \in DOMAIN keys : [user |-> keys[k].user, access |-> keys[k].access] \in approvals

\* Once `ambb logout' has said so, the key it had stored opens nothing: it has
\* been deleted, also if the first answer was lost, unless the server refused
\* to talk to the client.
LoggedOutRevoked == cli.pc = "out" /\ ~cli.refused => ~Usable(cli.key)

\* `ambb login' ends: with a key, or because the pairing was decided against,
\* expired or disturbed.
LoginEnds == cli.pc \in {"wait", "poll"} ~> cli.pc \notin {"wait", "poll"}
=============================================================================
