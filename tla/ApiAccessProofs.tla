--------------------------- MODULE ApiAccessProofs ---------------------------
(***************************************************************************)
(* A pairing yields one key at most, as it was approved, until the client  *)
(* logs out, and a key never reaches further than its owner or its scope:  *)
(* for any accounts, any number of polls at a time and any faults.         *)
(***************************************************************************)
EXTENDS ApiAccess, TLAPS

(* The shape of the state of DeviceAuth, in parts.                           *)
AccountsType == accounts \in [DOMAIN accounts -> [admin : BOOLEAN, disabled : BOOLEAN]]
Pairings ==
  [status : {"pending", "approved", "denied", "consumed"}, user : Users \cup {NoUser},
   access : Access \cup {"none"}, expires : {KeyTtl, Never}, left : 0..CodeTtl, key : Nat]
PairingType == pairing = NoRow \/ pairing \in Pairings
KeyRows == [user : DOMAIN accounts, access : Access, left : 0..Never]
KeysType ==
  /\ minted \in 0..MaxKeys /\ DOMAIN keys \subseteq 1..minted
  /\ \A k \in DOMAIN keys : keys[k] \in KeyRows
ExchangeType == exchange \in [Polls -> {"idle", "read", "claim"}]
PageType == page \in [phase : {"enter", "review", "approved", "denied"},
   user : Users \cup {NoUser}]
Clients ==
  [pc : {"start", "wait", "poll", "done", "failed", "out"}, key : 0..minted, refused : BOOLEAN]
ClientType == cli \in Clients

(* An approved pairing is of an account that is still there and chose it.    *)
Decided ==
  pairing.status = "approved" =>
    /\ pairing.user \in DOMAIN accounts /\ pairing.access \in Access
    /\ [user |-> pairing.user, access |-> pairing.access] \in approvals

(* There is a key only after the pairing was consumed, and a client that has *)
(* not started has no pairing.                                               *)
OneKey ==
  /\ minted <= 1
  /\ pairing.status \in {"pending", "approved", "denied"} => minted = 0
  /\ cli.pc = "start" => pairing = NoRow /\ minted = 0

(* A key the client has logged out of is deleted, and its id is not reused.  *)
LoggedOut == cli.pc = "out" /\ ~cli.refused => cli.key \notin DOMAIN keys

DeviceInv ==
  /\ AccountsType /\ PairingType /\ KeysType /\ ExchangeType /\ PageType /\ ClientType
  /\ Decided /\ OneKey /\ KeyAsApproved /\ LoggedOut

-----------------------------------------------------------------------------
(* What the client makes of an answer: it neither starts again nor logs out. *)
LEMMA AnswerKeeps ==
  ASSUME ClientType, NEW status \in {"pending", "slow_down", "denied", "expired", "approved"},
         NEW key \in Nat, NEW n \in Nat, minted \in Nat, minted <= n, key <= n
  PROVE  /\ OnAnswer(status, key) \in
              [pc : {"start", "wait", "poll", "done", "failed", "out"}, key : 0..n,
                 refused : BOOLEAN]
         /\ OnAnswer(status, key).pc \in {"start", "out"} => OnAnswer(status, key) = cli
<1>1. CASE cli.pc # "poll"
  BY <1>1 DEF OnAnswer, ClientType, Clients
<1>2. CASE cli.pc = "poll" /\ status \in {"pending", "slow_down"}
  BY <1>2 DEF OnAnswer, ClientType, Clients
<1>3. CASE cli.pc = "poll" /\ status \in {"denied", "expired"}
  BY <1>3 DEF OnAnswer, ClientType, Clients
<1>4. CASE cli.pc = "poll" /\ status = "approved"
  <2>1. OnAnswer(status, key) = [cli EXCEPT !.pc = "done", !.key = key]
    BY <1>4 DEF OnAnswer
  <2>2. OnAnswer(status, key) = [pc |-> "done", key |-> key, refused |-> cli.refused]
    BY <2>1 DEF ClientType, Clients
  <2>3. cli.refused \in BOOLEAN /\ key \in 0..n
    BY DEF ClientType, Clients
  <2>4. QED
    BY <2>2, <2>3
<1>5. QED
  BY <1>1, <1>2, <1>3, <1>4

(* The answers that carry no key.                                            *)
LEMMA RefusalKeeps ==
  ASSUME ClientType, NEW status \in {"pending", "slow_down", "denied", "expired"}
  PROVE  /\ OnAnswer(status, 0) \in Clients
         /\ OnAnswer(status, 0).pc \in {"start", "out"} => OnAnswer(status, 0) = cli
<1>1. CASE cli.pc # "poll"
  BY <1>1 DEF OnAnswer, ClientType
<1>2. CASE cli.pc = "poll" /\ status \in {"pending", "slow_down"}
  <2>1. OnAnswer(status, 0) = [cli EXCEPT !.pc = "wait"]
    BY <1>2 DEF OnAnswer
  <2>2. QED
    BY <2>1 DEF ClientType, Clients
<1>3. CASE cli.pc = "poll" /\ status \in {"denied", "expired"}
  <2>1. OnAnswer(status, 0) = [cli EXCEPT !.pc = "failed"]
    BY <1>3 DEF OnAnswer
  <2>2. QED
    BY <2>1 DEF ClientType, Clients
<1>4. QED
  BY <1>1, <1>2, <1>3

(* No device code, key or login exists at first.                             *)
LEMMA DeviceInitInv == DeviceInit => DeviceInv
<1> SUFFICES ASSUME DeviceInit PROVE DeviceInv
  OBVIOUS
<1> USE DeviceBounds DEF DeviceInit
<1>1. AccountsType
  BY DEF AccountsType
<1>2. PairingType /\ ExchangeType
  BY DEF PairingType, ExchangeType
<1>3. DOMAIN keys = {}
  OBVIOUS
<1>4. KeysType /\ KeyAsApproved
  BY <1>3 DEF KeysType, KeyAsApproved
<1>5. PageType /\ ClientType
  BY DEF PageType, ClientType, Clients
<1>6. Decided /\ OneKey /\ LoggedOut
  BY DEF Decided, OneKey, LoggedOut, NoRow
<1>7. QED
  BY <1>1, <1>2, <1>4, <1>5, <1>6 DEF DeviceInv

(* Every step of the client, the server, the approval page and the           *)
(* administrators keeps the invariant.                                       *)
LEMMA DeviceStepInv == DeviceInv /\ DeviceNext => DeviceInv'
<1> SUFFICES ASSUME DeviceInv, DeviceNext PROVE DeviceInv'
  OBVIOUS
<1> USE DeviceBounds
<1>a. /\ AccountsType /\ PairingType /\ KeysType /\ ExchangeType /\ PageType /\ ClientType
      /\ Decided /\ OneKey /\ KeyAsApproved /\ LoggedOut
  BY DEF DeviceInv
<1>1. CASE RunLogin
  <2> USE <1>1 DEF RunLogin, RequestCode
  <2>1. (AccountsType /\ KeysType /\ ExchangeType /\ PageType /\ KeyAsApproved)'
    BY <1>a DEF AccountsType, KeysType, KeyRows, ExchangeType, PageType, KeyAsApproved
  <2>2. PairingType'
    BY <1>a DEF PairingType, Pairings, Access, Never, NoRow
  <2>3. ClientType'
    BY <1>a DEF ClientType, Clients, KeysType
  <2>4. Decided'
    BY <1>a DEF Decided, PairingType, Pairings, NoRow, PageType
  <2>5. OneKey'
    BY <1>a DEF OneKey, PairingType, Pairings, NoRow, ClientType, Clients, KeysType
  <2>6. LoggedOut'
    BY <1>a DEF LoggedOut, ClientType, Clients, KeysType
  <2>7. QED
    BY <2>1, <2>2, <2>3, <2>4, <2>5, <2>6 DEF DeviceInv
<1>2. ASSUME NEW s \in Polls, SendPoll(s)
      PROVE  DeviceInv'
  <2> USE <1>2 DEF SendPoll
  <2>1. (AccountsType /\ PairingType /\ KeysType /\ PageType /\ Decided /\ KeyAsApproved)'
    BY <1>a DEF AccountsType, PairingType, KeysType, KeyRows, PageType, Decided, KeyAsApproved
  <2>2. ExchangeType'
    BY <1>a DEF ExchangeType
  <2>3. ClientType'
    BY <1>a DEF ClientType, Clients, KeysType
  <2>4. OneKey'
    BY <1>a DEF OneKey, PairingType, Pairings, NoRow, ClientType, Clients, KeysType
  <2>5. LoggedOut'
    BY <1>a DEF LoggedOut, ClientType, Clients, KeysType
  <2>6. QED
    BY <2>1, <2>2, <2>3, <2>4, <2>5 DEF DeviceInv
<1>3. ASSUME NEW s \in Polls, RepeatPoll(s)
      PROVE  DeviceInv'
  <2> USE <1>3 DEF RepeatPoll, Fault
  <2>1. (AccountsType /\ PairingType /\ KeysType /\ PageType /\ ClientType /\ Decided /\ OneKey
        /\ KeyAsApproved /\ LoggedOut)'
    BY <1>a DEF AccountsType, PairingType, KeysType, KeyRows, PageType, ClientType, Clients,
       Decided, OneKey, KeyAsApproved, LoggedOut
  <2>2. ExchangeType'
    BY <1>a DEF ExchangeType
  <2>3. QED
    BY <2>1, <2>2 DEF DeviceInv
<1>4. CASE Deadline
  <2> USE <1>4 DEF Deadline
  <2>1. (AccountsType /\ PairingType /\ KeysType /\ ExchangeType /\ PageType /\ Decided
        /\ KeyAsApproved)'
    BY <1>a DEF AccountsType, PairingType, KeysType, KeyRows, ExchangeType, PageType, Decided,
       KeyAsApproved
  <2>2. ClientType'
    BY <1>a DEF ClientType, Clients, KeysType
  <2>3. OneKey'
    BY <1>a DEF OneKey, PairingType, Pairings, NoRow, ClientType, Clients, KeysType
  <2>4. LoggedOut'
    BY <1>a DEF LoggedOut, ClientType, Clients, KeysType
  <2>5. QED
    BY <2>1, <2>2, <2>3, <2>4 DEF DeviceInv
<1>5. ASSUME NEW s \in Polls, ExchangeRead(s)
      PROVE  DeviceInv'
  <2>a. UNCHANGED <<accounts, pairing, keys, minted, page, changes, faults, approvals>>
    BY <1>5 DEF ExchangeRead
  <2>1. AccountsType' /\ PairingType' /\ PageType' /\ Decided' /\ KeyAsApproved'
    BY <1>a, <2>a DEF AccountsType, PairingType, PageType, Decided, KeyAsApproved
  <2>2. KeysType'
    BY <1>a, <2>a DEF KeysType, KeyRows
  <2>3. ExchangeType'
    <3>1. \E to \in {"idle", "claim"} : exchange' = [exchange EXCEPT ![s] = to]
      BY <1>5 DEF ExchangeRead, Answer
    <3>2. QED
      BY <1>a, <3>1 DEF ExchangeType
  <2>4. cli' \in Clients /\ (cli'.pc \in {"start", "out"} => cli' = cli)
    <3>1. \/ cli' = cli
          \/ \E status \in {"pending", "slow_down", "denied", "expired"} :
               cli' = OnAnswer(status, 0)
      BY <1>5 DEF ExchangeRead, Answer
    <3>2. CASE cli' = cli
      BY <1>a, <3>2 DEF ClientType
    <3>3. ASSUME NEW status \in {"pending", "slow_down", "denied", "expired"},
                 cli' = OnAnswer(status, 0)
          PROVE  cli' \in Clients /\ (cli'.pc \in {"start", "out"} => cli' = cli)
      BY <1>a, <3>3, RefusalKeeps
    <3>4. QED
      BY <3>1, <3>2, <3>3
  <2>5. ClientType'
    BY <2>a, <2>4 DEF ClientType, Clients
  <2>6. OneKey'
    BY <1>a, <2>a, <2>4 DEF OneKey
  <2>7. LoggedOut'
    BY <1>a, <2>a, <2>4 DEF LoggedOut
  <2>8. QED
    BY <2>1, <2>2, <2>3, <2>5, <2>6, <2>7 DEF DeviceInv
<1>6. ASSUME NEW s \in Polls, Claim(s)
      PROVE  DeviceInv'
  <2> USE <1>6
  <2>1. AccountsType' /\ ExchangeType' /\ PageType'
    BY <1>a DEF Claim, AccountsType, ExchangeType, PageType
  <2>2. CASE /\ pairing.status = "approved"
             /\ CreateKey(pairing.user, pairing.access, pairing.expires)
             /\ pairing' = [pairing EXCEPT !.status = "consumed", !.key = minted + 1]
             /\ cli' = OnAnswer("approved", minted + 1)
    <3>1. /\ pairing \in Pairings /\ pairing.user \in DOMAIN accounts /\ pairing.access \in Access
          /\ [user |-> pairing.user, access |-> pairing.access] \in approvals
      BY <1>a, <2>2 DEF PairingType, Decided, NoRow
    <3>2. minted = 0 /\ minted' = 1 /\ 1 <= MaxKeys /\ UNCHANGED <<accounts, approvals>>
      BY <1>a, <2>2 DEF OneKey, CreateKey, Claim, KeysType
    <3>3. DOMAIN keys = {}
      BY <1>a, <3>2 DEF KeysType
    <3>4. keys' = [k \in {1} |-> [user |-> pairing.user, access |-> pairing.access,
       left |-> pairing.expires]]
      BY <2>2, <3>2, <3>3 DEF CreateKey
    <3>5. KeysType'
      BY <3>1, <3>2, <3>4 DEF KeysType, KeyRows, Pairings, Never
    <3>6. PairingType' /\ pairing'.status = "consumed"
      <4>a. minted + 1 = 1 /\ pairing' = [pairing EXCEPT !.status = "consumed",
         !.key = minted + 1]
        BY <2>2, <3>2
      <4>1. pairing' = [status |-> "consumed", user |-> pairing.user, access |-> pairing.access,
                        expires |-> pairing.expires, left |-> pairing.left, key |-> 1]
        BY <3>1, <4>a DEF Pairings
      <4>2. QED
        BY <3>1, <4>1 DEF PairingType, Pairings
    <3>7. ClientType' /\ (cli'.pc \in {"start", "out"} => cli' = cli)
      BY <1>a, <2>2, <3>2, AnswerKeeps DEF ClientType, Clients
    <3>8. OneKey' /\ Decided'
      BY <1>a, <2>2, <3>2, <3>6, <3>7 DEF OneKey, Decided, NoRow
    <3>9. KeyAsApproved'
      BY <3>1, <3>2, <3>4 DEF KeyAsApproved
    <3>10. LoggedOut'
      BY <1>a, <3>2, <3>4, <3>7 DEF LoggedOut, ClientType, Clients
    <3>11. QED
      BY <2>1, <3>5, <3>6, <3>7, <3>8, <3>9, <3>10 DEF DeviceInv
  <2>3. CASE /\ cli' = OnAnswer("expired", 0) /\ UNCHANGED <<keys, minted>>
             /\ pairing' = pairing \/ (pairing.status = "approved"
                                        /\ pairing' = [pairing EXCEPT !.status = "consumed"])
    <3>1. UNCHANGED <<accounts, approvals>>
      BY DEF Claim
    <3>2. PairingType' /\ (pairing'.status \in {"pending", "approved",
       "denied"} => pairing' = pairing)
      BY <1>a, <2>3 DEF PairingType, Pairings, NoRow
    <3>3. ClientType' /\ (cli'.pc \in {"start", "out"} => cli' = cli)
      BY <1>a, <2>3, AnswerKeeps DEF ClientType, Clients, KeysType
    <3>4. OneKey' /\ Decided'
      BY <1>a, <2>3, <3>1, <3>2, <3>3 DEF OneKey, Decided, NoRow
    <3>5. (KeysType /\ KeyAsApproved)'
      BY <1>a, <2>3, <3>1 DEF KeysType, KeyRows, KeyAsApproved
    <3>6. LoggedOut'
      BY <1>a, <2>3, <3>3 DEF LoggedOut
    <3>7. QED
      BY <2>1, <3>2, <3>3, <3>4, <3>5, <3>6 DEF DeviceInv
  <2>4. QED
    BY <2>2, <2>3 DEF Claim
<1>7. CASE LoseAnswer
  <2> USE <1>7 DEF LoseAnswer, Fault
  <2>1. (AccountsType /\ PairingType /\ KeysType /\ ExchangeType /\ PageType /\ Decided
        /\ KeyAsApproved)'
    BY <1>a DEF AccountsType, PairingType, KeysType, KeyRows, ExchangeType, PageType, Decided,
       KeyAsApproved
  <2>2. ClientType'
    BY <1>a DEF ClientType, Clients, KeysType
  <2>3. OneKey'
    BY <1>a DEF OneKey, PairingType, Pairings, NoRow, ClientType, Clients, KeysType
  <2>4. LoggedOut'
    BY <1>a DEF LoggedOut, ClientType, Clients, KeysType
  <2>5. QED
    BY <2>1, <2>2, <2>3, <2>4 DEF DeviceInv
<1>8. CASE RunLogout
  <2> USE <1>8 DEF RunLogout, RevokeCurrentKey, RemoveKey
  <2>1. (AccountsType /\ PairingType /\ ExchangeType /\ PageType /\ Decided)'
    BY <1>a DEF AccountsType, PairingType, ExchangeType, PageType, Decided
  <2>2. KeysType'
    BY <1>a DEF KeysType, KeyRows, PairingType, Pairings, Decided, Never
  <2>3. ClientType'
    BY <1>a DEF ClientType, Clients, KeysType
  <2>4. OneKey'
    BY <1>a DEF OneKey, PairingType, Pairings, NoRow, ClientType, Clients, KeysType
  <2>5. KeyAsApproved'
    BY <1>a DEF KeyAsApproved, KeysType, KeyRows
  <2>6. LoggedOut'
    BY <1>a DEF LoggedOut, ClientType, Clients, KeysType
  <2>7. QED
    BY <2>1, <2>2, <2>3, <2>4, <2>5, <2>6 DEF DeviceInv
<1>9. CASE LoseLogout
  <2> USE <1>9 DEF LoseLogout, Fault, RevokeCurrentKey, RemoveKey
  <2>1. (AccountsType /\ PairingType /\ ExchangeType /\ PageType /\ ClientType /\ Decided
        /\ OneKey)'
    BY <1>a DEF AccountsType, PairingType, ExchangeType, PageType, ClientType, Clients,
       Decided, OneKey
  <2>2. KeysType'
    BY <1>a DEF KeysType, KeyRows, PairingType, Pairings, Decided, Never
  <2>3. KeyAsApproved'
    BY <1>a DEF KeyAsApproved, KeysType, KeyRows
  <2>4. LoggedOut'
    BY <1>a DEF LoggedOut, ClientType, Clients, KeysType
  <2>5. QED
    BY <2>1, <2>2, <2>3, <2>4 DEF DeviceInv
<1>10. CASE PurgeExpired
  <2> USE <1>10 DEF PurgeExpired
  <2>1. (AccountsType /\ KeysType /\ ExchangeType /\ PageType /\ ClientType /\ KeyAsApproved
        /\ LoggedOut)'
    BY <1>a DEF AccountsType, KeysType, KeyRows, ExchangeType, PageType, ClientType, Clients,
       KeyAsApproved, LoggedOut
  <2>2. PairingType'
    BY <1>a DEF PairingType, Pairings, Access, Never, NoRow
  <2>3. Decided'
    BY <1>a DEF Decided, PairingType, Pairings, NoRow, PageType
  <2>4. OneKey'
    BY <1>a DEF OneKey, PairingType, Pairings, NoRow, ClientType, Clients, KeysType
  <2>5. QED
    BY <2>1, <2>2, <2>3, <2>4 DEF DeviceInv
<1>11. CASE DeviceTick
  <2> USE <1>11 DEF DeviceTick, Dec, Live
  <2>1. (AccountsType /\ ExchangeType /\ PageType /\ ClientType)'
    BY <1>a DEF AccountsType, ExchangeType, PageType, ClientType, Clients
  <2>2. PairingType'
    BY <1>a DEF PairingType, Pairings, Access, Never, NoRow
  <2>3. KeysType'
    BY <1>a DEF KeysType, KeyRows, PairingType, Pairings, Decided, Never
  <2>4. Decided'
    BY <1>a DEF Decided, PairingType, Pairings, NoRow, PageType
  <2>5. OneKey'
    BY <1>a DEF OneKey, PairingType, Pairings, NoRow, ClientType, Clients, KeysType
  <2>6. KeyAsApproved'
    BY <1>a DEF KeyAsApproved, KeysType, KeyRows
  <2>7. LoggedOut'
    BY <1>a DEF LoggedOut, ClientType, Clients, KeysType
  <2>8. QED
    BY <2>1, <2>2, <2>3, <2>4, <2>5, <2>6, <2>7 DEF DeviceInv
<1>12. ASSUME NEW u \in Users, PageLookup(u)
      PROVE  DeviceInv'
  <2> USE <1>12 DEF PageLookup, SessionOf
  <2>1. (AccountsType /\ PairingType /\ KeysType /\ ExchangeType /\ ClientType /\ Decided
        /\ OneKey /\ KeyAsApproved /\ LoggedOut)'
    BY <1>a DEF AccountsType, PairingType, KeysType, KeyRows, ExchangeType, ClientType,
       Clients, Decided, OneKey, KeyAsApproved, LoggedOut
  <2>2. PageType'
    BY <1>a DEF PageType
  <2>3. QED
    BY <2>1, <2>2 DEF DeviceInv
<1>13. ASSUME NEW u \in Users, Deny(u)
      PROVE  DeviceInv'
  <2> USE <1>13 DEF Deny, Denied, Pending, Live, SessionOf
  <2>1. (AccountsType /\ KeysType /\ ExchangeType /\ ClientType /\ KeyAsApproved /\ LoggedOut)'
    BY <1>a DEF AccountsType, KeysType, KeyRows, ExchangeType, ClientType, Clients,
       KeyAsApproved, LoggedOut
  <2>2. PairingType'
    <3>1. pairing \in Pairings
      BY <1>a DEF PairingType, NoRow
    <3>2. pairing' = [status |-> "denied", user |-> u, access |-> pairing.access,
                      expires |-> pairing.expires, left |-> pairing.left, key |-> pairing.key]
      BY <3>1 DEF Pairings
    <3>3. QED
      BY <3>1, <3>2 DEF PairingType, Pairings
  <2>3. PageType'
    BY <1>a DEF PageType
  <2>4. Decided'
    BY <1>a DEF Decided, PairingType, Pairings, NoRow, PageType
  <2>5. OneKey'
    BY <1>a DEF OneKey, PairingType, Pairings, NoRow, ClientType, Clients, KeysType
  <2>6. QED
    BY <2>1, <2>2, <2>3, <2>4, <2>5 DEF DeviceInv
<1>14. ASSUME NEW u \in Users, NEW d \in BOOLEAN, SetDisabled(u, d)
      PROVE  DeviceInv'
  <2> USE <1>14 DEF SetDisabled, Change
  <2>1. (PairingType /\ ExchangeType /\ PageType /\ ClientType /\ OneKey /\ KeyAsApproved
        /\ LoggedOut)'
    BY <1>a DEF PairingType, ExchangeType, PageType, ClientType, Clients, OneKey,
       KeyAsApproved, LoggedOut
  <2>2. AccountsType'
    BY <1>a DEF AccountsType
  <2>3. KeysType'
    BY <1>a DEF KeysType, KeyRows, PairingType, Pairings, Decided, Never
  <2>4. Decided'
    BY <1>a DEF Decided, PairingType, Pairings, NoRow, PageType
  <2>5. QED
    BY <2>1, <2>2, <2>3, <2>4 DEF DeviceInv
<1>15. ASSUME NEW u \in Users, DeleteUser(u)
      PROVE  DeviceInv'
  <2> USE <1>15 DEF DeleteUser, Change
  <2>1. (ExchangeType /\ PageType /\ ClientType)'
    BY <1>a DEF ExchangeType, PageType, ClientType, Clients
  <2>2. AccountsType'
    BY <1>a DEF AccountsType
  <2>3. PairingType'
    BY <1>a DEF PairingType, Pairings, Access, Never, NoRow
  <2>4. KeysType'
    BY <1>a DEF KeysType, KeyRows, PairingType, Pairings, Decided, Never
  <2>5. Decided'
    BY <1>a DEF Decided, PairingType, Pairings, NoRow, PageType
  <2>6. OneKey'
    BY <1>a DEF OneKey, PairingType, Pairings, NoRow, ClientType, Clients, KeysType
  <2>7. KeyAsApproved'
    BY <1>a DEF KeyAsApproved, KeysType, KeyRows
  <2>8. LoggedOut'
    BY <1>a DEF LoggedOut, ClientType, Clients, KeysType
  <2>9. QED
    BY <2>1, <2>2, <2>3, <2>4, <2>5, <2>6, <2>7, <2>8 DEF DeviceInv
<1>16. ASSUME NEW access \in Access, NEW expires \in {KeyTtl, Never}, Approve(access, expires)
      PROVE  DeviceInv'
  <2> USE <1>16 DEF Approve, Approved, Pending, Live, SessionOf, ReviewPanel
  <2>1. (AccountsType /\ KeysType /\ ExchangeType /\ ClientType /\ LoggedOut)'
    BY <1>a DEF AccountsType, KeysType, KeyRows, ExchangeType, ClientType, Clients, LoggedOut
  <2>2. PairingType'
    <3>1. pairing \in Pairings /\ page.user \in Users \cup {NoUser}
      BY <1>a DEF PairingType, NoRow, PageType
    <3>2. pairing' = [status |-> "approved", user |-> page.user, access |-> access,
                      expires |-> expires, left |-> pairing.left, key |-> pairing.key]
      BY <3>1 DEF Pairings
    <3>3. QED
      BY <3>1, <3>2 DEF PairingType, Pairings
  <2>3. PageType'
    BY <1>a DEF PageType
  <2>4. Decided'
    BY <1>a DEF Decided, PairingType, Pairings, NoRow, PageType
  <2>5. OneKey'
    BY <1>a DEF OneKey, PairingType, Pairings, NoRow, ClientType, Clients, KeysType
  <2>6. KeyAsApproved'
    BY <1>a DEF KeyAsApproved, KeysType, KeyRows
  <2>7. QED
    BY <2>1, <2>2, <2>3, <2>4, <2>5, <2>6 DEF DeviceInv
<1>17. QED
  BY <1>1, <1>2, <1>3, <1>4, <1>5, <1>6, <1>7, <1>8, <1>9, <1>10, <1>11, <1>12, <1>13, <1>14,
     <1>15, <1>16 DEF DeviceNext, ServerStep, ClientStep

-----------------------------------------------------------------------------
(* The guards: grants, the allowlist and its cache, and the request the      *)
(* guard let in, which has not lost what the guard looked at.                *)
GrantsType == grants \in [Users -> Levels \cup {"none"}]
ListType ==
  /\ stored \subseteq Ips
  /\ cache \in [entries : SUBSET Ips, left : 0..CacheTtl]
  /\ reading = None \/ reading \in [pc : {"read"}, entries : SUBSET Ips]
Guarded ==
  request = None \/
    /\ request.pc = "guarded"
    /\ request.user.via = "apikey" /\ request.user.actions \in {{"read"}, {"*"}}
    /\ ScopeRoute(request.user, request.route)

Inv == DeviceInv /\ GrantsType /\ ListType /\ Guarded

(* A step that leaves the pairing, the accounts and the keys alone.          *)
LEMMA DeviceSame ==
  ASSUME DeviceInv,
         UNCHANGED <<accounts, pairing, keys, minted, exchange, page, cli, approvals>>
  PROVE  DeviceInv'
<1>1. (AccountsType /\ PairingType /\ KeysType /\ ExchangeType /\ PageType /\ ClientType)'
  BY DEF DeviceInv, AccountsType, PairingType, KeysType, KeyRows, ExchangeType, PageType,
     ClientType, Clients
<1>2. (Decided /\ OneKey /\ KeyAsApproved /\ LoggedOut)'
  BY DEF DeviceInv, Decided, OneKey, KeyAsApproved, LoggedOut
<1>3. QED
  BY <1>1, <1>2 DEF DeviceInv

(* At first every user may view, and no request was judged.                  *)
LEMMA InitInv == Init => Inv
<1> SUFFICES ASSUME Init PROVE Inv
  OBVIOUS
<1>1. DeviceInv
  BY DeviceInitInv DEF Init
<1>2. GrantsType /\ ListType /\ Guarded
  BY CacheBound DEF Init, AccessInit, NoCache, Levels, GrantsType, ListType, Guarded
<1>3. QED
  BY <1>1, <1>2 DEF Inv

(* Every step of the devices, the owners and the administrators keeps the    *)
(* invariant.                                                                *)
LEMMA StepInv == Inv /\ [Next]_vars => Inv'
<1> SUFFICES ASSUME Inv, [Next]_vars PROVE Inv'
  OBVIOUS
<1> USE CacheBound
<1>a. DeviceInv /\ GrantsType /\ ListType /\ Guarded
  BY DEF Inv
<1>1. CASE DeviceNext /\ UNCHANGED accessVars
  <2>1. DeviceInv'
    BY <1>a, <1>1, DeviceStepInv
  <2>2. (GrantsType /\ ListType /\ Guarded)'
    BY <1>a, <1>1 DEF accessVars, GrantsType, ListType, Guarded, ScopeRoute
  <2>3. QED
    BY <2>1, <2>2 DEF Inv
<1>2. ASSUME NEW r \in Routes, NEW ip \in Ips, NEW k \in DOMAIN keys, GuardKey(k, r, ip)
      PROVE  Inv'
  <2>1. DeviceInv' /\ GrantsType' /\ ListType'
    BY <1>a, <1>2, DeviceSame DEF GuardKey, deviceVars, GrantsType, ListType
  <2>2. Guarded'
    BY <1>2 DEF GuardKey, Guarded, CanActivate, FromApiKey, ScopeRoute
  <2>3. QED
    BY <2>1, <2>2 DEF Inv
<1>3. CASE Handle
  <2>1. DeviceInv' /\ GrantsType' /\ ListType'
    BY <1>a, <1>3, DeviceSame DEF Handle, deviceVars, GrantsType, ListType
  <2>2. Guarded'
    BY <1>3 DEF Handle, Guarded
  <2>3. QED
    BY <2>1, <2>2 DEF Inv
<1>4. ASSUME NEW u \in Users, NEW level \in Levels \cup {"none"}, SetGrant(u, level)
      PROVE  Inv'
  <2>1. DeviceInv' /\ ListType' /\ Guarded'
    BY <1>a, <1>4, DeviceSame DEF SetGrant, ListType, Guarded, ScopeRoute
  <2>2. GrantsType'
    BY <1>a, <1>4 DEF SetGrant, GrantsType
  <2>3. QED
    BY <2>1, <2>2 DEF Inv
<1>5. CASE ReadEntries \/ CacheEntries \/ CacheAges
  <2>1. DeviceInv' /\ GrantsType' /\ Guarded'
    BY <1>a, <1>5, DeviceSame
       DEF ReadEntries, CacheEntries, CacheAges, deviceVars, GrantsType, Guarded, ScopeRoute
  <2>2. ListType'
    BY <1>a, <1>5 DEF ReadEntries, CacheEntries, CacheAges, ListType, Dec
  <2>3. QED
    BY <2>1, <2>2 DEF Inv
<1>6. ASSUME NEW u \in Users, NEW entries \in SUBSET Ips, NEW ip \in Ips,
             SaveEntries(u, entries, ip)
      PROVE  Inv'
  <2>1. DeviceInv' /\ GrantsType' /\ Guarded'
    BY <1>a, <1>6, DeviceSame DEF SaveEntries, GrantsType, Guarded, ScopeRoute
  <2>2. ListType'
    BY <1>a, <1>6 DEF SaveEntries, ListType
  <2>3. QED
    BY <2>1, <2>2 DEF Inv
<1>7. CASE UNCHANGED vars
  <2>1. DeviceInv' /\ GrantsType' /\ ListType' /\ Guarded'
    BY <1>a, <1>7, DeviceSame
       DEF vars, deviceVars, accessVars, GrantsType, ListType, Guarded, ScopeRoute
  <2>2. QED
    BY <2>1 DEF Inv
<1>8. QED
  BY <1>1, <1>2, <1>3, <1>4, <1>5, <1>6, <1>7 DEF Next, AccessNext

(* A device code yields one key at most, with the access its approver chose, *)
(* and a key the client has logged out of opens nothing.                     *)
THEOREM PairingIsSound == Spec => []CodeSound
<1>1. Inv => CodeSound
  <2> SUFFICES ASSUME Inv PROVE CodeSound
    OBVIOUS
  <2>1. DeviceTypeOK
    BY DEF Inv, DeviceInv, AccountsType, PairingType, Pairings, NoRow, KeysType, KeyRows,
       ExchangeType, PageType, ClientType, Clients, DeviceTypeOK
  <2>2. TypeOK
    BY <2>1 DEF Inv, GrantsType, ListType, Guarded, None, TypeOK
  <2>3. OneKeyPerCode /\ KeyAsApproved
    BY DEF Inv, DeviceInv, OneKey, OneKeyPerCode
  <2>4. LoggedOutRevoked
    BY DEF Inv, DeviceInv, LoggedOut, LoggedOutRevoked, Usable
  <2>5. QED
    BY <2>2, <2>3, <2>4 DEF CodeSound
<1>2. QED
  BY <1>1, InitInv, StepInv, PTL DEF Spec

(* A key reaches no further than its owner's session from the same address,  *)
(* and one that only reads changes nothing.                                  *)
THEOREM KeysStayInReach == Spec => []KeyReach
<1>1. Inv => KeyReach
  <2> SUFFICES ASSUME Inv PROVE KeyReach
    OBVIOUS
  <2>1. ASSUME NEW k \in DOMAIN keys, NEW r \in Routes, NEW ip \in Ips,
               Allowed(FromApiKey(k), r, ip)
        PROVE  Allowed(FromJwt(keys[k].user), r, ip)
    <3> DEFINE caller == FromApiKey(k)
               owner == FromJwt(keys[k].user)
    <3>1. owner.id = caller.id /\ owner.admin = caller.admin /\ owner.via = "session"
      BY DEF FromApiKey, FromJwt
    <3>2. CanActivate(owner, r, ip)
      BY <2>1, <3>1 DEF Allowed, CanActivate, AdminRoute, ScopeRoute
    <3>3. ASSUME r.level # "none" PROVE Can(owner, r.level)
      BY <2>1, <3>1, <3>3 DEF Allowed, Can, ApiKeyAllows
    <3>4. QED
      BY <3>2, <3>3 DEF Allowed
  <2>2. KeyNeverExceedsOwner
    BY <2>1 DEF KeyNeverExceedsOwner
  <2>3. ReadKeyReadsOnly
    BY DEF Inv, Guarded, ScopeRoute, ReadKeyReadsOnly
  <2>4. QED
    BY <2>2, <2>3 DEF KeyReach
<1>2. QED
  BY <1>1, InitInv, StepInv, PTL DEF Spec
=============================================================================
