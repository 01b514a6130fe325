------------------------------ MODULE ApiAccess ------------------------------
(***************************************************************************)
(* Who may do what through the API: the guard every route passes           *)
(* (auth.guard.ts), the grants on resources (access-control.service.ts)    *)
(* and the administrator IP allowlist with its cache, composed with        *)
(* DeviceAuth, which mints the keys the guard meets.                       *)
(***************************************************************************)
EXTENDS DeviceAuth

CONSTANTS
  Ips,       \* addresses requests come from
  CacheTtl   \* ticks a read of the allowlist is reused (CACHE_MS)

ASSUME CacheBound == CacheTtl \in Nat \ {0}

VARIABLES
  grants,   \* resource_grants on one job: user to level
  stored,   \* admin_ip_allowlist in app_settings; {} admits everybody
  cache,    \* AdminIpAllowlistService.cache: entries and ticks left
  reading,  \* a query of the list that has been answered, not yet cached
  request   \* the request past the guard

accessVars == <<grants, stored, cache, reading, request>>
vars == <<deviceVars, accessVars>>

Levels == {"view", "operate", "manage"}
LevelRank == [none |-> 0, view |-> 1, operate |-> 2, manage |-> 3]
LevelToAction == [view |-> "read", operate |-> "operate", manage |-> "manage"]

\* The decorators of a route, and the access level its handler asserts.
Route(admin, adminKey, noKey, anyScope, mutating, level) ==
  [admin |-> admin, adminKey |-> adminKey, noKey |-> noKey,
   anyScope |-> anyScope, mutating |-> mutating, level |-> level]

Routes ==
  {Route(TRUE, FALSE, FALSE, FALSE, m, "none") : m \in BOOLEAN}     \* users
  \cup {Route(TRUE, TRUE, FALSE, FALSE, m, "none") : m \in BOOLEAN} \* agents
  \cup {Route(FALSE, FALSE, TRUE, FALSE, TRUE, "none"),             \* api-keys
        Route(FALSE, FALSE, FALSE, TRUE, TRUE, "none"),             \* device/key
        Route(FALSE, FALSE, FALSE, FALSE, TRUE, "none"),            \* auth/me
        Route(FALSE, FALSE, FALSE, FALSE, FALSE, "view"),           \* jobs
        Route(FALSE, FALSE, FALSE, FALSE, TRUE, "operate"),
        Route(FALSE, FALSE, FALSE, FALSE, TRUE, "manage")}

NoCache == [entries |-> {}, left |-> 0]
None == [pc |-> "none"]

AccessInit ==
  /\ grants = [u \in Users |-> "view"]
  /\ stored = {} /\ cache = NoCache
  /\ reading = None
  /\ request = None

Init == DeviceInit /\ AccessInit

-----------------------------------------------------------------------------
(* The caller the guard makes of a credential.                             *)
NoScopes == {"session"}

FromJwt(u) ==
  [id |-> u, admin |-> accounts[u].admin, via |-> "session", actions |-> NoScopes]

FromApiKey(k) ==
  [id |-> keys[k].user, admin |-> accounts[keys[k].user].admin, via |-> "apikey",
   actions |-> IF keys[k].access = "read" THEN {"read"} ELSE {"*"}]

IpAllowed(list, ip) == list = {} \/ ip \in list

\* The list a request is judged by: the cache while it is young, else the row.
Effective == IF cache.left > 0 THEN cache.entries ELSE stored

\* Route-level admin requirement.
AdminRoute(user, r) ==
  r.admin =>
    /\ user.admin
    /\ user.via = "apikey" =>
         r.adminKey /\ (r.mutating => "*" \in user.actions)

\* Coarse scope enforcement for API keys.
ScopeRoute(user, r) ==
  user.via = "apikey" /\ ~r.anyScope =>
    "*" \in user.actions \/ ~r.mutating \/ \E a \in user.actions : a # "read"

CanActivate(user, r, ip) ==
  /\ user.admin => IpAllowed(Effective, ip)
  /\ AdminRoute(user, r)
  /\ ~(r.noKey /\ user.via = "apikey")
  /\ ScopeRoute(user, r)

ApiKeyAllows(user, level) ==
  user.via = "apikey" =>
    "*" \in user.actions \/ LevelToAction[level] \in user.actions

\* Mutant: a key with full access is not bounded by the grants of its owner.
CanByScope(user, level) ==
  /\ ApiKeyAllows(user, level)
  /\ user.admin \/ "*" \in user.actions
     \/ LevelRank[grants[user.id]] >= LevelRank[level]

\* AccessControlService.can
Can(user, level) ==
  /\ ApiKeyAllows(user, level)
  /\ user.admin \/ LevelRank[grants[user.id]] >= LevelRank[level]

Allowed(user, r, ip) ==
  CanActivate(user, r, ip) /\ (r.level # "none" => Can(user, r.level))

-----------------------------------------------------------------------------
(* A request with a key: the guard reads the credential and the account, the handler  *)
(* asks for access later and acts.  The account may have changed between.  *)
GuardKey(k, r, ip) ==
  /\ request = None
  /\ Usable(k)
  /\ CanActivate(FromApiKey(k), r, ip)
  /\ request' = [pc |-> "guarded", user |-> FromApiKey(k), route |-> r]
  /\ UNCHANGED <<deviceVars, grants, stored, cache, reading>>

\* AccessControlService.assert, then what the route does
Acts == request.route.level # "none" => Can(request.user, request.route.level)

Handle ==
  /\ request.pc = "guarded"
  /\ request' = None
  /\ UNCHANGED <<deviceVars, grants, stored, cache, reading>>

\* addGrant, removeGrant
SetGrant(u, level) ==
  /\ u \in DOMAIN accounts
  /\ Change
  /\ grants' = [grants EXCEPT ![u] = level]
  /\ UNCHANGED <<accounts, pairing, keys, minted, exchange, page, cli, faults,
                 approvals, stored, cache, reading, request>>

-----------------------------------------------------------------------------
(* The allowlist: any request of an administrator reads it again when the  *)
(* cache is old, and caches what the query returned when it returns.       *)
ReadEntries ==
  /\ reading = None /\ cache.left = 0
  /\ reading' = [pc |-> "read", entries |-> stored]
  /\ UNCHANGED <<deviceVars, grants, stored, cache, request>>

CacheEntries ==
  /\ reading # None
  /\ cache' = [entries |-> reading.entries, left |-> CacheTtl]
  /\ reading' = None
  /\ UNCHANGED <<deviceVars, grants, stored, request>>

\* An update that does not admit the caller is refused; it is cached at once.
SaveEntries(u, entries, ip) ==
  /\ SessionOf(u) /\ accounts[u].admin /\ IpAllowed(Effective, ip)
  /\ IpAllowed(entries, ip)
  /\ Change
  /\ stored' = entries
  /\ cache' = [entries |-> entries, left |-> CacheTtl]
  /\ UNCHANGED <<accounts, pairing, keys, minted, exchange, page, cli, faults,
                 approvals, grants, reading, request>>

\* Mutant: the age of the cache is not looked at.
CacheAgesNot ==
  /\ cache.left > 0
  /\ UNCHANGED vars

CacheAges ==
  /\ cache.left > 0
  /\ cache' = [cache EXCEPT !.left = Dec(@)]
  /\ UNCHANGED <<deviceVars, grants, stored, reading, request>>

-----------------------------------------------------------------------------
AccessNext ==
  \/ Handle \/ ReadEntries \/ CacheEntries \/ CacheAges
  \/ \E r \in Routes, ip \in Ips, k \in DOMAIN keys : GuardKey(k, r, ip)
  \/ \E u \in Users :
       \/ \E level \in Levels \cup {"none"} : SetGrant(u, level)
       \/ \E entries \in SUBSET Ips, ip \in Ips : SaveEntries(u, entries, ip)

Next == (DeviceNext /\ UNCHANGED accessVars) \/ AccessNext

\* The clock, the client's loop, the server's handlers and the allowlist's
\* queries go on; nobody has to approve, log out or send requests.
Fairness ==
  /\ WF_vars(DeviceTick /\ UNCHANGED accessVars)
  /\ WF_vars(ClientStep /\ UNCHANGED accessVars)
  /\ WF_vars(ServerStep /\ UNCHANGED accessVars)
  /\ WF_vars(CacheAges)
  /\ WF_vars(CacheEntries)

Spec == Init /\ [][Next]_vars /\ Fairness

-----------------------------------------------------------------------------
\* The variables keep the shape of the tables, maps and requests they model.
TypeOK ==
  /\ DeviceTypeOK
  /\ grants \in [Users -> Levels \cup {"none"}]
  /\ stored \subseteq Ips
  /\ cache \in [entries: SUBSET Ips, left: 0..CacheTtl]
  /\ reading.pc \in {"none", "read"}
  /\ request.pc \in {"none", "guarded"}

\* Whatever a key may do, its owner's own session may do from the same place:
\* through every combination of route decorators, scopes, grants and the
\* allowlist a key only ever narrows what the account can reach.
KeyNeverExceedsOwner ==
  \A k \in {x \in DOMAIN keys : Usable(x)}, r \in Routes, ip \in Ips :
    Allowed(FromApiKey(k), r, ip) => Allowed(FromJwt(keys[k].user), r, ip)

\* A read-only key changes nothing, not even by a request that was let in
\* before something about its owner changed; it may only revoke itself.
ReadKeyReadsOnly ==
  request # None /\ Acts /\ request.user.via = "apikey" /\ "*" \notin request.user.actions =>
    ~request.route.mutating \/ request.route.anyScope

\* A key reaches no further than its owner and its own scope.
KeyReach == KeyNeverExceedsOwner /\ ReadKeyReadsOnly

\* A pairing yields what was approved, once, until the client logs out.
CodeSound == TypeOK /\ OneKeyPerCode /\ KeyAsApproved /\ LoggedOutRevoked

\* Administrators are judged by the stored allowlist in the end: an old list
\* that a slow query put back into the cache does not stay there.
AllowlistCatchesUp ==
  cache.left > 0 /\ cache.entries # stored
    ~> cache.left = 0 \/ cache.entries = stored
=============================================================================
