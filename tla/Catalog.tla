------------------------------ MODULE Catalog ------------------------------
(***************************************************************************)
(* What is configured: jobs with their repositories, connections (targets),*)
(* the encrypted secrets both refer to, restore runs that keep references  *)
(* to them, and the cron registrations derived from the jobs.              *)
(*                                                                         *)
(* Every request of an administrator is a sequence of statements; what is  *)
(* read by one of them is used by a later one, and an error in the middle  *)
(* leaves what was done.  Requests overlap.  Foreign keys are enforced by  *)
(* the database: a refused statement ends its request.                     *)
(***************************************************************************)
EXTENDS Naturals, FiniteSets, FiniteSetsExt

CONSTANTS
  Jobs, Targets, \* identifiers of jobs and connections
  Requests,      \* requests the server works on at the same time
  MaxRequests,   \* bound: requests in a behaviour
  MaxFaults      \* bound: statements that fail, restarts

ASSUME CatalogBounds == MaxRequests \in Nat /\ MaxFaults \in Nat

VARIABLES
  jobs,      \* backup_jobs: [slug, location, cron, enabled, check]
  repos,     \* repositories, by their job: [slug, target, password, override]
  targets,   \* targets: [credential]
  secrets,   \* secrets: the connection an override was entered for, or "own"
  minted,    \* secrets ever created
  restores,  \* restore_runs: [target, password, override]
  registry,  \* cron names to expressions (SchedulerRegistry)
  req,       \* requests under way
  begun,     \* requests so far
  faults,    \* faults so far
  history    \* for the properties: requests that met or failed half way

vars == <<jobs, repos, targets, secrets, minted, restores, registry, req, begun,
          faults, history>>
tables == <<jobs, repos, targets, secrets, minted, restores>>

Local == "local"     \* target_id is NULL
Keep == "keep"       \* a field the request does not mention
None == 0            \* no secret
Crons == {"c1", "c2"}
Names == {"a", "b"}
Idle == [op |-> "none", pc |-> "none"]

\* The identifiers of rows are UUIDs: none reads like one of these words.
ASSUME IdsApart == (Jobs \cup Targets) \cap {Local, Keep, "all"} = {}

Put(f, x, v) == [y \in DOMAIN f \cup {x} |-> IF y = x THEN v ELSE f[y]]
Del(f, x) == [y \in DOMAIN f \ {x} |-> f[y]]

-----------------------------------------------------------------------------
(* Slugs: <<base, n>>, where n = 1 is the bare base.                       *)
UniqueSlug(taken, base) ==
  IF <<base, 1>> \notin taken THEN <<base, 1>>
  ELSE <<base, Max({1} \cup {s[2] : s \in {x \in taken : x[1] = base}}) + 1>>

JobSlugs(except) == {jobs[j].slug : j \in DOMAIN jobs \ {except}}
RepoSlugs(except) == {repos[j].slug : j \in DOMAIN repos \ {except}}

(* The cron registrations a job asks for (registerAll).                    *)
Entries(j, row) ==
  IF row.enabled = "off" THEN {}
  ELSE {<<j, "backup">>} \cup (IF row.check = "off" THEN {} ELSE {<<j, "check">>})

Expr(name, row) == IF name[2] = "backup" THEN row.cron ELSE row.check

\* Registers what has no registration yet: addCronJob refuses a name in use.
RegisterAll(f, rows) ==
  LET wanted == UNION {Entries(j, rows[j]) : j \in DOMAIN rows}
  IN  [n \in DOMAIN f \cup wanted |->
         IF n \in DOMAIN f THEN f[n] ELSE Expr(n, rows[n[1]])]

Schedule == RegisterAll(<<>>, jobs)

UnregisterJob(f, j) == [n \in {x \in DOMAIN f : x[1] # j} |-> f[n]]

-----------------------------------------------------------------------------
\* One job on a connection, perhaps with credentials of its own.
Init ==
  /\ \E j \in Jobs, t \in Targets, own \in BOOLEAN, known \in SUBSET Targets :
       /\ t \in known
       /\ jobs = [x \in {j} |-> [slug |-> <<"a", 1>>, location |-> "server",
                                 cron |-> "c1", enabled |-> "on", check |-> "off"]]
       /\ repos = [x \in {j} |-> [slug |-> <<"a", 1>>, target |-> t, password |-> 2,
                                  override |-> IF own THEN 3 ELSE None]]
       /\ targets = [x \in known |-> [credential |-> IF x = t THEN 1 ELSE None]]
       /\ secrets = [s \in 1..(IF own THEN 3 ELSE 2) |-> IF s = 3 THEN t ELSE "own"]
  /\ minted = 3
  /\ restores = {}
  /\ registry = Schedule
  /\ req = [r \in Requests |-> Idle]
  /\ begun = 0 /\ faults = 0
  /\ history = [stale |-> FALSE, leaky |-> FALSE]

\* Requests that meet: they name the same job, connection or job name.
Keys(q) ==
  IF q.op = "none" THEN {}
  ELSE {q.id} \cup (IF q.op \in {"create", "update"} THEN {q.dto.target, q.dto.name} ELSE {})

Meets(q) ==
  LET ks == Keys(q) \ {Local, Keep}
  IN  \E s \in Requests : ks \cap Keys(req[s]) # {} \/ "all" \in Keys(req[s])
                          \/ ("all" \in ks /\ req[s] # Idle)

Begin(r, q) ==
  /\ req[r] = Idle /\ begun < MaxRequests
  /\ begun' = begun + 1
  /\ req' = [req EXCEPT ![r] = q]
  /\ history' = IF Meets(q) THEN [history EXCEPT !.stale = TRUE, !.leaky = TRUE]
                ELSE history
  /\ UNCHANGED <<tables, registry, faults>>

At(r, op, pc) == req[r].op = op /\ req[r].pc = pc
Goto(r, pc) == req' = [req EXCEPT ![r].pc = pc]
End(r) == req' = [req EXCEPT ![r] = Idle]

\* The handler throws: what it had done stays.
Throw(r) ==
  /\ End(r)
  /\ history' = [history EXCEPT !.stale = TRUE, !.leaky = TRUE]

-----------------------------------------------------------------------------
(* SecretsService.                                                         *)
CreateSecret(entered) ==
  /\ minted' = minted + 1
  /\ secrets' = Put(secrets, minted + 1, entered)

\* DELETE: refused while a repository, a connection or the password of a
\* restore run refers to it; an override of a restore run becomes NULL.
Refused(s) ==
  \/ \E j \in DOMAIN repos : s \in {repos[j].password, repos[j].override}
  \/ \E t \in DOMAIN targets : targets[t].credential = s
  \/ \E x \in restores : x.password = s

RemoveSecret(s) ==
  /\ secrets' = Del(secrets, s)
  /\ restores' = {[x EXCEPT !.override = IF @ = s THEN None ELSE @] : x \in restores}

-----------------------------------------------------------------------------
(* JobsService.create                                                      *)
NoChange == [name |-> Keep, cron |-> Keep, enabled |-> Keep, location |-> Keep,
             target |-> Keep, creds |-> Keep]

\* The controller awaits scheduler.sync before it answers.
ThenSync(j) == [op |-> "sync", pc |-> "unregister", id |-> j]

AssertRepoAllowed(location, target) == ~(location = "agent" /\ target = Local)

\* The local backend has no field a job may override.
BuildCredentialOverride(target, creds) == creds = "set" => target # Local

ResolveBackendType(target, creds) ==
  /\ target # Local => target \in DOMAIN targets
  /\ BuildCredentialOverride(target, creds)

CreateBegin(r) ==
  \E j \in Jobs \ DOMAIN jobs, name \in Names, t \in Targets \cup {Local},
     l \in {"server", "agent"}, c \in {Keep, "set"} :
    LET d == [NoChange EXCEPT !.name = name, !.target = t, !.location = l, !.creds = c]
    IN  /\ \A s \in Requests : req[s] # Idle => req[s].id # j
        /\ AssertRepoAllowed(l, t) /\ ResolveBackendType(t, c)
        /\ Begin(r, [op |-> "create", pc |-> "password", id |-> j, dto |-> d])

CreatePassword(r) ==
  /\ At(r, "create", "password")
  /\ CreateSecret("own")
  /\ req' = [req EXCEPT ![r] = [op |-> "create", pc |-> "override", id |-> @.id,
                                dto |-> @.dto, password |-> minted + 1]]
  /\ UNCHANGED <<jobs, repos, targets, restores, registry, begun, faults, history>>

CreateOverride(r) ==
  /\ At(r, "create", "override")
  /\ IF req[r].dto.creds = "set"
     THEN CreateSecret(req[r].dto.target)
     ELSE UNCHANGED <<secrets, minted>>
  /\ req' = [req EXCEPT ![r] = [op |-> "create", pc |-> "insert", id |-> @.id, dto |-> @.dto,
                                password |-> @.password,
                                override |-> IF @.dto.creds = "set" THEN minted + 1 ELSE None,
                                slugs |-> <<UniqueSlug(JobSlugs(None), @.dto.name),
                                            UniqueSlug(RepoSlugs(None), @.dto.name)>>]]
  /\ UNCHANGED <<jobs, repos, targets, restores, registry, begun, faults, history>>

\* The repository and the job in one transaction; the slugs are unique and
\* the connection must still exist.
CreateInsert(r) ==
  LET q == req[r] IN
  /\ At(r, "create", "insert")
  /\ IF \/ q.slugs[1] \in JobSlugs(None) \/ q.slugs[2] \in RepoSlugs(None)
        \/ q.dto.target \notin DOMAIN targets \cup {Local}
     THEN Throw(r) /\ UNCHANGED <<jobs, repos>>
     ELSE /\ repos' = Put(repos, q.id, [slug |-> q.slugs[2], target |-> q.dto.target,
                                        password |-> q.password, override |-> q.override])
          /\ jobs' = Put(jobs, q.id, [slug |-> q.slugs[1], location |-> q.dto.location,
                                      cron |-> "c1", enabled |-> "on", check |-> "off"])
          /\ req' = [req EXCEPT ![r] = ThenSync(q.id)]
          /\ UNCHANGED history
  /\ UNCHANGED <<targets, secrets, minted, restores, registry, begun, faults>>

-----------------------------------------------------------------------------
(* JobsService.update and setIntegrityCheck                                *)
Dtos ==
  {[NoChange EXCEPT !.cron = "c2"]}
  \cup {[NoChange EXCEPT !.enabled = e] : e \in {"on", "off"}}
  \cup {[NoChange EXCEPT !.location = l] : l \in {"server", "agent"}}
  \cup {[NoChange EXCEPT !.name = n] : n \in Names}
  \cup {[NoChange EXCEPT !.creds = c] : c \in {"set", "none"}}
  \cup {[NoChange EXCEPT !.target = t, !.creds = c] :
          t \in Targets \cup {Local}, c \in {Keep, "set"}}

Given(field, old) == IF field = Keep THEN old ELSE field

UpdateBegin(r) ==
  \E j \in Jobs, d \in Dtos :
    Begin(r, [op |-> "update", pc |-> "read", id |-> j, dto |-> d])

UpdateRead(r) ==
  LET q == req[r]
      row == repos[q.id]
      target == Given(q.dto.target, row.target)
      ok == /\ q.id \in DOMAIN jobs
            /\ AssertRepoAllowed(Given(q.dto.location, jobs[q.id].location), target)
            /\ q.dto.target # Keep \/ q.dto.creds = "set" => ResolveBackendType(target, q.dto.creds)
  IN  /\ At(r, "update", "read")
      /\ IF ~ok THEN End(r)
         ELSE req' = [req EXCEPT ![r] =
                [op |-> "update", pc |-> "secrets", id |-> q.id, dto |-> q.dto, row |-> row,
                 slugs |-> IF q.dto.name = Keep THEN <<>>
                           ELSE <<UniqueSlug(JobSlugs(q.id), q.dto.name),
                                  UniqueSlug(RepoSlugs(q.id), q.dto.name)>>]]
      /\ UNCHANGED <<tables, registry, begun, faults, history>>

MovesConnection(q) == q.dto.target # Keep /\ q.dto.target # q.row.target

\* The override the update replaces: it is deleted after the transaction.
Orphaned(q) ==
  IF q.dto.creds = "none" \/ MovesConnection(q) THEN q.row.override ELSE None

\* The override the repository row will refer to, if that changes.
OverridePatch(q, fresh) ==
  IF q.dto.creds = "set" /\ (q.row.override = None \/ MovesConnection(q)) THEN {fresh}
  ELSE IF Orphaned(q) # None THEN {None} ELSE {}

\* Given fields are merged into the override that exists, or kept in a new one.
UpdateSecrets(r) ==
  LET q == req[r]
      entered == Given(q.dto.target, q.row.target)
      merge == q.dto.creds = "set" /\ q.row.override # None /\ ~MovesConnection(q)
  IN  /\ At(r, "update", "secrets")
      /\ CASE merge /\ q.row.override \in DOMAIN secrets ->
                 /\ secrets' = [secrets EXCEPT ![q.row.override] = entered]
                 /\ UNCHANGED minted
           [] q.dto.creds = "set" /\ ~merge -> CreateSecret(entered)
           [] OTHER -> UNCHANGED <<secrets, minted>>
      /\ IF merge /\ q.row.override \notin DOMAIN secrets THEN End(r)
         ELSE req' = [req EXCEPT ![r] =
                [op |-> "update", pc |-> "write", id |-> q.id, dto |-> q.dto, row |-> q.row,
                 slugs |-> q.slugs, patch |-> OverridePatch(q, minted + 1),
                 drop |-> Orphaned(q)]]
      /\ UNCHANGED <<jobs, repos, targets, restores, registry, begun, faults, history>>

UpdateWrite(r) ==
  LET q == req[r]
      d == q.dto
      target == Given(d.target, q.row.target)
      here == q.id \in DOMAIN jobs /\ q.id \in DOMAIN repos
  IN  /\ At(r, "update", "write")
      /\ IF here /\ \/ /\ q.slugs # <<>>
                       /\ (q.slugs[1] \in JobSlugs(q.id) \/ q.slugs[2] \in RepoSlugs(q.id))
                    \/ d.target # Keep /\ target \notin DOMAIN targets \cup {Local}
                    \/ ~(q.patch \subseteq DOMAIN secrets \cup {None})
         THEN Throw(r) /\ UNCHANGED <<jobs, repos>>
         ELSE /\ repos' = [j \in DOMAIN repos |->
                    IF j # q.id THEN repos[j]
                    ELSE [slug |-> IF q.slugs = <<>> THEN repos[j].slug ELSE q.slugs[2],
                          target |-> Given(d.target, repos[j].target),
                          password |-> repos[j].password,
                          override |-> IF q.patch = {} THEN repos[j].override
                                       ELSE CHOOSE s \in q.patch : TRUE]]
              /\ jobs' = [j \in DOMAIN jobs |->
                    IF j # q.id THEN jobs[j]
                    ELSE [slug |-> IF q.slugs = <<>> THEN jobs[j].slug ELSE q.slugs[1],
                          location |-> Given(d.location, jobs[j].location),
                          cron |-> Given(d.cron, jobs[j].cron),
                          enabled |-> Given(d.enabled, jobs[j].enabled),
                          check |-> jobs[j].check]]
              /\ Goto(r, "drop") /\ UNCHANGED history
      /\ UNCHANGED <<targets, secrets, minted, restores, registry, begun, faults>>

\* The replaced override goes; the job is read again for the answer.
UpdateDrop(r) ==
  LET q == req[r] IN
  /\ At(r, "update", "drop")
  /\ \/ /\ q.drop # None /\ Refused(q.drop)
        /\ Throw(r) /\ UNCHANGED <<secrets, restores>>
     \/ /\ q.drop # None => ~Refused(q.drop)
        /\ RemoveSecret(q.drop)
        /\ req' = [req EXCEPT ![r] =
             IF q.id \in DOMAIN jobs THEN ThenSync(q.id) ELSE Idle]
        /\ UNCHANGED history
  /\ UNCHANGED <<jobs, repos, targets, minted, registry, begun, faults>>

SetIntegrityCheck(r) ==
  \E j \in DOMAIN jobs, c \in {"off", "c2"} :
    /\ req[r] = Idle /\ begun < MaxRequests
    /\ begun' = begun + 1
    /\ jobs' = [jobs EXCEPT ![j].check = c]
    /\ req' = [req EXCEPT ![r] = ThenSync(j)]
    /\ history' = IF Meets([op |-> "sync", id |-> j])
                  THEN [history EXCEPT !.stale = TRUE, !.leaky = TRUE] ELSE history
    /\ UNCHANGED <<repos, targets, secrets, minted, restores, registry, faults>>

-----------------------------------------------------------------------------
(* JobsService.remove: job, repository and secrets, one after the other.   *)
RemoveBegin(r) ==
  \E j \in Jobs : Begin(r, [op |-> "remove", pc |-> "read", id |-> j])

RemoveRead(r) ==
  LET q == req[r] IN
  /\ At(r, "remove", "read")
  /\ IF q.id \in DOMAIN jobs
     THEN req' = [req EXCEPT ![r] = [op |-> "remove", pc |-> "job", id |-> q.id,
                                     row |-> repos[q.id]]]
     ELSE End(r)
  /\ UNCHANGED <<tables, registry, begun, faults, history>>

RemoveJob(r) ==
  /\ At(r, "remove", "job")
  /\ jobs' = Del(jobs, req[r].id)
  /\ Goto(r, "repository")
  /\ UNCHANGED <<repos, targets, secrets, minted, restores, registry, begun, faults, history>>

RemoveRepository(r) ==
  /\ At(r, "remove", "repository")
  /\ repos' = Del(repos, req[r].id)
  /\ Goto(r, "password")
  /\ UNCHANGED <<jobs, targets, secrets, minted, restores, registry, begun, faults, history>>

\* Mutant: the credentials of the job are forgotten.
RemovePasswordOnly(r) ==
  LET s == req[r].row.password IN
  /\ At(r, "remove", "password")
  /\ \/ /\ Refused(s)
        /\ End(r)
        /\ history' = [stale |-> TRUE, leaky |-> TRUE]
        /\ UNCHANGED <<secrets, restores>>
     \/ /\ ~Refused(s)
        /\ RemoveSecret(s)
        /\ Goto(r, "unregister")
        /\ UNCHANGED history
  /\ UNCHANGED <<jobs, repos, targets, minted, registry, begun, faults>>

RemovePassword(r) ==
  LET s == req[r].row.password IN
  /\ At(r, "remove", "password")
  /\ \/ /\ Refused(s)
        /\ End(r)
        /\ history' = [stale |-> TRUE, leaky |-> TRUE]
        /\ UNCHANGED <<secrets, restores>>
     \/ /\ ~Refused(s)
        /\ RemoveSecret(s)
        /\ Goto(r, "override")
        /\ UNCHANGED history
  /\ UNCHANGED <<jobs, repos, targets, minted, registry, begun, faults>>

RemoveOverride(r) ==
  /\ At(r, "remove", "override")
  /\ RemoveSecret(req[r].row.override)
  /\ Goto(r, "unregister")
  /\ UNCHANGED <<jobs, repos, targets, minted, registry, begun, faults, history>>

RemoveUnregister(r) ==
  /\ At(r, "remove", "unregister")
  /\ registry' = UnregisterJob(registry, req[r].id)
  /\ End(r)
  /\ UNCHANGED <<tables, begun, faults, history>>

-----------------------------------------------------------------------------
(* SchedulerService: sync of one job, and of all after a new time zone.    *)
SyncUnregister(r) ==
  /\ At(r, "sync", "unregister")
  /\ registry' = UnregisterJob(registry, req[r].id)
  /\ Goto(r, "row")
  /\ UNCHANGED <<tables, begun, faults, history>>

\* Mutant: only the schedule of the job's backups is registered again.
SyncRowBackup(r) ==
  LET j == req[r].id IN
  /\ At(r, "sync", "row")
  /\ req' = [req EXCEPT ![r] = [op |-> "sync", pc |-> "register", id |-> j,
       rows |-> [x \in DOMAIN jobs \cap {j} |-> [jobs[x] EXCEPT !.check = "off"]]]]
  /\ UNCHANGED <<tables, registry, begun, faults, history>>

SyncRow(r) ==
  LET j == req[r].id IN
  /\ At(r, "sync", "row")
  /\ req' = [req EXCEPT ![r] = [op |-> "sync", pc |-> "register", id |-> j,
                                rows |-> [x \in DOMAIN jobs \cap {j} |-> jobs[x]]]]
  /\ UNCHANGED <<tables, registry, begun, faults, history>>

SyncRegister(r) ==
  /\ At(r, "sync", "register")
  /\ registry' = RegisterAll(registry, req[r].rows)
  /\ End(r)
  /\ UNCHANGED <<tables, begun, faults, history>>

SyncAllBegin(r) ==
  /\ Begin(r, [op |-> "sync", pc |-> "clear", id |-> "all"])

SyncAllClear(r) ==
  /\ At(r, "sync", "clear")
  /\ registry' = <<>>
  /\ Goto(r, "enabled")
  /\ UNCHANGED <<tables, begun, faults, history>>

SyncAllRows(r) ==
  /\ At(r, "sync", "enabled")
  /\ req' = [req EXCEPT ![r] = [op |-> "sync", pc |-> "register", id |-> "all", rows |-> jobs]]
  /\ UNCHANGED <<tables, registry, begun, faults, history>>

-----------------------------------------------------------------------------
(* TargetsService                                                          *)
TargetBegin(r) ==
  \E t \in Targets, op \in {"newTarget", "editTarget", "dropTarget"} :
    /\ op = "newTarget" => t \notin DOMAIN targets /\ \A s \in Requests : t \notin Keys(req[s])
    /\ Begin(r, [op |-> op, pc |-> "read", id |-> t])

\* Some backends have no secret fields; an SFTP key pair is always generated.
TargetCreateSecret(r) ==
  /\ At(r, "newTarget", "read")
  /\ \E own \in BOOLEAN :
       /\ IF own THEN CreateSecret("own") ELSE UNCHANGED <<secrets, minted>>
       /\ req' = [req EXCEPT ![r] = [op |-> "newTarget", pc |-> "insert", id |-> @.id,
                                     fresh |-> IF own THEN minted + 1 ELSE None]]
  /\ UNCHANGED <<jobs, repos, targets, restores, registry, begun, faults, history>>

TargetInsert(r) ==
  /\ At(r, "newTarget", "insert")
  /\ targets' = Put(targets, req[r].id, [credential |-> req[r].fresh])
  /\ End(r)
  /\ UNCHANGED <<jobs, repos, secrets, minted, restores, registry, begun, faults, history>>

\* New credentials replace the secret's content, or make the first secret.
TargetUpdateSecret(r) ==
  LET t == req[r].id IN
  /\ At(r, "editTarget", "read")
  /\ IF t \notin DOMAIN targets THEN End(r) /\ UNCHANGED <<secrets, minted>>
     ELSE IF targets[t].credential # None
     THEN Goto(r, "done") /\ UNCHANGED <<secrets, minted>>
     ELSE /\ CreateSecret("own")
          /\ req' = [req EXCEPT ![r] = [op |-> "editTarget", pc |-> "write", id |-> t,
                                         fresh |-> minted + 1]]
  /\ UNCHANGED <<jobs, repos, targets, restores, registry, begun, faults, history>>

TargetUpdateWrite(r) ==
  LET t == req[r].id IN
  /\ req[r].op = "editTarget" /\ req[r].pc \in {"write", "done"}
  /\ IF t \in DOMAIN targets
     THEN /\ targets' = IF req[r].pc = "write"
                        THEN [targets EXCEPT ![t].credential = req[r].fresh] ELSE targets
          /\ End(r) /\ UNCHANGED history
     ELSE Throw(r) /\ UNCHANGED targets
  /\ UNCHANGED <<jobs, repos, secrets, minted, restores, registry, begun, faults>>

TargetRemoveCheck(r) ==
  LET t == req[r].id IN
  /\ At(r, "dropTarget", "read")
  /\ IF t \notin DOMAIN targets \/ \E j \in DOMAIN repos : repos[j].target = t THEN End(r)
     ELSE req' = [req EXCEPT ![r] = [op |-> "dropTarget", pc |-> "delete", id |-> t,
                                     drop |-> targets[t].credential]]
  /\ UNCHANGED <<tables, registry, begun, faults, history>>

\* ON DELETE RESTRICT for repositories, SET NULL for restore runs
TargetRemove(r) ==
  LET t == req[r].id IN
  /\ At(r, "dropTarget", "delete")
  /\ IF \E j \in DOMAIN repos : repos[j].target = t
     THEN Throw(r) /\ UNCHANGED <<targets, restores>>
     ELSE /\ targets' = Del(targets, t)
          /\ restores' = {[x EXCEPT !.target = IF @ = t THEN Local ELSE @] : x \in restores}
          /\ Goto(r, "secret") /\ UNCHANGED history
  /\ UNCHANGED <<jobs, repos, secrets, minted, registry, begun, faults>>

TargetRemoveSecret(r) ==
  /\ At(r, "dropTarget", "secret")
  /\ secrets' = Del(secrets, req[r].drop)
  /\ End(r)
  /\ UNCHANGED <<jobs, repos, targets, minted, restores, registry, begun, faults, history>>

-----------------------------------------------------------------------------
(* RestoreService.create keeps references to what the job resolves to.     *)
RestoreBegin(r) ==
  \E j \in DOMAIN jobs :
    /\ restores = {}
    /\ Begin(r, [op |-> "restore", pc |-> "insert", id |-> j, row |-> repos[j]])

RestoreInsert(r) ==
  LET w == req[r].row IN
  /\ At(r, "restore", "insert")
  /\ IF /\ {w.password, w.override} \subseteq DOMAIN secrets \cup {None}
        /\ w.target \in DOMAIN targets \cup {Local}
     THEN restores' = {[target |-> w.target, password |-> w.password, override |-> w.override]}
     ELSE UNCHANGED restores
  /\ End(r)
  /\ UNCHANGED <<jobs, repos, targets, secrets, minted, registry, begun, faults, history>>

-----------------------------------------------------------------------------
(* A statement fails; the server restarts and schedules from the table.    *)
StatementFails(r) ==
  /\ req[r] # Idle
  /\ faults < MaxFaults /\ faults' = faults + 1
  /\ Throw(r)
  /\ UNCHANGED <<tables, registry, begun>>

Restart ==
  /\ faults < MaxFaults /\ faults' = faults + 1
  /\ req' = [r \in Requests |-> Idle]
  /\ registry' = Schedule
  /\ history' = [history EXCEPT !.stale = FALSE,
                                !.leaky = @ \/ \E r \in Requests : req[r] # Idle]
  /\ UNCHANGED <<tables, begun>>

-----------------------------------------------------------------------------
JobNext(r) ==
  \/ CreateBegin(r) \/ CreatePassword(r) \/ CreateOverride(r) \/ CreateInsert(r)
  \/ UpdateBegin(r) \/ UpdateRead(r) \/ UpdateSecrets(r) \/ UpdateWrite(r) \/ UpdateDrop(r)
  \/ SetIntegrityCheck(r)
  \/ RemoveBegin(r) \/ RemoveRead(r) \/ RemoveJob(r) \/ RemoveRepository(r)
  \/ RemovePassword(r) \/ RemoveOverride(r) \/ RemoveUnregister(r)

SchedulerNext(r) ==
  \/ SyncUnregister(r) \/ SyncRow(r) \/ SyncRegister(r)
  \/ SyncAllBegin(r) \/ SyncAllClear(r) \/ SyncAllRows(r)

TargetNext(r) ==
  \/ TargetBegin(r) \/ TargetCreateSecret(r) \/ TargetInsert(r)
  \/ TargetUpdateSecret(r) \/ TargetUpdateWrite(r)
  \/ TargetRemoveCheck(r) \/ TargetRemove(r) \/ TargetRemoveSecret(r)
  \/ RestoreBegin(r) \/ RestoreInsert(r)

Next ==
  \/ \E r \in Requests : JobNext(r) \/ SchedulerNext(r) \/ TargetNext(r) \/ StatementFails(r)
  \/ Restart

Spec == Init /\ [][Next]_vars

-----------------------------------------------------------------------------
Quiet == \A r \in Requests : req[r] = Idle

Referenced ==
  (UNION {{repos[j].password, repos[j].override} : j \in DOMAIN repos})
  \cup {targets[t].credential : t \in DOMAIN targets}
  \cup {x.password : x \in restores}

\* Backups start when the jobs say so: once the requests have been answered,
\* exactly the enabled jobs are registered, with the expressions in the table,
\* unless requests about the same job met or one of them failed since the last
\* restart (scheduler.service.ts registers what it read before).
ScheduleFollows == Quiet /\ ~history.stale => registry = Schedule

\* No credential is left behind in the secrets table: every secret belongs to
\* a repository, a connection or a restore run, however the requests that
\* replace, move and delete them are ordered, unless requests about the same
\* thing met or failed.
SecretsOwned == Quiet /\ ~history.leaky => DOMAIN secrets \subseteq Referenced

\* "A credential override belongs to the connection it was entered for"
\* (jobs.service.ts): a repository never presents it to another one.
OverrideFits ==
  ~history.leaky => \A j \in DOMAIN repos :
    repos[j].override # None => secrets[repos[j].override] = repos[j].target

\* The secrets of jobs and connections are kept where they belong, and no
\* longer than they are used.
SecretsSound == SecretsOwned /\ OverrideFits
=============================================================================
