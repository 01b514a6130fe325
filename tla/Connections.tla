---------------------------- MODULE Connections ----------------------------
(***************************************************************************)
(* One connection to a backend, one notification channel, or one job's     *)
(* override of a connection's credentials: the form an administrator fills *)
(* in, the split of its fields into the readable config and the encrypted  *)
(* secret, the audit entry that keeps the request's body, and the          *)
(* reachability probes of a connection, which run in the background and    *)
(* store what they find for the row they read.                             *)
(*                                                                         *)
(* The value of a field is the number of the form that entered it; a blank *)
(* field is absent from the function.                                      *)
(***************************************************************************)
EXTENDS Naturals

CONSTANTS
  Kinds,      \* the types of service explored
  Editors,    \* browsers with the form open
  MaxForms,   \* bound: forms submitted
  Reachable   \* the endpoints, by the form that named them, that answer

ASSUME ConnectionBounds == MaxForms \in Nat /\ Reachable \subseteq Nat

VARIABLES
  row,      \* targets / notification_channels: [kind, config, made]
  secret,   \* the content of its credential secret
  status,   \* targets.status
  probes,   \* endpoints that probes under way have read from the row
  editor,   \* forms and the requests they became
  log,      \* names of the fields whose values the audit log shows
  forms,    \* forms submitted
  entered,  \* what was last entered for every secret field
  met       \* two updates overlapped

connectionVars == <<row, secret, status, probes, editor, log, forms, entered, met>>

\* { ...g, ...f }: the fields of g, replaced and completed by those of f.
Over(f, g) ==
  [x \in DOMAIN f \cup DOMAIN g |-> IF x \in DOMAIN f THEN f[x] ELSE g[x]]

-----------------------------------------------------------------------------
(* The registries: what is configured per connection, what is secret, what *)
(* a form must not leave out, and what the service shows in the open when   *)
(* it is used: an argument of the command, a text of the message.  The rest *)
(* goes into the environment, a file of mode 0600 or a request header.      *)
Def(plain, hidden, needed, open) ==
  [plain |-> plain, hidden |-> hidden, needed |-> needed, open |-> open]

Backends ==
  [sftp |-> Def({"host", "user", "port"}, {}, {"host", "user"}, {"host", "user", "port"}),
   rest |-> Def({"url"}, {"username", "password"}, {"url"}, {}),
   s3 |-> Def({"endpoint", "region"}, {"accessKeyId", "secretAccessKey"},
              {"endpoint", "accessKeyId", "secretAccessKey"}, {})]

CloudBackends ==
  [b2 |-> Def({}, {"accountId", "accountKey"}, {"accountId", "accountKey"}, {}),
   azure |-> Def({"accountName"}, {"accountKey", "sasToken"}, {"accountName"}, {}),
   gs |-> Def({"projectId"}, {"serviceAccountJson"}, {"projectId", "serviceAccountJson"}, {}),
   swift |-> Def({}, {"authUrl", "username", "password", "region"}, {"authUrl"}, {}),
   rclone |-> Def({"remote"}, {}, {"remote"}, {})]

Channels ==
  [email |-> Def({"host", "port", "security", "from", "to"}, {"username", "password"},
                 {"host", "port", "from", "to"}, {"from", "to"}),
   webhook |-> Def({"headerName"}, {"url", "headerValue"}, {"url"}, {}),
   slack |-> Def({}, {"webhookUrl"}, {"webhookUrl"}, {}),
   teams |-> Def({}, {"webhookUrl"}, {"webhookUrl"}, {})]

PushChannels ==
  [discord |-> Def({}, {"webhookUrl"}, {"webhookUrl"}, {}),
   telegram |-> Def({"chatId"}, {"botToken"}, {"chatId", "botToken"}, {"chatId"}),
   gotify |-> Def({"serverUrl"}, {"appToken"}, {"serverUrl", "appToken"}, {}),
   ntfy |-> Def({"serverUrl", "topic"}, {"accessToken"}, {"topic"}, {"topic"})]

\* The connection fields a repository may override: the account of a REST server.
Overrides == [override |-> Def({}, {"username", "password"}, {}, {})]

Registry ==
  Over(Backends, Over(CloudBackends, Over(Channels, Over(PushChannels, Overrides))))
ASSUME KnownKinds == Kinds \subseteq DOMAIN Registry

IsTarget(kind) == kind \in DOMAIN Backends \cup DOMAIN CloudBackends
IsChannel(kind) == kind \in DOMAIN Channels \cup DOMAIN PushChannels
Fields(kind) == Registry[kind].plain \cup Registry[kind].hidden

\* A flat form, split by the declared sensitivity of its fields.
SplitConfig(kind, form) ==
  [config |-> [f \in DOMAIN form \cap Registry[kind].plain |-> form[f]],
   hidden |-> [f \in DOMAIN form \cap Registry[kind].hidden |-> form[f]]]

-----------------------------------------------------------------------------
(* Redaction of the audited request body.                                  *)
SecretFieldNames ==
  UNION {Registry[k].hidden : k \in DOMAIN Backends \cup DOMAIN CloudBackends}

SecretChannelFieldNames ==
  UNION {Registry[k].hidden : k \in DOMAIN Channels \cup DOMAIN PushChannels}

\* The names the pattern catches (pass, secret, token, key, webhook).
SecretKeyRe ==
  {"password", "secretAccessKey", "accessKeyId", "sasToken", "privateKey", "webhookUrl",
   "botToken", "appToken", "accessToken"}

\* The fields of the body that are stored in clear.
RedactSecrets(form) ==
  DOMAIN form \ (SecretKeyRe \cup SecretFieldNames \cup SecretChannelFieldNames)

\* Every write of a signed-in user is recorded, whether it succeeds or not.
Audit(form) == log' = log \cup RedactSecrets(form)

-----------------------------------------------------------------------------
(* Reachability of a connection.                                           *)
EndpointField ==
  [sftp |-> "host", rest |-> "url", s3 |-> "endpoint", azure |-> "accountName", swift |-> "authUrl"]

\* What to probe: 0 stands for the fixed address of a provider; rclone has nothing.
ProbeSpecFor(kind, config, hidden) ==
  IF kind \in {"b2", "gs"} THEN {0}
  ELSE IF kind \notin DOMAIN EndpointField THEN {}
  ELSE LET f == EndpointField[kind]
           from == IF kind = "swift" THEN hidden ELSE config
       IN  {from[x] : x \in DOMAIN from \cap {f}}

Probe(spec) ==
  IF spec = {} THEN "unknown" ELSE IF spec \subseteq Reachable THEN "online" ELSE "offline"

Exists == row.made
Spec0 == ProbeSpecFor(row.kind, row.config, secret)

Blank == <<>>
Closed == [pc |-> "closed"]
Editing(e) == editor[e].pc \in {"reveal", "store", "write"}

ConnectionInit ==
  /\ \E k \in Kinds : row = [kind |-> k, config |-> Blank, made |-> FALSE]
  /\ secret = Blank /\ entered = Blank
  /\ status = "unknown" /\ probes = {}
  /\ editor = [e \in Editors |-> Closed]
  /\ log = {} /\ forms = 0 /\ met = FALSE

-----------------------------------------------------------------------------
(* The editor and the requests.                                            *)

\* A new service: the required fields are filled in, others perhaps.  The key
\* pair of an SFTP connection is generated, its public half is in the config.
CreateForm(extra) == [f \in Registry[row.kind].needed \cup extra |-> forms + 1]

Generate(kind, split) ==
  IF kind # "sftp" THEN split
  ELSE [config |-> Over([f \in {"publicKey"} |-> forms + 1], split.config),
        hidden |-> Over([f \in {"privateKey"} |-> forms + 1], split.hidden)]

Create ==
  /\ ~Exists /\ forms < MaxForms
  /\ \E extra \in {{}, Fields(row.kind)} :
       LET form == CreateForm(extra)
           new == Generate(row.kind, SplitConfig(row.kind, form))
       IN  /\ row' = [row EXCEPT !.config = new.config, !.made = TRUE]
           /\ secret' = new.hidden /\ entered' = new.hidden
           /\ Audit(form)
  /\ forms' = forms + 1
  /\ UNCHANGED <<status, probes, editor, met>>

\* The form opens with the readable fields of the row; secrets start blank.
Open(e) ==
  /\ Exists /\ editor[e] = Closed /\ forms < MaxForms
  /\ editor' = [editor EXCEPT ![e] =
       [pc |-> "form",
        values |-> [f \in DOMAIN row.config \cap Registry[row.kind].plain |-> row.config[f]]]]
  /\ UNCHANGED <<row, secret, status, probes, log, forms, entered, met>>

\* What is entered: one field, all the secret ones, or nothing; or one is cleared.
Touched == {{}} \cup {{f} : f \in Fields(row.kind)} \cup {Registry[row.kind].hidden}

Collect(values, touched, cleared) ==
  [f \in (DOMAIN values \cup touched) \ cleared |-> IF f \in touched THEN forms + 1 ELSE values[f]]

Submit(e) ==
  /\ editor[e].pc = "form" /\ forms < MaxForms
  /\ \E touched \in Touched, cleared \in {{}} \cup {{f} : f \in DOMAIN editor[e].values} :
       /\ touched \cap cleared = {}
       /\ editor' = [editor EXCEPT ![e] =
            [pc |-> "read", form |-> Collect(editor[e].values, touched, cleared)]]
  /\ forms' = forms + 1
  /\ UNCHANGED <<row, secret, status, probes, log, entered, met>>

HiddenOf(e) == SplitConfig(row.kind, editor[e].form).hidden

\* getRow
Read(e) ==
  /\ editor[e].pc = "read"
  /\ editor' = [editor EXCEPT ![e] =
       [pc |-> IF HiddenOf(e) = Blank THEN "write" ELSE "reveal",
        form |-> @.form, base |-> row.config]]
  /\ met' = (met \/ \E o \in Editors \ {e} : Editing(o))
  /\ UNCHANGED <<row, secret, status, probes, log, forms, entered>>

\* Mutant: a channel's secret is replaced by what the form brings.
MergedReplaces(e) == HiddenOf(e)

\* Channels and overrides: a blank secret field means "unchanged".  The
\* credentials of a connection are replaced.
Merged(e) == IF IsTarget(row.kind) THEN HiddenOf(e) ELSE Over(HiddenOf(e), secret)

Reveal(e) ==
  /\ editor[e].pc = "reveal"
  /\ editor' = [editor EXCEPT ![e] =
       [pc |-> "store", form |-> @.form, base |-> @.base, content |-> Merged(e)]]
  /\ UNCHANGED <<row, secret, status, probes, log, forms, entered, met>>

Store(e) ==
  /\ editor[e].pc = "store"
  /\ secret' = editor[e].content
  /\ entered' = Over(HiddenOf(e), entered)
  /\ editor' = [editor EXCEPT ![e] = [pc |-> "write", form |-> @.form, base |-> @.base]]
  /\ UNCHANGED <<row, status, probes, log, forms, met>>

\* A connection's config is replaced, but for the public key of the row that
\* was read; a channel's is merged over it.
Patched(e) ==
  LET new == SplitConfig(row.kind, editor[e].form).config
      base == editor[e].base
  IN  IF IsChannel(row.kind) THEN Over(new, base)
      ELSE Over(new, [f \in DOMAIN base \cap {"publicKey"} |-> base[f]])

\* The row is written, and the request audited; a connection is probed again.
Write(e) ==
  /\ editor[e].pc = "write"
  /\ row' = [row EXCEPT !.config = Patched(e)]
  /\ Audit(editor[e].form)
  /\ editor' = [editor EXCEPT ![e] = Closed]
  /\ UNCHANGED <<secret, status, probes, forms, entered, met>>

-----------------------------------------------------------------------------
\* refresh: the row is read, and probed.
Refresh ==
  /\ Exists /\ IsTarget(row.kind)
  /\ probes' = probes \cup {Spec0}
  /\ UNCHANGED <<row, secret, status, editor, log, forms, entered, met>>

\* The timer, and the button of the list (or the write of an edit).
Sweep == Refresh
CheckNow == Refresh

\* Mutant: only an answer is stored, a timeout is not.
ProbeEndsOnline(spec) ==
  /\ spec \in probes
  /\ probes' = probes \ {spec}
  /\ status' = IF Probe(spec) = "online" THEN "online" ELSE status
  /\ UNCHANGED <<row, secret, editor, log, forms, entered, met>>

\* checkAndStore: by id, whatever the row says by now.
ProbeEnds(spec) ==
  /\ spec \in probes
  /\ probes' = probes \ {spec}
  /\ status' = Probe(spec)
  /\ UNCHANGED <<row, secret, editor, log, forms, entered, met>>

Specs == {{}} \cup {{v} : v \in 0..MaxForms}

ConnectionNext ==
  \/ Create
  \/ \E e \in Editors : Open(e) \/ Submit(e) \/ Read(e) \/ Reveal(e) \/ Store(e) \/ Write(e)
  \/ Sweep \/ CheckNow
  \/ \E spec \in Specs : ProbeEnds(spec)

\* The interval timer fires, a probe answers or times out, a handler goes on.
Fairness ==
  /\ WF_connectionVars(Sweep)
  /\ \A spec \in Specs : WF_connectionVars(ProbeEnds(spec))
  /\ \A e \in Editors :
       /\ WF_connectionVars(Read(e)) /\ WF_connectionVars(Reveal(e))
       /\ WF_connectionVars(Store(e)) /\ WF_connectionVars(Write(e))

ConnectionSpec == ConnectionInit /\ [][ConnectionNext]_connectionVars /\ Fairness

-----------------------------------------------------------------------------
\* No credential is readable: neither the config column, which the API returns,
\* nor the audit log, which keeps the body of every write, nor a command line
\* or message holds the value of a field that the provider declares secret
\* (splitConfig, redactSecrets, build, send).
SecretsHidden ==
  /\ DOMAIN row.config \cap Registry[row.kind].hidden = {}
  /\ (log \cup Registry[row.kind].open) \cap Registry[row.kind].hidden = {}

\* The public key an administrator installs is the one of the private key that
\* restic uses: edits neither lose it nor mix key pairs (targets.service.ts).
KeyPairHolds ==
  row.kind = "sftp" /\ Exists =>
    /\ "publicKey" \in DOMAIN row.config /\ "privateKey" \in DOMAIN secret
    /\ row.config["publicKey"] = secret["privateKey"]

\* "a blank secret field means unchanged": unless two updates overlap, a channel
\* and an override hold what was last entered for every secret field.
BlankKeeps == ~met /\ Exists /\ ~IsTarget(row.kind) => secret = entered

\* What an edit of a connection leaves behind is hidden, whole and unmixed.
FieldsSound == SecretsHidden /\ KeyPairHolds /\ BlankKeeps

\* The status of a connection in the end is that of its present endpoint,
\* although a probe of an earlier one may be stored after an edit.
StatusSettles ==
  <>[](Exists /\ IsTarget(row.kind) => status = Probe(Spec0))
=============================================================================
