----------------------- MODULE ConfigurationProofs -----------------------
(***************************************************************************)
(* Proofs about what is configured: the fields of connections and channels *)
(* (Connections), and the jobs with their schedule and their secrets       *)
(* (Catalog).                                                              *)
(*                                                                         *)
(* 1. FieldsSound, from ConnectionInv: what an editor has read holds no    *)
(*    secret field, so what it writes does not.                            *)
(* 2. ScheduleFollows, from ScheduleInv: a job whose registrations are not *)
(*    what its row asks for is left to a request that is under way, and    *)
(*    what that request has read is still so.                              *)
(* 3. SecretsSound, from SecretsInv: every secret has exactly one owner, a *)
(*    repository, a connection or the request that has it in its hands.    *)
(***************************************************************************)
EXTENDS Catalog, Connections, TLAPS

-----------------------------------------------------------------------------
(* The fields of connections and channels.                                   *)

(* The secret fields of a kind are none of its plain, open or generated      *)
(* ones.                                                                     *)
Apart(d) ==
  /\ d.hidden \cap (d.plain \cup d.open \cup {"publicKey"}) = {}
  /\ "publicKey" \notin d.plain /\ "privateKey" \notin d.hidden

(* What a merge of two groups of fields holds: the first one wins.           *)
LEMMA OverHolds ==
  ASSUME NEW f, NEW g
  PROVE  /\ DOMAIN Over(f, g) = DOMAIN f \cup DOMAIN g
         /\ \A x \in DOMAIN f : Over(f, g)[x] = f[x]
         /\ \A x \in DOMAIN g \ DOMAIN f : Over(f, g)[x] = g[x]
  BY DEF Over

(* The registry is its groups of kinds: no kind is in two of them.           *)
LEMMA RegistryOf ==
  /\ DOMAIN Registry = DOMAIN Backends \cup DOMAIN CloudBackends \cup DOMAIN Channels
                       \cup DOMAIN PushChannels \cup DOMAIN Overrides
  /\ \A k \in DOMAIN Backends : Registry[k] = Backends[k]
  /\ \A k \in DOMAIN CloudBackends : Registry[k] = CloudBackends[k]
  /\ \A k \in DOMAIN Channels : Registry[k] = Channels[k]
  /\ \A k \in DOMAIN PushChannels : Registry[k] = PushChannels[k]
  /\ \A k \in DOMAIN Overrides : Registry[k] = Overrides[k]
<1>1. /\ DOMAIN Backends = {"sftp", "rest", "s3"}
      /\ DOMAIN CloudBackends = {"b2", "azure", "gs", "swift", "rclone"}
  BY DEF Backends, CloudBackends
<1>2. /\ DOMAIN Channels = {"email", "webhook", "slack", "teams"}
      /\ DOMAIN PushChannels = {"discord", "telegram", "gotify", "ntfy"}
      /\ DOMAIN Overrides = {"override"}
  BY DEF Channels, PushChannels, Overrides
<1> DEFINE r4 == Over(PushChannels, Overrides)
           r3 == Over(Channels, r4)
           r2 == Over(CloudBackends, r3)
<1>3. /\ DOMAIN r4 = DOMAIN PushChannels \cup DOMAIN Overrides
      /\ \A k \in DOMAIN PushChannels : r4[k] = PushChannels[k]
      /\ \A k \in DOMAIN Overrides \ DOMAIN PushChannels : r4[k] = Overrides[k]
  BY OverHolds
<1> HIDE DEF r4
<1>4. /\ DOMAIN r3 = DOMAIN Channels \cup DOMAIN r4
      /\ \A k \in DOMAIN Channels : r3[k] = Channels[k]
      /\ \A k \in DOMAIN r4 \ DOMAIN Channels : r3[k] = r4[k]
  BY OverHolds
<1> HIDE DEF r3
<1>5. /\ DOMAIN r2 = DOMAIN CloudBackends \cup DOMAIN r3
      /\ \A k \in DOMAIN CloudBackends : r2[k] = CloudBackends[k]
      /\ \A k \in DOMAIN r3 \ DOMAIN CloudBackends : r2[k] = r3[k]
  BY OverHolds
<1> HIDE DEF r2
<1>6. /\ DOMAIN Registry = DOMAIN Backends \cup DOMAIN r2
      /\ \A k \in DOMAIN Backends : Registry[k] = Backends[k]
      /\ \A k \in DOMAIN r2 \ DOMAIN Backends : Registry[k] = r2[k]
  BY OverHolds DEF Registry, r2, r3, r4
<1>7. QED
  BY <1>1, <1>2, <1>3, <1>4, <1>5, <1>6

(* The backends that are servers keep their fields apart.                    *)
LEMMA BackendsSane ==
  ASSUME NEW k \in DOMAIN Backends
  PROVE  Apart(Backends[k])
<1>1. k \in {"sftp", "rest", "s3"}
  BY DEF Backends
<1>2. CASE k = "sftp"
  BY <1>2 DEF Backends, Apart, Def
<1>3. CASE k = "rest"
  BY <1>3 DEF Backends, Apart, Def
<1>4. CASE k = "s3"
  BY <1>4 DEF Backends, Apart, Def
<1>5. QED
  BY <1>1, <1>2, <1>3, <1>4

(* So do the cloud backends.                                                 *)
LEMMA CloudBackendsSane ==
  ASSUME NEW k \in DOMAIN CloudBackends
  PROVE  Apart(CloudBackends[k])
<1>1. k \in {"b2", "azure", "gs", "swift", "rclone"}
  BY DEF CloudBackends
<1>2. CASE k \in {"b2", "azure"}
  BY <1>2 DEF CloudBackends, Apart, Def
<1>3. CASE k \in {"gs", "rclone"}
  BY <1>3 DEF CloudBackends, Apart, Def
<1>4. CASE k = "swift"
  BY <1>4 DEF CloudBackends, Apart, Def
<1>5. QED
  BY <1>1, <1>2, <1>3, <1>4

(* So do e-mail, webhooks, Slack and Teams.                                  *)
LEMMA ChannelsSane ==
  ASSUME NEW k \in DOMAIN Channels
  PROVE  Apart(Channels[k])
<1>1. k \in {"email", "webhook", "slack", "teams"}
  BY DEF Channels
<1>2. CASE k = "email"
  BY <1>2 DEF Channels, Apart, Def
<1>3. CASE k = "webhook"
  BY <1>3 DEF Channels, Apart, Def
<1>4. CASE k \in {"slack", "teams"}
  BY <1>4 DEF Channels, Apart, Def
<1>5. QED
  BY <1>1, <1>2, <1>3, <1>4

(* So do the push channels.                                                  *)
LEMMA PushChannelsSane ==
  ASSUME NEW k \in DOMAIN PushChannels
  PROVE  Apart(PushChannels[k])
<1>1. k \in {"discord", "telegram", "gotify", "ntfy"}
  BY DEF PushChannels
<1>2. CASE k = "discord"
  BY <1>2 DEF PushChannels, Apart, Def
<1>3. CASE k = "telegram"
  BY <1>3 DEF PushChannels, Apart, Def
<1>4. CASE k = "gotify"
  BY <1>4 DEF PushChannels, Apart, Def
<1>5. CASE k = "ntfy"
  BY <1>5 DEF PushChannels, Apart, Def
<1>6. QED
  BY <1>1, <1>2, <1>3, <1>4, <1>5

(* Every kind keeps its fields apart, and the audit log knows all its        *)
(* secret ones by name.                                                      *)
LEMMA RegistrySane ==
  ASSUME NEW k \in DOMAIN Registry
  PROVE  /\ Apart(Registry[k])
         /\ Registry[k].hidden \subseteq SecretFieldNames \cup SecretChannelFieldNames
<1>1. CASE k \in DOMAIN Backends
  BY <1>1, RegistryOf, BackendsSane DEF SecretFieldNames
<1>2. CASE k \in DOMAIN CloudBackends
  BY <1>2, RegistryOf, CloudBackendsSane DEF SecretFieldNames
<1>3. CASE k \in DOMAIN Channels
  BY <1>3, RegistryOf, ChannelsSane DEF SecretChannelFieldNames
<1>4. CASE k \in DOMAIN PushChannels
  BY <1>4, RegistryOf, PushChannelsSane DEF SecretChannelFieldNames
<1>5. CASE k \in DOMAIN Overrides
  <2>1. k = "override" /\ Registry[k] = Overrides["override"]
    BY <1>5, RegistryOf DEF Overrides
  <2>2. Apart(Registry[k]) /\ Registry[k].hidden = {"username", "password"}
    BY <2>1 DEF Overrides, Apart, Def
  <2>3. "rest" \in DOMAIN Backends /\ Backends["rest"].hidden = {"username", "password"}
    BY DEF Backends, Def
  <2>4. {"username", "password"} \subseteq SecretFieldNames
    BY <2>3, RegistryOf DEF SecretFieldNames
  <2>5. QED
    BY <2>2, <2>4
<1>6. QED
  BY <1>1, <1>2, <1>3, <1>4, <1>5, RegistryOf

-----------------------------------------------------------------------------
(* What the config column of the row may hold.                               *)
Columns == Registry[row.kind].plain \cup {"publicKey"}

(* No secret field is in the row or in the audit log.                        *)
RowKept ==
  /\ row = [kind |-> row.kind, config |-> row.config, made |-> row.made]
  /\ row.kind \in Kinds /\ DOMAIN row.config \subseteq Columns
  /\ log \cap Registry[row.kind].hidden = {}

(* An editor has read a config without secret fields; a key pair is kept as  *)
(* it was read.                                                              *)
Kept(q) ==
  /\ q.pc \in {"closed", "form", "read", "reveal", "store", "write"}
  /\ q.pc \in {"reveal", "store", "write"} => DOMAIN q.base \subseteq Columns
  /\ row.kind = "sftp" =>
       /\ q.pc \notin {"reveal", "store"}
       /\ q.pc = "write" => /\ "publicKey" \in DOMAIN q.base
                            /\ q.base["publicKey"] = row.config["publicKey"]
  /\ ~met /\ ~IsTarget(row.kind) /\ q.pc = "store" =>
       q.content = Over(SplitConfig(row.kind, q.form).hidden, secret)

(* The same of all editors; one is open only when there is a connection.     *)
EditorsKept ==
  /\ editor = [e \in Editors |-> editor[e]]
  /\ \A e \in Editors : Kept(editor[e]) /\ (editor[e] # Closed => Exists)

(* Editors that edit at the same time are noted.                             *)
Alone == ~met => \A e, o \in Editors : Editing(e) /\ Editing(o) => e = o

(* The inductive invariant of FieldsSound.                                   *)
ConnectionInv == RowKept /\ EditorsKept /\ Alone /\ KeyPairHolds /\ BlankKeeps

(* splitConfig divides the fields of a form as the registry says.            *)
LEMMA SplitParts ==
  ASSUME NEW kind, NEW form
  PROVE  /\ DOMAIN SplitConfig(kind, form).config = DOMAIN form \cap Registry[kind].plain
         /\ DOMAIN SplitConfig(kind, form).hidden = DOMAIN form \cap Registry[kind].hidden
  BY DEF SplitConfig

(* An SFTP connection has no secret fields of its own: its key pair is       *)
(* generated.                                                                *)
LEMMA SftpIs ==
  /\ Registry["sftp"].hidden = {} /\ "publicKey" \notin Registry["sftp"].plain
  /\ ~IsChannel("sftp") /\ IsTarget("sftp")
<1>1. "sftp" \in DOMAIN Backends /\ Backends["sftp"].hidden = {}
      /\ Backends["sftp"].plain = {"host", "user", "port"}
  BY DEF Backends, Def
<1>2. "sftp" \notin DOMAIN Channels \cup DOMAIN PushChannels
  BY DEF Channels, PushChannels
<1>3. QED
  BY <1>1, <1>2, RegistryOf DEF IsChannel, IsTarget

(* The audit log leaves the secret fields out.                               *)
LEMMA AuditHides ==
  ASSUME RowKept, NEW form, Audit(form)
  PROVE  log' \cap Registry[row.kind].hidden = {}
<1>1. row.kind \in DOMAIN Registry
  BY KnownKinds DEF RowKept
<1>2. Registry[row.kind].hidden \subseteq SecretFieldNames \cup SecretChannelFieldNames
  BY <1>1, RegistrySane
<1>3. QED
  BY <1>2 DEF Audit, RedactSecrets, RowKept

(* An editor goes on to its next statement without touching row, secret or   *)
(* log.                                                                      *)
LEMMA EditorMoves ==
  ASSUME ConnectionInv, NEW e \in Editors, NEW q, editor' = [editor EXCEPT ![e] = q],
         Exists, Kept(q), UNCHANGED <<row, secret, entered, log>>, met => met',
         ~met' /\ q.pc \in {"reveal", "store", "write"} =>
           \A o \in Editors \ {e} : ~Editing(o)
  PROVE  ConnectionInv'
<1>1. RowKept' /\ KeyPairHolds' /\ BlankKeeps'
  BY DEF ConnectionInv, RowKept, Columns, KeyPairHolds, BlankKeeps, Exists
<1>2. /\ editor' = [o \in Editors |-> editor'[o]]
      /\ editor'[e] = q /\ \A o \in Editors \ {e} : editor'[o] = editor[o]
  BY DEF ConnectionInv, EditorsKept
<1>3. EditorsKept'
  BY <1>2 DEF ConnectionInv, EditorsKept, Kept, Columns, Exists
<1>4. Alone'
  BY <1>2 DEF ConnectionInv, Alone, Editing
<1>5. QED
  BY <1>1, <1>3, <1>4 DEF ConnectionInv

(* Creating a connection splits what was entered.                            *)
LEMMA CreateKeeps ==
  ASSUME ConnectionInv, Create
  PROVE  ConnectionInv'
<1>1. PICK extra \in {{}, Fields(row.kind)} :
        LET form == CreateForm(extra)
            new == Generate(row.kind, SplitConfig(row.kind, form))
        IN  /\ row' = [row EXCEPT !.config = new.config, !.made = TRUE]
            /\ secret' = new.hidden /\ entered' = new.hidden
            /\ Audit(form)
  BY DEF Create
<1> DEFINE form == CreateForm(extra)
           split == SplitConfig(row.kind, form)
           new == Generate(row.kind, split)
<1>2. /\ row' = [row EXCEPT !.config = new.config, !.made = TRUE]
      /\ secret' = new.hidden /\ entered' = new.hidden /\ Audit(form)
      /\ UNCHANGED <<editor, met>> /\ ~Exists
  BY <1>1 DEF Create
<1>3. DOMAIN split.config \subseteq Registry[row.kind].plain
  BY SplitParts
<1> HIDE DEF form, split
<1>4. /\ DOMAIN new.config \subseteq Columns
      /\ row.kind = "sftp" => /\ "publicKey" \in DOMAIN new.config
                              /\ "privateKey" \in DOMAIN new.hidden
                              /\ new.config["publicKey"] = new.hidden["privateKey"]
  <2>1. CASE row.kind = "sftp"
    <3>1. /\ new.config = Over([f \in {"publicKey"} |-> forms + 1], split.config)
          /\ new.hidden = Over([f \in {"privateKey"} |-> forms + 1], split.hidden)
      BY <2>1 DEF Generate
    <3>2. QED
      BY <1>3, <3>1 DEF Over, Columns
  <2>2. CASE row.kind # "sftp"
    BY <1>3, <2>2 DEF Generate, Columns
  <2>3. QED
    BY <2>1, <2>2
<1> HIDE DEF new
<1>5. row' = [kind |-> row.kind, config |-> new.config, made |-> TRUE]
  BY <1>2 DEF ConnectionInv, RowKept
<1>6. RowKept'
  BY <1>2, <1>4, <1>5, AuditHides DEF ConnectionInv, RowKept, Columns
<1>7. EditorsKept'
  BY <1>2, <1>5 DEF ConnectionInv, EditorsKept, Kept, Closed, Exists
<1>8. Alone'
  BY <1>2 DEF ConnectionInv, Alone, Editing
<1>9. KeyPairHolds' /\ BlankKeeps'
  BY <1>2, <1>4, <1>5 DEF KeyPairHolds, BlankKeeps
<1>10. QED
  BY <1>6, <1>7, <1>8, <1>9 DEF ConnectionInv

(* The form is opened and sent.                                              *)
LEMMA FormKeeps ==
  ASSUME ConnectionInv, NEW e \in Editors, Open(e) \/ Submit(e)
  PROVE  ConnectionInv'
<1>1. PICK q : /\ editor' = [editor EXCEPT ![e] = q]
               /\ q.pc \in {"form", "read"}
  <2>1. CASE Open(e)
    <3> DEFINE q == [pc |-> "form",
                     values |-> [f \in DOMAIN row.config \cap Registry[row.kind].plain |->
                                   row.config[f]]]
    <3>1. editor' = [editor EXCEPT ![e] = q]
      BY <2>1 DEF Open
    <3>2. q.pc = "form"
      OBVIOUS
    <3> HIDE DEF q
    <3>3. QED
      BY <3>1, <3>2
  <2>2. CASE Submit(e)
    BY <2>2 DEF Submit
  <2>3. QED
    BY <2>1, <2>2
<1>2. Exists /\ UNCHANGED <<row, secret, entered, log, met>>
  BY DEF Open, Submit, ConnectionInv, EditorsKept, Closed
<1>3. Kept(q)
  BY <1>1 DEF Kept
<1>4. QED
  BY <1>1, <1>2, <1>3, EditorMoves

(* The update reads the row and begins to merge.                             *)
LEMMA ReadKeeps ==
  ASSUME ConnectionInv, NEW e \in Editors, Read(e)
  PROVE  ConnectionInv'
<1> DEFINE q == [pc |-> IF HiddenOf(e) = Blank THEN "write" ELSE "reveal",
                 form |-> editor[e].form, base |-> row.config]
<1>1. editor' = [editor EXCEPT ![e] = q]
  BY DEF Read
<1>2. /\ Exists /\ UNCHANGED <<row, secret, entered, log>>
      /\ met' = (met \/ \E o \in Editors \ {e} : Editing(o))
  BY DEF Read, ConnectionInv, EditorsKept, Closed
<1>3. row.kind = "sftp" => HiddenOf(e) = Blank
  BY SplitParts, SftpIs DEF HiddenOf, SplitConfig, Blank
<1>4. Kept(q)
  <2>1. q.pc \in {"reveal", "write"} /\ q.base = row.config
    OBVIOUS
  <2>2. row.kind = "sftp" => q.pc = "write"
    BY <1>3
  <2> HIDE DEF q
  <2>3. row.kind = "sftp" => "publicKey" \in DOMAIN row.config
    BY <1>2 DEF ConnectionInv, KeyPairHolds
  <2>4. QED
    BY <2>1, <2>2, <2>3 DEF Kept, ConnectionInv, RowKept
<1> HIDE DEF q
<1>5. QED
  BY <1>1, <1>2, <1>4, EditorMoves

(* The update of a channel decrypts what is kept, to merge into it.          *)
LEMMA RevealKeeps ==
  ASSUME ConnectionInv, NEW e \in Editors, Reveal(e)
  PROVE  ConnectionInv'
<1> DEFINE q == [pc |-> "store", form |-> editor[e].form, base |-> editor[e].base,
                 content |-> Merged(e)]
<1>1. editor' = [editor EXCEPT ![e] = q] /\ editor[e].pc = "reveal"
  BY DEF Reveal
<1>2. /\ Exists /\ UNCHANGED <<row, secret, entered, log, met>>
  BY DEF Reveal, ConnectionInv, EditorsKept, Closed
<1>3. Kept(q)
  <2>1. ~IsTarget(row.kind) => q.content = Over(SplitConfig(row.kind, q.form).hidden, secret)
    BY DEF Merged, HiddenOf
  <2>2. q.pc = "store" /\ q.base = editor[e].base
    OBVIOUS
  <2> HIDE DEF q
  <2>3. QED
    BY <1>1, <2>1, <2>2 DEF Kept, ConnectionInv, EditorsKept
<1>4. ~met => \A o \in Editors \ {e} : ~Editing(o)
  BY <1>1 DEF ConnectionInv, Alone, Editing
<1> HIDE DEF q
<1>5. QED
  BY <1>1, <1>2, <1>3, <1>4, EditorMoves

(* The update stores the secret fields, the blank ones as they were.         *)
LEMMA StoreKeeps ==
  ASSUME ConnectionInv, NEW e \in Editors, Store(e)
  PROVE  ConnectionInv'
<1>0. PICK q : q = [pc |-> "write", form |-> editor[e].form, base |-> editor[e].base]
  OBVIOUS
<1>1. /\ editor' = [editor EXCEPT ![e] = q] /\ editor[e].pc = "store"
      /\ secret' = editor[e].content /\ entered' = Over(HiddenOf(e), entered)
      /\ UNCHANGED <<row, log, met>>
  BY <1>0 DEF Store
<1>2. /\ row.kind # "sftp" /\ Exists /\ DOMAIN q.base \subseteq Columns
      /\ ~met /\ ~IsTarget(row.kind) => secret' = Over(HiddenOf(e), secret)
  BY <1>0, <1>1 DEF ConnectionInv, EditorsKept, Kept, HiddenOf, Closed
<1>3. ~met => \A o \in Editors \ {e} : ~Editing(o)
  BY <1>1 DEF ConnectionInv, Alone, Editing
<1>4. /\ editor' = [o \in Editors |-> editor'[o]]
      /\ editor'[e] = q /\ \A o \in Editors \ {e} : editor'[o] = editor[o]
  BY <1>1 DEF ConnectionInv, EditorsKept
<1>5. q.pc = "write"
  BY <1>0
<1>6. RowKept' /\ KeyPairHolds'
  BY <1>1, <1>2 DEF ConnectionInv, RowKept, Columns, KeyPairHolds
<1>7. EditorsKept'
  <2>1. ASSUME NEW o \in Editors
        PROVE  Kept(editor[o])' /\ (editor'[o] # Closed => Exists')
    <3>1. CASE o = e
      <4>1. editor'[o] = q
        BY <1>4, <3>1
      <4>2. QED
        BY <1>1, <1>2, <1>5, <4>1 DEF Kept, Columns, Exists
    <3>2. CASE o # e
      <4>1. editor'[o] = editor[o] /\ Kept(editor[o]) /\ (editor[o] # Closed => Exists)
        BY <1>4, <3>2 DEF ConnectionInv, EditorsKept
      <4>2. ~met => editor[o].pc # "store"
        BY <1>3, <3>2 DEF Editing
      <4>3. QED
        BY <1>1, <1>2, <4>1, <4>2 DEF Kept, Columns, Exists
    <3>3. QED
      BY <3>1, <3>2
  <2>2. QED
    BY <1>4, <2>1 DEF EditorsKept
<1>8. Alone'
  BY <1>1, <1>3, <1>4 DEF Alone, Editing
<1>9. BlankKeeps'
  BY <1>1, <1>2 DEF ConnectionInv, BlankKeeps, Exists
<1>10. QED
  BY <1>6, <1>7, <1>8, <1>9 DEF ConnectionInv

(* The update writes the row.                                                *)
LEMMA WriteKeeps ==
  ASSUME ConnectionInv, NEW e \in Editors, Write(e)
  PROVE  ConnectionInv'
<1>1. /\ editor' = [editor EXCEPT ![e] = Closed] /\ editor[e].pc = "write"
      /\ row' = [row EXCEPT !.config = Patched(e)] /\ Audit(editor[e].form)
      /\ UNCHANGED <<secret, entered, met>>
  BY DEF Write
<1>2. row' = [kind |-> row.kind, config |-> Patched(e), made |-> row.made]
  BY <1>1 DEF ConnectionInv, RowKept
<1> DEFINE new == SplitConfig(row.kind, editor[e].form).config
           base == editor[e].base
<1>3. /\ DOMAIN new \subseteq Registry[row.kind].plain /\ DOMAIN base \subseteq Columns
      /\ row.kind = "sftp" => "publicKey" \in DOMAIN base
                              /\ base["publicKey"] = row.config["publicKey"]
  BY <1>1, SplitParts DEF ConnectionInv, EditorsKept, Kept
<1>4. Patched(e) = IF IsChannel(row.kind) THEN Over(new, base)
                   ELSE Over(new, [f \in DOMAIN base \cap {"publicKey"} |-> base[f]])
  BY DEF Patched
<1> HIDE DEF new, base
<1>5. DOMAIN Patched(e) \subseteq Columns
  BY <1>3, <1>4 DEF Over, Columns
<1>6. row.kind = "sftp" => /\ "publicKey" \in DOMAIN Patched(e)
                          /\ Patched(e)["publicKey"] = row.config["publicKey"]
  BY <1>3, <1>4, SftpIs DEF Over
<1>7. /\ editor' = [o \in Editors |-> editor'[o]]
      /\ editor'[e] = Closed /\ \A o \in Editors \ {e} : editor'[o] = editor[o]
  BY <1>1 DEF ConnectionInv, EditorsKept
<1>8. RowKept'
  BY <1>2, <1>5, <1>1, AuditHides DEF ConnectionInv, RowKept, Columns
<1>9. EditorsKept'
  BY <1>1, <1>2, <1>6, <1>7 DEF ConnectionInv, EditorsKept, Kept, Columns, Exists, Closed
<1>10. Alone'
  BY <1>1, <1>7 DEF ConnectionInv, Alone, Editing, Closed
<1>11. KeyPairHolds' /\ BlankKeeps'
  BY <1>1, <1>2, <1>6 DEF ConnectionInv, KeyPairHolds, BlankKeeps, Exists
<1>12. QED
  BY <1>8, <1>9, <1>10, <1>11 DEF ConnectionInv

(* There is no connection at first.                                          *)
LEMMA ConnectionInitInv == ConnectionInit => ConnectionInv
<1> SUFFICES ASSUME ConnectionInit PROVE ConnectionInv
  OBVIOUS
<1>1. PICK k \in Kinds : row = [kind |-> k, config |-> Blank, made |-> FALSE]
  BY DEF ConnectionInit
<1>2. RowKept
  BY <1>1 DEF ConnectionInit, RowKept, Blank
<1>3. EditorsKept /\ Alone
  BY DEF ConnectionInit, EditorsKept, Alone, Kept, Closed, Editing
<1>4. KeyPairHolds /\ BlankKeeps
  BY <1>1 DEF KeyPairHolds, BlankKeeps, Exists
<1>5. QED
  BY <1>2, <1>3, <1>4 DEF ConnectionInv

(* No step breaks it.                                                        *)
LEMMA ConnectionStepInv == ConnectionInv /\ [ConnectionNext]_connectionVars => ConnectionInv'
<1> SUFFICES ASSUME ConnectionInv, [ConnectionNext]_connectionVars PROVE ConnectionInv'
  OBVIOUS
<1>1. ASSUME UNCHANGED <<row, secret, editor, log, entered, met>>
      PROVE  ConnectionInv'
  BY <1>1 DEF ConnectionInv, RowKept, EditorsKept, Alone, KeyPairHolds, BlankKeeps, Kept,
     Columns, Exists, Editing
<1>2. CASE Create
  BY <1>2, CreateKeeps
<1>3. ASSUME NEW e \in Editors,
             Open(e) \/ Submit(e) \/ Read(e) \/ Reveal(e) \/ Store(e) \/ Write(e)
      PROVE  ConnectionInv'
  BY <1>3, FormKeeps, ReadKeeps, RevealKeeps, StoreKeeps, WriteKeeps
<1>4. CASE Sweep \/ CheckNow
  BY <1>1, <1>4 DEF Sweep, CheckNow, Refresh
<1>5. ASSUME NEW spec \in Specs, ProbeEnds(spec)
      PROVE  ConnectionInv'
  BY <1>1, <1>5 DEF ProbeEnds
<1>6. CASE UNCHANGED connectionVars
  BY <1>1, <1>6 DEF connectionVars
<1>7. QED
  BY <1>2, <1>3, <1>4, <1>5, <1>6 DEF ConnectionNext

(* What is kept of a connection or a channel: no secret field is in its row  *)
(* or in the audit log, a key pair stays whole, and a field left blank in    *)
(* the form keeps what was entered for it before, unless two editors met     *)
(* (targets.service.ts, notification-channels.service.ts, config-fields).    *)
THEOREM FieldsStaySound == ConnectionSpec => []FieldsSound
<1>1. ConnectionInv => FieldsSound
  <2> SUFFICES ASSUME ConnectionInv PROVE SecretsHidden
    BY DEF FieldsSound, ConnectionInv
  <2>1. Apart(Registry[row.kind])
    BY KnownKinds, RegistrySane DEF ConnectionInv, RowKept
  <2>2. QED
    BY <2>1 DEF SecretsHidden, Apart, ConnectionInv, RowKept, Columns
<1>2. QED
  BY <1>1, ConnectionInitInv, ConnectionStepInv, PTL DEF ConnectionSpec

-----------------------------------------------------------------------------
(* The schedule of the jobs.                                                 *)

(* The two kinds of runs a job is scheduled for.                             *)
Both == {"backup", "check"}
(* The cron names those jobs can have.                                       *)
Named(js) == {<<j, n>> : j \in js, n \in Both}

(* Of a request under way, what its statements have put together.            *)
Shaped(q) ==
  q # Idle =>
    /\ {"op", "pc", "id"} \subseteq DOMAIN q
    /\ \/ q.op \in {"create", "update", "remove", "restore"} /\ q.id \in Jobs
       \/ q.op = "sync" /\ q.id \in Jobs /\ q.pc \in {"unregister", "row", "register"}
       \/ q.op = "sync" /\ q.id = "all" /\ q.pc \in {"clear", "enabled", "register"}
       \/ q.op \in {"newTarget", "editTarget", "dropTarget"} /\ q.id \in Targets
    /\ q.op \in {"create", "update"} => "dto" \in DOMAIN q
    /\ q.op = "update" /\ q.pc = "write" => "drop" \in DOMAIN q
    /\ q.op = "remove" /\ q.pc # "read" => "row" \in DOMAIN q
    /\ q.op = "dropTarget" /\ q.pc = "delete" => "drop" \in DOMAIN q
    /\ q.op = "sync" /\ q.pc = "register" =>
         DOMAIN q.rows \subseteq (IF q.id = "all" THEN Jobs ELSE {q.id})

(* What has which form: the requests, the history, and a registry of the     *)
(* names jobs can have.                                                      *)
Shape ==
  /\ req = [r \in Requests |-> req[r]] /\ \A r \in Requests : Shaped(req[r])
  /\ DOMAIN jobs \subseteq Jobs
  /\ history = [stale |-> history.stale, leaky |-> history.leaky]
  /\ history.stale => history.leaky
  /\ registry = [n \in DOMAIN registry |-> registry[n]]
  /\ DOMAIN registry \subseteq Named(Jobs)

(* Requests that did not meet name different things.                         *)
Separate ==
  ~history.stale => \A r, s \in Requests : r # s =>
    /\ Keys(req[r]) \cap Keys(req[s]) \subseteq {Local, Keep}
    /\ "all" \in Keys(req[r]) => req[s] = Idle

(* The scheduler has, for a job, what its row asks for.                      *)
Asked(j, n) == j \in DOMAIN jobs /\ <<j, n>> \in Entries(j, jobs[j])

(* The scheduler runs this job as its row says.                              *)
Agrees(j) ==
  \A n \in Both :
    /\ <<j, n>> \in DOMAIN registry <=> Asked(j, n)
    /\ Asked(j, n) => registry[<<j, n>>] = Expr(<<j, n>>, jobs[j])

(* Nothing is registered for the job: a sync has cleared it first.           *)
Clear(j) == \A n \in Both : <<j, n>> \notin DOMAIN registry

(* Requests that are yet to bring the scheduler up to date.                  *)
Removing(q) ==
  q.op = "remove" /\ q.pc \in {"repository", "password", "override", "unregister"}

(* What is left to do for the scheduler: a sync, or the rest of an update    *)
(* or a removal.                                                             *)
Dirty(q) == q.op = "sync" \/ (q.op = "update" /\ q.pc = "drop") \/ Removing(q)

(* What such a request relies on: the row is (or is no longer) there, and    *)
(* what it read of it is still so.                                           *)
Prepared(q) ==
  /\ q.op = "update" /\ q.pc \in {"secrets", "write", "drop"} => q.id \in DOMAIN jobs
  /\ Removing(q) => q.id \notin DOMAIN jobs
  /\ q.op = "sync" /\ q.pc = "row" => Clear(q.id)
  /\ q.op = "sync" /\ q.pc = "register" /\ q.id # "all" =>
       Clear(q.id) /\ q.rows = [x \in DOMAIN jobs \cap {q.id} |-> jobs[x]]
  /\ q.op = "sync" /\ q.id = "all" /\ q.pc \in {"enabled", "register"} => DOMAIN registry = {}
  /\ q.op = "sync" /\ q.id = "all" /\ q.pc = "register" => q.rows = jobs

(* A request under way will bring the scheduler up to date for this job.     *)
Covered(j) == \E r \in Requests : Dirty(req[r]) /\ req[r].id \in {j, "all"}

(* Every job is scheduled as its row says, or a request that did not meet    *)
(* another will see to it.                                                   *)
Followed ==
  ~history.stale =>
    /\ \A j \in Jobs : Agrees(j) \/ Covered(j)
    /\ \A r \in Requests : Prepared(req[r])

(* The inductive invariant of ScheduleFollows.                               *)
ScheduleInv == Shape /\ Separate /\ Followed

-----------------------------------------------------------------------------
(* A job asks for a backup run and perhaps a check run, under its own name.  *)
LEMMA EntriesOf ==
  ASSUME NEW k, NEW found, NEW m \in Entries(k, found)
  PROVE  m = <<k, "backup">> \/ m = <<k, "check">>
  BY DEF Entries

(* registerAll registers, for a job that had none, exactly the entries its   *)
(* row asks for.                                                             *)
LEMMA RegisterAllIs ==
  ASSUME NEW f, NEW rows, NEW j \in DOMAIN rows, NEW n \in Both,
         <<j, n>> \notin DOMAIN f
  PROVE  /\ <<j, n>> \in DOMAIN RegisterAll(f, rows) <=> <<j, n>> \in Entries(j, rows[j])
         /\ <<j, n>> \in Entries(j, rows[j]) =>
              RegisterAll(f, rows)[<<j, n>>] = Expr(<<j, n>>, rows[j])
<1> DEFINE wanted == UNION {Entries(k, rows[k]) : k \in DOMAIN rows}
<1>1. RegisterAll(f, rows) =
        [m \in DOMAIN f \cup wanted |-> IF m \in DOMAIN f THEN f[m] ELSE Expr(m, rows[m[1]])]
  BY DEF RegisterAll
<1>2. <<j, n>> \in wanted <=> <<j, n>> \in Entries(j, rows[j])
  <2>1. ASSUME NEW k \in DOMAIN rows, <<j, n>> \in Entries(k, rows[k])
        PROVE  k = j
    <3>1. <<j, n>> = <<k, "backup">> \/ <<j, n>> = <<k, "check">>
      BY <2>1, EntriesOf
    <3>2. QED
      BY <3>1
  <2>2. QED
    BY <2>1
<1> HIDE DEF wanted
<1>3. QED
  BY <1>1, <1>2

(* registerAll keeps what is registered and adds names of these jobs only.   *)
LEMMA RegisterAllShape ==
  ASSUME NEW f, NEW rows
  PROVE  /\ DOMAIN RegisterAll(f, rows) \subseteq DOMAIN f \cup Named(DOMAIN rows)
         /\ DOMAIN f \subseteq DOMAIN RegisterAll(f, rows)
         /\ \A m \in DOMAIN f : RegisterAll(f, rows)[m] = f[m]
         /\ RegisterAll(f, rows) =
              [m \in DOMAIN RegisterAll(f, rows) |-> RegisterAll(f, rows)[m]]
<1> DEFINE wanted == UNION {Entries(k, rows[k]) : k \in DOMAIN rows}
<1>1. RegisterAll(f, rows) =
        [m \in DOMAIN f \cup wanted |-> IF m \in DOMAIN f THEN f[m] ELSE Expr(m, rows[m[1]])]
  BY DEF RegisterAll
<1>2. wanted \subseteq Named(DOMAIN rows)
  <2>1. ASSUME NEW k \in DOMAIN rows, NEW m \in Entries(k, rows[k])
        PROVE  m \in Named(DOMAIN rows)
    <3>1. m = <<k, "backup">> \/ m = <<k, "check">>
      BY EntriesOf
    <3>2. QED
      BY <3>1 DEF Both, Named
  <2>2. QED
    BY <2>1
<1> HIDE DEF wanted
<1>3. QED
  BY <1>1, <1>2

(* What a restart schedules is what the rows of the jobs ask for, each with  *)
(* its expression.                                                           *)
LEMMA ScheduleIs ==
  ASSUME DOMAIN jobs \subseteq Jobs
  PROVE  /\ Schedule = [n \in DOMAIN Schedule |-> Schedule[n]]
         /\ DOMAIN Schedule \subseteq Named(Jobs)
         /\ \A j \in Jobs, n \in Both :
              /\ <<j, n>> \in DOMAIN Schedule <=> Asked(j, n)
              /\ Asked(j, n) => Schedule[<<j, n>>] = Expr(<<j, n>>, jobs[j])
<1>1. DOMAIN <<>> = {}
  OBVIOUS
<1>2. /\ Schedule = [n \in DOMAIN Schedule |-> Schedule[n]]
      /\ DOMAIN Schedule \subseteq Named(DOMAIN jobs)
  BY <1>1, RegisterAllShape DEF Schedule
<1>3. ASSUME NEW j \in Jobs, NEW n \in Both
      PROVE  /\ <<j, n>> \in DOMAIN Schedule <=> Asked(j, n)
             /\ Asked(j, n) => Schedule[<<j, n>>] = Expr(<<j, n>>, jobs[j])
  <2>1. CASE j \in DOMAIN jobs
    BY <1>1, <2>1, RegisterAllIs DEF Schedule, Asked
  <2>2. CASE j \notin DOMAIN jobs
    <3>1. <<j, n>> \notin DOMAIN Schedule
      BY <1>2, <2>2 DEF Named
    <3>2. QED
      BY <2>2, <3>1 DEF Asked
  <2>3. QED
    BY <2>1, <2>2
<1>4. DOMAIN Schedule \subseteq Named(Jobs)
  BY <1>2 DEF Named
<1>5. QED
  BY <1>2, <1>3, <1>4

-----------------------------------------------------------------------------
(* One request makes its step; the others are where they were.               *)
LEMMA ReqMoves ==
  ASSUME Shape, NEW r \in Requests, NEW q, req' = [req EXCEPT ![r] = q]
  PROVE  /\ req'[r] = q /\ \A s \in Requests \ {r} : req'[s] = req[s]
         /\ req' = [s \in Requests |-> req'[s]]
  BY DEF Shape

(* A request that names no more than before meets nobody new.                *)
LEMMA SeparateMoves ==
  ASSUME Shape, Separate, NEW r \in Requests, NEW q, req' = [req EXCEPT ![r] = q],
         req[r] # Idle, Keys(q) \subseteq Keys(req[r]), history.stale => history'.stale
  PROVE  Separate'
<1>1. /\ req'[r] = q /\ \A s \in Requests \ {r} : req'[s] = req[s]
  BY ReqMoves
<1> SUFFICES ASSUME ~history'.stale, NEW s \in Requests, NEW t \in Requests, s # t
             PROVE  /\ Keys(req'[s]) \cap Keys(req'[t]) \subseteq {Local, Keep}
                    /\ "all" \in Keys(req'[s]) => req'[t] = Idle
  BY DEF Separate, Keys
<1>2. /\ Keys(req[s]) \cap Keys(req[t]) \subseteq {Local, Keep}
      /\ "all" \in Keys(req[s]) => req[t] = Idle
  BY DEF Separate
<1>3. Keys(req'[s]) \subseteq Keys(req[s]) /\ Keys(req'[t]) \subseteq Keys(req[t])
  BY <1>1
<1>4. t = r => "all" \notin Keys(req[s])
  BY <1>2
<1>5. QED
  BY <1>1, <1>2, <1>3, <1>4

(* A request that begins is noted when it meets another one.                 *)
LEMMA SeparateBegins ==
  ASSUME Shape, Separate, NEW r \in Requests, NEW q, req' = [req EXCEPT ![r] = q],
         req[r] = Idle, history.stale => history'.stale,
         Meets(q) => history'.stale
  PROVE  Separate'
<1>1. /\ req'[r] = q /\ \A s \in Requests \ {r} : req'[s] = req[s]
  BY ReqMoves
<1> SUFFICES ASSUME ~history'.stale
             PROVE  \A s, t \in Requests : s # t =>
                    /\ Keys(req'[s]) \cap Keys(req'[t]) \subseteq {Local, Keep}
                    /\ "all" \in Keys(req'[s]) => req'[t] = Idle
  BY DEF Separate, Keys
<1>2. ASSUME NEW s \in Requests \ {r}
      PROVE  /\ Keys(q) \cap Keys(req[s]) \subseteq {Local, Keep}
             /\ "all" \notin Keys(req[s])
             /\ "all" \in Keys(q) => req[s] = Idle
  <2>1. ~Meets(q)
    OBVIOUS
  <2>2. "all" \notin {Local, Keep}
    BY DEF Local, Keep
  <2>3. QED
    BY <2>1, <2>2 DEF Meets
<1>3. ASSUME NEW s \in Requests, NEW t \in Requests, s # t
      PROVE  /\ Keys(req'[s]) \cap Keys(req'[t]) \subseteq {Local, Keep}
             /\ "all" \in Keys(req'[s]) => req'[t] = Idle
  <2>1. CASE s = r
    BY <1>1, <1>2, <1>3, <2>1
  <2>2. CASE t = r
    BY <1>1, <1>2, <1>3, <2>2
  <2>3. CASE s # r /\ t # r
    BY <1>1, <1>3, <2>3 DEF Separate
  <2>4. QED
    BY <2>1, <2>2, <2>3
<1>4. QED
  BY <1>3

-----------------------------------------------------------------------------
(* The history once requests met or one of them failed.                      *)
Marked == [stale |-> TRUE, leaky |-> TRUE]

(* Noting that requests met, or that one failed, gives the history above.    *)
LEMMA MarkIs ==
  ASSUME Shape PROVE [history EXCEPT !.stale = TRUE, !.leaky = TRUE] = Marked
<1>1. PICK a, b : history = [stale |-> a, leaky |-> b]
  BY DEF Shape
<1>2. PICK v : v = TRUE
  OBVIOUS
<1>3. PICK g : g = [history EXCEPT !.stale = v]
  OBVIOUS
<1>4. g = [stale |-> v, leaky |-> b]
  BY <1>1, <1>3
<1>5. [g EXCEPT !.leaky = v] = [stale |-> v, leaky |-> v]
  BY <1>4
<1>6. [history EXCEPT !.stale = v, !.leaky = v] = [g EXCEPT !.leaky = v]
  BY <1>3
<1>7. QED
  BY <1>2, <1>5, <1>6, Zenon DEF Marked

(* The history is only ever marked: what was stale stays stale.              *)
LEMMA HistoryMoves ==
  ASSUME Shape, history' \in {history, Marked}
  PROVE  /\ history' = [stale |-> history'.stale, leaky |-> history'.leaky]
         /\ history'.stale => history'.leaky
         /\ history.stale => history'.stale
  BY DEF Shape, Marked

(* Two requests that did not meet are about different rows.                  *)
LEMMA OthersApart ==
  ASSUME Shape, Separate, ~history.stale, NEW r \in Requests, NEW s \in Requests \ {r},
         req[r] # Idle, req[s] # Idle
  PROVE  req[s].id # req[r].id /\ req[s].id # "all"
<1>1. /\ Shaped(req[r]) /\ req[r].id \in Keys(req[r])
      /\ Shaped(req[s]) /\ req[s].id \in Keys(req[s])
  BY DEF Shape, Shaped, Keys
<1>2. /\ Keys(req[s]) \cap Keys(req[r]) \subseteq {Local, Keep}
      /\ "all" \notin Keys(req[s]) /\ "all" \notin Keys(req[r])
  BY DEF Separate
<1>3. req[s].id \in Jobs \cup Targets \cup {"all"} /\ req[s].id \notin {Local, Keep}
  BY <1>1, IdsApart DEF Shaped, Local, Keep
<1>4. QED
  BY <1>1, <1>2, <1>3

(* A step that keeps the registry over the jobs keeps the types.             *)
LEMMA ShapeMoves ==
  ASSUME Shape, NEW r \in Requests, NEW q, req' = [req EXCEPT ![r] = q], Shaped(q),
         history' \in {history, Marked}, DOMAIN jobs' \subseteq Jobs,
         registry' = [n \in DOMAIN registry' |-> registry'[n]],
         DOMAIN registry' \subseteq Named(Jobs)
  PROVE  Shape'
<1>1. /\ req'[r] = q /\ \A s \in Requests \ {r} : req'[s] = req[s]
      /\ req' = [s \in Requests |-> req'[s]]
  BY ReqMoves
<1>2. \A s \in Requests : Shaped(req'[s])
  BY <1>1 DEF Shape
<1>3. \A s \in Requests : Shaped(req[s])'
  BY <1>2 DEF Shaped
<1>4. QED
  BY <1>1, <1>3, HistoryMoves DEF Shape

(* A step that leaves jobs and registry alone, and keeps what is left to     *)
(* do, keeps them in line.                                                   *)
LEMMA FollowStays ==
  ASSUME ScheduleInv, NEW r \in Requests, NEW q, req' = [req EXCEPT ![r] = q],
         UNCHANGED <<jobs, registry>>, history' \in {history, Marked},
         Dirty(req[r]) => Dirty(q) /\ q.id = req[r].id,
         ~history'.stale => Prepared(q)
  PROVE  Followed'
<1>1. /\ req'[r] = q /\ \A s \in Requests \ {r} : req'[s] = req[s]
  BY ReqMoves DEF ScheduleInv
<1> SUFFICES ASSUME ~history'.stale
             PROVE  /\ \A j \in Jobs : Agrees(j)' \/ Covered(j)'
                    /\ \A s \in Requests : Prepared(req[s])'
  BY DEF Followed
<1>2. ~history.stale
  BY HistoryMoves DEF ScheduleInv
<1>3. ASSUME NEW j \in Jobs PROVE Agrees(j)' \/ Covered(j)'
  <2>1. CASE Agrees(j)
    BY <2>1 DEF Agrees, Asked
  <2>2. CASE Covered(j)
    <3>1. PICK s \in Requests : Dirty(req[s]) /\ req[s].id \in {j, "all"}
      BY <2>2 DEF Covered
    <3>2. Dirty(req'[s]) /\ req'[s].id \in {j, "all"}
      BY <1>1, <3>1
    <3>3. QED
      BY <3>2 DEF Covered, Dirty, Removing
  <2>3. QED
    BY <1>2, <2>1, <2>2 DEF ScheduleInv, Followed
<1>4. ASSUME NEW s \in Requests PROVE Prepared(req[s])'
  <2>1. Prepared(req'[s])
    BY <1>1, <1>2 DEF ScheduleInv, Followed
  <2>2. QED
    BY <2>1 DEF Prepared, Removing, Clear
<1>5. QED
  BY <1>3, <1>4

(* A step does not concern job k; it leaves job j, about which request r      *)
(* goes on with q, up to date or is to be followed by a statement that does. *)
Same(k) ==
  /\ k \in DOMAIN jobs' <=> k \in DOMAIN jobs
  /\ k \in DOMAIN jobs => jobs'[k] = jobs[k]
  /\ \A n \in Both :
       /\ <<k, n>> \in DOMAIN registry' <=> <<k, n>> \in DOMAIN registry
       /\ <<k, n>> \in DOMAIN registry => registry'[<<k, n>>] = registry[<<k, n>>]

(* After the step its request is prepared for the next, and the job is       *)
(* scheduled right or left to it.                                            *)
Lasting(r, q, j) == Prepared(req[r])' /\ (Agrees(j)' \/ (Dirty(q) /\ q.id = j))

(* A step about one job keeps the others in line: the requests about them    *)
(* do not notice.                                                            *)
LEMMA FollowMoves ==
  ASSUME ScheduleInv, NEW r \in Requests, NEW q, req' = [req EXCEPT ![r] = q],
         NEW j \in Jobs, Dirty(req[r]) => req[r].id = j,
         history' \in {history, Marked},
         \A k \in Jobs \ {j} : Same(k),
         ~history'.stale => \A s \in Requests \ {r} :
                              req[s] # Idle => req[s].id \notin {j, "all"},
         ~history'.stale => Lasting(r, q, j)
  PROVE  Followed'
<1>1. /\ req'[r] = q /\ \A s \in Requests \ {r} : req'[s] = req[s]
  BY ReqMoves DEF ScheduleInv
<1> SUFFICES ASSUME ~history'.stale
             PROVE  /\ \A k \in Jobs : Agrees(k)' \/ Covered(k)'
                    /\ \A s \in Requests : Prepared(req[s])'
  BY DEF Followed
<1>2. ~history.stale
  BY HistoryMoves DEF ScheduleInv
<1>3. \A s \in Requests : Dirty(req'[s]) => Dirty(req[s])'
  BY DEF Dirty, Removing
<1>4. ASSUME NEW k \in Jobs PROVE Agrees(k)' \/ Covered(k)'
  <2>1. CASE k = j
    BY <1>1, <1>3, <2>1 DEF Covered, Lasting
  <2>2. CASE k # j /\ Agrees(k)
    BY <2>2 DEF Agrees, Asked, Same
  <2>3. CASE k # j /\ Covered(k)
    <3>1. PICK s \in Requests : Dirty(req[s]) /\ req[s].id \in {k, "all"}
      BY <2>3 DEF Covered
    <3>2. s # r
      BY <2>3, <3>1, IdsApart
    <3>3. QED
      BY <1>1, <1>3, <3>1, <3>2 DEF Covered
  <2>4. QED
    BY <1>2, <2>1, <2>2, <2>3 DEF ScheduleInv, Followed
<1>5. ASSUME NEW s \in Requests PROVE Prepared(req[s])'
  <2>1. CASE s = r
    BY <2>1 DEF Lasting
  <2>2. CASE s # r
    <3>1. req'[s] = req[s] /\ Prepared(req[s])
      BY <1>1, <1>2, <2>2 DEF ScheduleInv, Followed
    <3>2. CASE req[s] = Idle
      BY <3>1, <3>2 DEF Prepared, Removing, Idle
    <3>3. CASE req[s] # Idle /\ req[s].op \in {"update", "remove", "sync"}
      <4>1. PICK q2 : q2 = req[s]
        OBVIOUS
      <4>2. q2.id \in Jobs \ {j} /\ q2.id # "all"
        BY <2>2, <3>3, <4>1, IdsApart DEF ScheduleInv, Shape, Shaped
      <4>3. q2.id \in DOMAIN jobs' <=> q2.id \in DOMAIN jobs
        BY <4>2 DEF Same
      <4>4. \A n \in Both :
              <<q2.id, n>> \in DOMAIN registry' <=> <<q2.id, n>> \in DOMAIN registry
        BY <4>2 DEF Same
      <4>5. [x \in DOMAIN jobs' \cap {q2.id} |-> jobs'[x]]
              = [x \in DOMAIN jobs \cap {q2.id} |-> jobs[x]]
        BY <4>2, <4>3 DEF Same
      <4>6. Prepared(q2)'
        BY <3>1, <4>1, <4>2, <4>3, <4>4, <4>5 DEF Prepared, Removing, Clear
      <4>7. QED
        BY <3>1, <4>1, <4>6
    <3>4. CASE req[s].op \notin {"update", "remove", "sync"}
      BY <3>1, <3>4 DEF Prepared, Removing
    <3>5. QED
      BY <3>2, <3>3, <3>4
  <2>3. QED
    BY <2>1, <2>2
<1>6. QED
  BY <1>4, <1>5

-----------------------------------------------------------------------------
(* q is what request r goes on with.                                         *)
Continues(r, q) ==
  /\ q.id = req[r].id
  /\ \/ q.op = "sync"
     \/ q.op = req[r].op /\ (q.op \in {"create", "update"} => q.dto = req[r].dto)

(* A request that goes on, turns into a sync or ends names no more than      *)
(* before.                                                                   *)
LEMMA KeysShrink ==
  ASSUME Shape, NEW r \in Requests, req[r] # Idle, NEW q, q = Idle \/ Continues(r, q)
  PROVE  Keys(q) \subseteq Keys(req[r])
<1>1. CASE q = Idle
  BY <1>1 DEF Keys, Idle
<1>2. CASE Continues(r, q)
  BY <1>2 DEF Shape, Shaped, Keys, Continues
<1>3. QED
  BY <1>1, <1>2

(* A request that is over has nothing left to do.                            *)
LEMMA IdleKept == Shaped(Idle) /\ Prepared(Idle) /\ ~Dirty(Idle)
  BY DEF Shaped, Prepared, Dirty, Removing, Idle

(* A statement that touches neither job nor registry keeps the invariant.    *)
LEMMA StepStays ==
  ASSUME ScheduleInv, NEW r \in Requests, NEW q, req' = [req EXCEPT ![r] = q],
         req[r] # Idle, Shaped(q), Continues(r, q), UNCHANGED <<jobs, registry, history>>,
         Dirty(req[r]) => Dirty(q), ~history.stale => Prepared(q)
  PROVE  ScheduleInv'
<1>1. Keys(q) \subseteq Keys(req[r])
  BY KeysShrink DEF ScheduleInv
<1>2. Shape'
  BY ShapeMoves DEF ScheduleInv, Shape
<1>3. Separate'
  BY <1>1, SeparateMoves DEF ScheduleInv
<1>4. Followed'
  BY FollowStays DEF Continues
<1>5. QED
  BY <1>2, <1>3, <1>4 DEF ScheduleInv

(* A request that has nothing left to do for the scheduler may end.          *)
LEMMA StepEnds ==
  ASSUME ScheduleInv, NEW r \in Requests, End(r), req[r] # Idle, ~Dirty(req[r]),
         UNCHANGED <<jobs, registry, history>>
  PROVE  ScheduleInv'
<1>1. Keys(Idle) \subseteq Keys(req[r])
  BY KeysShrink DEF ScheduleInv
<1>2. Shape'
  BY IdleKept, ShapeMoves DEF ScheduleInv, Shape, End
<1>3. Separate'
  BY <1>1, SeparateMoves DEF ScheduleInv, End
<1>4. Followed'
  BY IdleKept, FollowStays DEF End
<1>5. QED
  BY <1>2, <1>3, <1>4 DEF ScheduleInv

(* A request that fails is noted: the scheduler may then be out of line      *)
(* until the restart.                                                        *)
LEMMA StepThrows ==
  ASSUME ScheduleInv, NEW r \in Requests, End(r), history' = Marked,
         UNCHANGED <<jobs, registry>>
  PROVE  ScheduleInv'
<1>1. Shape'
  BY IdleKept, ShapeMoves DEF ScheduleInv, Shape, End
<1>2. history'.stale
  BY DEF Marked
<1>3. QED
  BY <1>1, <1>2 DEF ScheduleInv, Separate, Followed

(* A request that begins keeps the invariant, having met another or not.     *)
LEMMA StepBegins ==
  ASSUME ScheduleInv, NEW r \in Requests, NEW q, req[r] = Idle,
         req' = [req EXCEPT ![r] = q], Shaped(q), ~history.stale => Prepared(q),
         history' = (IF Meets(q) THEN Marked ELSE history), UNCHANGED <<jobs, registry>>
  PROVE  ScheduleInv'
<1>1. history' \in {history, Marked} /\ (Meets(q) => history'.stale)
  BY DEF Marked
<1>2. Shape'
  BY <1>1, ShapeMoves DEF ScheduleInv, Shape
<1>3. Separate'
  BY <1>1, SeparateBegins, HistoryMoves DEF ScheduleInv
<1>4. Followed'
  BY <1>1, FollowStays, IdleKept, HistoryMoves DEF ScheduleInv
<1>5. QED
  BY <1>2, <1>3, <1>4 DEF ScheduleInv

(* A step that changes one job, or its registrations, keeps the invariant    *)
(* if the job is seen to.                                                    *)
LEMMA StepMoves ==
  ASSUME ScheduleInv, NEW r \in Requests, NEW q, req' = [req EXCEPT ![r] = q],
         req[r] # Idle, Shaped(q), q = Idle \/ Continues(r, q), UNCHANGED history,
         NEW j \in Jobs, req[r].id = j, DOMAIN jobs' \subseteq Jobs,
         registry' = [n \in DOMAIN registry' |-> registry'[n]],
         DOMAIN registry' \subseteq Named(Jobs),
         \A k \in Jobs \ {j} : Same(k),
         ~history.stale => Lasting(r, q, j)
  PROVE  ScheduleInv'
<1>1. Keys(q) \subseteq Keys(req[r])
  BY KeysShrink DEF ScheduleInv
<1>2. Shape'
  BY ShapeMoves DEF ScheduleInv
<1>3. Separate'
  BY <1>1, SeparateMoves DEF ScheduleInv
<1>4. ~history.stale => \A s \in Requests \ {r} :
                          req[s] # Idle => req[s].id \notin {j, "all"}
  BY OthersApart DEF ScheduleInv
<1>5. Followed'
  <2>1. history' \in {history, Marked} /\ history' = history
    OBVIOUS
  <2>2. /\ ~history'.stale => \A s \in Requests \ {r} :
                                 req[s] # Idle => req[s].id \notin {j, "all"}
        /\ ~history'.stale => Lasting(r, q, j)
    BY <1>4
  <2>3. Dirty(req[r]) => req[r].id = j
    OBVIOUS
  <2>4. QED
    BY <2>1, <2>2, <2>3, FollowMoves
<1>6. QED
  BY <1>2, <1>3, <1>5 DEF ScheduleInv

-----------------------------------------------------------------------------
(* What the beginning of a request changes.                                  *)
LEMMA MetIs ==
  ASSUME Shape, NEW r \in Requests, NEW q, Begin(r, q)
  PROVE  /\ req[r] = Idle /\ req' = [req EXCEPT ![r] = q] /\ UNCHANGED <<jobs, registry>>
         /\ history' = (IF Meets(q) THEN Marked ELSE history)
  BY MarkIs DEF Begin, tables

(* What a handler that throws changes here.                                  *)
LEMMA ThrowIs ==
  ASSUME Shape, NEW r \in Requests, Throw(r)
  PROVE  End(r) /\ history' = Marked
  BY MarkIs DEF Throw

(* A request under way has an identifier of the kind its operation needs.    *)
LEMMA UnderWay ==
  ASSUME ScheduleInv, NEW r \in Requests, req[r].op # "none"
  PROVE  /\ req[r] # Idle /\ Shaped(req[r])
         /\ req[r].op \in {"create", "update", "remove", "restore"} => req[r].id \in Jobs
         /\ req[r].op \in {"newTarget", "editTarget", "dropTarget"} => req[r].id \in Targets
  BY DEF ScheduleInv, Shape, Shaped, Idle

(* A job's row may have changed: the scheduler is brought up to date next.   *)
LEMMA SyncsNext ==
  ASSUME ScheduleInv, NEW r \in Requests, req[r] # Idle, NEW j \in Jobs, req[r].id = j,
         req' = [req EXCEPT ![r] = ThenSync(j)], UNCHANGED <<registry, history>>,
         DOMAIN jobs' \subseteq Jobs, \A k \in Jobs \ {j} : Same(k)
  PROVE  ScheduleInv'
<1>1. PICK q : q = ThenSync(j)
  OBVIOUS
<1>2. q.op = "sync" /\ q.pc = "unregister" /\ q.id = j /\ DOMAIN q = {"op", "pc", "id"}
  BY <1>1 DEF ThenSync
<1>3. Shaped(q) /\ Continues(r, q) /\ Dirty(q)
  BY <1>2 DEF Shaped, Continues, Dirty
<1>4. req'[r] = q
  BY <1>1, ReqMoves DEF ScheduleInv
<1>5. Lasting(r, q, j)
  BY <1>2, <1>3, <1>4 DEF Lasting, Prepared, Removing
<1>6. /\ registry' = [n \in DOMAIN registry' |-> registry'[n]]
      /\ DOMAIN registry' \subseteq Named(Jobs)
  BY DEF ScheduleInv, Shape
<1>7. QED
  BY <1>1, <1>3, <1>5, <1>6, StepMoves

(* JobsService.create                                                        *)
LEMMA CreateFollows ==
  ASSUME ScheduleInv, NEW r \in Requests,
         CreateBegin(r) \/ CreatePassword(r) \/ CreateOverride(r) \/ CreateInsert(r)
  PROVE  ScheduleInv'
<1>1. CASE CreateBegin(r)
  <2>1. PICK j, d :
            j \in Jobs /\ Begin(r, [op |-> "create", pc |-> "password", id |-> j, dto |-> d])
    BY <1>1 DEF CreateBegin
  <2> DEFINE q == [op |-> "create", pc |-> "password", id |-> j, dto |-> d]
  <2>2. Shaped(q) /\ Prepared(q)
    BY <2>1 DEF Shaped, Prepared, Removing
  <2> HIDE DEF q
  <2>3. QED
    BY <2>1, <2>2, MetIs, StepBegins DEF ScheduleInv, q
<1>2. CASE CreatePassword(r)
  <2> DEFINE q == [op |-> "create", pc |-> "override", id |-> req[r].id,
                   dto |-> req[r].dto, password |-> minted + 1]
  <2>1. /\ req' = [req EXCEPT ![r] = q] /\ req[r].op = "create"
        /\ UNCHANGED <<jobs, registry, history>>
    BY <1>2 DEF CreatePassword, At
  <2>2. req[r] # Idle /\ req[r].id \in Jobs
    BY <2>1 DEF ScheduleInv, Shape, Shaped, Idle
  <2>3. Shaped(q) /\ Prepared(q) /\ Continues(r, q) /\ ~Dirty(req[r])
    BY <2>1, <2>2 DEF Shaped, Prepared, Removing, Dirty, Continues
  <2> HIDE DEF q
  <2>4. QED
    BY <2>1, <2>2, <2>3, StepStays
<1>3. CASE CreateOverride(r)
  <2>1. PICK q :
          /\ req' = [req EXCEPT ![r] = q]
          /\ q.op = "create" /\ q.id = req[r].id /\ q.dto = req[r].dto /\ q.pc = "insert"
          /\ {"op", "pc", "id", "dto"} \subseteq DOMAIN q
    <3> DEFINE q == [op |-> "create", pc |-> "insert", id |-> req[r].id, dto |-> req[r].dto,
                     password |-> req[r].password,
                     override |-> IF req[r].dto.creds = "set" THEN minted + 1 ELSE None,
                     slugs |-> <<UniqueSlug(JobSlugs(None), req[r].dto.name),
                                 UniqueSlug(RepoSlugs(None), req[r].dto.name)>>]
    <3>1. req' = [req EXCEPT ![r] = q]
      BY <1>3 DEF CreateOverride
    <3>2. /\ q.op = "create" /\ q.id = req[r].id /\ q.dto = req[r].dto /\ q.pc = "insert"
          /\ {"op", "pc", "id", "dto"} \subseteq DOMAIN q
      OBVIOUS
    <3> HIDE DEF q
    <3>3. QED
      BY <3>1, <3>2
  <2>2. req[r].op = "create" /\ UNCHANGED <<jobs, registry, history>>
    BY <1>3 DEF CreateOverride, At
  <2>3. req[r] # Idle /\ req[r].id \in Jobs
    BY <2>2 DEF ScheduleInv, Shape, Shaped, Idle
  <2>4. Shaped(q) /\ Prepared(q) /\ Continues(r, q) /\ ~Dirty(req[r])
    BY <2>1, <2>2, <2>3 DEF Shaped, Prepared, Removing, Dirty, Continues
  <2>5. QED
    BY <2>1, <2>2, <2>3, <2>4, StepStays
<1>4. CASE CreateInsert(r)
  <2>1. req[r].op = "create" /\ UNCHANGED registry
    BY <1>4 DEF CreateInsert, At
  <2>2. req[r] # Idle /\ req[r].id \in Jobs
    BY <2>1 DEF ScheduleInv, Shape, Shaped, Idle
  <2>3. CASE Throw(r) /\ UNCHANGED jobs
    BY <2>1, <2>3, ThrowIs, StepThrows DEF ScheduleInv
  <2>4. ASSUME NEW found, jobs' = Put(jobs, req[r].id, found),
               req' = [req EXCEPT ![r] = ThenSync(req[r].id)], UNCHANGED history
        PROVE  ScheduleInv'
    <3>1. \A k \in Jobs \ {req[r].id} : Same(k)
      BY <2>1, <2>4 DEF Same, Put
    <3>2. DOMAIN jobs' \subseteq Jobs
      BY <2>2, <2>4 DEF ScheduleInv, Shape, Put
    <3>3. QED
      BY <2>1, <2>2, <2>4, <3>1, <3>2, SyncsNext
  <2>5. QED
    BY <1>4, <2>3, <2>4 DEF CreateInsert
<1>5. QED
  BY <1>1, <1>2, <1>3, <1>4

(* JobsService.update                                                        *)
LEMMA UpdateReadFollows ==
  ASSUME ScheduleInv, NEW r \in Requests, UpdateRead(r)
  PROVE  ScheduleInv'
<1>1. /\ req[r].op = "update" /\ req[r].pc = "read" /\ UNCHANGED <<jobs, registry, history>>
  BY DEF UpdateRead, At, tables
<1>2. req[r] # Idle /\ req[r].id \in Jobs /\ ~Dirty(req[r])
  BY <1>1, UnderWay DEF Dirty, Removing
<1>3. CASE End(r)
  BY <1>1, <1>2, <1>3, StepEnds
<1>4. ASSUME NEW found, NEW slugs, req[r].id \in DOMAIN jobs,
             req' = [req EXCEPT ![r] =
               [op |-> "update", pc |-> "secrets", id |-> req[r].id, dto |-> req[r].dto,
                row |-> found, slugs |-> slugs]]
      PROVE  ScheduleInv'
  <2> DEFINE q == [op |-> "update", pc |-> "secrets", id |-> req[r].id, dto |-> req[r].dto,
                   row |-> found, slugs |-> slugs]
  <2>1. Shaped(q) /\ Prepared(q) /\ Continues(r, q)
    BY <1>1, <1>2, <1>4 DEF Shaped, Prepared, Removing, Continues
  <2> HIDE DEF q
  <2>2. req' = [req EXCEPT ![r] = q]
    BY <1>4 DEF q
  <2>3. QED
    BY <1>1, <1>2, <2>1, <2>2, StepStays
<1>5. QED
  BY <1>3, <1>4 DEF UpdateRead

(* The update stores what was entered.                                       *)
LEMMA UpdateSecretsFollows ==
  ASSUME ScheduleInv, NEW r \in Requests, UpdateSecrets(r)
  PROVE  ScheduleInv'
<1>1. /\ req[r].op = "update" /\ req[r].pc = "secrets"
      /\ UNCHANGED <<jobs, registry, history>>
  BY DEF UpdateSecrets, At
<1>2. req[r] # Idle /\ req[r].id \in Jobs /\ ~Dirty(req[r])
  BY <1>1, UnderWay DEF Dirty, Removing
<1>3. CASE End(r)
  BY <1>1, <1>2, <1>3, StepEnds
<1>4. ASSUME NEW patch, NEW drop,
             req' = [req EXCEPT ![r] =
               [op |-> "update", pc |-> "write", id |-> req[r].id, dto |-> req[r].dto,
                row |-> req[r].row, slugs |-> req[r].slugs, patch |-> patch, drop |-> drop]]
      PROVE  ScheduleInv'
  <2> DEFINE q == [op |-> "update", pc |-> "write", id |-> req[r].id, dto |-> req[r].dto,
                   row |-> req[r].row, slugs |-> req[r].slugs, patch |-> patch, drop |-> drop]
  <2>1. Shaped(q) /\ Continues(r, q) /\ q.op = "update" /\ q.pc = "write" /\ q.id = req[r].id
    BY <1>1, <1>2 DEF Shaped, Continues
  <2>2. ~history.stale => Prepared(q)
    BY <1>1, <2>1 DEF Prepared, Removing, ScheduleInv, Followed
  <2> HIDE DEF q
  <2>3. req' = [req EXCEPT ![r] = q]
    BY <1>4 DEF q
  <2>4. QED
    BY <1>1, <1>2, <2>1, <2>2, <2>3, StepStays
<1>5. QED
  BY <1>3, <1>4 DEF UpdateSecrets

(* The update writes job and repository: from here on it is left with the    *)
(* sync.                                                                     *)
LEMMA UpdateWriteFollows ==
  ASSUME ScheduleInv, NEW r \in Requests, UpdateWrite(r)
  PROVE  ScheduleInv'
<1>1. /\ req[r].op = "update" /\ req[r].pc = "write" /\ UNCHANGED registry
  BY DEF UpdateWrite, At
<1>2. req[r] # Idle /\ req[r].id \in Jobs /\ Shaped(req[r])
  BY <1>1, UnderWay
<1>3. CASE Throw(r) /\ UNCHANGED jobs
  BY <1>1, <1>3, ThrowIs, StepThrows DEF ScheduleInv
<1>4. ASSUME Goto(r, "drop"), UNCHANGED history, DOMAIN jobs' = DOMAIN jobs,
             \A j \in DOMAIN jobs \ {req[r].id} : jobs'[j] = jobs[j]
      PROVE  ScheduleInv'
  <2>1. PICK q : q = [req[r] EXCEPT !.pc = "drop"]
    OBVIOUS
  <2>2. /\ q.op = "update" /\ q.pc = "drop" /\ q.id = req[r].id /\ q.dto = req[r].dto
        /\ DOMAIN q = DOMAIN req[r]
    BY <1>1, <1>2, <2>1 DEF Shaped
  <2>3. Shaped(q) /\ Continues(r, q) /\ Dirty(q)
    BY <1>1, <1>2, <2>2 DEF Shaped, Continues, Dirty
  <2>4. req' = [req EXCEPT ![r] = q]
    BY <1>4, <2>1 DEF Goto
  <2>5. req'[r] = q
    BY <2>4, ReqMoves DEF ScheduleInv
  <2>6. ~history.stale => req[r].id \in DOMAIN jobs
    BY <1>1 DEF ScheduleInv, Followed, Prepared
  <2>7. ~history.stale => Lasting(r, q, req[r].id)
    BY <1>4, <2>2, <2>3, <2>5, <2>6 DEF Lasting, Prepared, Removing
  <2>8. /\ DOMAIN jobs' \subseteq Jobs
        /\ registry' = [n \in DOMAIN registry' |-> registry'[n]]
        /\ DOMAIN registry' \subseteq Named(Jobs)
    BY <1>1, <1>4 DEF ScheduleInv, Shape
  <2>9. \A k \in Jobs \ {req[r].id} : Same(k)
    BY <1>1, <1>4 DEF Same
  <2>10. QED
    BY <1>2, <1>4, <2>3, <2>4, <2>7, <2>8, <2>9, StepMoves
<1>5. QED
  BY <1>3, <1>4 DEF UpdateWrite

(* The update deletes the override it replaced and syncs the scheduler, if   *)
(* the job is still there.                                                   *)
LEMMA UpdateDropFollows ==
  ASSUME ScheduleInv, NEW r \in Requests, UpdateDrop(r)
  PROVE  ScheduleInv'
<1>1. /\ req[r].op = "update" /\ req[r].pc = "drop" /\ UNCHANGED <<jobs, registry>>
  BY DEF UpdateDrop, At
<1>2. req[r] # Idle /\ req[r].id \in Jobs /\ Shaped(req[r])
  BY <1>1, UnderWay
<1>3. CASE Throw(r)
  BY <1>1, <1>3, ThrowIs, StepThrows DEF ScheduleInv
<1>4. ASSUME req' = [req EXCEPT ![r] =
               IF req[r].id \in DOMAIN jobs THEN ThenSync(req[r].id) ELSE Idle],
             UNCHANGED history
      PROVE  ScheduleInv'
  <2>1. CASE req[r].id \in DOMAIN jobs
    <3>1. DOMAIN jobs' \subseteq Jobs /\ \A k \in Jobs \ {req[r].id} : Same(k)
      BY <1>1 DEF ScheduleInv, Shape, Same
    <3>2. QED
      BY <1>1, <1>2, <1>4, <2>1, <3>1, SyncsNext
  <2>2. CASE req[r].id \notin DOMAIN jobs
    <3>1. history.stale
      BY <1>1, <2>2 DEF ScheduleInv, Followed, Prepared
    <3>2. req' = [req EXCEPT ![r] = Idle]
      BY <1>4, <2>2
    <3>3. Shape'
      BY <1>1, <1>4, <3>2, IdleKept, ShapeMoves DEF ScheduleInv, Shape
    <3>4. QED
      BY <1>4, <3>1, <3>3 DEF ScheduleInv, Separate, Followed
  <2>3. QED
    BY <2>1, <2>2
<1>5. QED
  BY <1>3, <1>4 DEF UpdateDrop

(* All statements of JobsService.update.                                     *)
LEMMA UpdateFollows ==
  ASSUME ScheduleInv, NEW r \in Requests,
         UpdateBegin(r) \/ UpdateRead(r) \/ UpdateSecrets(r) \/ UpdateWrite(r) \/ UpdateDrop(r)
  PROVE  ScheduleInv'
<1>1. CASE UpdateBegin(r)
  <2>1. PICK j, d :
            j \in Jobs /\ Begin(r, [op |-> "update", pc |-> "read", id |-> j, dto |-> d])
    BY <1>1 DEF UpdateBegin
  <2> DEFINE q == [op |-> "update", pc |-> "read", id |-> j, dto |-> d]
  <2>2. Shaped(q) /\ Prepared(q)
    BY <2>1 DEF Shaped, Prepared, Removing
  <2> HIDE DEF q
  <2>3. QED
    BY <2>1, <2>2, MetIs, StepBegins DEF ScheduleInv, q
<1>2. QED
  BY <1>1, UpdateReadFollows, UpdateSecretsFollows, UpdateWriteFollows, UpdateDropFollows

(* JobsService.setIntegrityCheck changes the row and is left with the sync.  *)
LEMMA SetIntegrityCheckFollows ==
  ASSUME ScheduleInv, NEW r \in Requests, SetIntegrityCheck(r)
  PROVE  ScheduleInv'
<1>1. PICK j, c :
        /\ j \in DOMAIN jobs
        /\ jobs' = [jobs EXCEPT ![j].check = c] /\ req' = [req EXCEPT ![r] = ThenSync(j)]
        /\ req[r] = Idle /\ UNCHANGED registry
        /\ history' = IF Meets([op |-> "sync", id |-> j])
                      THEN [history EXCEPT !.stale = TRUE, !.leaky = TRUE] ELSE history
  BY DEF SetIntegrityCheck
<1>2. PICK q : q = ThenSync(j)
  OBVIOUS
<1>3. q.op = "sync" /\ q.pc = "unregister" /\ q.id = j /\ DOMAIN q = {"op", "pc", "id"}
  BY <1>2 DEF ThenSync
<1>4. j \in Jobs /\ Shaped(q) /\ Dirty(q)
  BY <1>1, <1>3 DEF Shaped, Dirty, ScheduleInv, Shape
<1>5. Keys(q) = {j} /\ Keys([op |-> "sync", id |-> j]) = {j}
  BY <1>3 DEF Keys
<1>6. Meets(q) <=> Meets([op |-> "sync", id |-> j])
  BY <1>5 DEF Meets
<1>7. history' = (IF Meets(q) THEN Marked ELSE history)
  BY <1>1, <1>6, MarkIs DEF ScheduleInv
<1>8. history' \in {history, Marked} /\ (Meets(q) => history'.stale)
  BY <1>7 DEF Marked
<1>9. /\ DOMAIN jobs' = DOMAIN jobs /\ \A k \in DOMAIN jobs \ {j} : jobs'[k] = jobs[k]
  BY <1>1
<1>10. req' = [req EXCEPT ![r] = q] /\ req'[r] = q
  BY <1>1, <1>2, ReqMoves DEF ScheduleInv
<1>11. Shape'
  BY <1>1, <1>4, <1>8, <1>9, <1>10, ShapeMoves DEF ScheduleInv, Shape
<1>12. Separate'
  BY <1>1, <1>8, <1>10, SeparateBegins, HistoryMoves DEF ScheduleInv
<1>13. ~history'.stale => \A s \in Requests \ {r} : req[s] # Idle => req[s].id \notin {j, "all"}
  <2>1. SUFFICES ASSUME ~Meets(q), NEW s \in Requests \ {r}, req[s] # Idle
                 PROVE  req[s].id \notin {j, "all"}
    BY <1>8
  <2>2. j \notin {Local, Keep}
    BY <1>4, IdsApart
  <2>3. req[s].id \in Keys(req[s])
    BY <2>1 DEF ScheduleInv, Shape, Shaped, Keys
  <2>4. QED
    BY <1>5, <2>1, <2>2, <2>3 DEF Meets
<1>14. \A k \in Jobs \ {j} : Same(k)
  BY <1>1, <1>9 DEF Same
<1>15. Lasting(r, q, j)
  BY <1>3, <1>4, <1>10 DEF Lasting, Prepared, Removing
<1>16. ~Dirty(req[r])
  BY <1>1, IdleKept
<1>17. Followed'
  BY <1>4, <1>8, <1>10, <1>13, <1>14, <1>15, <1>16, FollowMoves
<1>18. QED
  BY <1>11, <1>12, <1>17 DEF ScheduleInv

(* JobsService.remove                                                        *)
LEMMA RemoveGoes ==
  ASSUME ScheduleInv, NEW r \in Requests, req[r].op = "remove", req[r].pc # "read",
         NEW pc, pc \in {"repository", "password", "override", "unregister"},
         Goto(r, pc), UNCHANGED <<registry, history>>,
         (jobs' = jobs /\ Removing(req[r])) \/ jobs' = Del(jobs, req[r].id)
  PROVE  ScheduleInv'
<1>1. req[r] # Idle /\ req[r].id \in Jobs /\ Shaped(req[r])
  BY UnderWay
<1>2. PICK q : q = [req[r] EXCEPT !.pc = pc]
  OBVIOUS
<1>3. q.op = "remove" /\ q.pc = pc /\ q.id = req[r].id /\ DOMAIN q = DOMAIN req[r]
  BY <1>1, <1>2 DEF Shaped
<1>4. Shaped(q) /\ Continues(r, q) /\ Dirty(q)
  BY <1>1, <1>3 DEF Shaped, Continues, Dirty, Removing
<1>5. req' = [req EXCEPT ![r] = q]
  BY <1>2 DEF Goto
<1>6. req'[r] = q
  BY <1>5, ReqMoves DEF ScheduleInv
<1>7. /\ DOMAIN jobs' \subseteq Jobs /\ \A k \in Jobs \ {req[r].id} : Same(k)
  BY DEF ScheduleInv, Shape, Same, Del
<1>8. ~history.stale => req[r].id \notin DOMAIN jobs'
  <2>1. CASE jobs' = Del(jobs, req[r].id)
    BY <2>1 DEF Del
  <2>2. CASE jobs' = jobs /\ Removing(req[r])
    <3>1. ~history.stale => Prepared(req[r])
      BY DEF ScheduleInv, Followed
    <3>2. QED
      BY <2>2, <3>1 DEF Prepared
  <2>3. QED
    BY <2>1, <2>2
<1>9. ~history.stale => Lasting(r, q, req[r].id)
  BY <1>3, <1>4, <1>6, <1>8 DEF Lasting, Prepared
<1>10. /\ registry' = [n \in DOMAIN registry' |-> registry'[n]]
       /\ DOMAIN registry' \subseteq Named(Jobs)
  BY DEF ScheduleInv, Shape
<1>11. QED
  BY <1>1, <1>4, <1>5, <1>7, <1>9, <1>10, StepMoves

(* JobsService.remove deletes row by row; the registrations go last.         *)
LEMMA RemoveFollows ==
  ASSUME ScheduleInv, NEW r \in Requests,
         \/ RemoveBegin(r) \/ RemoveRead(r) \/ RemoveJob(r) \/ RemoveRepository(r)
         \/ RemovePassword(r) \/ RemoveOverride(r)
  PROVE  ScheduleInv'
<1>1. CASE RemoveBegin(r)
  <2>1. PICK j \in Jobs : Begin(r, [op |-> "remove", pc |-> "read", id |-> j])
    BY <1>1 DEF RemoveBegin
  <2> DEFINE q == [op |-> "remove", pc |-> "read", id |-> j]
  <2>2. Shaped(q) /\ Prepared(q)
    BY DEF Shaped, Prepared, Removing
  <2> HIDE DEF q
  <2>3. QED
    BY <2>1, <2>2, MetIs, StepBegins DEF ScheduleInv, q
<1>2. CASE RemoveRead(r)
  <2>1. /\ req[r].op = "remove" /\ req[r].pc = "read" /\ UNCHANGED <<jobs, registry, history>>
    BY <1>2 DEF RemoveRead, At, tables
  <2>2. req[r] # Idle /\ req[r].id \in Jobs /\ ~Dirty(req[r])
    BY <2>1, UnderWay DEF Dirty, Removing
  <2>3. CASE End(r)
    BY <2>1, <2>2, <2>3, StepEnds
  <2>4. ASSUME NEW found, req' = [req EXCEPT ![r] =
                 [op |-> "remove", pc |-> "job", id |-> req[r].id, row |-> found]]
        PROVE  ScheduleInv'
    <3> DEFINE q == [op |-> "remove", pc |-> "job", id |-> req[r].id, row |-> found]
    <3>1. Shaped(q) /\ Prepared(q) /\ Continues(r, q)
      BY <2>1, <2>2 DEF Shaped, Prepared, Removing, Continues
    <3> HIDE DEF q
    <3>2. req' = [req EXCEPT ![r] = q]
      BY <2>4 DEF q
    <3>3. QED
      BY <2>1, <2>2, <3>1, <3>2, StepStays
  <2>5. QED
    BY <1>2, <2>3, <2>4 DEF RemoveRead
<1>3. CASE RemoveJob(r)
  BY <1>3, RemoveGoes DEF RemoveJob, At
<1>4. CASE RemoveRepository(r)
  BY <1>4, RemoveGoes DEF RemoveRepository, At, Removing
<1>5. CASE RemovePassword(r)
  <2>1. CASE End(r) /\ history' = [stale |-> TRUE, leaky |-> TRUE]
    BY <1>5, <2>1, StepThrows DEF RemovePassword, Marked
  <2>2. CASE Goto(r, "override") /\ UNCHANGED history
    BY <1>5, <2>2, RemoveGoes DEF RemovePassword, At, Removing
  <2>3. QED
    BY <1>5, <2>1, <2>2 DEF RemovePassword
<1>6. CASE RemoveOverride(r)
  BY <1>6, RemoveGoes DEF RemoveOverride, At, Removing
<1>7. QED
  BY <1>1, <1>2, <1>3, <1>4, <1>5, <1>6

-----------------------------------------------------------------------------
(* SchedulerService                                                          *)
LEMMA UnregisterIs ==
  ASSUME NEW j, NEW k \in Jobs, NEW n \in Both
  PROVE  LET g == UnregisterJob(registry, j)
         IN  /\ <<k, n>> \in DOMAIN g <=> <<k, n>> \in DOMAIN registry /\ k # j
             /\ <<k, n>> \in DOMAIN g => g[<<k, n>>] = registry[<<k, n>>]
             /\ DOMAIN g \subseteq DOMAIN registry
             /\ g = [m \in DOMAIN g |-> g[m]]
<1> DEFINE left == {x \in DOMAIN registry : x[1] # j}
<1>1. UnregisterJob(registry, j) = [m \in left |-> registry[m]]
  BY DEF UnregisterJob
<1>2. <<k, n>> \in left <=> <<k, n>> \in DOMAIN registry /\ k # j
  OBVIOUS
<1>3. left \subseteq DOMAIN registry
  OBVIOUS
<1> HIDE DEF left
<1>4. QED
  BY <1>1, <1>2, <1>3

(* Taking registrations away leaves a registry of the names jobs can have.   *)
LEMMA UnregisterShape ==
  ASSUME DOMAIN registry \subseteq Named(Jobs), NEW j
  PROVE  LET g == UnregisterJob(registry, j)
         IN  g = [m \in DOMAIN g |-> g[m]] /\ DOMAIN g \subseteq Named(Jobs)
<1>1. PICK g : g = [m \in {x \in DOMAIN registry : x[1] # j} |-> registry[m]]
  OBVIOUS
<1>2. g = [m \in DOMAIN g |-> g[m]] /\ DOMAIN g \subseteq DOMAIN registry
  BY <1>1
<1>3. g = UnregisterJob(registry, j)
  BY <1>1 DEF UnregisterJob
<1>4. QED
  BY <1>2, <1>3

(* The removal of a job ends with its registrations.                         *)
LEMMA RemoveUnregisterFollows ==
  ASSUME ScheduleInv, NEW r \in Requests, RemoveUnregister(r)
  PROVE  ScheduleInv'
<1>1. /\ req[r].op = "remove" /\ req[r].pc = "unregister" /\ End(r)
      /\ registry' = UnregisterJob(registry, req[r].id) /\ UNCHANGED <<jobs, history>>
  BY DEF RemoveUnregister, At, tables
<1>2. req[r] # Idle /\ req[r].id \in Jobs
  BY <1>1, UnderWay
<1>3. PICK j \in Jobs : j = req[r].id
  BY <1>2
<1>4. \A k \in Jobs \ {j} : Same(k)
  BY <1>1, <1>3, UnregisterIs DEF Same
<1>5. /\ registry' = [n \in DOMAIN registry' |-> registry'[n]]
      /\ DOMAIN registry' \subseteq Named(Jobs) /\ DOMAIN jobs' \subseteq Jobs
  BY <1>1, <1>3, UnregisterShape DEF ScheduleInv, Shape
<1>6. ~history.stale => j \notin DOMAIN jobs
  BY <1>1, <1>3 DEF ScheduleInv, Followed, Prepared, Removing
<1>7. ~history.stale => Agrees(j)'
  BY <1>1, <1>3, <1>6, UnregisterIs DEF Agrees, Asked
<1>8. req'[r] = Idle
  BY <1>1, ReqMoves DEF ScheduleInv, End
<1>9. ~history.stale => Lasting(r, Idle, j)
  BY <1>7, <1>8 DEF Lasting, Prepared, Removing, Idle
<1>10. QED
  BY <1>1, <1>2, <1>3, <1>4, <1>5, <1>9, IdleKept, StepMoves DEF End

(* SchedulerService.sync first takes the registrations of the job away.      *)
LEMMA SyncUnregisterFollows ==
  ASSUME ScheduleInv, NEW r \in Requests, SyncUnregister(r)
  PROVE  ScheduleInv'
<1>1. /\ req[r].op = "sync" /\ req[r].pc = "unregister" /\ Goto(r, "row")
      /\ registry' = UnregisterJob(registry, req[r].id) /\ UNCHANGED <<jobs, history>>
  BY DEF SyncUnregister, At, tables
<1>2. req[r] # Idle /\ req[r].id \in Jobs /\ Shaped(req[r])
  BY <1>1, UnderWay DEF Shaped
<1>3. PICK j \in Jobs : j = req[r].id
  BY <1>2
<1>4. \A k \in Jobs \ {j} : Same(k)
  BY <1>1, <1>3, UnregisterIs DEF Same
<1>5. /\ registry' = [n \in DOMAIN registry' |-> registry'[n]]
      /\ DOMAIN registry' \subseteq Named(Jobs) /\ DOMAIN jobs' \subseteq Jobs
  BY <1>1, <1>3, UnregisterShape DEF ScheduleInv, Shape
<1>6. PICK q : q = [req[r] EXCEPT !.pc = "row"]
  OBVIOUS
<1>7. q.op = "sync" /\ q.pc = "row" /\ q.id = j /\ {"op", "pc", "id"} \subseteq DOMAIN q
  BY <1>1, <1>2, <1>3, <1>6 DEF Shaped
<1>8. Shaped(q) /\ Continues(r, q) /\ Dirty(q)
  BY <1>3, <1>7 DEF Shaped, Continues, Dirty
<1>9. req' = [req EXCEPT ![r] = q] /\ req'[r] = q
  BY <1>1, <1>6, ReqMoves DEF ScheduleInv, Goto
<1>10. Clear(j)'
  BY <1>1, <1>3, UnregisterIs DEF Clear
<1>11. Lasting(r, q, j)
  BY <1>7, <1>8, <1>9, <1>10 DEF Lasting, Prepared, Removing
<1>12. QED
  BY <1>1, <1>2, <1>3, <1>4, <1>5, <1>8, <1>9, <1>11, StepMoves

(* It then reads the row.                                                    *)
LEMMA SyncRowFollows ==
  ASSUME ScheduleInv, NEW r \in Requests, SyncRow(r)
  PROVE  ScheduleInv'
<1> DEFINE q == [op |-> "sync", pc |-> "register", id |-> req[r].id,
                 rows |-> [x \in DOMAIN jobs \cap {req[r].id} |-> jobs[x]]]
<1>1. /\ req[r].op = "sync" /\ req[r].pc = "row" /\ req' = [req EXCEPT ![r] = q]
      /\ UNCHANGED <<jobs, registry, history>>
  BY DEF SyncRow, At, tables
<1>2. req[r] # Idle /\ req[r].id \in Jobs
  BY <1>1, UnderWay DEF Shaped
<1>3. /\ q.op = "sync" /\ q.pc = "register" /\ q.id = req[r].id
      /\ {"op", "pc", "id"} \subseteq DOMAIN q
      /\ q.rows = [x \in DOMAIN jobs \cap {q.id} |-> jobs[x]]
  OBVIOUS
<1> HIDE DEF q
<1>4. DOMAIN q.rows \subseteq {q.id} /\ q.id # "all"
  BY <1>2, <1>3, IdsApart
<1>5. Shaped(q) /\ Continues(r, q) /\ Dirty(q)
  BY <1>2, <1>3, <1>4 DEF Shaped, Continues, Dirty
<1>6. ~history.stale => Clear(q.id)
  BY <1>1, <1>3 DEF ScheduleInv, Followed, Prepared
<1>7. ~history.stale => Prepared(q)
  BY <1>3, <1>4, <1>6 DEF Prepared, Removing
<1>8. QED
  BY <1>1, <1>2, <1>5, <1>7, StepStays

(* It then registers what it read, which is still so unless requests met.    *)
LEMMA SyncRegisterFollows ==
  ASSUME ScheduleInv, NEW r \in Requests, SyncRegister(r)
  PROVE  ScheduleInv'
<1>1. PICK rows : rows = req[r].rows
  OBVIOUS
<1>2. /\ req[r].op = "sync" /\ req[r].pc = "register" /\ End(r)
      /\ registry' = RegisterAll(registry, rows) /\ UNCHANGED <<jobs, history>>
  BY <1>1 DEF SyncRegister, At, tables
<1>3. /\ req[r] # Idle /\ Shaped(req[r]) /\ req[r].id \in Jobs \cup {"all"}
      /\ DOMAIN rows \subseteq (IF req[r].id = "all" THEN Jobs ELSE {req[r].id})
  BY <1>1, <1>2, UnderWay DEF Shaped
<1>4. DOMAIN rows \subseteq Jobs
  BY <1>3
<1>5. /\ registry' = [n \in DOMAIN registry' |-> registry'[n]]
      /\ DOMAIN registry' \subseteq DOMAIN registry \cup Named(DOMAIN rows)
      /\ \A m \in DOMAIN registry : m \in DOMAIN registry' /\ registry'[m] = registry[m]
  BY <1>2, RegisterAllShape
<1>6. DOMAIN registry' \subseteq Named(Jobs) /\ DOMAIN jobs' \subseteq Jobs
  BY <1>2, <1>4, <1>5 DEF ScheduleInv, Shape, Named
<1>7. req' = [req EXCEPT ![r] = Idle] /\ req'[r] = Idle
  BY <1>2, ReqMoves DEF ScheduleInv, End
<1>8. ASSUME NEW k \in Jobs, k \notin DOMAIN rows
      PROVE  Same(k)
  <2>1. \A n \in Both : <<k, n>> \notin Named(DOMAIN rows)
    BY <1>8 DEF Named
  <2>2. QED
    BY <1>2, <1>5, <2>1 DEF Same
<1>9. ASSUME NEW k \in Jobs, Clear(k),
             k \in DOMAIN rows <=> k \in DOMAIN jobs, k \in DOMAIN jobs => rows[k] = jobs[k]
      PROVE  Agrees(k)'
  <2>1. CASE k \in DOMAIN rows
    BY <1>2, <1>9, <2>1, RegisterAllIs DEF Agrees, Asked, Clear
  <2>2. CASE k \notin DOMAIN rows
    BY <1>2, <1>8, <1>9, <2>2 DEF Agrees, Asked, Clear, Same
  <2>3. QED
    BY <2>1, <2>2
<1>10. CASE req[r].id # "all"
  <2>1. PICK j \in Jobs : j = req[r].id
    BY <1>3, <1>10
  <2>2. \A k \in Jobs \ {j} : Same(k)
    BY <1>3, <1>8, <1>10, <2>1
  <2>3. ~history.stale => Clear(j) /\ rows = [x \in DOMAIN jobs \cap {j} |-> jobs[x]]
    BY <1>1, <1>2, <1>10, <2>1 DEF ScheduleInv, Followed, Prepared
  <2>4. ~history.stale => Agrees(j)'
    BY <1>9, <2>3
  <2>5. ~history.stale => Lasting(r, Idle, j)
    BY <1>7, <2>4 DEF Lasting, Prepared, Removing, Idle
  <2>6. QED
    BY <1>2, <1>3, <1>5, <1>6, <1>7, <2>1, <2>2, <2>5, IdleKept, StepMoves
<1>11. CASE req[r].id = "all"
  <2>1. Shape'
    BY <1>2, <1>5, <1>6, <1>7, IdleKept, ShapeMoves DEF ScheduleInv
  <2>2. Separate'
    BY <1>2, <1>3, <1>7, KeysShrink, SeparateMoves DEF ScheduleInv
  <2>3. ASSUME ~history.stale
        PROVE  /\ \A k \in Jobs : Agrees(k)'
               /\ \A s \in Requests : req'[s] = Idle
    <3>1. rows = jobs /\ DOMAIN registry = {}
      BY <1>1, <1>2, <1>11, <2>3 DEF ScheduleInv, Followed, Prepared
    <3>2. \A k \in Jobs : Agrees(k)'
      BY <1>9, <3>1 DEF Clear
    <3>3. "all" \in Keys(req[r])
      BY <1>2, <1>11 DEF Keys
    <3>4. \A s \in Requests \ {r} : req[s] = Idle
      BY <2>3, <3>3 DEF ScheduleInv, Separate
    <3>5. QED
      BY <1>7, <3>2, <3>4, ReqMoves DEF ScheduleInv
  <2>4. Followed'
    BY <1>2, <2>3 DEF Followed, Prepared, Removing, Idle
  <2>5. QED
    BY <2>1, <2>2, <2>4 DEF ScheduleInv
<1>12. QED
  BY <1>10, <1>11

(* A new time zone clears the registry and reads every job.                  *)
LEMMA SyncAllFollows ==
  ASSUME ScheduleInv, NEW r \in Requests,
         SyncAllBegin(r) \/ SyncAllClear(r) \/ SyncAllRows(r)
  PROVE  ScheduleInv'
<1>1. CASE SyncAllBegin(r)
  <2> DEFINE q == [op |-> "sync", pc |-> "clear", id |-> "all"]
  <2>1. Begin(r, q)
    BY <1>1 DEF SyncAllBegin
  <2>2. Shaped(q) /\ Prepared(q)
    BY DEF Shaped, Prepared, Removing
  <2> HIDE DEF q
  <2>3. QED
    BY <2>1, <2>2, MetIs, StepBegins DEF ScheduleInv
<1>2. CASE SyncAllClear(r)
  <2>1. /\ req[r].op = "sync" /\ req[r].pc = "clear" /\ Goto(r, "enabled")
        /\ registry' = <<>> /\ UNCHANGED <<jobs, history>>
    BY <1>2 DEF SyncAllClear, At, tables
  <2>2. req[r] # Idle /\ Shaped(req[r]) /\ req[r].id = "all"
    BY <2>1, UnderWay DEF Shaped
  <2>3. PICK q : q = [req[r] EXCEPT !.pc = "enabled"]
    OBVIOUS
  <2>4. q.op = "sync" /\ q.pc = "enabled" /\ q.id = "all" /\ {"op", "pc", "id"} \subseteq DOMAIN q
    BY <2>1, <2>2, <2>3 DEF Shaped
  <2>5. req' = [req EXCEPT ![r] = q] /\ req'[r] = q /\ \A s \in Requests \ {r} : req'[s] = req[s]
    BY <2>1, <2>3, ReqMoves DEF ScheduleInv, Goto
  <2>6. Shaped(q) /\ Continues(r, q)
    BY <2>2, <2>4 DEF Shaped, Continues
  <2>7. registry' = [n \in DOMAIN registry' |-> registry'[n]] /\ DOMAIN registry' = {}
    BY <2>1
  <2>8. Shape'
    BY <2>1, <2>5, <2>6, <2>7, ShapeMoves DEF ScheduleInv, Shape
  <2>9. Separate'
    BY <2>1, <2>2, <2>5, <2>6, KeysShrink, SeparateMoves DEF ScheduleInv
  <2>10. ~history.stale => \A s \in Requests \ {r} : req[s] = Idle
    BY <2>1, <2>2 DEF ScheduleInv, Separate, Keys
  <2>11. Prepared(q)'
    BY <2>4, <2>7 DEF Prepared, Removing
  <2>12. ASSUME ~history.stale, NEW s \in Requests
         PROVE  Prepared(req[s])'
    <3>1. CASE s = r
      BY <2>5, <2>11, <3>1
    <3>2. CASE s # r
      <4>1. req'[s] = Idle
        BY <2>5, <2>10, <2>12, <3>2
      <4>2. QED
        BY <4>1 DEF Prepared, Removing, Idle
    <3>3. QED
      BY <3>1, <3>2
  <2>13. \A k \in Jobs : Covered(k)'
    BY <2>4, <2>5 DEF Covered, Dirty
  <2>14. Followed'
    BY <2>1, <2>12, <2>13 DEF Followed
  <2>15. QED
    BY <2>8, <2>9, <2>14 DEF ScheduleInv
<1>3. CASE SyncAllRows(r)
  <2> DEFINE q == [op |-> "sync", pc |-> "register", id |-> "all", rows |-> jobs]
  <2>1. /\ req[r].op = "sync" /\ req[r].pc = "enabled" /\ req' = [req EXCEPT ![r] = q]
        /\ UNCHANGED <<jobs, registry, history>>
    BY <1>3 DEF SyncAllRows, At, tables
  <2>2. req[r] # Idle /\ req[r].id = "all"
    BY <2>1, UnderWay DEF Shaped
  <2>3. Shaped(q) /\ Continues(r, q) /\ Dirty(q)
    BY <2>2 DEF Shaped, Continues, Dirty, ScheduleInv, Shape
  <2>4. ~history.stale => Prepared(q)
    BY <2>1, <2>2 DEF ScheduleInv, Followed, Prepared, Removing
  <2> HIDE DEF q
  <2>5. QED
    BY <2>1, <2>2, <2>3, <2>4, StepStays
<1>4. QED
  BY <1>1, <1>2, <1>3

-----------------------------------------------------------------------------
(* TargetsService and RestoreService                                         *)
LEMMA TargetGoes ==
  ASSUME ScheduleInv, NEW r \in Requests, NEW q, req' = [req EXCEPT ![r] = q],
         req[r].op \in {"newTarget", "editTarget", "dropTarget"},
         q.op = req[r].op, q.id = req[r].id, {"op", "pc", "id"} \subseteq DOMAIN q,
         q.op = "dropTarget" /\ q.pc = "delete" => "drop" \in DOMAIN q,
         UNCHANGED <<jobs, registry, history>>
  PROVE  ScheduleInv'
<1>1. req[r] # Idle /\ req[r].id \in Targets /\ ~Dirty(req[r])
  BY UnderWay DEF Dirty, Removing
<1>2. Shaped(q) /\ Continues(r, q)
  BY <1>1 DEF Shaped, Continues
<1>3. Prepared(q)
  BY DEF Prepared, Removing
<1>4. QED
  BY <1>1, <1>2, <1>3, StepStays

(* A request about a connection or a restore ends.                           *)
LEMMA TargetEnds ==
  ASSUME ScheduleInv, NEW r \in Requests, End(r),
         req[r].op \in {"newTarget", "editTarget", "dropTarget", "restore"},
         UNCHANGED <<jobs, registry, history>>
  PROVE  ScheduleInv'
<1>1. req[r] # Idle /\ ~Dirty(req[r])
  BY UnderWay DEF Dirty, Removing
<1>2. QED
  BY <1>1, StepEnds

(* Connections and restores do not touch what is scheduled.                  *)
LEMMA TargetFollows ==
  ASSUME ScheduleInv, NEW r \in Requests, TargetNext(r)
  PROVE  ScheduleInv'
<1>1. CASE TargetBegin(r)
  <2>1. PICK t \in Targets, op \in {"newTarget", "editTarget", "dropTarget"} :
          Begin(r, [op |-> op, pc |-> "read", id |-> t])
    BY <1>1 DEF TargetBegin
  <2> DEFINE q == [op |-> op, pc |-> "read", id |-> t]
  <2>2. Shaped(q) /\ Prepared(q)
    BY DEF Shaped, Prepared, Removing
  <2> HIDE DEF q
  <2>3. QED
    BY <2>1, <2>2, MetIs, StepBegins DEF ScheduleInv, q
<1>2. CASE TargetCreateSecret(r)
  <2>1. PICK fresh : req' = [req EXCEPT ![r] =
                       [op |-> "newTarget", pc |-> "insert", id |-> req[r].id, fresh |-> fresh]]
    BY <1>2 DEF TargetCreateSecret
  <2> DEFINE q == [op |-> "newTarget", pc |-> "insert", id |-> req[r].id, fresh |-> fresh]
  <2>2. q.op = "newTarget" /\ q.id = req[r].id /\ {"op", "pc", "id"} \subseteq DOMAIN q
    OBVIOUS
  <2> HIDE DEF q
  <2>3. req' = [req EXCEPT ![r] = q]
    BY <2>1 DEF q
  <2>4. QED
    BY <1>2, <2>2, <2>3, TargetGoes DEF TargetCreateSecret, At
<1>3. CASE TargetInsert(r)
  BY <1>3, TargetEnds DEF TargetInsert, At
<1>4. CASE TargetUpdateSecret(r)
  <2>1. req[r].op = "editTarget" /\ UNCHANGED <<jobs, registry, history>>
    BY <1>4 DEF TargetUpdateSecret, At
  <2>2. CASE End(r)
    BY <2>1, <2>2, TargetEnds
  <2>3. CASE Goto(r, "done")
    <3>1. PICK q : q = [req[r] EXCEPT !.pc = "done"]
      OBVIOUS
    <3>2. q.op = "editTarget" /\ q.id = req[r].id /\ {"op", "pc", "id"} \subseteq DOMAIN q
      BY <2>1, <3>1, UnderWay DEF Shaped
    <3>3. QED
      BY <2>1, <2>3, <3>1, <3>2, TargetGoes DEF Goto
  <2>4. CASE req' = [req EXCEPT ![r] = [op |-> "editTarget", pc |-> "write", id |-> req[r].id,
                                        fresh |-> minted + 1]]
    <3> DEFINE q == [op |-> "editTarget", pc |-> "write", id |-> req[r].id, fresh |-> minted + 1]
    <3>1. q.op = "editTarget" /\ q.id = req[r].id /\ {"op", "pc", "id"} \subseteq DOMAIN q
      OBVIOUS
    <3> HIDE DEF q
    <3>2. req' = [req EXCEPT ![r] = q]
      BY <2>4 DEF q
    <3>3. QED
      BY <2>1, <3>1, <3>2, TargetGoes
  <2>5. QED
    BY <1>4, <2>2, <2>3, <2>4 DEF TargetUpdateSecret
<1>5. CASE TargetUpdateWrite(r)
  BY <1>5, TargetEnds, ThrowIs, StepThrows DEF TargetUpdateWrite, ScheduleInv
<1>6. CASE TargetRemoveCheck(r)
  <2>1. req[r].op = "dropTarget" /\ UNCHANGED <<jobs, registry, history>>
    BY <1>6 DEF TargetRemoveCheck, At, tables
  <2>2. CASE End(r)
    BY <2>1, <2>2, TargetEnds
  <2>3. ASSUME NEW drop, req' = [req EXCEPT ![r] =
                 [op |-> "dropTarget", pc |-> "delete", id |-> req[r].id, drop |-> drop]]
        PROVE  ScheduleInv'
    <3> DEFINE q == [op |-> "dropTarget", pc |-> "delete", id |-> req[r].id, drop |-> drop]
    <3>1. /\ q.op = "dropTarget" /\ q.id = req[r].id
          /\ {"op", "pc", "id"} \subseteq DOMAIN q /\ "drop" \in DOMAIN q
      OBVIOUS
    <3> HIDE DEF q
    <3>2. req' = [req EXCEPT ![r] = q]
      BY <2>3 DEF q
    <3>3. QED
      BY <2>1, <3>1, <3>2, TargetGoes
  <2>4. QED
    BY <1>6, <2>2, <2>3 DEF TargetRemoveCheck
<1>7. CASE TargetRemove(r)
  <2>1. /\ req[r].op = "dropTarget" /\ req[r].pc = "delete" /\ UNCHANGED <<jobs, registry>>
    BY <1>7 DEF TargetRemove, At
  <2>2. CASE Throw(r)
    BY <2>1, <2>2, ThrowIs, StepThrows DEF ScheduleInv
  <2>3. CASE Goto(r, "secret") /\ UNCHANGED history
    <3>1. PICK q : q = [req[r] EXCEPT !.pc = "secret"]
      OBVIOUS
    <3>2. /\ q.op = "dropTarget" /\ q.id = req[r].id /\ {"op", "pc", "id"} \subseteq DOMAIN q
          /\ q.pc = "secret"
      BY <2>1, <3>1, UnderWay DEF Shaped
    <3>3. QED
      BY <2>1, <2>3, <3>1, <3>2, TargetGoes DEF Goto
  <2>4. QED
    BY <1>7, <2>2, <2>3 DEF TargetRemove
<1>8. CASE TargetRemoveSecret(r)
  BY <1>8, TargetEnds DEF TargetRemoveSecret, At
<1>9. CASE RestoreBegin(r)
  <2>1. PICK j \in DOMAIN jobs :
          Begin(r, [op |-> "restore", pc |-> "insert", id |-> j, row |-> repos[j]])
    BY <1>9 DEF RestoreBegin
  <2> DEFINE q == [op |-> "restore", pc |-> "insert", id |-> j, row |-> repos[j]]
  <2>2. Shaped(q) /\ Prepared(q)
    BY DEF Shaped, Prepared, Removing, ScheduleInv, Shape
  <2> HIDE DEF q
  <2>3. QED
    BY <2>1, <2>2, MetIs, StepBegins DEF ScheduleInv, q
<1>10. CASE RestoreInsert(r)
  BY <1>10, TargetEnds DEF RestoreInsert, At
<1>11. QED
  BY <1>1, <1>2, <1>3, <1>4, <1>5, <1>6, <1>7, <1>8, <1>9, <1>10 DEF TargetNext

-----------------------------------------------------------------------------
(* The server restarts and schedules what the table says.                    *)
LEMMA RestartFollows ==
  ASSUME ScheduleInv, Restart
  PROVE  ScheduleInv'
<1>1. /\ req' = [r \in Requests |-> Idle] /\ registry' = Schedule /\ UNCHANGED jobs
  BY DEF Restart, tables
<1>2. PICK f, l : f = FALSE /\ history' = [history EXCEPT !.stale = f, !.leaky = l]
  BY Zenon DEF Restart
<1>3. Shape'
  <2>1. PICK a, b : history = [stale |-> a, leaky |-> b]
    BY DEF ScheduleInv, Shape
  <2>2. PICK g : g = [history EXCEPT !.stale = f]
    OBVIOUS
  <2>3. g = [stale |-> f, leaky |-> b]
    BY <2>1, <2>2
  <2>4. [g EXCEPT !.leaky = l] = [stale |-> f, leaky |-> l]
    BY <2>3
  <2>5. history' = [stale |-> f, leaky |-> l]
    BY <1>2, <2>2, <2>4
  <2>6. history' = [stale |-> history'.stale, leaky |-> history'.leaky] /\ history'.stale = f
    BY <2>5
  <2>7. history'.stale => history'.leaky
    BY <1>2, <2>6, Zenon
  <2>8. /\ registry' = [n \in DOMAIN registry' |-> registry'[n]]
        /\ DOMAIN registry' \subseteq Named(Jobs) /\ DOMAIN jobs' \subseteq Jobs
    BY <1>1, ScheduleIs DEF ScheduleInv, Shape
  <2>9. req' = [r \in Requests |-> req'[r]] /\ \A r \in Requests : Shaped(req[r])'
    BY <1>1 DEF Shaped, Idle
  <2>10. QED
    BY <2>6, <2>7, <2>8, <2>9 DEF Shape
<1>4. Separate'
  BY <1>1 DEF Separate, Keys, Idle
<1>5. Schedule' = Schedule
  BY <1>1 DEF Schedule, RegisterAll
<1>6. \A j \in Jobs : Agrees(j)'
  BY <1>1, ScheduleIs DEF Agrees, Asked, ScheduleInv, Shape
<1>7. Followed'
  BY <1>1, <1>6 DEF Followed, Prepared, Removing, Idle
<1>8. QED
  BY <1>3, <1>4, <1>7 DEF ScheduleInv

(* The server schedules from the table when it starts.                       *)
LEMMA ScheduleInit == Init => ScheduleInv
<1> SUFFICES ASSUME Init PROVE ScheduleInv
  OBVIOUS
<1>1. req = [r \in Requests |-> Idle] /\ registry = Schedule
  BY DEF Init
<1>2. DOMAIN jobs \subseteq Jobs
  BY DEF Init
<1>3. PICK a : a = FALSE
  OBVIOUS
<1>4. history = [stale |-> a, leaky |-> a]
  BY <1>3, Zenon DEF Init
<1>5. Shape
  BY <1>1, <1>2, <1>4, ScheduleIs, IdleKept DEF Shape
<1>6. Separate
  BY <1>1 DEF Separate, Keys, Idle
<1>7. Followed
  BY <1>1, <1>2, ScheduleIs DEF Followed, Agrees, Prepared, Removing, Idle
<1>8. QED
  BY <1>5, <1>6, <1>7 DEF ScheduleInv

(* No step breaks it.                                                        *)
LEMMA ScheduleStep == ScheduleInv /\ [Next]_vars => ScheduleInv'
<1> SUFFICES ASSUME ScheduleInv, [Next]_vars PROVE ScheduleInv'
  OBVIOUS
<1>1. ASSUME NEW r \in Requests, JobNext(r)
      PROVE  ScheduleInv'
  BY <1>1, CreateFollows, UpdateFollows, SetIntegrityCheckFollows, RemoveFollows,
     RemoveUnregisterFollows DEF JobNext
<1>2. ASSUME NEW r \in Requests, SchedulerNext(r)
      PROVE  ScheduleInv'
  BY <1>2, SyncUnregisterFollows, SyncRowFollows, SyncRegisterFollows, SyncAllFollows
     DEF SchedulerNext
<1>3. ASSUME NEW r \in Requests, StatementFails(r)
      PROVE  ScheduleInv'
  BY <1>3, ThrowIs, StepThrows DEF StatementFails, ScheduleInv, tables
<1>4. CASE UNCHANGED vars
  <2>1. UNCHANGED <<jobs, registry, req, history>>
    BY <1>4 DEF vars, tables
  <2>2. Shape'
    BY <2>1 DEF ScheduleInv, Shape, Shaped
  <2>3. Separate'
    BY <2>1 DEF ScheduleInv, Separate, Keys
  <2>4. \A j \in Jobs : (Agrees(j) => Agrees(j)') /\ (Covered(j) => Covered(j)')
    BY <2>1 DEF Agrees, Asked, Covered, Dirty, Removing
  <2>5. \A r \in Requests : Prepared(req[r]) => Prepared(req[r])'
    BY <2>1 DEF Prepared, Removing, Clear
  <2>6. QED
    BY <2>1, <2>2, <2>3, <2>4, <2>5 DEF ScheduleInv, Followed
<1>5. QED
  BY <1>1, <1>2, <1>3, <1>4, TargetFollows, RestartFollows DEF Next

(* Backups start when the jobs say so: whatever create, update, remove,      *)
(* setIntegrityCheck, a new time zone and restarts did, once the requests    *)
(* have been answered exactly the enabled jobs are registered, with the      *)
(* expressions of their rows, unless requests about the same job met or one  *)
(* failed since the last restart (scheduler.service.ts, jobs.service.ts).    *)
THEOREM ScheduleAlwaysFollows == Spec => []ScheduleFollows
<1>1. ScheduleInv => ScheduleFollows
  <2> SUFFICES ASSUME ScheduleInv, Quiet, ~history.stale PROVE registry = Schedule
    BY DEF ScheduleFollows
  <2>1. \A j \in Jobs : Agrees(j)
    BY IdleKept DEF ScheduleInv, Followed, Covered, Quiet
  <2>2. \A j \in Jobs, n \in Both :
          /\ <<j, n>> \in DOMAIN registry <=> <<j, n>> \in DOMAIN Schedule
          /\ <<j, n>> \in DOMAIN registry => registry[<<j, n>>] = Schedule[<<j, n>>]
    <3>1. ASSUME NEW j \in Jobs, NEW n \in Both
          PROVE  /\ <<j, n>> \in DOMAIN Schedule <=> Asked(j, n)
                 /\ Asked(j, n) => Schedule[<<j, n>>] = Expr(<<j, n>>, jobs[j])
      BY ScheduleIs DEF ScheduleInv, Shape
    <3>2. ASSUME NEW j \in Jobs, NEW n \in Both
          PROVE  /\ <<j, n>> \in DOMAIN registry <=> Asked(j, n)
                 /\ Asked(j, n) => registry[<<j, n>>] = Expr(<<j, n>>, jobs[j])
      BY <2>1 DEF Agrees
    <3>3. QED
      BY <3>1, <3>2
  <2>3. DOMAIN registry \subseteq Named(Jobs) /\ DOMAIN Schedule \subseteq Named(Jobs)
    BY ScheduleIs DEF ScheduleInv, Shape
  <2>4. DOMAIN registry = DOMAIN Schedule /\ \A n \in DOMAIN registry : registry[n] = Schedule[n]
    BY <2>2, <2>3 DEF Named
  <2>5. QED
    BY <2>4, ScheduleIs DEF ScheduleInv, Shape
<1>2. QED
  BY <1>1, ScheduleInit, ScheduleStep, PTL DEF Spec

-----------------------------------------------------------------------------
(* The secrets a request has in its hands: made and not yet referred to, or  *)
(* no longer referred to and to be deleted.                                  *)
Holds(q) ==
  IF q.op = "create" /\ q.pc = "override" THEN {q.password}
  ELSE IF q.op = "create" /\ q.pc = "insert" THEN {q.password, q.override}
  ELSE IF q.op = "update" /\ q.pc = "write" THEN q.patch
  ELSE IF q.op = "update" /\ q.pc = "drop" THEN {q.drop}
  ELSE IF q.op = "remove" /\ q.pc = "password" THEN {q.row.password, q.row.override}
  ELSE IF q.op = "remove" /\ q.pc = "override" THEN {q.row.override}
  ELSE IF q.op = "newTarget" /\ q.pc = "insert" THEN {q.fresh}
  ELSE IF q.op = "editTarget" /\ q.pc = "write" THEN {q.fresh}
  ELSE IF q.op = "dropTarget" /\ q.pc = "secret" THEN {q.drop}
  ELSE {}

(* Who may have a secret.                                                    *)
Sorts == {"repo", "target", "request"}
(* The rows and the requests by their identifiers.                           *)
Ids == Jobs \cup Targets \cup Requests

(* The secrets a repository, a connection or a request has.                  *)
Held(k, x) ==
  (IF k = "repo" /\ x \in DOMAIN repos THEN {repos[x].password, repos[x].override}
   ELSE IF k = "target" /\ x \in DOMAIN targets THEN {targets[x].credential}
   ELSE IF k = "request" /\ x \in Requests THEN Holds(req[x])
   ELSE {}) \ {None}

(* No secret has two owners.                                                 *)
OneOwner ==
  \A k, l \in Sorts, x, y \in Ids : k # l \/ x # y => Held(k, x) \cap Held(l, y) = {}

(* Every secret has one.                                                     *)
Owned == \A s \in DOMAIN secrets : \E k \in Sorts, x \in Ids : s \in Held(k, x)

(* Secrets are numbered as they are made, so a fresh one is nobody's.        *)
Bounded ==
  /\ minted \in Nat /\ DOMAIN secrets \subseteq 1..minted
  /\ \A k \in Sorts, x \in Ids : Held(k, x) \subseteq 1..minted

(* A job has a repository, which outlives it only while it is removed.       *)
Rows ==
  /\ DOMAIN repos \subseteq Jobs /\ DOMAIN targets \subseteq Targets
  /\ DOMAIN jobs \subseteq DOMAIN repos
  /\ \A t \in DOMAIN targets : "credential" \in DOMAIN targets[t]
  /\ \A j \in DOMAIN repos \ DOMAIN jobs : \E r \in Requests :
       req[r].op = "remove" /\ req[r].pc = "repository" /\ req[r].id = j

(* An override is kept for the connection it is presented to.                *)
Fits(s, t) == s # None => s \in DOMAIN secrets /\ secrets[s] = t

(* A repository has a password of its own, and an override for its           *)
(* connection.                                                               *)
RepoFits(j) ==
  /\ Fits(repos[j].override, repos[j].target)
  /\ repos[j].password \notin {repos[j].override, None}

(* The connection a repository is presented to after an update.              *)
Wanted(q) == Given(q.dto.target, q.row.target)

(* What a request has read is still so, and what it will write is right.     *)
Pending(q) ==
  /\ q.op = "create" => q.id \notin DOMAIN repos
  /\ q.op = "create" /\ q.pc = "override" => q.password # None
  /\ q.op = "create" /\ q.pc = "insert" =>
       Fits(q.override, q.dto.target) /\ q.password \notin {q.override, None}
  /\ q.op = "update" /\ q.pc \in {"secrets", "write"} =>
       q.id \in DOMAIN repos /\ q.row = repos[q.id]
  /\ q.op = "update" /\ q.pc = "write" =>
       \/ q.patch = {} /\ q.drop = None /\ (q.row.override = None \/ Wanted(q) = q.row.target)
       \/ /\ \E s \in 0..minted : q.patch = {s} /\ Fits(s, Wanted(q))
          /\ q.row.override \in {None, q.drop} /\ q.drop \in {None, q.row.override}
  /\ q.op = "remove" /\ q.pc \in {"job", "repository"} =>
       q.id \in DOMAIN repos /\ q.row = repos[q.id]
  /\ q.op = "newTarget" => q.id \notin DOMAIN targets
  /\ q.op = "editTarget" /\ q.pc = "write" /\ q.id \in DOMAIN targets =>
       targets[q.id].credential = None
  /\ q.op = "dropTarget" /\ q.pc = "delete" =>
       q.id \in DOMAIN targets /\ targets[q.id].credential = q.drop

(* The secrets while no requests met and none failed.                        *)
SecretsKept ==
  /\ OneOwner /\ Owned /\ Bounded /\ Rows
  /\ \A j \in DOMAIN repos : RepoFits(j)
  /\ \A r \in Requests : Pending(req[r])

(* The inductive invariant of SecretsSound: it needs that of the schedule,   *)
(* for the job rows.                                                         *)
SecretsInv == ScheduleInv /\ (~history.leaky => SecretsKept)

-----------------------------------------------------------------------------
(* The three owners, one by one.                                             *)
LEMMA HeldOf ==
  ASSUME NEW x
  PROVE  /\ Held("repo", x) = (IF x \in DOMAIN repos
                               THEN {repos[x].password, repos[x].override} \ {None} ELSE {})
         /\ Held("target", x) = (IF x \in DOMAIN targets
                                 THEN {targets[x].credential} \ {None} ELSE {})
         /\ Held("request", x) = (IF x \in Requests THEN Holds(req[x]) \ {None} ELSE {})
  BY DEF Held

(* The same after a step.                                                    *)
LEMMA HeldNext ==
  ASSUME NEW x
  PROVE  /\ Held("repo", x)' = (IF x \in DOMAIN repos'
                                THEN {repos'[x].password, repos'[x].override} \ {None} ELSE {})
         /\ Held("target", x)' = (IF x \in DOMAIN targets'
                                  THEN {targets'[x].credential} \ {None} ELSE {})
         /\ Held("request", x)' = (IF x \in Requests THEN Holds(req'[x]) \ {None} ELSE {})
  BY DEF Held, Holds

(* A request that is over has no secret in its hands.                        *)
LEMMA IdleHolds == Holds(Idle) = {} /\ Pending(Idle)
  BY DEF Holds, Pending, Idle

(* Secrets pass between a request and the row it is about, or are made or    *)
(* deleted on the way.                                                       *)
Passed(r, k, x) ==
  /\ minted' \in {minted, minted + 1}
  /\ Held("request", r)' \cap Held(k, x)' = {}
  /\ \A s \in Held("request", r)' \cup Held(k, x)' :
       s \in Held("request", r) \cup Held(k, x) \/ (s = minted + 1 /\ s = minted')
  /\ \A s \in DOMAIN secrets' :
       \/ s \in DOMAIN secrets /\ s \notin Held("request", r) \cup Held(k, x)
       \/ s \in Held("request", r)' \cup Held(k, x)'

(* A secret that is passed on, made or deleted leaves every other one with   *)
(* its owner.                                                                *)
LEMMA HandOver ==
  ASSUME OneOwner, Owned, Bounded, NEW r \in Requests, NEW k \in {"repo", "target"},
         NEW x \in Ids, Passed(r, k, x),
         \A l \in Sorts, y \in Ids :
           (l = "request" /\ y = r) \/ (l = k /\ y = x) \/ Held(l, y)' = Held(l, y)
  PROVE  OneOwner' /\ Owned' /\ Bounded'
<1> DEFINE Mine(l, y) == (l = "request" /\ y = r) \/ (l = k /\ y = x)
<1>1. /\ "request" \in Sorts /\ k \in Sorts /\ r \in Ids /\ k # "request"
  BY DEF Sorts, Ids
<1>2. minted \in Nat /\ minted' \in Nat /\ minted <= minted'
  BY DEF Bounded, Passed
<1>3. ASSUME NEW l \in Sorts, NEW y \in Ids, ~Mine(l, y)
      PROVE  /\ Held(l, y)' = Held(l, y) /\ minted + 1 \notin Held(l, y)
             /\ Held(l, y) \cap (Held("request", r) \cup Held(k, x)) = {}
  <2>1. Held(l, y)' = Held(l, y)
    BY <1>3
  <2>2. Held(l, y) \subseteq 1..minted
    BY DEF Bounded
  <2>3. Held(l, y) \cap Held("request", r) = {} /\ Held(l, y) \cap Held(k, x) = {}
    BY <1>1, <1>3 DEF OneOwner
  <2>4. QED
    BY <1>2, <2>1, <2>2, <2>3
<1>4. ASSUME NEW l \in Sorts, NEW y \in Ids, Mine(l, y)
      PROVE  Held(l, y)' \subseteq Held("request", r)' \cup Held(k, x)'
  BY <1>4
<1>5. OneOwner'
  <2> SUFFICES ASSUME NEW l \in Sorts, NEW m \in Sorts, NEW y \in Ids, NEW z \in Ids,
                      l # m \/ y # z
               PROVE  Held(l, y)' \cap Held(m, z)' = {}
    BY DEF OneOwner
  <2>1. CASE ~Mine(l, y) /\ ~Mine(m, z)
    BY <1>3, <2>1 DEF OneOwner
  <2>2. CASE Mine(l, y) /\ ~Mine(m, z)
    BY <1>3, <1>4, <2>2 DEF Passed
  <2>3. CASE ~Mine(l, y) /\ Mine(m, z)
    BY <1>3, <1>4, <2>3 DEF Passed
  <2>4. CASE Mine(l, y) /\ Mine(m, z)
    BY <1>1, <2>4 DEF Passed
  <2>5. QED
    BY <2>1, <2>2, <2>3, <2>4
<1>6. Owned'
  <2> SUFFICES ASSUME NEW s \in DOMAIN secrets'
               PROVE  \E l \in Sorts, y \in Ids : s \in Held(l, y)'
    BY DEF Owned
  <2>1. CASE s \in Held("request", r)' \cup Held(k, x)'
    BY <1>1, <2>1
  <2>2. CASE s \in DOMAIN secrets /\ s \notin Held("request", r) \cup Held(k, x)
    <3>1. PICK l \in Sorts, y \in Ids : s \in Held(l, y)
      BY <2>2 DEF Owned
    <3>2. ~Mine(l, y)
      BY <2>2, <3>1
    <3>3. QED
      BY <1>3, <3>1, <3>2
  <2>3. QED
    BY <2>1, <2>2 DEF Passed
<1>7. Bounded'
  <2>1. Held("request", r)' \cup Held(k, x)' \subseteq 1..minted'
    BY <1>1, <1>2 DEF Passed, Bounded
  <2>2. ASSUME NEW l \in Sorts, NEW y \in Ids
        PROVE  Held(l, y)' \subseteq 1..minted'
    <3>1. CASE Mine(l, y)
      BY <1>4, <2>1, <3>1
    <3>2. CASE ~Mine(l, y)
      BY <1>2, <1>3, <3>2 DEF Bounded
    <3>3. QED
      BY <3>1, <3>2
  <2>3. DOMAIN secrets' \subseteq 1..minted'
    BY <1>2, <2>1 DEF Passed, Bounded
  <2>4. QED
    BY <1>2, <2>2, <2>3 DEF Bounded
<1>8. QED
  BY <1>5, <1>6, <1>7

(* The step leaves this repository alone.                                    *)
RepoSame(j) ==
  (j \in DOMAIN repos' <=> j \in DOMAIN repos) /\ (j \in DOMAIN repos => repos'[j] = repos[j])
(* The step leaves this connection alone.                                    *)
TargetSame(t) ==
  /\ t \in DOMAIN targets' <=> t \in DOMAIN targets
  /\ t \in DOMAIN targets => targets'[t] = targets[t]
(* The step leaves this secret alone.                                        *)
SecretSame(s) == s \in DOMAIN secrets => s \in DOMAIN secrets' /\ secrets'[s] = secrets[s]

(* An override that is left alone still belongs to its connection.           *)
LEMMA FitsKept ==
  ASSUME NEW s, NEW t, Fits(s, t), s = None \/ SecretSame(s)
  PROVE  Fits(s, t)'
  BY DEF Fits, SecretSame

(* A request whose rows and secrets are left alone can go on as it meant     *)
(* to.                                                                       *)
LEMMA PendingKept ==
  ASSUME NEW q, Pending(q), RepoSame(q.id), TargetSame(q.id),
         minted \in Nat, minted' \in {minted, minted + 1},
         \A s \in Holds(q) \ {None} : SecretSame(s)
  PROVE  Pending(q)'
<1>1. q.op = "create" /\ q.pc = "insert" => Fits(q.override, q.dto.target)'
  <2> SUFFICES ASSUME q.op = "create", q.pc = "insert" PROVE Fits(q.override, q.dto.target)'
    OBVIOUS
  <2>1. q.override \in Holds(q) /\ Fits(q.override, q.dto.target)
    BY DEF Holds, Pending
  <2>2. QED
    BY <2>1, FitsKept
<1>2. q.op = "update" /\ q.pc = "write" =>
        \/ q.patch = {} /\ q.drop = None /\ (q.row.override = None \/ Wanted(q) = q.row.target)
        \/ /\ \E s \in 0..minted' : q.patch = {s} /\ Fits(s, Wanted(q))'
           /\ q.row.override \in {None, q.drop} /\ q.drop \in {None, q.row.override}
  <2> SUFFICES ASSUME q.op = "update", q.pc = "write", q.patch # {}
               PROVE  /\ \E s \in 0..minted' : q.patch = {s} /\ Fits(s, Wanted(q))'
                      /\ q.row.override \in {None, q.drop} /\ q.drop \in {None, q.row.override}
    BY DEF Pending
  <2>1. PICK s \in 0..minted : q.patch = {s} /\ Fits(s, Wanted(q))
    BY DEF Pending
  <2>2. s \in Holds(q)
    BY <2>1 DEF Holds
  <2>3. Fits(s, Wanted(q))'
    BY <2>1, <2>2, FitsKept DEF Wanted
  <2>4. QED
    BY <2>1, <2>3 DEF Pending
<1>3. QED
  BY <1>1, <1>2 DEF Pending, RepoSame, TargetSame, Wanted

(* The requests that were not concerned go on as before.                     *)
LEMMA OthersPending ==
  ASSUME Shape, Separate, ~history.stale, SecretsKept, NEW r \in Requests, req[r] # Idle,
         NEW k \in {"repo", "target"}, NEW x \in Jobs \cup Targets, req[r].id = x,
         \A i \in (Jobs \cup Targets) \ {x} : RepoSame(i) /\ TargetSame(i),
         minted' \in {minted, minted + 1},
         \A s : s \notin Held("request", r) \cup Held(k, x) => SecretSame(s),
         NEW o \in Requests \ {r}
  PROVE  Pending(req[o])'  \/ req'[o] # req[o]
<1> SUFFICES ASSUME req'[o] = req[o] PROVE Pending(req[o])'
  OBVIOUS
<1>1. PICK q : q = req[o]
  OBVIOUS
<1>2. SUFFICES Pending(q)'
  BY <1>1 DEF Pending, Fits, Wanted
<1>3. CASE q = Idle
  BY <1>3 DEF Pending, Idle
<1>4. CASE q # Idle
  <2>1. q.id # x /\ q.id \in Jobs \cup Targets \cup {"all"} /\ q.id # "all"
    BY <1>1, <1>4, OthersApart DEF Shape, Shaped
  <2>2. RepoSame(q.id) /\ TargetSame(q.id)
    BY <2>1
  <2>3. ASSUME NEW s \in Holds(q) \ {None}
        PROVE  SecretSame(s)
    <3>1. s \in Held("request", o)
      BY <1>1, HeldOf
    <3>2. s \notin Held("request", r) \cup Held(k, x)
      BY <3>1 DEF SecretsKept, OneOwner, Sorts, Ids
    <3>3. QED
      BY <3>2
  <2>4. QED
    BY <1>1, <2>2, <2>3, PendingKept DEF SecretsKept, Bounded
<1>5. QED
  BY <1>3, <1>4

(* A step of a request about a job keeps the secrets if its own row and      *)
(* hands are in order.                                                       *)
LEMMA JobMoves ==
  ASSUME Shape, Separate, ~history.stale, SecretsKept, NEW r \in Requests, req[r] # Idle,
         NEW q, req' = [req EXCEPT ![r] = q], NEW j \in Jobs, req[r].id = j,
         UNCHANGED targets, DOMAIN repos' \subseteq Jobs,
         DOMAIN jobs' \subseteq DOMAIN repos',
         \A i \in Jobs \ {j} : RepoSame(i) /\ (i \in DOMAIN jobs' <=> i \in DOMAIN jobs),
         j \in DOMAIN repos' =>
           /\ RepoFits(j)'
           /\ j \in DOMAIN jobs' \/ (q.op = "remove" /\ q.pc = "repository" /\ q.id = j),
         Passed(r, "repo", j),
         \A s : s \notin Held("request", r) \cup Held("repo", j) => SecretSame(s),
         Pending(req[r])'
  PROVE  SecretsKept'
<1>1. /\ req'[r] = q /\ \A s \in Requests \ {r} : req'[s] = req[s]
  BY ReqMoves
<1>2. /\ j \in Ids /\ DOMAIN repos \subseteq Jobs
      /\ \A i \in (Jobs \cup Targets) \ {j} : RepoSame(i) /\ TargetSame(i)
  BY DEF Ids, SecretsKept, Rows, RepoSame, TargetSame
<1>3. ASSUME NEW l \in Sorts, NEW y \in Ids, l # "request" \/ y # r, l # "repo" \/ y # j
      PROVE  Held(l, y)' = Held(l, y)
  <2>1. CASE l = "repo"
    <3>1. (y \in DOMAIN repos' <=> y \in DOMAIN repos)
          /\ (y \in DOMAIN repos => repos'[y] = repos[y])
      BY <1>2, <1>3, <2>1 DEF RepoSame
    <3>2. QED
      BY <2>1, <3>1 DEF Held
  <2>2. CASE l = "target"
    BY <2>2 DEF Held
  <2>3. CASE l = "request"
    <3>1. y \in Requests => req'[y] = req[y]
      BY <1>1, <1>3, <2>3
    <3>2. QED
      BY <2>3, <3>1 DEF Held, Holds
  <2>4. QED
    BY <2>1, <2>2, <2>3 DEF Sorts
<1>4. OneOwner' /\ Owned' /\ Bounded'
  BY <1>2, <1>3, HandOver DEF SecretsKept
<1>5. Rows'
  <2>1. ASSUME NEW i \in DOMAIN repos' \ DOMAIN jobs'
        PROVE  \E o \in Requests :
                 req'[o].op = "remove" /\ req'[o].pc = "repository" /\ req'[o].id = i
    <3>1. CASE i = j
      BY <1>1, <2>1, <3>1
    <3>2. CASE i # j
      <4>1. i \in DOMAIN repos \ DOMAIN jobs
        BY <1>2, <2>1, <3>2 DEF RepoSame
      <4>2. PICK o \in Requests :
              req[o].op = "remove" /\ req[o].pc = "repository" /\ req[o].id = i
        BY <4>1 DEF SecretsKept, Rows
      <4>3. o # r
        BY <3>2, <4>2
      <4>4. QED
        BY <1>1, <4>2, <4>3
    <3>3. QED
      BY <3>1, <3>2
  <2>2. QED
    BY <2>1 DEF SecretsKept, Rows
<1>6. ASSUME NEW i \in DOMAIN repos'
      PROVE  RepoFits(i)'
  <2>1. CASE i = j
    BY <1>6, <2>1
  <2>2. CASE i # j
    <3>1. i \in DOMAIN repos /\ repos'[i] = repos[i] /\ RepoFits(i) /\ i \in Ids
      BY <1>2, <1>6, <2>2 DEF RepoSame, SecretsKept, Ids
    <3>2. repos[i].override = None \/ SecretSame(repos[i].override)
      <4>1. repos[i].override # None => repos[i].override \in Held("repo", i)
        BY <3>1, HeldOf
      <4>2. Held("repo", i) \cap (Held("request", r) \cup Held("repo", j)) = {}
        BY <1>2, <2>2, <3>1 DEF SecretsKept, OneOwner, Sorts, Ids
      <4>3. QED
        BY <4>1, <4>2
    <3>3. QED
      BY <3>1, <3>2, FitsKept DEF RepoFits
  <2>3. QED
    BY <2>1, <2>2
<1>7. ASSUME NEW o \in Requests
      PROVE  Pending(req[o])'
  <2>1. CASE o # r
    BY <1>1, <1>2, <2>1, OthersPending DEF Passed
  <2>2. QED
    BY <2>1
<1>8. QED
  BY <1>4, <1>5, <1>6, <1>7 DEF SecretsKept

(* The same for a request about a connection.                                *)
LEMMA TargetMoves ==
  ASSUME Shape, Separate, ~history.stale, SecretsKept, NEW r \in Requests, req[r] # Idle,
         NEW q, req' = [req EXCEPT ![r] = q], NEW t \in Targets, req[r].id = t,
         req[r].op # "remove", UNCHANGED <<jobs, repos>>, DOMAIN targets' \subseteq Targets,
         \A i \in Targets \ {t} : TargetSame(i),
         t \in DOMAIN targets' => "credential" \in DOMAIN targets'[t],
         Passed(r, "target", t),
         \A s : s \notin Held("request", r) \cup Held("target", t) => SecretSame(s),
         Pending(req[r])'
  PROVE  SecretsKept'
<1>1. /\ req'[r] = q /\ \A s \in Requests \ {r} : req'[s] = req[s]
  BY ReqMoves
<1>2. /\ t \in Ids /\ DOMAIN targets \subseteq Targets
      /\ \A i \in (Jobs \cup Targets) \ {t} : RepoSame(i) /\ TargetSame(i)
  BY DEF Ids, SecretsKept, Rows, RepoSame, TargetSame
<1>3. ASSUME NEW l \in Sorts, NEW y \in Ids, l # "request" \/ y # r, l # "target" \/ y # t
      PROVE  Held(l, y)' = Held(l, y)
  <2>1. CASE l = "target"
    <3>1. (y \in DOMAIN targets' <=> y \in DOMAIN targets)
          /\ (y \in DOMAIN targets => targets'[y] = targets[y])
      BY <1>2, <1>3, <2>1 DEF TargetSame
    <3>2. QED
      BY <2>1, <3>1 DEF Held
  <2>2. CASE l = "repo"
    BY <2>2 DEF Held
  <2>3. CASE l = "request"
    <3>1. y \in Requests => req'[y] = req[y]
      BY <1>1, <1>3, <2>3
    <3>2. QED
      BY <2>3, <3>1 DEF Held, Holds
  <2>4. QED
    BY <2>1, <2>2, <2>3 DEF Sorts
<1>4. OneOwner' /\ Owned' /\ Bounded'
  BY <1>2, <1>3, HandOver DEF SecretsKept
<1>5. Rows'
  <2>1. ASSUME NEW i \in DOMAIN repos \ DOMAIN jobs
        PROVE  \E o \in Requests :
                 req'[o].op = "remove" /\ req'[o].pc = "repository" /\ req'[o].id = i
    BY <1>1 DEF SecretsKept, Rows
  <2>2. \A i \in DOMAIN targets' : "credential" \in DOMAIN targets'[i]
    BY <1>2 DEF SecretsKept, Rows, TargetSame
  <2>3. QED
    BY <2>1, <2>2 DEF SecretsKept, Rows
<1>6. ASSUME NEW i \in DOMAIN repos'
      PROVE  RepoFits(i)'
  <2>1. i \in DOMAIN repos /\ repos' = repos /\ RepoFits(i) /\ i \in Ids
    BY <1>6 DEF SecretsKept, Rows, Ids
  <2>2. repos[i].override = None \/ SecretSame(repos[i].override)
    <3>1. repos[i].override # None => repos[i].override \in Held("repo", i)
      BY <2>1, HeldOf
    <3>2. Held("repo", i) \cap (Held("request", r) \cup Held("target", t)) = {}
      BY <1>2, <2>1 DEF SecretsKept, OneOwner, Sorts, Ids
    <3>3. QED
      BY <3>1, <3>2
  <2>3. QED
    BY <2>1, <2>2, FitsKept DEF RepoFits
<1>7. ASSUME NEW o \in Requests
      PROVE  Pending(req[o])'
  <2>1. CASE o # r
    BY <1>1, <1>2, <2>1, OthersPending DEF Passed
  <2>2. QED
    BY <2>1
<1>8. QED
  BY <1>4, <1>5, <1>6, <1>7 DEF SecretsKept

(* A step that passes no secret on and writes no row keeps them.             *)
LEMMA SecretsStay ==
  ASSUME Shape, SecretsKept, NEW r \in Requests, NEW q, req' = [req EXCEPT ![r] = q],
         UNCHANGED <<repos, targets, secrets, minted>>, DOMAIN jobs' = DOMAIN jobs,
         Holds(q) \ {None} = Holds(req[r]) \ {None}, Pending(q),
         ~(req[r].op = "remove" /\ req[r].pc = "repository")
  PROVE  SecretsKept'
<1>1. /\ req'[r] = q /\ \A s \in Requests \ {r} : req'[s] = req[s]
  BY ReqMoves
<1>2. \A l \in Sorts, y \in Ids : Held(l, y)' = Held(l, y)
  <2> SUFFICES ASSUME NEW l \in Sorts, NEW y \in Ids PROVE Held(l, y)' = Held(l, y)
    OBVIOUS
  <2>1. y \in Requests => Holds(req'[y]) \ {None} = Holds(req[y]) \ {None}
    BY <1>1
  <2>2. y \in Requests => Holds(req[y])' = Holds(req'[y])
    BY DEF Holds
  <2>3. Held("request", y)' = Held("request", y)
    BY <2>1, <2>2 DEF Held
  <2>4. Held("repo", y)' = Held("repo", y) /\ Held("target", y)' = Held("target", y)
    BY DEF Held
  <2>5. QED
    BY <2>3, <2>4 DEF Sorts
<1>3. OneOwner' /\ Owned' /\ Bounded'
  BY <1>2 DEF SecretsKept, OneOwner, Owned, Bounded
<1>4. Rows'
  <2>1. ASSUME NEW i \in DOMAIN repos \ DOMAIN jobs
        PROVE  \E o \in Requests :
                 req'[o].op = "remove" /\ req'[o].pc = "repository" /\ req'[o].id = i
    BY <1>1 DEF SecretsKept, Rows
  <2>2. QED
    BY <2>1 DEF SecretsKept, Rows
<1>5. \A j \in DOMAIN repos' : RepoFits(j)'
  BY DEF SecretsKept, RepoFits, Fits
<1>6. ASSUME NEW o \in Requests
      PROVE  Pending(req[o])'
  <2>1. Pending(req'[o])
    BY <1>1 DEF SecretsKept
  <2>2. QED
    BY <2>1 DEF Pending, Fits, Wanted
<1>7. QED
  BY <1>3, <1>4, <1>5, <1>6 DEF SecretsKept

(* Unless requests met or failed, what they have read is still so.           *)
LEMMA Calm ==
  ASSUME SecretsInv, ~history.leaky
  PROVE  /\ Shape /\ Separate /\ ~history.stale /\ SecretsKept
         /\ OneOwner /\ Bounded /\ minted \in Nat /\ minted + 1 \notin 0..minted
         /\ \A r \in Requests : Pending(req[r]) /\ Prepared(req[r])
  BY DEF SecretsInv, ScheduleInv, Shape, Followed, SecretsKept, Bounded

(* A request that holds nothing and is about no secret.                      *)
LEMMA HoldsNothing ==
  ASSUME NEW q, q.op \in {"none", "sync", "restore"}
  PROVE  Holds(q) = {} /\ Pending(q)
  BY DEF Holds, Pending

(* A request begins with empty hands.                                        *)
LEMMA BeginsOwning ==
  ASSUME SecretsInv, NEW r \in Requests, NEW q, Begin(r, q), Holds(q) = {},
         SecretsKept => Pending(q), ~history'.leaky
  PROVE  SecretsKept'
<1>1. ~history.leaky
  BY MetIs DEF SecretsInv, ScheduleInv, Marked
<1>2. /\ req[r] = Idle /\ req' = [req EXCEPT ![r] = q]
      /\ UNCHANGED <<jobs, repos, targets, secrets, minted>>
  BY DEF Begin, tables
<1>3. Holds(req[r]) = {} /\ req[r].op = "none"
  BY <1>2, IdleHolds DEF Idle
<1>4. QED
  BY <1>1, <1>2, <1>3, Calm, SecretsStay

(* JobsService.create                                                        *)
LEMMA CreateBeginOwns ==
  ASSUME SecretsInv, NEW r \in Requests, CreateBegin(r), ~history'.leaky
  PROVE  SecretsKept'
<1>1. PICK j, d :
        /\ j \in Jobs \ DOMAIN jobs
        /\ Begin(r, [op |-> "create", pc |-> "password", id |-> j, dto |-> d])
        /\ \A s \in Requests : req[s] # Idle => req[s].id # j
  BY DEF CreateBegin
<1> DEFINE q == [op |-> "create", pc |-> "password", id |-> j, dto |-> d]
<1>2. Holds(q) = {}
  BY DEF Holds
<1>3. SecretsKept => j \notin DOMAIN repos
  BY <1>1 DEF SecretsKept, Rows, Idle
<1>4. SecretsKept => Pending(q)
  BY <1>3 DEF Pending
<1> HIDE DEF q
<1>5. QED
  BY <1>1, <1>2, <1>4, BeginsOwning DEF q

(* create makes the repository password and has it in its hands.             *)
LEMMA CreatePasswordOwns ==
  ASSUME SecretsInv, NEW r \in Requests, CreatePassword(r), ~history'.leaky
  PROVE  SecretsKept'
<1> DEFINE q == [op |-> "create", pc |-> "override", id |-> req[r].id,
                 dto |-> req[r].dto, password |-> minted + 1]
<1>1. /\ req' = [req EXCEPT ![r] = q] /\ req[r].op = "create" /\ req[r].pc = "password"
      /\ minted' = minted + 1 /\ secrets' = Put(secrets, minted + 1, "own")
      /\ UNCHANGED <<jobs, repos, targets, history>>
  BY DEF CreatePassword, At, CreateSecret
<1>2. /\ Shape /\ Separate /\ ~history.stale /\ SecretsKept /\ minted \in Nat
      /\ Pending(req[r])
  BY <1>1, Calm
<1>3. req[r] # Idle /\ req[r].id \in Jobs
  BY <1>1, UnderWay DEF SecretsInv
<1>4. PICK j \in Jobs : j = req[r].id
  BY <1>3
<1>5. /\ Holds(q) = {minted + 1} /\ minted + 1 # None /\ Holds(req[r]) = {}
      /\ q.op = "create" /\ q.pc = "override" /\ q.id = j /\ q.password = minted + 1
  BY <1>1, <1>2, <1>4 DEF Holds, None
<1> HIDE DEF q
<1>6. req'[r] = q
  BY <1>1, <1>2, ReqMoves
<1>7. j \notin DOMAIN repos
  BY <1>1, <1>2, <1>4 DEF Pending
<1>8. /\ Held("request", r) = {} /\ Held("repo", j) = {}
      /\ Held("request", r)' = {minted + 1} /\ Held("repo", j)' = {}
  BY <1>1, <1>5, <1>6, <1>7, HeldOf, HeldNext
<1>9. Passed(r, "repo", j)
  BY <1>1, <1>8 DEF Passed, Put
<1>10. \A s : s \notin Held("request", r) \cup Held("repo", j) => SecretSame(s)
  BY <1>1, <1>2 DEF SecretSame, Put, SecretsKept, Bounded
<1>11. Pending(req[r])'
  BY <1>1, <1>5, <1>6, <1>7 DEF Pending
<1>12. QED
  BY <1>1, <1>2, <1>3, <1>4, <1>7, <1>9, <1>10, <1>11, JobMoves
     DEF SecretsKept, Rows, RepoSame

(* create makes the override, if credentials were entered, for the           *)
(* connection of the job.                                                    *)
LEMMA CreateOverrideOwns ==
  ASSUME SecretsInv, NEW r \in Requests, CreateOverride(r), ~history'.leaky
  PROVE  SecretsKept'
<1>1. PICK q :
        /\ req' = [req EXCEPT ![r] = q] /\ q.op = "create" /\ q.pc = "insert"
        /\ q.id = req[r].id /\ q.dto = req[r].dto /\ q.password = req[r].password
        /\ q.override = (IF req[r].dto.creds = "set" THEN minted + 1 ELSE None)
  <2> DEFINE q == [op |-> "create", pc |-> "insert", id |-> req[r].id, dto |-> req[r].dto,
                   password |-> req[r].password,
                   override |-> IF req[r].dto.creds = "set" THEN minted + 1 ELSE None,
                   slugs |-> <<UniqueSlug(JobSlugs(None), req[r].dto.name),
                               UniqueSlug(RepoSlugs(None), req[r].dto.name)>>]
  <2>1. req' = [req EXCEPT ![r] = q]
    BY DEF CreateOverride
  <2>2. /\ q.op = "create" /\ q.pc = "insert"
        /\ q.id = req[r].id /\ q.dto = req[r].dto /\ q.password = req[r].password
        /\ q.override = (IF req[r].dto.creds = "set" THEN minted + 1 ELSE None)
    OBVIOUS
  <2> HIDE DEF q
  <2>3. QED
    BY <2>1, <2>2
<1>2. /\ req[r].op = "create" /\ req[r].pc = "override"
      /\ UNCHANGED <<jobs, repos, targets, history>>
      /\ IF req[r].dto.creds = "set"
         THEN minted' = minted + 1 /\ secrets' = Put(secrets, minted + 1, req[r].dto.target)
         ELSE UNCHANGED <<secrets, minted>>
  BY DEF CreateOverride, At, CreateSecret
<1>3. /\ Shape /\ Separate /\ ~history.stale /\ SecretsKept /\ minted \in Nat
      /\ Pending(req[r])
  BY <1>2, Calm
<1>4. req[r] # Idle /\ req[r].id \in Jobs
  BY <1>2, UnderWay DEF SecretsInv
<1>5. PICK j \in Jobs : j = req[r].id
  BY <1>4
<1>6. /\ Holds(q) = {q.password, q.override} /\ Holds(req[r]) = {q.password}
      /\ q.password # None /\ j \notin DOMAIN repos
  BY <1>1, <1>2, <1>3, <1>5 DEF Holds, Pending
<1>7. req'[r] = q
  BY <1>1, <1>3, ReqMoves
<1>8. /\ Held("request", r) = {q.password} /\ Held("repo", j) = {}
      /\ Held("request", r)' = {q.password, q.override} \ {None} /\ Held("repo", j)' = {}
  BY <1>2, <1>6, <1>7, HeldOf, HeldNext
<1>9. minted + 1 # None /\ q.password \in 1..minted /\ minted + 1 \notin DOMAIN secrets
  <2>1. Held("request", r) \subseteq 1..minted
    BY <1>3 DEF SecretsKept, Bounded, Sorts, Ids
  <2>2. QED
    BY <1>3, <1>8, <2>1 DEF SecretsKept, Bounded, None
<1>10. Passed(r, "repo", j)
  <2>1. CASE req[r].dto.creds = "set"
    <3>1. q.override = minted + 1 /\ minted' = minted + 1
      BY <1>1, <1>2, <2>1
    <3>2. DOMAIN secrets' = DOMAIN secrets \cup {minted + 1}
      BY <1>2, <2>1 DEF Put
    <3>3. PICK s1 : s1 = minted + 1
      OBVIOUS
    <3>4. /\ Held("request", r)' = {q.password, s1} /\ s1 # None
          /\ DOMAIN secrets' = DOMAIN secrets \cup {s1}
      BY <1>6, <1>8, <1>9, <3>1, <3>2, <3>3
    <3>5. QED
      BY <1>8, <3>1, <3>3, <3>4 DEF Passed
  <2>2. CASE req[r].dto.creds # "set"
    <3>1. q.override = None /\ UNCHANGED <<secrets, minted>>
      BY <1>1, <1>2, <2>2
    <3>2. QED
      BY <1>6, <1>8, <3>1 DEF Passed
  <2>3. QED
    BY <2>1, <2>2
<1>11. \A s : SecretSame(s)
  BY <1>2, <1>9 DEF SecretSame, Put
<1>12. Fits(q.override, q.dto.target)' /\ q.password \notin {q.override, None}
  BY <1>1, <1>2, <1>3, <1>6, <1>9 DEF Fits, Put
<1>13. Pending(req[r])'
  BY <1>1, <1>2, <1>5, <1>6, <1>7, <1>12 DEF Pending
<1>14. QED
  BY <1>1, <1>2, <1>3, <1>4, <1>5, <1>6, <1>10, <1>11, <1>13, JobMoves
     DEF SecretsKept, Rows, RepoSame

(* create inserts repository and job: the secrets are the repository's from  *)
(* now on.                                                                   *)
LEMMA CreateInsertOwns ==
  ASSUME SecretsInv, NEW r \in Requests, CreateInsert(r), ~history'.leaky
  PROVE  SecretsKept'
<1>1. ~Throw(r)
  BY ThrowIs DEF SecretsInv, ScheduleInv, Marked
<1>2. PICK slug, found :
        /\ repos' = Put(repos, req[r].id,
                        [slug |-> slug, target |-> req[r].dto.target,
                         password |-> req[r].password, override |-> req[r].override])
        /\ jobs' = Put(jobs, req[r].id, found)
        /\ req' = [req EXCEPT ![r] = ThenSync(req[r].id)]
        /\ req[r].op = "create" /\ req[r].pc = "insert"
        /\ UNCHANGED <<targets, secrets, minted, history>>
  BY <1>1 DEF CreateInsert, At
<1>3. /\ Shape /\ Separate /\ ~history.stale /\ SecretsKept /\ minted \in Nat
      /\ Pending(req[r])
  BY <1>2, Calm
<1>4. req[r] # Idle /\ req[r].id \in Jobs
  BY <1>2, UnderWay DEF SecretsInv
<1>5. PICK j \in Jobs : j = req[r].id
  BY <1>4
<1>6. PICK q : q = ThenSync(j)
  OBVIOUS
<1>7. q.op = "sync" /\ Holds(q) = {} /\ Pending(q)'
  BY <1>6 DEF ThenSync, Holds, Pending
<1>8. req' = [req EXCEPT ![r] = q] /\ req'[r] = q
  BY <1>2, <1>3, <1>5, <1>6, ReqMoves
<1>9. PICK pw, ov, t : pw = req[r].password /\ ov = req[r].override /\ t = req[r].dto.target
  OBVIOUS
<1>10. /\ j \notin DOMAIN repos /\ Fits(ov, t) /\ pw \notin {ov, None}
       /\ Holds(req[r]) = {pw, ov}
  BY <1>2, <1>3, <1>5, <1>9 DEF Pending, Holds
<1>11. /\ DOMAIN repos' = DOMAIN repos \cup {j} /\ DOMAIN jobs' = DOMAIN jobs \cup {j}
       /\ \A i \in DOMAIN repos : repos'[i] = repos[i]
       /\ repos'[j].password = pw /\ repos'[j].override = ov /\ repos'[j].target = t
  BY <1>2, <1>5, <1>9, <1>10 DEF Put
<1>12. /\ Held("request", r) = {pw, ov} \ {None} /\ Held("repo", j) = {}
       /\ Held("request", r)' = {} /\ Held("repo", j)' = {pw, ov} \ {None}
  BY <1>7, <1>8, <1>10, <1>11, HeldOf, HeldNext
<1>13. Passed(r, "repo", j)
  BY <1>2, <1>12 DEF Passed
<1>14. \A s : SecretSame(s)
  BY <1>2 DEF SecretSame
<1>15. RepoFits(j)'
  BY <1>2, <1>10, <1>11 DEF RepoFits, Fits
<1>16. Pending(req[r])'
  BY <1>7, <1>8
<1>17. \A i \in Jobs \ {j} : RepoSame(i) /\ (i \in DOMAIN jobs' <=> i \in DOMAIN jobs)
  BY <1>11 DEF RepoSame
<1>18. DOMAIN repos' \subseteq Jobs /\ DOMAIN jobs' \subseteq DOMAIN repos'
  BY <1>3, <1>11 DEF SecretsKept, Rows
<1>19. QED
  BY <1>2, <1>3, <1>4, <1>5, <1>8, <1>11, <1>13, <1>14, <1>15, <1>16, <1>17, <1>18, JobMoves

(* JobsService.update                                                        *)
LEMMA UpdateReadOwns ==
  ASSUME SecretsInv, NEW r \in Requests, UpdateRead(r), ~history'.leaky
  PROVE  SecretsKept'
<1>1. /\ req[r].op = "update" /\ req[r].pc = "read"
      /\ UNCHANGED <<jobs, repos, targets, secrets, minted, history>>
  BY DEF UpdateRead, At, tables
<1>2. Shape /\ SecretsKept /\ Holds(req[r]) = {}
  BY <1>1, Calm DEF Holds
<1>3. CASE End(r)
  BY <1>1, <1>2, <1>3, IdleHolds, SecretsStay DEF End
<1>4. ASSUME NEW slugs, req[r].id \in DOMAIN jobs,
             req' = [req EXCEPT ![r] =
               [op |-> "update", pc |-> "secrets", id |-> req[r].id, dto |-> req[r].dto,
                row |-> repos[req[r].id], slugs |-> slugs]]
      PROVE  SecretsKept'
  <2> DEFINE q == [op |-> "update", pc |-> "secrets", id |-> req[r].id, dto |-> req[r].dto,
                   row |-> repos[req[r].id], slugs |-> slugs]
  <2>1. Holds(q) = {}
    BY DEF Holds
  <2>2. Pending(q)
    BY <1>2, <1>4 DEF Pending, SecretsKept, Rows
  <2> HIDE DEF q
  <2>3. req' = [req EXCEPT ![r] = q]
    BY <1>4 DEF q
  <2>4. QED
    BY <1>1, <1>2, <2>1, <2>2, <2>3, SecretsStay
<1>5. QED
  BY <1>3, <1>4 DEF UpdateRead

(* An override is replaced or dropped exactly when the connection or the     *)
(* credentials change.                                                       *)
LEMMA PatchIs ==
  ASSUME NEW q, NEW fresh
  PROVE  /\ ~MovesConnection(q) => Wanted(q) = q.row.target
         /\ Orphaned(q) \in {None, q.row.override}
         /\ q.dto.creds = "set" /\ q.row.override # None /\ ~MovesConnection(q) =>
              OverridePatch(q, fresh) = {} /\ Orphaned(q) = None
         /\ q.dto.creds = "set" /\ (q.row.override = None \/ MovesConnection(q)) =>
              OverridePatch(q, fresh) = {fresh} /\ q.row.override \in {None, Orphaned(q)}
         /\ q.dto.creds # "set" =>
              \/ /\ OverridePatch(q, fresh) = {} /\ Orphaned(q) = None
                 /\ q.row.override = None \/ Wanted(q) = q.row.target
              \/ /\ OverridePatch(q, fresh) = {None}
                 /\ q.row.override \in {None, Orphaned(q)}
  BY DEF MovesConnection, Wanted, Given, Orphaned, OverridePatch

(* update merges what was entered into the override there is, or makes a     *)
(* new one.                                                                  *)
LEMMA UpdateSecretsOwns ==
  ASSUME SecretsInv, NEW r \in Requests, UpdateSecrets(r), ~history'.leaky
  PROVE  SecretsKept'
<1>1. PICK q0 : q0 = req[r]
  OBVIOUS
<1> DEFINE merge == q0.dto.creds = "set" /\ q0.row.override # None /\ ~MovesConnection(q0)
<1>2. /\ q0.op = "update" /\ q0.pc = "secrets"
      /\ UNCHANGED <<jobs, repos, targets, history>>
  BY <1>1 DEF UpdateSecrets, At
<1>3. /\ Shape /\ Separate /\ ~history.stale /\ SecretsKept /\ minted \in Nat
      /\ Pending(q0) /\ minted + 1 \notin DOMAIN secrets
  BY <1>1, <1>2, Calm DEF Bounded
<1>4. req[r] # Idle /\ q0.id \in Jobs
  BY <1>1, <1>2, UnderWay DEF SecretsInv
<1>5. PICK j \in Jobs : j = q0.id
  BY <1>4
<1>6. /\ j \in DOMAIN repos /\ q0.row = repos[j] /\ RepoFits(j) /\ Holds(q0) = {}
  BY <1>2, <1>3, <1>5 DEF Pending, SecretsKept, Holds
<1>7. PICK pw, ov : pw = repos[j].password /\ ov = repos[j].override
  OBVIOUS
<1>8. merge => ov \in DOMAIN secrets
  BY <1>6, <1>7 DEF RepoFits, Fits
<1>9. PICK q :
        /\ req' = [req EXCEPT ![r] = q] /\ q.op = "update" /\ q.pc = "write"
        /\ q.id = j /\ q.dto = q0.dto /\ q.row = q0.row
        /\ q.patch = OverridePatch(q0, minted + 1) /\ q.drop = Orphaned(q0)
  <2> DEFINE q == [op |-> "update", pc |-> "write", id |-> q0.id, dto |-> q0.dto,
                   row |-> q0.row, slugs |-> q0.slugs,
                   patch |-> OverridePatch(q0, minted + 1), drop |-> Orphaned(q0)]
  <2>1. req' = [req EXCEPT ![r] = q]
    BY <1>1, <1>6, <1>7, <1>8 DEF UpdateSecrets
  <2>2. /\ q.op = "update" /\ q.pc = "write" /\ q.id = j /\ q.dto = q0.dto /\ q.row = q0.row
        /\ q.patch = OverridePatch(q0, minted + 1) /\ q.drop = Orphaned(q0)
    BY <1>5
  <2> HIDE DEF q
  <2>3. QED
    BY <2>1, <2>2
<1>10. /\ merge => secrets' = [secrets EXCEPT ![ov] = Wanted(q0)] /\ UNCHANGED minted
       /\ q0.dto.creds = "set" /\ ~merge =>
            secrets' = Put(secrets, minted + 1, Wanted(q0)) /\ minted' = minted + 1
       /\ q0.dto.creds # "set" => UNCHANGED <<secrets, minted>>
  BY <1>1, <1>6, <1>7, <1>8 DEF UpdateSecrets, CreateSecret, Wanted
<1> HIDE DEF merge
<1>11. req'[r] = q /\ Holds(q) = q.patch /\ Wanted(q) = Wanted(q0)
  BY <1>3, <1>9, ReqMoves DEF Holds, Wanted
<1>12. /\ Held("request", r) = {} /\ Held("repo", j) = {pw, ov} \ {None}
       /\ Held("request", r)' = q.patch \ {None} /\ Held("repo", j)' = {pw, ov} \ {None}
  BY <1>1, <1>2, <1>6, <1>7, <1>11, HeldOf, HeldNext
<1>13. /\ DOMAIN repos' \subseteq Jobs /\ DOMAIN jobs' \subseteq DOMAIN repos'
       /\ \A i \in Jobs : RepoSame(i) /\ (i \in DOMAIN jobs' <=> i \in DOMAIN jobs)
       /\ j \in DOMAIN jobs'
  BY <1>1, <1>2, <1>3, <1>5, Calm DEF SecretsKept, Rows, RepoSame, Prepared
<1>14. CASE merge
  <2>1. q.patch = {} /\ q.drop = None /\ Wanted(q0) = q.row.target
    BY <1>9, <1>14, PatchIs DEF merge
  <2>2. /\ DOMAIN secrets' = DOMAIN secrets /\ secrets'[ov] = Wanted(q0)
        /\ \A s \in DOMAIN secrets \ {ov} : secrets'[s] = secrets[s]
        /\ UNCHANGED minted /\ ov \in DOMAIN secrets
    BY <1>8, <1>10, <1>14
  <2>3. ov # None /\ \A s : s \notin Held("request", r) \cup Held("repo", j) => SecretSame(s)
    BY <1>6, <1>7, <1>12, <1>14, <2>2 DEF SecretSame, merge
  <2>4. Passed(r, "repo", j)
    BY <1>12, <2>1, <2>2 DEF Passed
  <2>5. RepoFits(j)'
    BY <1>2, <1>6, <1>7, <1>9, <2>1, <2>2 DEF RepoFits, Fits
  <2>6. Pending(req[r])'
    BY <1>2, <1>6, <1>9, <1>11, <2>1 DEF Pending, Wanted
  <2>7. QED
    BY <1>1, <1>2, <1>3, <1>4, <1>5, <1>9, <1>13, <2>3, <2>4, <2>5, <2>6, JobMoves
<1>15. CASE q0.dto.creds = "set" /\ ~merge
  <2>1. q.patch = {minted + 1} /\ q.row.override \in {None, q.drop}
        /\ q.drop \in {None, q.row.override}
    BY <1>9, <1>15, PatchIs DEF merge
  <2>2. PICK s1 : s1 = minted + 1
    OBVIOUS
  <2>3. s1 # None /\ s1 \notin DOMAIN secrets /\ s1 \notin {pw, ov} /\ s1 = minted'
    <3>1. Held("repo", j) \subseteq 1..minted
      BY <1>3 DEF SecretsKept, Bounded, Sorts, Ids
    <3>2. QED
      BY <1>3, <1>10, <1>12, <1>15, <2>2, <3>1 DEF None
  <2>4. /\ DOMAIN secrets' = DOMAIN secrets \cup {s1} /\ secrets'[s1] = Wanted(q0)
        /\ \A s \in DOMAIN secrets : secrets'[s] = secrets[s]
    BY <1>10, <1>15, <2>2, <2>3 DEF Put
  <2>5. \A s : SecretSame(s)
    BY <2>4 DEF SecretSame
  <2>6. Held("request", r)' = {s1} /\ minted' \in {minted, minted + 1} /\ s1 = minted + 1
    BY <1>12, <2>1, <2>2, <2>3
  <2>7. Passed(r, "repo", j)
    BY <1>12, <2>3, <2>4, <2>6 DEF Passed
  <2>8. RepoFits(j)'
    BY <1>2, <1>6, <2>5, FitsKept DEF RepoFits
  <2>9. s1 \in 0..minted' /\ Fits(s1, Wanted(q0))'
    BY <1>3, <2>2, <2>3, <2>4 DEF Fits
  <2>10. Pending(req[r])'
    BY <1>2, <1>6, <1>9, <1>11, <2>1, <2>2, <2>9 DEF Pending, Wanted
  <2>11. QED
    BY <1>1, <1>2, <1>3, <1>4, <1>5, <1>9, <1>13, <2>5, <2>7, <2>8, <2>10, JobMoves
<1>16. CASE q0.dto.creds # "set"
  <2>1. q.patch \ {None} = {} /\ UNCHANGED <<secrets, minted>>
    BY <1>9, <1>10, <1>16, PatchIs
  <2>2. Pending(q)
    <3>1. \/ q.patch = {} /\ q.drop = None /\ (q.row.override = None \/ Wanted(q) = q.row.target)
          \/ q.patch = {None} /\ q.row.override \in {None, q.drop}
             /\ q.drop \in {None, q.row.override}
      BY <1>9, <1>11, <1>16, PatchIs
    <3>2. None \in 0..minted /\ Fits(None, Wanted(q))
      BY <1>3 DEF None, Fits
    <3>3. QED
      BY <1>6, <1>9, <3>1, <3>2 DEF Pending
  <2>3. QED
    BY <1>1, <1>2, <1>3, <1>6, <1>9, <1>11, <2>1, <2>2, SecretsStay
<1>17. QED
  BY <1>14, <1>15, <1>16 DEF merge

(* update begins.                                                            *)
LEMMA UpdateBeginOwns ==
  ASSUME SecretsInv, NEW r \in Requests, UpdateBegin(r), ~history'.leaky
  PROVE  SecretsKept'
<1>1. PICK j, d : j \in Jobs /\ Begin(r, [op |-> "update", pc |-> "read", id |-> j, dto |-> d])
  BY DEF UpdateBegin
<1> DEFINE q == [op |-> "update", pc |-> "read", id |-> j, dto |-> d]
<1>2. Holds(q) = {} /\ Pending(q)
  BY DEF Holds, Pending
<1> HIDE DEF q
<1>3. QED
  BY <1>1, <1>2, BeginsOwning DEF q

(* The next statement of a request, with what the ones before it kept.       *)
LEMMA GoesOn ==
  ASSUME Shape, NEW r \in Requests, NEW pc, req[r] # Idle, Goto(r, pc)
  PROVE  \E q : /\ req' = [req EXCEPT ![r] = q] /\ req'[r] = q
                /\ q.op = req[r].op /\ q.pc = pc /\ q.id = req[r].id
                /\ "row" \in DOMAIN req[r] => q.row = req[r].row
                /\ "drop" \in DOMAIN req[r] => q.drop = req[r].drop
<1> DEFINE q == [req[r] EXCEPT !.pc = pc]
<1>1. req' = [req EXCEPT ![r] = q]
  BY DEF Goto
<1>2. req'[r] = q
  BY <1>1, ReqMoves
<1>3. {"op", "pc", "id"} \subseteq DOMAIN req[r]
  BY DEF Shape, Shaped
<1>4. /\ q.op = req[r].op /\ q.pc = pc /\ q.id = req[r].id
      /\ "row" \in DOMAIN req[r] => q.row = req[r].row
      /\ "drop" \in DOMAIN req[r] => q.drop = req[r].drop
  BY <1>3
<1> HIDE DEF q
<1>5. QED
  BY <1>1, <1>2, <1>4

(* update writes the repository: the new override is the row's, the          *)
(* replaced one is left in its hands.                                        *)
LEMMA UpdateWriteOwns ==
  ASSUME SecretsInv, NEW r \in Requests, UpdateWrite(r), ~history'.leaky
  PROVE  SecretsKept'
<1>1. ~Throw(r)
  BY ThrowIs DEF SecretsInv, ScheduleInv, Marked
<1>2. PICK q0 : q0 = req[r]
  OBVIOUS
<1>3. /\ q0.op = "update" /\ q0.pc = "write" /\ Goto(r, "drop")
      /\ UNCHANGED <<targets, secrets, minted, history>>
  BY <1>1, <1>2 DEF UpdateWrite, At
<1>4. /\ Shape /\ Separate /\ ~history.stale /\ SecretsKept /\ minted \in Nat
      /\ Pending(q0) /\ Prepared(q0)
  BY <1>2, <1>3, Calm
<1>5. req[r] # Idle /\ q0.id \in Jobs /\ "drop" \in DOMAIN q0
  BY <1>2, <1>3, UnderWay DEF SecretsInv, Shaped
<1>6. PICK j \in Jobs : j = q0.id
  BY <1>5
<1>7. PICK q : /\ req' = [req EXCEPT ![r] = q] /\ req'[r] = q
               /\ q.op = "update" /\ q.pc = "drop" /\ q.id = j /\ q.drop = q0.drop
  BY <1>2, <1>3, <1>4, <1>5, <1>6, GoesOn
<1>8. PICK found, pw, ov, drop, patch, t :
        /\ found = repos[j] /\ pw = found.password /\ ov = found.override
        /\ drop = q0.drop /\ patch = q0.patch /\ t = Wanted(q0)
  OBVIOUS
<1>9. /\ j \in DOMAIN repos /\ j \in DOMAIN jobs /\ q0.row = found /\ RepoFits(j)
      /\ DOMAIN repos \subseteq Jobs /\ DOMAIN jobs \subseteq DOMAIN repos
  BY <1>3, <1>4, <1>6, <1>8 DEF Pending, Prepared, SecretsKept, Rows
<1>10. Fits(ov, found.target) /\ pw \notin {ov, None}
  BY <1>8, <1>9 DEF RepoFits
<1> DEFINE written == IF patch = {} THEN ov ELSE CHOOSE s \in patch : TRUE
<1>a. (patch = {} => written = ov) /\ \A s : patch = {s} => written = s
  OBVIOUS
<1> HIDE DEF written
<1>11. /\ DOMAIN repos' = DOMAIN repos /\ DOMAIN jobs' = DOMAIN jobs
       /\ \A i \in DOMAIN repos \ {j} : repos'[i] = repos[i]
       /\ repos'[j].password = pw /\ repos'[j].target = t
       /\ repos'[j].override = written
  <2>1. PICK slug, rows :
          /\ repos' = [i \in DOMAIN repos |->
               IF i # req[r].id THEN repos[i]
               ELSE [slug |-> slug, target |-> Given(req[r].dto.target, repos[i].target),
                     password |-> repos[i].password,
                     override |-> IF req[r].patch = {} THEN repos[i].override
                                  ELSE CHOOSE s \in req[r].patch : TRUE]]
          /\ DOMAIN jobs' = DOMAIN jobs
    <3>1. DOMAIN jobs' = DOMAIN jobs
      BY <1>1 DEF UpdateWrite
    <3>2. repos' = [i \in DOMAIN repos |->
               IF i # req[r].id THEN repos[i]
               ELSE [slug |-> IF req[r].slugs = <<>> THEN repos[i].slug ELSE req[r].slugs[2],
                     target |-> Given(req[r].dto.target, repos[i].target),
                     password |-> repos[i].password,
                     override |-> IF req[r].patch = {} THEN repos[i].override
                                  ELSE CHOOSE s \in req[r].patch : TRUE]]
      BY <1>1 DEF UpdateWrite
    <3>3. repos' = [i \in DOMAIN repos |->
               IF i # req[r].id THEN repos[i]
               ELSE [slug |-> IF req[r].slugs = <<>> THEN repos[j].slug ELSE req[r].slugs[2],
                     target |-> Given(req[r].dto.target, repos[i].target),
                     password |-> repos[i].password,
                     override |-> IF req[r].patch = {} THEN repos[i].override
                                  ELSE CHOOSE s \in req[r].patch : TRUE]]
      BY <1>2, <1>6, <3>2
    <3>4. QED
      BY <3>1, <3>3
  <2>2. t = Given(req[r].dto.target, repos[j].target)
    BY <1>2, <1>8, <1>9 DEF Wanted
  <2>3. req[r].id = j /\ req[r].patch = patch
    BY <1>2, <1>6, <1>8
  <2>4. repos'[j] = [slug |-> slug, target |-> t, password |-> pw,
                     override |-> written]
    BY <1>8, <1>9, <2>1, <2>2, <2>3 DEF written
  <2>5. DOMAIN repos' = DOMAIN repos /\ \A i \in DOMAIN repos \ {j} : repos'[i] = repos[i]
    BY <2>1, <2>3
  <2>6. QED
    BY <2>1, <2>4, <2>5
<1>12. \A s : SecretSame(s)
  BY <1>3 DEF SecretSame
<1>13. \A i \in Jobs \ {j} : RepoSame(i) /\ (i \in DOMAIN jobs' <=> i \in DOMAIN jobs)
  BY <1>11 DEF RepoSame
<1>14. Holds(q0) = patch /\ Holds(q) = {drop} /\ Pending(req[r])'
  BY <1>3, <1>7, <1>8 DEF Holds, Pending
<1>15. /\ Held("request", r) = patch \ {None} /\ Held("repo", j) = {pw, ov} \ {None}
       /\ Held("request", r)' = {drop} \ {None}
       /\ Held("repo", j)' = {pw, repos'[j].override} \ {None}
  <2>1. Held("request", r) = patch \ {None} /\ Held("repo", j) = {pw, ov} \ {None}
    BY <1>2, <1>8, <1>9, <1>14, HeldOf
  <2>2. Held("request", r)' = {drop} \ {None}
    BY <1>7, <1>14, HeldNext
  <2>3. Held("repo", j)' = {pw, repos'[j].override} \ {None}
    BY <1>9, <1>11, HeldNext
  <2>4. QED
    BY <2>1, <2>2, <2>3
<1>16. Held("request", r) \cap Held("repo", j) = {}
  BY <1>4 DEF SecretsKept, OneOwner, Sorts, Ids
<1>17. Passed(r, "repo", j) /\ RepoFits(j)'
  <2>1. CASE patch = {} /\ drop = None /\ (ov = None \/ t = found.target)
    <3>1. repos'[j].override = ov
      BY <1>a, <1>11, <2>1
    <3>2. Passed(r, "repo", j)
      BY <1>3, <1>15, <2>1, <3>1 DEF Passed
    <3>3. Fits(ov, t)'
      BY <1>3, <1>10, <2>1 DEF Fits
    <3>4. QED
      BY <1>10, <1>11, <3>1, <3>2, <3>3 DEF RepoFits, Fits
  <2>2. ASSUME NEW s, patch = {s}, Fits(s, t), ov \in {None, drop}, drop \in {None, ov}
        PROVE  Passed(r, "repo", j) /\ RepoFits(j)'
    <3>1. repos'[j].override = s /\ drop = ov
      BY <1>a, <1>11, <2>2
    <3>2. pw # s /\ (s = ov => s = None)
      BY <1>10, <1>15, <1>16, <2>2
    <3>3. Passed(r, "repo", j)
      BY <1>3, <1>10, <1>15, <2>2, <3>1, <3>2 DEF Passed
    <3>4. Fits(s, t)'
      BY <1>3, <2>2 DEF Fits
    <3>5. QED
      BY <1>10, <1>11, <3>1, <3>2, <3>3, <3>4 DEF RepoFits, Fits
  <2>3. QED
    BY <1>3, <1>4, <1>8, <1>9, <2>1, <2>2 DEF Pending
<1>18. DOMAIN repos' \subseteq Jobs /\ DOMAIN jobs' \subseteq DOMAIN repos' /\ j \in DOMAIN jobs'
  BY <1>9, <1>11
<1>19. QED
  BY <1>2, <1>3, <1>4, <1>5, <1>6, <1>7, <1>12, <1>13, <1>14, <1>17, <1>18, JobMoves

(* A request deletes a secret it holds, which no row refers to any more.     *)
LEMMA JobDeletes ==
  ASSUME Shape, Separate, ~history.stale, SecretsKept, NEW r \in Requests, req[r] # Idle,
         NEW q, req' = [req EXCEPT ![r] = q], NEW j \in Jobs, req[r].id = j,
         UNCHANGED <<jobs, repos, targets, minted>>,
         NEW d \in Holds(req[r]), secrets' = Del(secrets, d),
         Holds(q) \subseteq Holds(req[r]), Holds(req[r]) \subseteq Holds(q) \cup {d},
         ~(req[r].op = "remove" /\ req[r].pc = "repository"), Pending(req[r])'
  PROVE  SecretsKept'
<1>1. req'[r] = q
  BY ReqMoves
<1>2. PICK h, g, m : /\ h = Holds(req[r]) \ {None} /\ g = Holds(q) \ {None}
                     /\ m = Held("repo", j)
  OBVIOUS
<1>3. Held("request", r) = h /\ Held("request", r)' = g
  BY <1>1, <1>2, HeldOf, HeldNext
<1>4. Held("repo", j)' = m
  BY <1>2 DEF Held
<1>5. h \cap m = {}
  BY <1>2, <1>3 DEF SecretsKept, OneOwner, Sorts, Ids
<1>6. /\ DOMAIN secrets' = DOMAIN secrets \ {d}
      /\ \A s \in DOMAIN secrets \ {d} : secrets'[s] = secrets[s]
  BY DEF Del
<1>7. minted' = minted /\ g \subseteq h /\ h \subseteq g \cup {d}
  BY <1>2
<1>8. Passed(r, "repo", j)
  BY <1>2, <1>3, <1>4, <1>5, <1>6, <1>7 DEF Passed
<1>9. None \notin DOMAIN secrets
  BY DEF SecretsKept, Bounded, None
<1>10. \A s : s \notin h => SecretSame(s)
  BY <1>2, <1>6, <1>9 DEF SecretSame
<1>11. j \in DOMAIN repos => RepoFits(j)'
  <2> SUFFICES ASSUME j \in DOMAIN repos PROVE RepoFits(j)'
    OBVIOUS
  <2>1. RepoFits(j) /\ (repos[j].override # None => repos[j].override \in m)
    BY <1>2, HeldOf DEF SecretsKept
  <2>2. repos[j].override = None \/ SecretSame(repos[j].override)
    BY <1>5, <1>10, <2>1
  <2>3. QED
    BY <2>1, <2>2, FitsKept DEF RepoFits
<1>12. j \in DOMAIN repos => j \in DOMAIN jobs
  BY OthersApart, IdleHolds DEF SecretsKept, Rows, Idle
<1>13. \A i \in Jobs \ {j} : RepoSame(i) /\ (i \in DOMAIN jobs' <=> i \in DOMAIN jobs)
  BY DEF RepoSame
<1>14. DOMAIN repos' \subseteq Jobs /\ DOMAIN jobs' \subseteq DOMAIN repos'
  BY DEF SecretsKept, Rows
<1>15. \A s : s \notin Held("request", r) \cup Held("repo", j) => SecretSame(s)
  BY <1>3, <1>10
<1>16. QED
  BY <1>8, <1>11, <1>12, <1>13, <1>14, <1>15, JobMoves

(* update deletes the override it replaced.                                  *)
LEMMA UpdateDropOwns ==
  ASSUME SecretsInv, NEW r \in Requests, UpdateDrop(r), ~history'.leaky
  PROVE  SecretsKept'
<1>1. ~Throw(r)
  BY ThrowIs DEF SecretsInv, ScheduleInv, Marked
<1>2. /\ req[r].op = "update" /\ req[r].pc = "drop"
      /\ secrets' = Del(secrets, req[r].drop)
      /\ UNCHANGED <<jobs, repos, targets, minted, history>>
  BY <1>1 DEF UpdateDrop, At, RemoveSecret
<1>3. Shape /\ Separate /\ ~history.stale /\ SecretsKept
  BY <1>2, Calm
<1>4. req[r] # Idle /\ req[r].id \in Jobs
  BY <1>2, UnderWay DEF SecretsInv
<1>5. PICK q : req' = [req EXCEPT ![r] = q] /\ q.op \in {"none", "sync"}
  <2>1. Idle.op = "none" /\ ThenSync(req[r].id).op = "sync"
    BY DEF Idle, ThenSync
  <2>2. \/ req' = [req EXCEPT ![r] = ThenSync(req[r].id)]
        \/ req' = [req EXCEPT ![r] = Idle]
    BY <1>1 DEF UpdateDrop
  <2>3. QED
    BY <2>1, <2>2
<1>6. Holds(q) = {} /\ Holds(req[r]) = {req[r].drop}
  BY <1>2, <1>5, HoldsNothing DEF Holds
<1>7. Pending(req[r])'
  <2>1. req'[r] = q
    BY <1>3, <1>5, ReqMoves
  <2>2. QED
    BY <1>5, <2>1 DEF Pending
<1>8. QED
  BY <1>2, <1>3, <1>4, <1>5, <1>6, <1>7, JobDeletes

(* JobsService.setIntegrityCheck is about no secret.                         *)
LEMMA SetIntegrityCheckOwns ==
  ASSUME SecretsInv, NEW r \in Requests, SetIntegrityCheck(r), ~history'.leaky
  PROVE  SecretsKept'
<1>1. PICK j, c :
        /\ j \in DOMAIN jobs
        /\ req[r] = Idle /\ jobs' = [jobs EXCEPT ![j].check = c]
        /\ req' = [req EXCEPT ![r] = ThenSync(j)]
        /\ history' = IF Meets([op |-> "sync", id |-> j])
                      THEN [history EXCEPT !.stale = TRUE, !.leaky = TRUE] ELSE history
        /\ UNCHANGED <<repos, targets, secrets, minted>>
  BY DEF SetIntegrityCheck
<1>2. history' = history
  BY <1>1, MarkIs DEF SecretsInv, ScheduleInv, Marked
<1>3. Shape /\ SecretsKept
  BY <1>2, Calm
<1>4. PICK q : q = ThenSync(j)
  OBVIOUS
<1>5. q.op = "sync" /\ Holds(q) = {} /\ Pending(q)
  BY <1>4, HoldsNothing DEF ThenSync
<1>6. Holds(req[r]) = {} /\ req[r].op = "none"
  BY <1>1, IdleHolds DEF Idle
<1>7. DOMAIN jobs' = DOMAIN jobs
  BY <1>1
<1>8. QED
  BY <1>1, <1>3, <1>4, <1>5, <1>6, <1>7, SecretsStay

(* JobsService.remove                                                        *)
LEMMA RemoveBeginOwns ==
  ASSUME SecretsInv, NEW r \in Requests, RemoveBegin(r), ~history'.leaky
  PROVE  SecretsKept'
<1>1. PICK j \in Jobs : Begin(r, [op |-> "remove", pc |-> "read", id |-> j])
  BY DEF RemoveBegin
<1> DEFINE q == [op |-> "remove", pc |-> "read", id |-> j]
<1>2. Holds(q) = {} /\ Pending(q)
  BY DEF Holds, Pending
<1> HIDE DEF q
<1>3. QED
  BY <1>1, <1>2, BeginsOwning DEF q

(* remove reads the job and remembers the repository row.                    *)
LEMMA RemoveReadOwns ==
  ASSUME SecretsInv, NEW r \in Requests, RemoveRead(r), ~history'.leaky
  PROVE  SecretsKept'
<1>1. /\ req[r].op = "remove" /\ req[r].pc = "read"
      /\ UNCHANGED <<jobs, repos, targets, secrets, minted, history>>
  BY DEF RemoveRead, At, tables
<1>2. Shape /\ SecretsKept /\ Holds(req[r]) = {}
  BY <1>1, Calm DEF Holds
<1>3. CASE End(r)
  BY <1>1, <1>2, <1>3, IdleHolds, SecretsStay DEF End
<1>4. CASE /\ req[r].id \in DOMAIN jobs
           /\ req' = [req EXCEPT ![r] =
                [op |-> "remove", pc |-> "job", id |-> req[r].id, row |-> repos[req[r].id]]]
  <2> DEFINE q == [op |-> "remove", pc |-> "job", id |-> req[r].id,
                   row |-> repos[req[r].id]]
  <2>1. Holds(q) = {}
    BY DEF Holds
  <2>2. Pending(q)
    BY <1>2, <1>4 DEF Pending, SecretsKept, Rows
  <2> HIDE DEF q
  <2>3. req' = [req EXCEPT ![r] = q]
    BY <1>4 DEF q
  <2>4. QED
    BY <1>1, <1>2, <2>1, <2>2, <2>3, SecretsStay
<1>5. QED
  BY <1>3, <1>4 DEF RemoveRead

(* remove deletes the job; the repository outlives it for one statement.     *)
LEMMA RemoveJobOwns ==
  ASSUME SecretsInv, NEW r \in Requests, RemoveJob(r), ~history'.leaky
  PROVE  SecretsKept'
<1>1. /\ req[r].op = "remove" /\ req[r].pc = "job" /\ Goto(r, "repository")
      /\ jobs' = Del(jobs, req[r].id) /\ UNCHANGED <<repos, targets, secrets, minted, history>>
  BY DEF RemoveJob, At
<1>2. Shape /\ Separate /\ ~history.stale /\ SecretsKept /\ minted \in Nat /\ Pending(req[r])
  BY <1>1, Calm
<1>3. req[r] # Idle /\ req[r].id \in Jobs /\ "row" \in DOMAIN req[r]
  BY <1>1, UnderWay DEF SecretsInv, Shaped
<1>4. PICK j \in Jobs : j = req[r].id
  BY <1>3
<1>5. PICK q : /\ req' = [req EXCEPT ![r] = q] /\ req'[r] = q /\ q.op = "remove"
               /\ q.pc = "repository" /\ q.id = j /\ q.row = req[r].row
  BY <1>1, <1>2, <1>3, <1>4, GoesOn
<1>6. j \in DOMAIN repos /\ req[r].row = repos[j]
  BY <1>1, <1>2, <1>4 DEF Pending
<1>7. Holds(req[r]) = {} /\ Holds(q) = {}
  BY <1>1, <1>5 DEF Holds
<1>8. Pending(req[r])'
  BY <1>1, <1>5, <1>6 DEF Pending
<1>9. PICK m : m = Held("repo", j)
  OBVIOUS
<1>10. Held("request", r) = {} /\ Held("request", r)' = {}
  BY <1>5, <1>7, HeldOf, HeldNext
<1>11. Held("repo", j)' = m
  BY <1>1, <1>9 DEF Held
<1>12. Passed(r, "repo", j)
  BY <1>1, <1>9, <1>10, <1>11 DEF Passed
<1>13. \A s : SecretSame(s)
  BY <1>1 DEF SecretSame
<1>14. RepoFits(j)'
  BY <1>1, <1>2, <1>6 DEF SecretsKept, RepoFits, Fits
<1>15. DOMAIN jobs' = DOMAIN jobs \ {j}
  BY <1>1, <1>4 DEF Del
<1>16. /\ \A i \in Jobs \ {j} : RepoSame(i) /\ (i \in DOMAIN jobs' <=> i \in DOMAIN jobs)
       /\ DOMAIN repos' \subseteq Jobs /\ DOMAIN jobs' \subseteq DOMAIN repos'
  BY <1>1, <1>2, <1>15 DEF RepoSame, SecretsKept, Rows
<1>17. QED
  BY <1>1, <1>2, <1>3, <1>4, <1>5, <1>8, <1>12, <1>13, <1>14, <1>16, JobMoves

(* remove deletes the repository: both its secrets are left in its hands.    *)
LEMMA RemoveRepositoryOwns ==
  ASSUME SecretsInv, NEW r \in Requests, RemoveRepository(r), ~history'.leaky
  PROVE  SecretsKept'
<1>1. /\ req[r].op = "remove" /\ req[r].pc = "repository" /\ Goto(r, "password")
      /\ repos' = Del(repos, req[r].id) /\ UNCHANGED <<jobs, targets, secrets, minted, history>>
  BY DEF RemoveRepository, At
<1>2. /\ Shape /\ Separate /\ ~history.stale /\ SecretsKept /\ minted \in Nat
      /\ Pending(req[r]) /\ Prepared(req[r])
  BY <1>1, Calm
<1>3. req[r] # Idle /\ req[r].id \in Jobs /\ "row" \in DOMAIN req[r]
  BY <1>1, UnderWay DEF SecretsInv, Shaped
<1>4. PICK j \in Jobs : j = req[r].id
  BY <1>3
<1>5. PICK q : /\ req' = [req EXCEPT ![r] = q] /\ req'[r] = q /\ q.op = "remove"
               /\ q.pc = "password" /\ q.id = j /\ q.row = req[r].row
  BY <1>1, <1>2, <1>3, <1>4, GoesOn
<1>6. j \in DOMAIN repos /\ req[r].row = repos[j] /\ j \notin DOMAIN jobs
  BY <1>1, <1>2, <1>4 DEF Pending, Prepared, Removing
<1>7. PICK pw, ov : pw = repos[j].password /\ ov = repos[j].override
  OBVIOUS
<1>8. Holds(req[r]) = {} /\ Holds(q) = {pw, ov} /\ Pending(req[r])'
  BY <1>1, <1>5, <1>6, <1>7 DEF Holds, Pending
<1>9. DOMAIN repos' = DOMAIN repos \ {j} /\ \A i \in DOMAIN repos \ {j} : repos'[i] = repos[i]
  BY <1>1, <1>4 DEF Del
<1>10. Held("request", r) = {} /\ Held("repo", j) = {pw, ov} \ {None}
  BY <1>6, <1>7, <1>8, HeldOf
<1>11. Held("request", r)' = {pw, ov} \ {None} /\ Held("repo", j)' = {}
  BY <1>5, <1>8, <1>9, HeldNext
<1>12. Passed(r, "repo", j)
  BY <1>1, <1>10, <1>11 DEF Passed
<1>13. \A s : SecretSame(s)
  BY <1>1 DEF SecretSame
<1>14. /\ \A i \in Jobs \ {j} : RepoSame(i) /\ (i \in DOMAIN jobs' <=> i \in DOMAIN jobs)
       /\ DOMAIN repos' \subseteq Jobs /\ DOMAIN jobs' \subseteq DOMAIN repos'
       /\ j \notin DOMAIN repos'
  BY <1>1, <1>2, <1>6, <1>9 DEF RepoSame, SecretsKept, Rows
<1>15. QED
  BY <1>1, <1>2, <1>3, <1>4, <1>5, <1>8, <1>12, <1>13, <1>14, JobMoves

(* remove deletes the password; a restore run that refers to it makes the    *)
(* request fail.                                                             *)
LEMMA RemovePasswordOwns ==
  ASSUME SecretsInv, NEW r \in Requests, RemovePassword(r), ~history'.leaky
  PROVE  SecretsKept'
<1>1. /\ req[r].op = "remove" /\ req[r].pc = "password" /\ Goto(r, "override")
      /\ secrets' = Del(secrets, req[r].row.password)
      /\ UNCHANGED <<jobs, repos, targets, minted, history>>
  BY DEF RemovePassword, At, RemoveSecret
<1>2. Shape /\ Separate /\ ~history.stale /\ SecretsKept
  BY <1>1, Calm
<1>3. req[r] # Idle /\ req[r].id \in Jobs /\ "row" \in DOMAIN req[r]
  BY <1>1, UnderWay DEF SecretsInv, Shaped
<1>4. PICK q : /\ req' = [req EXCEPT ![r] = q] /\ req'[r] = q /\ q.op = "remove"
               /\ q.pc = "override" /\ q.row = req[r].row
  BY <1>1, <1>2, <1>3, GoesOn
<1>5. PICK pw, ov : pw = req[r].row.password /\ ov = req[r].row.override
  OBVIOUS
<1>6. Holds(req[r]) = {pw, ov} /\ Holds(q) = {ov} /\ Pending(req[r])'
  BY <1>1, <1>4, <1>5 DEF Holds, Pending
<1>7. QED
  BY <1>1, <1>2, <1>3, <1>4, <1>5, <1>6, JobDeletes

(* remove deletes the override.                                              *)
LEMMA RemoveOverrideOwns ==
  ASSUME SecretsInv, NEW r \in Requests, RemoveOverride(r), ~history'.leaky
  PROVE  SecretsKept'
<1>1. /\ req[r].op = "remove" /\ req[r].pc = "override" /\ Goto(r, "unregister")
      /\ secrets' = Del(secrets, req[r].row.override)
      /\ UNCHANGED <<jobs, repos, targets, minted, history>>
  BY DEF RemoveOverride, At, RemoveSecret
<1>2. Shape /\ Separate /\ ~history.stale /\ SecretsKept
  BY <1>1, Calm
<1>3. req[r] # Idle /\ req[r].id \in Jobs
  BY <1>1, UnderWay DEF SecretsInv
<1>4. PICK q : /\ req' = [req EXCEPT ![r] = q] /\ req'[r] = q /\ q.op = "remove"
               /\ q.pc = "unregister"
  BY <1>1, <1>2, <1>3, GoesOn
<1>5. Holds(req[r]) = {req[r].row.override} /\ Holds(q) = {} /\ Pending(req[r])'
  BY <1>1, <1>4 DEF Holds, Pending
<1>6. QED
  BY <1>1, <1>2, <1>3, <1>4, <1>5, JobDeletes

(* remove ends with the registrations.                                       *)
LEMMA RemoveUnregisterOwns ==
  ASSUME SecretsInv, NEW r \in Requests, RemoveUnregister(r), ~history'.leaky
  PROVE  SecretsKept'
<1>1. /\ req[r].op = "remove" /\ req[r].pc = "unregister" /\ req' = [req EXCEPT ![r] = Idle]
      /\ UNCHANGED <<jobs, repos, targets, secrets, minted, history>>
  BY DEF RemoveUnregister, At, End, tables
<1>2. Shape /\ SecretsKept /\ Holds(req[r]) = {}
  BY <1>1, Calm DEF Holds
<1>3. QED
  BY <1>1, <1>2, IdleHolds, SecretsStay

(* SchedulerService: no secret is concerned.                                 *)
LEMMA SchedulerOwns ==
  ASSUME SecretsInv, NEW r \in Requests, SchedulerNext(r), ~history'.leaky
  PROVE  SecretsKept'
<1>1. CASE SyncAllBegin(r)
  <2> DEFINE q == [op |-> "sync", pc |-> "clear", id |-> "all"]
  <2>1. Holds(q) = {} /\ Pending(q)
    BY HoldsNothing
  <2>2. Begin(r, q)
    BY <1>1 DEF SyncAllBegin
  <2> HIDE DEF q
  <2>3. QED
    BY <2>1, <2>2, BeginsOwning
<1>2. CASE ~SyncAllBegin(r)
  <2>1. /\ req[r].op = "sync"
        /\ UNCHANGED <<jobs, repos, targets, secrets, minted, history>>
    BY <1>2 DEF SchedulerNext, SyncUnregister, SyncRow, SyncRegister, SyncAllClear, SyncAllRows,
       At, tables
  <2>2. Shape /\ SecretsKept /\ Holds(req[r]) = {} /\ req[r] # Idle
    BY <2>1, Calm, HoldsNothing, UnderWay DEF SecretsInv
  <2>3. PICK q : req' = [req EXCEPT ![r] = q] /\ q.op \in {"none", "sync"}
    <3>1. ASSUME NEW pc, Goto(r, pc)
          PROVE  \E q : req' = [req EXCEPT ![r] = q] /\ q.op \in {"none", "sync"}
      BY <2>1, <2>2, <3>1, GoesOn
    <3>2. CASE End(r)
      <4>1. Idle.op = "none"
        BY DEF Idle
      <4>2. QED
        BY <3>2, <4>1 DEF End
    <3>3. ASSUME NEW i, NEW rows,
                 req' = [req EXCEPT ![r] =
                   [op |-> "sync", pc |-> "register", id |-> i, rows |-> rows]]
          PROVE  \E q : req' = [req EXCEPT ![r] = q] /\ q.op \in {"none", "sync"}
      <4> DEFINE q == [op |-> "sync", pc |-> "register", id |-> i, rows |-> rows]
      <4>1. req' = [req EXCEPT ![r] = q] /\ q.op = "sync"
        BY <3>3
      <4> HIDE DEF q
      <4>2. QED
        BY <4>1
    <3>4. CASE SyncRow(r) \/ SyncAllRows(r)
      <4>1. CASE SyncRow(r)
        BY <3>3, <4>1 DEF SyncRow
      <4>2. CASE SyncAllRows(r)
        BY <3>3, <4>2 DEF SyncAllRows
      <4>3. QED
        BY <3>4, <4>1, <4>2
    <3>5. QED
      BY <1>2, <3>1, <3>2, <3>4 DEF SchedulerNext, SyncUnregister, SyncRegister, SyncAllClear
  <2>4. Holds(q) = {} /\ Pending(q)
    BY <2>3, HoldsNothing
  <2>5. QED
    BY <2>1, <2>2, <2>3, <2>4, SecretsStay
<1>3. QED
  BY <1>1, <1>2

(* TargetsService                                                            *)
LEMMA TargetBeginOwns ==
  ASSUME SecretsInv, NEW r \in Requests, TargetBegin(r), ~history'.leaky
  PROVE  SecretsKept'
<1>1. PICK t \in Targets, op \in {"newTarget", "editTarget", "dropTarget"} :
        /\ op = "newTarget" => t \notin DOMAIN targets
        /\ Begin(r, [op |-> op, pc |-> "read", id |-> t])
  BY DEF TargetBegin
<1> DEFINE q == [op |-> op, pc |-> "read", id |-> t]
<1>2. Holds(q) = {} /\ Pending(q)
  BY <1>1 DEF Holds, Pending
<1> HIDE DEF q
<1>3. QED
  BY <1>1, <1>2, BeginsOwning DEF q

(* The service of connections makes the secret first, if the backend has     *)
(* secret fields.                                                            *)
LEMMA TargetCreateSecretOwns ==
  ASSUME SecretsInv, NEW r \in Requests, TargetCreateSecret(r), ~history'.leaky
  PROVE  SecretsKept'
<1>1. /\ req[r].op = "newTarget" /\ req[r].pc = "read"
      /\ UNCHANGED <<jobs, repos, targets, history>>
  BY DEF TargetCreateSecret, At
<1>2. /\ Shape /\ Separate /\ ~history.stale /\ SecretsKept /\ minted \in Nat
      /\ Pending(req[r]) /\ minted + 1 \notin 0..minted
  BY <1>1, Calm
<1>3. req[r] # Idle /\ req[r].id \in Targets
  BY <1>1, UnderWay DEF SecretsInv
<1>4. PICK t \in Targets : t = req[r].id
  BY <1>3
<1>5. PICK q : /\ req' = [req EXCEPT ![r] = q]
               /\ q.op = "newTarget" /\ q.pc = "insert" /\ q.id = t
               /\ \/ CreateSecret("own") /\ q.fresh = minted + 1
                  \/ UNCHANGED <<secrets, minted>> /\ q.fresh = None
  <2>1. PICK f : /\ req' = [req EXCEPT ![r] = [op |-> "newTarget", pc |-> "insert", id |-> @.id,
                                               fresh |-> f]]
                 /\ \/ CreateSecret("own") /\ f = minted + 1
                    \/ UNCHANGED <<secrets, minted>> /\ f = None
    BY DEF TargetCreateSecret
  <2> DEFINE q == [op |-> "newTarget", pc |-> "insert", id |-> req[r].id, fresh |-> f]
  <2>2. /\ req' = [req EXCEPT ![r] = q] /\ q.op = "newTarget" /\ q.pc = "insert" /\ q.id = t
        /\ q.fresh = f
    BY <1>4, <2>1
  <2> HIDE DEF q
  <2>3. QED
    BY <2>1, <2>2
<1>6. t \notin DOMAIN targets /\ Holds(req[r]) = {} /\ Holds(q) = {q.fresh}
  BY <1>1, <1>2, <1>4, <1>5 DEF Pending, Holds
<1>7. req'[r] = q
  BY <1>2, <1>5, ReqMoves
<1>8. Pending(req[r])'
  BY <1>1, <1>5, <1>6, <1>7 DEF Pending
<1>9. CASE CreateSecret("own") /\ q.fresh = minted + 1
  <2>1. PICK s1 : s1 = minted + 1
    OBVIOUS
  <2>2. /\ q.fresh = s1 /\ s1 # None /\ minted' = s1 /\ s1 \notin DOMAIN secrets
        /\ secrets' = Put(secrets, s1, "own")
    BY <1>2, <1>5, <1>9, <2>1 DEF CreateSecret, None, SecretsKept, Bounded
  <2>3. /\ DOMAIN secrets' = DOMAIN secrets \cup {s1}
        /\ \A s \in DOMAIN secrets : secrets'[s] = secrets[s]
    BY <2>2 DEF Put
  <2>4. Held("request", r) = {} /\ Held("target", t) = {}
    BY <1>6, HeldOf
  <2>5. Held("request", r)' = {s1} /\ Held("target", t)' = {}
    BY <1>1, <1>6, <1>7, <2>2, HeldNext
  <2>6. Passed(r, "target", t)
    BY <2>1, <2>2, <2>3, <2>4, <2>5 DEF Passed
  <2>7. \A s : SecretSame(s)
    BY <2>3 DEF SecretSame
  <2>8. DOMAIN targets' \subseteq Targets /\ \A i \in Targets : TargetSame(i)
    BY <1>1, <1>2 DEF SecretsKept, Rows, TargetSame
  <2>9. QED
    BY <1>1, <1>2, <1>3, <1>4, <1>5, <1>6, <1>8, <2>6, <2>7, <2>8, TargetMoves
<1>10. CASE UNCHANGED <<secrets, minted>> /\ q.fresh = None
  <2>1. Holds(q) \ {None} = {} /\ UNCHANGED <<secrets, minted>>
    BY <1>5, <1>6, <1>10
  <2>2. Pending(q)
    BY <1>5, <1>6 DEF Pending
  <2>3. QED
    BY <1>1, <1>2, <1>5, <1>6, <2>1, <2>2, SecretsStay
<1>11. QED
  BY <1>5, <1>9, <1>10

(* It then inserts the connection, whose secret it is.                       *)
LEMMA TargetInsertOwns ==
  ASSUME SecretsInv, NEW r \in Requests, TargetInsert(r), ~history'.leaky
  PROVE  SecretsKept'
<1>1. /\ req[r].op = "newTarget" /\ req[r].pc = "insert" /\ req' = [req EXCEPT ![r] = Idle]
      /\ targets' = Put(targets, req[r].id, [credential |-> req[r].fresh])
      /\ UNCHANGED <<jobs, repos, secrets, minted, history>>
  BY DEF TargetInsert, At, End
<1>2. Shape /\ Separate /\ ~history.stale /\ SecretsKept /\ minted \in Nat /\ Pending(req[r])
  BY <1>1, Calm
<1>3. req[r] # Idle /\ req[r].id \in Targets
  BY <1>1, UnderWay DEF SecretsInv
<1>4. PICK t, s : t \in Targets /\ t = req[r].id /\ s = req[r].fresh
  BY <1>3
<1>5. t \notin DOMAIN targets /\ Holds(req[r]) = {s}
  BY <1>1, <1>2, <1>4 DEF Pending, Holds
<1>6. req'[r] = Idle
  BY <1>1, <1>2, ReqMoves
<1>7. Pending(req[r])'
  BY <1>6 DEF Pending, Idle
<1>8. /\ DOMAIN targets' = DOMAIN targets \cup {t}
      /\ targets'[t] = [credential |-> s] /\ \A i \in DOMAIN targets : targets'[i] = targets[i]
  BY <1>1, <1>4, <1>5 DEF Put
<1>9. Held("request", r) = {s} \ {None} /\ Held("target", t) = {}
  BY <1>5, HeldOf
<1>10. Held("request", r)' = {} /\ Held("target", t)' = {s} \ {None}
  BY <1>6, <1>8, IdleHolds, HeldNext
<1>11. Passed(r, "target", t)
  BY <1>1, <1>9, <1>10 DEF Passed
<1>12. \A s2 : SecretSame(s2)
  BY <1>1 DEF SecretSame
<1>13. /\ DOMAIN targets' \subseteq Targets /\ \A i \in Targets \ {t} : TargetSame(i)
       /\ "credential" \in DOMAIN targets'[t]
  BY <1>2, <1>4, <1>8 DEF SecretsKept, Rows, TargetSame
<1>14. QED
  BY <1>1, <1>2, <1>3, <1>4, <1>7, <1>11, <1>12, <1>13, TargetMoves

(* New credentials go into the secret there is; a connection without one     *)
(* gets a new one.                                                           *)
LEMMA TargetUpdateSecretOwns ==
  ASSUME SecretsInv, NEW r \in Requests, TargetUpdateSecret(r), ~history'.leaky
  PROVE  SecretsKept'
<1>1. /\ req[r].op = "editTarget" /\ req[r].pc = "read"
      /\ UNCHANGED <<jobs, repos, targets, history>>
  BY DEF TargetUpdateSecret, At
<1>2. /\ Shape /\ Separate /\ ~history.stale /\ SecretsKept /\ minted \in Nat
      /\ Pending(req[r]) /\ minted + 1 \notin 0..minted /\ Holds(req[r]) = {}
  BY <1>1, Calm DEF Holds
<1>3. req[r] # Idle /\ req[r].id \in Targets
  BY <1>1, UnderWay DEF SecretsInv
<1>4. PICK t \in Targets : t = req[r].id
  BY <1>3
<1>5. CASE End(r) /\ UNCHANGED <<secrets, minted>>
  BY <1>1, <1>2, <1>5, IdleHolds, SecretsStay DEF End
<1>6. CASE Goto(r, "done") /\ UNCHANGED <<secrets, minted>>
  <2>1. PICK q : req' = [req EXCEPT ![r] = q] /\ q.op = "editTarget" /\ q.pc = "done"
    BY <1>1, <1>2, <1>3, <1>6, GoesOn
  <2>2. Holds(q) = {} /\ Pending(q)
    BY <2>1 DEF Holds, Pending
  <2>3. QED
    BY <1>1, <1>2, <1>6, <2>1, <2>2, SecretsStay
<1>7. CASE /\ t \in DOMAIN targets /\ targets[t].credential = None /\ CreateSecret("own")
           /\ req' = [req EXCEPT ![r] =
                [op |-> "editTarget", pc |-> "write", id |-> t, fresh |-> minted + 1]]
  <2>1. PICK s1 : s1 = minted + 1
    OBVIOUS
  <2>2. PICK q : q = [op |-> "editTarget", pc |-> "write", id |-> t, fresh |-> s1]
    OBVIOUS
  <2>3. req' = [req EXCEPT ![r] = q] /\ req'[r] = q
    BY <1>2, <1>7, <2>1, <2>2, ReqMoves
  <2>4. /\ s1 # None /\ minted' = s1 /\ s1 \notin DOMAIN secrets
        /\ secrets' = Put(secrets, s1, "own")
    BY <1>2, <1>7, <2>1 DEF CreateSecret, None, SecretsKept, Bounded
  <2>5. /\ DOMAIN secrets' = DOMAIN secrets \cup {s1}
        /\ \A s \in DOMAIN secrets : secrets'[s] = secrets[s]
    BY <2>4 DEF Put
  <2>6. Holds(q) = {s1} /\ Pending(req[r])'
    BY <1>1, <1>7, <2>2, <2>3 DEF Holds, Pending
  <2>7. Held("request", r) = {} /\ Held("target", t) = {}
    BY <1>2, <1>7, HeldOf
  <2>8. Held("request", r)' = {s1} /\ Held("target", t)' = {}
    BY <1>1, <1>7, <2>3, <2>4, <2>6, HeldNext
  <2>9. Passed(r, "target", t)
    BY <2>1, <2>4, <2>5, <2>7, <2>8 DEF Passed
  <2>10. \A s : SecretSame(s)
    BY <2>5 DEF SecretSame
  <2>11. /\ DOMAIN targets' \subseteq Targets /\ \A i \in Targets : TargetSame(i)
         /\ "credential" \in DOMAIN targets'[t]
    BY <1>1, <1>2, <1>7 DEF SecretsKept, Rows, TargetSame
  <2>12. QED
    BY <1>1, <1>2, <1>3, <1>4, <2>3, <2>6, <2>9, <2>10, <2>11, TargetMoves
<1>8. QED
  BY <1>4, <1>5, <1>6, <1>7 DEF TargetUpdateSecret

(* The new secret is written into the connection, which had none.            *)
LEMMA TargetUpdateWriteOwns ==
  ASSUME SecretsInv, NEW r \in Requests, TargetUpdateWrite(r), ~history'.leaky
  PROVE  SecretsKept'
<1>1. ~Throw(r)
  BY ThrowIs DEF SecretsInv, ScheduleInv, Marked
<1>2. /\ req[r].op = "editTarget" /\ req[r].pc \in {"write", "done"}
      /\ req[r].id \in DOMAIN targets /\ req' = [req EXCEPT ![r] = Idle]
      /\ targets' = (IF req[r].pc = "write"
                     THEN [targets EXCEPT ![req[r].id].credential = req[r].fresh] ELSE targets)
      /\ UNCHANGED <<jobs, repos, secrets, minted, history>>
  BY <1>1 DEF TargetUpdateWrite, End
<1>3. Shape /\ Separate /\ ~history.stale /\ SecretsKept /\ minted \in Nat /\ Pending(req[r])
  BY <1>2, Calm
<1>4. req[r] # Idle /\ req[r].id \in Targets
  BY <1>2, UnderWay DEF SecretsInv
<1>5. CASE req[r].pc = "done"
  <2>1. Holds(req[r]) = {} /\ targets' = targets
    BY <1>2, <1>5 DEF Holds
  <2>2. QED
    BY <1>2, <1>3, <2>1, IdleHolds, SecretsStay
<1>6. CASE req[r].pc = "write"
  <2>1. PICK t, s : t \in Targets /\ t = req[r].id /\ s = req[r].fresh
    BY <1>4
  <2>2. /\ t \in DOMAIN targets /\ targets[t].credential = None /\ Holds(req[r]) = {s}
        /\ "credential" \in DOMAIN targets[t]
    BY <1>2, <1>3, <1>6, <2>1 DEF Pending, Holds, SecretsKept, Rows
  <2>3. req'[r] = Idle
    BY <1>2, <1>3, ReqMoves
  <2>4. Pending(req[r])'
    BY <2>3 DEF Pending, Idle
  <2>5. /\ DOMAIN targets' = DOMAIN targets
        /\ targets'[t].credential = s /\ "credential" \in DOMAIN targets'[t]
        /\ \A i \in DOMAIN targets \ {t} : targets'[i] = targets[i]
    BY <1>2, <1>6, <2>1, <2>2
  <2>6. Held("request", r) = {s} \ {None} /\ Held("target", t) = {}
    BY <2>2, HeldOf
  <2>7. Held("request", r)' = {} /\ Held("target", t)' = {s} \ {None}
    BY <2>2, <2>3, <2>5, IdleHolds, HeldNext
  <2>8. Passed(r, "target", t)
    BY <1>2, <2>6, <2>7 DEF Passed
  <2>9. \A s2 : SecretSame(s2)
    BY <1>2 DEF SecretSame
  <2>10. DOMAIN targets' \subseteq Targets /\ \A i \in Targets \ {t} : TargetSame(i)
    BY <1>3, <2>5 DEF SecretsKept, Rows, TargetSame
  <2>11. QED
    BY <1>2, <1>3, <1>4, <2>1, <2>4, <2>5, <2>8, <2>9, <2>10, TargetMoves
<1>7. QED
  BY <1>2, <1>5, <1>6

(* A connection is removed only when no repository uses it.                  *)
LEMMA TargetRemoveCheckOwns ==
  ASSUME SecretsInv, NEW r \in Requests, TargetRemoveCheck(r), ~history'.leaky
  PROVE  SecretsKept'
<1>1. /\ req[r].op = "dropTarget" /\ req[r].pc = "read"
      /\ UNCHANGED <<jobs, repos, targets, secrets, minted, history>>
  BY DEF TargetRemoveCheck, At, tables
<1>2. Shape /\ SecretsKept /\ Holds(req[r]) = {}
  BY <1>1, Calm DEF Holds
<1>3. CASE End(r)
  BY <1>1, <1>2, <1>3, IdleHolds, SecretsStay DEF End
<1>4. CASE /\ req[r].id \in DOMAIN targets
           /\ req' = [req EXCEPT ![r] =
                [op |-> "dropTarget", pc |-> "delete", id |-> req[r].id,
                 drop |-> targets[req[r].id].credential]]
  <2> DEFINE q == [op |-> "dropTarget", pc |-> "delete", id |-> req[r].id,
                   drop |-> targets[req[r].id].credential]
  <2>1. Holds(q) = {} /\ Pending(q)
    BY <1>4 DEF Holds, Pending
  <2> HIDE DEF q
  <2>2. req' = [req EXCEPT ![r] = q]
    BY <1>4 DEF q
  <2>3. QED
    BY <1>1, <1>2, <2>1, <2>2, SecretsStay
<1>5. QED
  BY <1>3, <1>4 DEF TargetRemoveCheck

(* The connection goes: its secret is left in the hands of the request.      *)
LEMMA TargetRemoveOwns ==
  ASSUME SecretsInv, NEW r \in Requests, TargetRemove(r), ~history'.leaky
  PROVE  SecretsKept'
<1>1. ~Throw(r)
  BY ThrowIs DEF SecretsInv, ScheduleInv, Marked
<1>2. /\ req[r].op = "dropTarget" /\ req[r].pc = "delete" /\ Goto(r, "secret")
      /\ targets' = Del(targets, req[r].id)
      /\ UNCHANGED <<jobs, repos, secrets, minted, history>>
  BY <1>1 DEF TargetRemove, At
<1>3. Shape /\ Separate /\ ~history.stale /\ SecretsKept /\ minted \in Nat /\ Pending(req[r])
  BY <1>2, Calm
<1>4. req[r] # Idle /\ req[r].id \in Targets /\ "drop" \in DOMAIN req[r]
  BY <1>2, UnderWay DEF SecretsInv, Shaped
<1>5. PICK t, s : t \in Targets /\ t = req[r].id /\ s = req[r].drop
  BY <1>4
<1>6. PICK q : /\ req' = [req EXCEPT ![r] = q] /\ req'[r] = q /\ q.op = "dropTarget"
               /\ q.pc = "secret" /\ q.id = t /\ q.drop = s
  BY <1>2, <1>3, <1>4, <1>5, GoesOn
<1>7. /\ t \in DOMAIN targets /\ targets[t].credential = s /\ Holds(req[r]) = {}
      /\ Holds(q) = {s} /\ Pending(req[r])'
  BY <1>2, <1>3, <1>5, <1>6 DEF Pending, Holds
<1>8. /\ DOMAIN targets' = DOMAIN targets \ {t}
      /\ \A i \in DOMAIN targets \ {t} : targets'[i] = targets[i]
  BY <1>2, <1>5 DEF Del
<1>9. Held("request", r) = {} /\ Held("target", t) = {s} \ {None}
  BY <1>7, HeldOf
<1>10. Held("request", r)' = {s} \ {None} /\ Held("target", t)' = {}
  BY <1>6, <1>7, <1>8, HeldNext
<1>11. Passed(r, "target", t)
  BY <1>2, <1>9, <1>10 DEF Passed
<1>12. \A s2 : SecretSame(s2)
  BY <1>2 DEF SecretSame
<1>13. /\ DOMAIN targets' \subseteq Targets /\ \A i \in Targets \ {t} : TargetSame(i)
       /\ t \notin DOMAIN targets'
  BY <1>3, <1>8 DEF SecretsKept, Rows, TargetSame
<1>14. QED
  BY <1>2, <1>3, <1>4, <1>5, <1>6, <1>7, <1>11, <1>12, <1>13, TargetMoves

(* The secret goes last.                                                     *)
LEMMA TargetRemoveSecretOwns ==
  ASSUME SecretsInv, NEW r \in Requests, TargetRemoveSecret(r), ~history'.leaky
  PROVE  SecretsKept'
<1>1. /\ req[r].op = "dropTarget" /\ req[r].pc = "secret" /\ req' = [req EXCEPT ![r] = Idle]
      /\ secrets' = Del(secrets, req[r].drop)
      /\ UNCHANGED <<jobs, repos, targets, minted, history>>
  BY DEF TargetRemoveSecret, At, End
<1>2. Shape /\ Separate /\ ~history.stale /\ SecretsKept /\ minted \in Nat
  BY <1>1, Calm
<1>3. req[r] # Idle /\ req[r].id \in Targets
  BY <1>1, UnderWay DEF SecretsInv
<1>4. PICK t, d, m : t \in Targets /\ t = req[r].id /\ d = req[r].drop /\ m = Held("target", t)
  BY <1>3
<1>5. req'[r] = Idle /\ Holds(req[r]) = {d}
  BY <1>1, <1>2, <1>4, ReqMoves DEF Holds
<1>6. Pending(req[r])'
  BY <1>5 DEF Pending, Idle
<1>7. /\ DOMAIN secrets' = DOMAIN secrets \ {d}
      /\ \A s \in DOMAIN secrets \ {d} : secrets'[s] = secrets[s]
  BY <1>1, <1>4 DEF Del
<1>8. Held("request", r) = {d} \ {None} /\ Held("request", r)' = {}
  BY <1>5, IdleHolds, HeldOf, HeldNext
<1>9. Held("target", t)' = m
  BY <1>1, <1>4 DEF Held
<1>10. Passed(r, "target", t)
  BY <1>1, <1>4, <1>7, <1>8, <1>9 DEF Passed
<1>11. None \notin DOMAIN secrets
  BY <1>2 DEF SecretsKept, Bounded, None
<1>12. \A s : s \notin Held("request", r) \cup Held("target", t) => SecretSame(s)
  BY <1>7, <1>8, <1>11 DEF SecretSame
<1>13. /\ DOMAIN targets' \subseteq Targets /\ \A i \in Targets : TargetSame(i)
       /\ t \in DOMAIN targets' => "credential" \in DOMAIN targets'[t]
  BY <1>1, <1>2 DEF SecretsKept, Rows, TargetSame
<1>14. QED
  BY <1>1, <1>2, <1>3, <1>4, <1>6, <1>10, <1>12, <1>13, TargetMoves

(* RestoreService.create                                                     *)
LEMMA RestoreOwns ==
  ASSUME SecretsInv, NEW r \in Requests, RestoreBegin(r) \/ RestoreInsert(r), ~history'.leaky
  PROVE  SecretsKept'
<1>1. CASE RestoreBegin(r)
  <2>1. PICK j \in DOMAIN jobs :
          Begin(r, [op |-> "restore", pc |-> "insert", id |-> j, row |-> repos[j]])
    BY <1>1 DEF RestoreBegin
  <2> DEFINE q == [op |-> "restore", pc |-> "insert", id |-> j, row |-> repos[j]]
  <2>2. Holds(q) = {} /\ Pending(q)
    BY HoldsNothing
  <2> HIDE DEF q
  <2>3. QED
    BY <2>1, <2>2, BeginsOwning DEF q
<1>2. CASE RestoreInsert(r)
  <2>1. /\ req[r].op = "restore" /\ req' = [req EXCEPT ![r] = Idle]
        /\ UNCHANGED <<jobs, repos, targets, secrets, minted, history>>
    BY <1>2 DEF RestoreInsert, At, End
  <2>2. Shape /\ SecretsKept /\ Holds(req[r]) = {}
    BY <2>1, Calm, HoldsNothing
  <2>3. QED
    BY <2>1, <2>2, IdleHolds, SecretsStay
<1>3. QED
  BY <1>1, <1>2

(* Steps that touch none of this keep it.                                    *)
LEMMA NothingMoves ==
  ASSUME SecretsKept, UNCHANGED <<jobs, repos, targets, secrets, minted, req>>
  PROVE  SecretsKept'
<1>1. \A k, x : Held(k, x)' = Held(k, x)
  BY DEF Held, Holds
<1>2. OneOwner' /\ Owned' /\ Bounded' /\ Rows'
  BY <1>1 DEF SecretsKept, OneOwner, Owned, Bounded, Rows
<1>3. \A j \in DOMAIN repos' : RepoFits(j)'
  BY DEF SecretsKept, RepoFits, Fits
<1>4. \A r \in Requests : Pending(req[r])'
  BY DEF SecretsKept, Pending, Fits, Wanted
<1>5. QED
  BY <1>2, <1>3, <1>4 DEF SecretsKept

(* A restart ends requests half way, which is noted; without any, nothing    *)
(* moves.                                                                    *)
LEMMA RestartOwns ==
  ASSUME SecretsInv, Restart, ~history'.leaky
  PROVE  SecretsKept'
<1>1. /\ req' = [r \in Requests |-> Idle]
      /\ UNCHANGED <<jobs, repos, targets, secrets, minted>>
  BY DEF Restart, tables
<1>2. PICK f, l : /\ history' = [history EXCEPT !.stale = f, !.leaky = l]
                  /\ (~history.leaky /\ \A r \in Requests : req[r] = Idle) \/ l
  BY Zenon DEF Restart
<1>3. history'.leaky = l
  <2>1. PICK a, b : history = [stale |-> a, leaky |-> b]
    BY DEF SecretsInv, ScheduleInv, Shape
  <2>2. PICK g : g = [history EXCEPT !.stale = f]
    OBVIOUS
  <2>3. g = [stale |-> f, leaky |-> b]
    BY <2>1, <2>2
  <2>4. [g EXCEPT !.leaky = l] = [stale |-> f, leaky |-> l]
    BY <2>3
  <2>5. history' = [stale |-> f, leaky |-> l]
    BY <1>2, <2>2, <2>4
  <2>6. QED
    BY <2>5
<1>4. ~history.leaky /\ \A r \in Requests : req[r] = Idle
  BY <1>2, <1>3, Zenon
<1>5. req' = req
  BY <1>1, <1>4 DEF SecretsInv, ScheduleInv, Shape
<1>6. QED
  BY <1>1, <1>4, <1>5, NothingMoves DEF SecretsInv

(* A job on a connection has its secrets in place.                           *)
LEMMA SecretsInit == Init => SecretsInv
<1> SUFFICES ASSUME Init PROVE SecretsKept
  BY ScheduleInit DEF SecretsInv
<1>1. PICK j \in Jobs, t \in Targets, own \in BOOLEAN, known \in SUBSET Targets :
        /\ t \in known /\ DOMAIN jobs = {j} /\ DOMAIN repos = {j} /\ DOMAIN targets = known
        /\ repos[j].target = t /\ repos[j].password = 2
        /\ repos[j].override = (IF own THEN 3 ELSE None)
        /\ \A x \in known : targets[x] = [credential |-> IF x = t THEN 1 ELSE None]
        /\ secrets = [s \in 1..(IF own THEN 3 ELSE 2) |-> IF s = 3 THEN t ELSE "own"]
  BY DEF Init
<1>2. minted = 3 /\ \A r \in Requests : req[r] = Idle
  BY DEF Init
<1>3. PICK o : o = repos[j].override
  OBVIOUS
<1>4. o \in {3, None} /\ (o = 3 <=> own)
  BY <1>1, <1>3 DEF None
<1>5. \A x : /\ Held("repo", x) = (IF x = j THEN {2, o} \ {None} ELSE {})
             /\ Held("target", x) = (IF x = t THEN {1} ELSE {})
             /\ Held("request", x) = {}
  <2>1. \A x : Held("repo", x) = (IF x = j THEN {2, o} \ {None} ELSE {})
    BY <1>1, <1>3, HeldOf
  <2>2. \A x : Held("target", x) = (IF x = t THEN {1} ELSE {})
    BY <1>1, HeldOf DEF None
  <2>3. \A x : Held("request", x) = {}
    BY <1>2, IdleHolds, HeldOf
  <2>4. QED
    BY <2>1, <2>2, <2>3
<1>6. OneOwner
  BY <1>4, <1>5 DEF OneOwner, Sorts, None
<1>7. Owned
  <2>1. DOMAIN secrets \subseteq {1, 2, o}
    BY <1>1, <1>4
  <2>2. None = 0 /\ 0 \notin DOMAIN secrets
    BY <1>1 DEF None
  <2>3. 1 \in Held("target", t) /\ 2 \in Held("repo", j) /\ (o # None => o \in Held("repo", j))
    BY <1>5, <2>2
  <2>4. QED
    BY <2>1, <2>2, <2>3 DEF Owned, Sorts, Ids
<1>8. Bounded
  BY <1>1, <1>2, <1>4, <1>5 DEF Bounded, Sorts, None
<1>9. Rows
  BY <1>1 DEF Rows
<1>10. \A i \in DOMAIN repos : RepoFits(i)
  BY <1>1, <1>3, <1>4 DEF RepoFits, Fits, None
<1>11. QED
  BY <1>2, <1>6, <1>7, <1>8, <1>9, <1>10, IdleHolds DEF SecretsKept

(* No step breaks it.                                                        *)
LEMMA SecretsStep == SecretsInv /\ [Next]_vars => SecretsInv'
<1> SUFFICES ASSUME SecretsInv, [Next]_vars, ~history'.leaky PROVE SecretsKept'
  BY ScheduleStep DEF SecretsInv
<1>1. ASSUME NEW r \in Requests, JobNext(r)
      PROVE  SecretsKept'
  BY <1>1, CreateBeginOwns, CreatePasswordOwns, CreateOverrideOwns, CreateInsertOwns,
     UpdateBeginOwns, UpdateReadOwns, UpdateSecretsOwns, UpdateWriteOwns, UpdateDropOwns,
     SetIntegrityCheckOwns, RemoveBeginOwns, RemoveReadOwns, RemoveJobOwns,
     RemoveRepositoryOwns, RemovePasswordOwns, RemoveOverrideOwns, RemoveUnregisterOwns
     DEF JobNext
<1>2. ASSUME NEW r \in Requests, TargetNext(r)
      PROVE  SecretsKept'
  BY <1>2, TargetBeginOwns, TargetCreateSecretOwns, TargetInsertOwns, TargetUpdateSecretOwns,
     TargetUpdateWriteOwns, TargetRemoveCheckOwns, TargetRemoveOwns, TargetRemoveSecretOwns,
     RestoreOwns DEF TargetNext
<1>3. ASSUME NEW r \in Requests, StatementFails(r)
      PROVE  FALSE
  BY <1>3, ThrowIs DEF StatementFails, SecretsInv, ScheduleInv, Marked
<1>4. CASE UNCHANGED vars
  BY <1>4, NothingMoves DEF SecretsInv, vars, tables
<1>5. QED
  BY <1>1, <1>2, <1>3, <1>4, SchedulerOwns, RestartOwns DEF Next

(* No credential is left behind and none is presented to a connection it     *)
(* was not entered for: once the requests have been answered every secret    *)
(* belongs to a repository, a connection or a restore run, and an override   *)
(* to the connection of its repository, however create, update, remove and   *)
(* the connections' own requests are ordered, unless requests about the      *)
(* same thing met or one failed (jobs.service.ts, targets.service.ts,        *)
(* secrets.service.ts).                                                      *)
THEOREM SecretsAlwaysSound == Spec => []SecretsSound
<1>1. SecretsInv => SecretsOwned
  <2> SUFFICES ASSUME SecretsInv, Quiet, ~history.leaky, NEW s \in DOMAIN secrets
               PROVE  s \in Referenced
    BY DEF SecretsOwned
  <2>1. PICK k \in Sorts, x \in Ids : s \in Held(k, x)
    BY DEF SecretsInv, SecretsKept, Owned
  <2>2. k # "request"
    BY <2>1, HeldOf, IdleHolds DEF Quiet
  <2>3. CASE k = "repo"
    BY <2>1, <2>3, HeldOf DEF Referenced
  <2>4. CASE k = "target"
    <3>1. x \in DOMAIN targets /\ s = targets[x].credential
      BY <2>1, <2>4, HeldOf
    <3>2. s \in {targets[i].credential : i \in DOMAIN targets}
      BY <3>1
    <3>3. QED
      BY <3>2 DEF Referenced
  <2>5. QED
    BY <2>2, <2>3, <2>4 DEF Sorts
<1>2. SecretsInv => OverrideFits
  BY DEF SecretsInv, SecretsKept, RepoFits, Fits, OverrideFits
<1>3. QED
  BY <1>1, <1>2, SecretsInit, SecretsStep, PTL DEF Spec, SecretsSound
=============================================================================
