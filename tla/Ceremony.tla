-------------------------------- MODULE Ceremony --------------------------------
(***************************************************************************)
(* From a plaintext store to a sealed one: scripts/encrypt_store.py, then   *)
(* migrate, verify, rekey-credentials and destroy-legacy-key of             *)
(* scripts/seal_store.py, run one at a time by an operator while the        *)
(* application goes on storing observations and credentials and the         *)
(* retention job goes on deleting.  A command is a sequence of commits and  *)
(* file operations; it may die between any two.  Before them, or instead,   *)
(* any command that calls init_db may encrypt or seal a store without       *)
(* plaintext rows: whether it does is for the environment it runs in, by    *)
(* default (ENCRYPT_AT_REST, SEAL_RECORDS) it does both.                    *)
(*                                                                         *)
(* Root keys are numbered: 0 is the legacy key, k the one the k-th re-keying *)
(* made.  What a record or a credential is encrypted under, and what its     *)
(* index was computed with, is the number of that key.  A digest over the    *)
(* sealed records is the set of them.  The data key is in its file, as      *)
(* JUSTIKEY_DATA_KEY is not set; the sample of opened records, which needs   *)
(* the disclosure service, is taken to open.                                *)
(***************************************************************************)
EXTENDS Naturals, FiniteSets

CONSTANTS
    Records,     \* bound: rows lpr_events will ever have
    Credentials, \* bound: TOTP and sensor secrets
    Threads,     \* requests of the application in flight at once
    MaxRoot,     \* bound on re-keyings
    NoKey, OwnKey, Plain, Overwritten, NoManifest, NoStage

Roots == 0 .. MaxRoot

ASSUME MaxRootAssumption == MaxRoot \in Nat
ASSUME RecordsAssumption == IsFiniteSet(Records)
ASSUME NamesAssumption == {NoKey, OwnKey, Plain, Overwritten} \cap Roots = {}
                          /\ NoKey \notin {OwnKey, Plain, Overwritten}

VARIABLES
    records,    \* lpr_events: format, root of a v1 row, root of its index
    credentials,\* the root each TOTP or sensor secret is encrypted under, or Plain
    mode,       \* meta encryption_mode
    canary,     \* meta key_check: the root it opens under
    service,    \* the disclosure service's index key: OwnKey, or the root it was
                \* derived from; NoKey while the application derives its own
    live, staged, retired, \* <db>.data-key, .data-key.new, .data-key.legacy
    made,       \* root keys generated so far
    manifest,   \* <db>.ceremony.json
    ledger,     \* the manifests whose digest the audit ledger holds
    thread,     \* a request of the application: the row it is about to insert
    cmd,        \* the command running and its local state
    refusals,   \* history: keys destroy-legacy-key refused to destroy, and
                \* whether they opened anything
    announced,  \* history: the ledger has encrypt_store's entry
    automatic,  \* history: the mode init_db gave the store by itself; "found"
                \* for a store in v1 from the start, else "no"
    downgraded, \* history: encrypt_store was run on a sealed store
    died        \* history: a command died

database == <<records, credentials, mode, canary>>
files == <<live, staged, retired, made>>
record == <<manifest, ledger>>
history == <<refusals, announced, automatic, downgraded>>
vars == <<database, service, files, record, thread, cmd, history, died>>

Row == [form : {"plain", "v1", "sealed"},
        root : Roots \cup {NoKey}, index : Roots \cup {OwnKey, NoKey}]
Absent == [form |-> "absent"]
Deleted == [form |-> "deleted"]
PlainRow == [form |-> "plain", root |-> NoKey, index |-> NoKey]
V1Row(k) == [form |-> "v1", root |-> k, index |-> k]
SealedRow(k) == [form |-> "sealed", root |-> NoKey, index |-> k]
Digest == {[id |-> r, row |-> records[r]] :
              r \in {x \in Records : records[x].form = "sealed"}}
Count(form) == Cardinality({r \in Records : records[r].form = form})

Migration == [digest : SUBSET [id : Records, row : Row], problems : BOOLEAN]
Manifest == [migrate : Migration \cup {NoStage}, rekey : Roots \cup {NoKey},
             destroyed : Roots \cup {NoKey}, verified : BOOLEAN]

ASSUME ManifestAssumption == NoManifest \notin Manifest

NoManifestYet == [migrate |-> NoStage, rekey |-> NoKey, destroyed |-> NoKey,
                  verified |-> FALSE]
Idle == [pc |-> "idle", old |-> NoKey, before |-> 0, digest |-> {},
         problems |-> FALSE, next |-> NoManifest]
NoRequest == [pc |-> "idle"]

\* The key search recomputes an index with: the service's, or the one the
\* application derives from its data key.
IndexKey == IF service = NoKey THEN live ELSE service

TypeOK ==
    /\ records \in [Records -> Row \cup {Absent, Deleted}]
    /\ credentials \in [Credentials -> Roots \cup {NoKey, Plain}]
    /\ mode \in {"none", "v1", "v3"} /\ canary \in Roots \cup {NoKey}
    /\ announced \in BOOLEAN /\ downgraded \in BOOLEAN
    /\ automatic \in {"no", "found", "v1", "v3"}
    /\ service \in Roots \cup {NoKey, OwnKey}
    /\ live \in Roots \cup {NoKey} /\ staged \in Roots \cup {NoKey}
    /\ retired \in Roots \cup {NoKey, Overwritten}
    /\ made \in Roots
    /\ \A m \in ledger \cup ({manifest} \ {NoManifest}) :
         m.rekey \in Roots \cup {NoKey} /\ m.destroyed \in Roots \cup {NoKey}
    /\ cmd.pc \in {"idle", "enable", "seal", "encrypt", "announce", "reseal", "after",
                   "fingerprint", "rekey", "retire", "promote", "census", "secrets",
                   "digest", "overwrite", "unlink", "write", "audit"}

Init ==
    /\ \/ /\ mode = "none" /\ canary = NoKey /\ live = NoKey
          /\ records \in [Records -> {Absent, PlainRow}]
          /\ credentials \in [Credentials -> {NoKey, Plain}]
       \/ /\ mode = "v1" /\ canary = 0 /\ live = 0
          /\ records \in [Records -> {Absent, V1Row(0)}]
          /\ credentials \in [Credentials -> {NoKey, 0}]
    /\ service = NoKey
    /\ staged = NoKey /\ retired = NoKey /\ made = 0
    /\ manifest = NoManifest /\ ledger = {}
    /\ thread = [t \in Threads |-> NoRequest]
    /\ cmd = Idle
    /\ refusals = {} /\ announced = FALSE
    /\ automatic = IF mode = "v1" THEN "found" ELSE "no"
    /\ downgraded = FALSE /\ died = FALSE

-------------------------------------------------------------------------------
(* The application, the retention job and the deployment *)

Drained == \A t \in Threads : thread[t].pc = "idle"

\* A connection settles on its cipher or its sealer once, and keeps it: the
\* mode, the data key and the canary are read here and the row is written
\* later.  A data key that does not open the canary is refused.
Connect(t) ==
    /\ thread[t].pc = "idle"
    /\ \/ /\ mode = "none"
          /\ thread' = [thread EXCEPT ![t] = [pc |-> "record", row |-> PlainRow]]
       \/ /\ mode = "v1" /\ live = canary
          /\ thread' = [thread EXCEPT ![t] = [pc |-> "record", row |-> V1Row(live)]]
       \/ /\ mode = "v3" /\ (service # NoKey \/ live = canary)
          /\ thread' = [thread EXCEPT ![t] =
                           [pc |-> "record", row |-> SealedRow(IndexKey)]]
       \/ /\ mode = "none"
          /\ thread' = [thread EXCEPT ![t] = [pc |-> "credential", root |-> Plain]]
       \/ /\ mode # "none" /\ live = canary
          /\ thread' = [thread EXCEPT ![t] = [pc |-> "credential", root |-> live]]
    /\ UNCHANGED <<database, service, files, record, cmd, history, died>>

Insert(t) ==
    /\ \/ /\ thread[t].pc = "record"
          /\ \E r \in Records :
               /\ records[r] = Absent
               /\ records' = [records EXCEPT ![r] = thread[t].row]
          /\ UNCHANGED credentials
       \/ /\ thread[t].pc = "credential"
          /\ \E c \in Credentials :
               /\ credentials[c] = NoKey
               /\ credentials' = [credentials EXCEPT ![c] = thread[t].root]
          /\ UNCHANGED records
    /\ thread' = [thread EXCEPT ![t] = NoRequest]
    /\ UNCHANGED <<mode, canary, service, files, record, cmd, history, died>>

\* The request ends without writing.
Disconnect(t) ==
    /\ thread[t].pc # "idle"
    /\ thread' = [thread EXCEPT ![t] = NoRequest]
    /\ UNCHANGED <<database, service, files, record, cmd, history, died>>

\* enforce_retention deletes what is past its days.
Purge ==
    /\ \E gone \in SUBSET {r \in Records : records[r] \notin {Absent, Deleted}} :
         /\ gone # {}
         /\ records' = [r \in Records |-> IF r \in gone THEN Deleted ELSE records[r]]
    /\ UNCHANGED <<credentials, mode, canary, service, files, record, thread, cmd,
                   history, died>>

\* The disclosure service is stood up and the application restarted to use
\* it: over sealed rows with the key they were stored under, over any others
\* with any index key.
SeparateService ==
    /\ service = NoKey /\ cmd.pc = "idle" /\ Drained
    /\ live # NoKey
    /\ service' \in IF mode = "v3" \/ Count("sealed") # 0 THEN {live} ELSE {live, OwnKey}
    /\ UNCHANGED <<database, files, record, thread, cmd, history, died>>

-------------------------------------------------------------------------------
(* Commands begin when the requests of before have ended, and run alone *)

Ready == cmd.pc = "idle" /\ Drained

\* Write the manifest, then its digest into the ledger.
RecordStep(stage) == [cmd EXCEPT !.pc = "write", !.next = stage]

WriteManifest ==
    /\ cmd.pc = "write"
    /\ manifest' = cmd.next
    /\ cmd' = [cmd EXCEPT !.pc = "audit"]
    /\ UNCHANGED <<database, service, files, ledger, thread, history, died>>

AppendCleanDigest ==
    /\ cmd.pc = "audit"
    /\ ledger' = IF manifest.migrate.problems THEN ledger ELSE ledger \cup {manifest}
    /\ cmd' = Idle
    /\ UNCHANGED <<database, service, files, manifest, thread, history, died>>
AppendDigest ==
    /\ cmd.pc = "audit"
    /\ ledger' = ledger \cup {manifest}
    /\ cmd' = Idle
    /\ UNCHANGED <<database, service, files, manifest, thread, history, died>>

Die ==
    /\ cmd.pc # "idle"
    /\ cmd' = Idle
    /\ died' = TRUE
    /\ UNCHANGED <<database, service, files, record, thread, history>>

-------------------------------------------------------------------------------
(* init_db, as manage_sources, seed and encrypt_store (its dry run too) call it *)

\* Run beside the application: it looks for plaintext rows once, and no
\* secret counts as one.
InitDb ==
    /\ cmd.pc = "idle"
    /\ mode = "none" /\ Count("plain") = 0
    /\ live' = IF live = NoKey THEN 0 ELSE live
    /\ cmd' = [Idle EXCEPT !.pc = "enable"]
    /\ UNCHANGED <<database, service, staged, retired, made, record, thread, history,
                   died>>

\* Where records are not to be sealed it ends here.
Enable ==
    /\ cmd.pc = "enable"
    /\ mode' = "v1" /\ canary' = live
    /\ automatic' = "v1"
    /\ cmd' \in {[cmd EXCEPT !.pc = "seal"], Idle}
    /\ UNCHANGED <<records, credentials, service, files, record, thread, refusals,
                   announced, downgraded, died>>

SealNew ==
    /\ cmd.pc = "seal"
    /\ mode' = "v3"
    /\ automatic' = "v3"
    /\ cmd' = Idle
    /\ UNCHANGED <<records, credentials, canary, service, files, record, thread,
                   refusals, announced, downgraded, died>>

-------------------------------------------------------------------------------
(* encrypt_store *)

\* What it refuses is a store that is in v1; a missing key is generated.
Encrypt ==
    /\ Ready
    /\ mode # "v1"
    /\ \/ live # NoKey /\ UNCHANGED <<live, made>>
       \/ live = NoKey /\ mode = "none" /\ live' = 0 /\ UNCHANGED made
       \/ /\ live = NoKey /\ mode # "none" /\ made < MaxRoot
          /\ made' = made + 1 /\ live' = made'
    /\ cmd' = [Idle EXCEPT !.pc = "encrypt"]
    /\ UNCHANGED <<database, service, staged, retired, record, thread, history, died>>

\* One transaction over the plaintext rows, the TOTP secrets and the canary.
EncryptRows ==
    /\ cmd.pc = "encrypt"
    /\ records' = [r \in Records |->
                      IF records[r].form = "plain" THEN V1Row(live) ELSE records[r]]
    /\ credentials' = [c \in Credentials |->
                          IF credentials[c] = Plain THEN live ELSE credentials[c]]
    /\ mode' = "v1" /\ canary' = live
    /\ downgraded' = (downgraded \/ mode = "v3")
    /\ automatic' = "no"
    /\ cmd' = [cmd EXCEPT !.pc = "announce"]
    /\ UNCHANGED <<service, files, record, thread, refusals, announced, died>>

AnnounceEncryption ==
    /\ cmd.pc = "announce"
    /\ announced' = TRUE
    /\ cmd' = Idle
    /\ UNCHANGED <<database, service, files, record, thread, refusals, automatic,
                   downgraded, died>>

-------------------------------------------------------------------------------
(* migrate *)

Migrate ==
    /\ Ready
    /\ mode = "v1" /\ live = canary
    /\ Count("plain") = 0
    /\ cmd' = [Idle EXCEPT !.pc = "reseal", !.before = Count("v1") + Count("sealed")]
    /\ UNCHANGED <<database, service, files, record, thread, history, died>>

\* Every index is rebuilt with the key search will use.
Resealed == [r \in Records |->
    IF records[r].form = "v1"
    THEN SealedRow(IndexKey) ELSE records[r]]

\* One transaction over all rows and the mode.
Reseal ==
    /\ cmd.pc = "reseal"
    /\ records' = Resealed
    /\ mode' = "v3"
    /\ cmd' = [cmd EXCEPT !.pc = "after"]
    /\ UNCHANGED <<credentials, canary, service, files, record, thread, history, died>>

\* The counts are compared with those from before the transaction, then the
\* digest is taken.
After ==
    /\ cmd.pc = "after"
    /\ cmd' = [cmd EXCEPT !.pc = "fingerprint",
                   !.problems = Count("v1") # 0 \/ Count("sealed") # cmd.before]
    /\ UNCHANGED <<database, service, files, record, thread, history, died>>

Fingerprint ==
    /\ cmd.pc = "fingerprint"
    /\ cmd' = RecordStep([NoManifestYet EXCEPT !.migrate =
                            [digest |-> Digest, problems |-> cmd.problems]])
    /\ UNCHANGED <<database, service, files, record, thread, history, died>>

(* verify: changes nothing but the manifest *)
Verify ==
    /\ Ready
    /\ manifest # NoManifest /\ manifest.migrate # NoStage
    /\ cmd' = RecordStep([manifest EXCEPT !.verified = TRUE])
    /\ UNCHANGED <<database, service, files, record, thread, history, died>>

-------------------------------------------------------------------------------
(* rekey-credentials *)

\* The key in the file must be the one the database speaks.
CanaryOpens == live = canary

\* Only where the index key does not hang off the key about to be rotated.
IndexKeyElsewhere == service # NoKey

\* The new key is on disk before anything is encrypted under it.
Rekey ==
    /\ Ready
    /\ mode = "v3" /\ manifest # NoManifest
    /\ live # NoKey /\ CanaryOpens /\ IndexKeyElsewhere
    /\ made < MaxRoot
    /\ made' = made + 1
    /\ staged' = made + 1
    /\ cmd' = [Idle EXCEPT !.pc = "rekey", !.old = live]
    /\ UNCHANGED <<database, service, live, retired, record, thread, history, died>>

\* One transaction over all secrets and the canary; a secret the old key does
\* not open rolls it back and removes the staged key.
RekeySecrets ==
    /\ cmd.pc = "rekey"
    /\ IF \A c \in Credentials : credentials[c] \in {NoKey, Plain, cmd.old}
         THEN /\ credentials' = [c \in Credentials |->
                   IF credentials[c] = cmd.old THEN staged ELSE credentials[c]]
              /\ canary' = staged
              /\ cmd' = [cmd EXCEPT !.pc = "retire"]
              /\ UNCHANGED staged
         ELSE /\ staged' = NoKey
              /\ cmd' = Idle
              /\ UNCHANGED <<credentials, canary>>
    /\ UNCHANGED <<records, mode, service, live, retired, made, record, thread,
                   history, died>>

Retire ==
    /\ cmd.pc = "retire"
    /\ retired' = live
    /\ live' = NoKey
    /\ cmd' = [cmd EXCEPT !.pc = "promote"]
    /\ UNCHANGED <<database, service, staged, made, record, thread, history, died>>

Promote ==
    /\ cmd.pc = "promote"
    /\ live' = staged
    /\ staged' = NoKey
    /\ cmd' = RecordStep([manifest EXCEPT !.rekey = cmd.old])
    /\ UNCHANGED <<database, service, retired, made, record, thread, history, died>>

-------------------------------------------------------------------------------
(* destroy-legacy-key *)

Destroy ==
    /\ Ready
    /\ manifest # NoManifest /\ manifest.migrate # NoStage
    /\ ~manifest.migrate.problems
    /\ manifest.rekey # NoKey
    /\ retired = manifest.rekey
    /\ cmd' = [Idle EXCEPT !.pc = "census", !.old = retired]
    /\ UNCHANGED <<database, service, files, record, thread, history, died>>

SecretsUnread(k) == {}
\* The secrets a key still opens.
OpenSecrets(k) == {c \in Credentials : credentials[c] = k}
\* Everything it opens (history only).
Opens(k) == {c \in Credentials : credentials[c] = k} \cup
            {r \in Records : records[r].form = "v1" /\ records[r].root = k}

\* Three reads: the counts, the secrets, the digest.
ProveNoCensus ==
    /\ cmd.pc = "census"
    /\ cmd' = [cmd EXCEPT !.pc = "secrets", !.problems = FALSE]
    /\ UNCHANGED <<database, service, files, record, thread, history, died>>
ProveCensus ==
    /\ cmd.pc = "census"
    /\ cmd' = [cmd EXCEPT !.pc = "secrets", !.problems = Count("v1") # 0]
    /\ UNCHANGED <<database, service, files, record, thread, history, died>>

ProveSecrets ==
    /\ cmd.pc = "secrets"
    /\ cmd' = [cmd EXCEPT !.pc = "digest",
                          !.problems = @ \/ OpenSecrets(cmd.old) # {}]
    /\ UNCHANGED <<database, service, files, record, thread, history, died>>

ProveDigest ==
    /\ cmd.pc = "digest"
    /\ IF cmd.problems \/ Digest # manifest.migrate.digest
         THEN /\ refusals' = refusals \cup
                   {[key |-> cmd.old, opens |-> Opens(cmd.old) # {}]}
              /\ cmd' = Idle
         ELSE /\ cmd' = [cmd EXCEPT !.pc = "overwrite"]
              /\ UNCHANGED refusals
    /\ UNCHANGED <<database, service, files, record, thread, announced, automatic,
                   downgraded, died>>

Overwrite ==
    /\ cmd.pc = "overwrite"
    /\ retired' = Overwritten
    /\ cmd' = [cmd EXCEPT !.pc = "unlink"]
    /\ UNCHANGED <<database, service, live, staged, made, record, thread, history, died>>

Unlink ==
    /\ cmd.pc = "unlink"
    /\ retired' = NoKey
    /\ cmd' = RecordStep([manifest EXCEPT !.destroyed = cmd.old])
    /\ UNCHANGED <<database, service, live, staged, made, record, thread, history, died>>

-------------------------------------------------------------------------------

Next ==
    \/ \E t \in Threads : Connect(t) \/ Insert(t) \/ Disconnect(t)
    \/ Purge \/ SeparateService
    \/ InitDb \/ Enable \/ SealNew
    \/ Encrypt \/ EncryptRows \/ AnnounceEncryption
    \/ Migrate \/ Reseal \/ After \/ Fingerprint \/ Verify
    \/ Rekey \/ RekeySecrets \/ Retire \/ Promote
    \/ Destroy \/ ProveCensus \/ ProveSecrets \/ ProveDigest \/ Overwrite \/ Unlink
    \/ WriteManifest \/ AppendDigest \/ Die

Spec == Init /\ [][Next]_vars

-------------------------------------------------------------------------------
(* Properties *)

OnDisk == {live, staged, retired} \cap Roots

\* "A crash after the commit but before the key exists would leave credential
\* material no one can read": wherever a command died and whatever was run
\* after it, every TOTP or sensor secret that is encrypted is so under a key
\* that one of the key files still holds, as long as encrypt_store is not run
\* on a sealed store.
SecretsKept ==
    ~downgraded =>
        \A c \in Credentials : credentials[c] \in OnDisk \cup {NoKey, Plain}

\* "Only a key proven to open nothing is safe to destroy": so is every
\* observation still in v1 format, also one stored by a request that settled
\* on v1 before the store was sealed, while credentials are re-keyed once.
RowsKept ==
    made <= 1 =>
        \A r \in Records : records[r].form = "v1" => records[r].root \in OnDisk

\* "Reusing the v1 index would leave rows that the search path can never
\* match again": search computes the index every sealed row was stored under,
\* also while keys are rotated and key files moved.
SealedRowsAreFindable == \A r \in Records :
    records[r].form = "sealed" => records[r].index = IndexKey

\* Nothing that was stored is lost to the ceremony, in well-typed states: rows
\* and secrets stay readable with a key on disk, and sealed rows findable.
NothingLost == TypeOK /\ RowsKept /\ SecretsKept /\ SealedRowsAreFindable

\* A destruction the manifest records really happened: the key it names is in
\* no key file and opens nothing.
DestructionIsReal ==
    (manifest # NoManifest /\ manifest.destroyed # NoKey) =>
        manifest.destroyed \notin OnDisk /\ Opens(manifest.destroyed) = {}

\* "Each step appends to a JSON manifest [...] its digest is written into the
\* hash-chained audit ledger at every step": with no command running, a sealed
\* store has a manifest and the ledger knows it, unless a command died or
\* init_db made it a sealed store.
MigrationIsRecorded ==
    (cmd.pc = "idle" /\ mode = "v3" /\ automatic # "v3" /\ ~died) =>
        manifest # NoManifest /\ manifest \in ledger

\* A root key that was, is on disk no more, and is not the database's key.
Gone(k) == canary # NoKey /\ k <= made /\ k \notin OnDisk /\ k # canary

DestroyedOnRecord(k) == \E m \in ledger : m.destroyed = k

\* "the legacy key is set aside for destruction rather than deleted here", and
\* its destruction "is recorded rather than merely trusted": a root key that
\* is gone was destroyed by the step that records it, where credentials are
\* re-keyed once and no command died.
KeysGoOnTheRecord ==
    (cmd.pc = "idle" /\ made <= 1 /\ ~died) =>
        \A k \in Roots : Gone(k) => DestroyedOnRecord(k)

\* "This migration is explicit, transactional, and audited": a store that is
\* encrypted was announced in the ledger, unless a command died, init_db
\* encrypted it by itself or it was so from the start.
EncryptionIsRecorded ==
    (cmd.pc = "idle" /\ mode # "none" /\ automatic = "no" /\ ~died) => announced

\* What the operator's commands do leaves its record: the encryption in the
\* ledger, the migration in manifest and ledger, and the end of a key in the
\* entry of its destruction.
StepsAreRecorded == EncryptionIsRecorded /\ MigrationIsRecorded /\ KeysGoOnTheRecord

-------------------------------------------------------------------------------
(* What the text promises and the code does not keep *)

\* The same sentences, where a command dies after its COMMIT, where init_db
\* encrypts or seals, and where credentials are re-keyed a second time before
\* the legacy key is destroyed.
EncryptionIsAlwaysRecorded ==
    cmd.pc = "idle" /\ mode # "none" /\ automatic # "found" /\ ~died => announced
MigrationIsAlwaysRecorded ==
    cmd.pc = "idle" /\ mode = "v3" => manifest # NoManifest /\ manifest \in ledger
EveryKeyGoesOnTheRecord ==
    cmd.pc = "idle" /\ ~died => \A k \in Roots : Gone(k) => DestroyedOnRecord(k)

\* "the legacy key still opens live data": a key destroy-legacy-key refuses to
\* destroy does open something.
RefusalsAreTrue == \A x \in refusals : x.opens

\* "a half-encrypted store is worse than either state, because callers cannot
\* tell which rows are protected": a store that calls itself encrypted holds
\* no observation and no secret in plaintext.
NeverHalfEncrypted ==
    mode # "none" =>
        Count("plain") = 0 /\ \A c \in Credentials : credentials[c] # Plain

\* SecretsKept where encrypt_store, which says "already encrypted" of a v1
\* store only, is run on a sealed one.
SecretsAlwaysKept == \A c \in Credentials : credentials[c] \in OnDisk \cup {NoKey, Plain}
===============================================================================
