----------------------------- MODULE CeremonyProofs -----------------------------
(***************************************************************************)
(* Theorems about Ceremony, for every finite set of records, every set of  *)
(* credentials and threads, and any number of re-keyings and deaths; and,  *)
(* at the end, about Reseal, for any rows, connections and deaths.         *)
(***************************************************************************)
EXTENDS Ceremony, Reseal, FiniteSetTheorems, TLAPS

(***************************************************************************)
(* Types, and the manifest a command that writes one has.                  *)
(***************************************************************************)

Pcs == {"idle", "enable", "seal", "encrypt", "announce", "reseal", "after",
        "fingerprint", "rekey", "retire", "promote", "census", "secrets", "digest",
        "overwrite", "unlink", "write", "audit"}
Command == [pc : Pcs, old : Roots \cup {NoKey}, before : Nat, digest : {{}},
            problems : BOOLEAN, next : Manifest \cup {NoManifest}]
Request == {NoRequest} \cup [pc : {"record"}, row : Row]
                       \cup [pc : {"credential"}, root : Roots \cup {NoKey, Plain}]

Documented ==
    /\ cmd.pc = "write" => cmd.next # NoManifest
    /\ cmd.pc \in {"audit", "rekey", "retire", "promote", "census", "secrets",
                   "digest", "overwrite", "unlink"} => manifest # NoManifest

TypeInv ==
    /\ records \in [Records -> Row \cup {Absent, Deleted}]
    /\ credentials \in [Credentials -> Roots \cup {NoKey, Plain}]
    /\ mode \in {"none", "v1", "v3"} /\ canary \in Roots \cup {NoKey}
    /\ announced \in BOOLEAN /\ downgraded \in BOOLEAN /\ died \in BOOLEAN
    /\ automatic \in {"no", "found", "v1", "v3"}
    /\ service \in Roots \cup {NoKey, OwnKey}
    /\ live \in Roots \cup {NoKey} /\ staged \in Roots \cup {NoKey}
    /\ retired \in Roots \cup {NoKey, Overwritten}
    /\ made \in Roots
    /\ manifest \in Manifest \cup {NoManifest} /\ ledger \subseteq Manifest
    /\ thread \in [Threads -> Request]
    /\ cmd \in Command
    /\ Documented

(***************************************************************************)
(* The root keys: each is in one file, the last made is the newest, and    *)
(* what holds one came after it.                                           *)
(***************************************************************************)

RowHas(row, k) == row.form = "v1" /\ row.root = k
ThreadHas(t, k) == \/ thread[t].pc = "record" /\ RowHas(thread[t].row, k)
                   \/ thread[t].pc = "credential" /\ thread[t].root = k
Holds(k) == \/ \E r \in Records : RowHas(records[r], k)
            \/ \E c \in Credentials : credentials[c] = k
            \/ \E t \in Threads : ThreadHas(t, k)

KeysInOneFile ==
    /\ live \in Roots => live # staged /\ live # retired
    /\ staged \in Roots => staged # retired

KeysAreMade ==
    \A k \in Roots : k \in {live, staged, retired} \/ Holds(k) => k <= made

\* A key that was only staged is in nobody's hands but the transaction's.
StagedIsNew ==
    staged \in Roots => \A t \in Threads : ~ThreadHas(t, staged)

PlainStore ==
    IF mode = "none"
      THEN /\ canary = NoKey /\ live \in {NoKey, 0} /\ staged = NoKey /\ retired = NoKey
           /\ made = 0 /\ manifest = NoManifest
           /\ cmd.pc \in {"idle", "enable", "encrypt"} /\ cmd.next = NoManifest
           /\ \A r \in Records : records[r].form \in {"plain", "absent", "deleted"}
           /\ \A c \in Credentials : credentials[c] \in {NoKey, Plain}
           /\ \A t \in Threads : /\ thread[t].pc = "record" => thread[t].row = PlainRow
                                 /\ thread[t].pc = "credential" => thread[t].root = Plain
      ELSE canary \in Roots

Rekeying ==
    /\ cmd.pc \in {"rekey", "retire", "promote"} =>
          service # NoKey /\ staged \in Roots /\ cmd.old \in Roots /\ mode = "v3"
    /\ cmd.pc = "rekey" =>
          /\ live = cmd.old /\ canary = live
          /\ \A r \in Records : ~RowHas(records[r], staged)
          /\ \A c \in Credentials : credentials[c] # staged
    /\ cmd.pc = "retire" =>
          /\ live = cmd.old /\ canary = staged
          /\ \A c \in Credentials : credentials[c] \in {NoKey, Plain, staged, live}
    /\ cmd.pc \in {"rekey", "retire"} =>
          \A t \in Threads : /\ thread[t].pc = "credential" => thread[t].root = live
                             /\ thread[t].pc = "record" => thread[t].row.form = "sealed"
    /\ cmd.pc = "promote" => live = NoKey /\ retired = cmd.old /\ canary = staged
    /\ cmd.pc \notin {"rekey", "retire", "promote"} /\ ~died => staged = NoKey

Destroying ==
    /\ cmd.pc \in {"census", "secrets", "digest", "overwrite"} => retired = cmd.old
    /\ cmd.pc \in {"census", "secrets", "digest", "overwrite", "unlink"} =>
          /\ cmd.old \in Roots /\ mode # "none"
          /\ \A t \in Threads : ~ThreadHas(t, cmd.old)
    /\ \/ cmd.pc \in {"secrets", "digest"} /\ ~cmd.problems
       \/ cmd.pc \in {"overwrite", "unlink"}
       => \A r \in Records : ~RowHas(records[r], cmd.old)
    /\ \/ cmd.pc = "digest" /\ ~cmd.problems
       \/ cmd.pc \in {"overwrite", "unlink"}
       => \A c \in Credentials : credentials[c] # cmd.old
    /\ cmd.pc = "unlink" =>
          /\ retired = Overwritten /\ cmd.old <= made
          /\ cmd.old \notin {live, staged}

Encrypting ==
    /\ cmd.pc = "encrypt" => live \in Roots /\ mode # "v1"
    /\ cmd.pc = "enable" => live \in Roots /\ mode = "none"
    /\ cmd.pc = "seal" => mode = "v1"

KeyInv ==
    /\ TypeInv
    /\ KeysInOneFile
    /\ KeysAreMade
    /\ StagedIsNew
    /\ PlainStore
    /\ Rekeying
    /\ Destroying
    /\ Encrypting

(***************************************************************************)
(* Nothing lost.                                                           *)
(***************************************************************************)

SecretsReadable ==
    ~downgraded \/ (made <= 1 /\ ~died) =>
        /\ \A c \in Credentials :
              /\ credentials[c] \in OnDisk \cup {NoKey, Plain}
              /\ credentials[c] = staged /\ staged \in Roots => canary = staged
        /\ \A t \in Threads :
              thread[t].pc = "credential" => thread[t].root \in OnDisk \cup {Plain}

RowsReadable ==
    made <= 1 =>
        /\ \A r \in Records : records[r].form = "v1" => records[r].root \in OnDisk
        /\ \A t \in Threads :
              thread[t].pc = "record" /\ thread[t].row.form = "v1" =>
                  thread[t].row.root \in OnDisk

Findable ==
    /\ SealedRowsAreFindable
    /\ \A t \in Threads :
          thread[t].pc = "record" /\ thread[t].row.form = "sealed" =>
              thread[t].row.index = IndexKey
    /\ service = NoKey /\ mode # "none" => live \in Roots

ReadableInv == KeyInv /\ SecretsReadable /\ RowsReadable /\ Findable

(***************************************************************************)
(* What is destroyed is dead.                                              *)
(***************************************************************************)

Dead(k) ==
    k # NoKey =>
        k <= made /\ k \notin {live, staged, retired} /\ ~Holds(k) /\ mode # "none"

DestroyedIsDead ==
    /\ manifest # NoManifest => Dead(manifest.destroyed)
    /\ cmd.next # NoManifest => Dead(cmd.next.destroyed)

DeathInv == KeyInv /\ DestroyedIsDead

(***************************************************************************)
(* What was done is on record.                                             *)
(***************************************************************************)

StepOnItsWay ==
    /\ mode = "v3" /\ automatic # "v3" /\ ~died =>
          \/ cmd.pc \in {"after", "fingerprint", "write", "audit"}
          \/ manifest # NoManifest /\ manifest \in ledger
    /\ mode # "none" /\ automatic = "no" /\ ~died => announced \/ cmd.pc = "announce"

DestructionOnItsWay(k) ==
    \/ DestroyedOnRecord(k)
    \/ cmd.pc = "unlink" /\ cmd.old = k
    \/ cmd.pc = "write" /\ cmd.next.destroyed = k
    \/ cmd.pc = "audit" /\ manifest.destroyed = k

KeysAccounted ==
    made <= 1 /\ ~died /\ mode # "none" =>
        \A k \in 0 .. made : k \in {live, staged, retired} \/ DestructionOnItsWay(k)

RecordInv == KeyInv /\ SecretsReadable /\ StepOnItsWay /\ KeysAccounted

----------------------------------------------------------------------------
(***************************************************************************)
(* Values.                                                                 *)
(***************************************************************************)

LEMMA KeyNames ==
    /\ NoKey \notin Roots /\ OwnKey \notin Roots /\ Plain \notin Roots
    /\ Overwritten \notin Roots
    /\ NoKey # OwnKey /\ NoKey # Plain /\ NoKey # Overwritten
    /\ 0 \in Roots /\ Roots \subseteq Nat
BY NamesAssumption, MaxRootAssumption DEF Roots

LEMMA RowValues ==
    /\ PlainRow \in Row /\ PlainRow.form = "plain"
    /\ Absent.form = "absent" /\ Deleted.form = "deleted"
    /\ \A row \in Row : /\ row.form \in {"plain", "v1", "sealed"}
                        /\ row.root \in Roots \cup {NoKey}
                        /\ row.index \in Roots \cup {OwnKey, NoKey}
                        /\ row # Absent
BY DEF Row, PlainRow, Absent, Deleted

LEMMA V1Values ==
    ASSUME NEW k \in Roots \cup {NoKey}
    PROVE  V1Row(k) \in Row /\ V1Row(k).form = "v1" /\ V1Row(k).root = k
BY DEF Row, V1Row

LEMMA SealedValues ==
    ASSUME NEW k \in Roots \cup {NoKey, OwnKey}
    PROVE  SealedRow(k) \in Row /\ SealedRow(k).form = "sealed" /\ SealedRow(k).index = k
BY DEF Row, SealedRow

LEMMA RecordValues ==
    ASSUME TypeInv, NEW r \in Records
    PROVE  /\ records[r].form \in {"plain", "v1", "sealed", "absent", "deleted"}
           /\ records[r].form \in {"plain", "v1", "sealed"} => records[r] \in Row
           /\ records[r].form = "v1" => records[r].root \in Roots \cup {NoKey}
<1>1. records[r] \in Row \/ records[r] = Absent \/ records[r] = Deleted  BY DEF TypeInv
<1>2. QED  BY <1>1, RowValues

LEMMA RequestValues ==
    /\ NoRequest \in Request /\ NoRequest.pc = "idle"
    /\ \A row \in Row :
          LET q == [pc |-> "record", row |-> row] IN
          q \in Request /\ q.pc = "record" /\ q.row = row
    /\ \A k \in Roots \cup {NoKey, Plain} :
          LET q == [pc |-> "credential", root |-> k] IN
          q \in Request /\ q.pc = "credential" /\ q.root = k
    /\ \A q \in Request :
          /\ q.pc \in {"idle", "record", "credential"}
          /\ q.pc = "record" => q.row \in Row
          /\ q.pc = "credential" => q.root \in Roots \cup {NoKey, Plain}
BY DEF Request, NoRequest

LEMMA ManifestValues ==
    ASSUME NEW m \in Manifest
    PROVE  /\ m # NoManifest
           /\ m.rekey \in Roots \cup {NoKey} /\ m.destroyed \in Roots \cup {NoKey}
BY ManifestAssumption DEF Manifest

LEMMA IdleValues == Idle \in Command /\ Idle.pc = "idle" /\ Idle.next = NoManifest
BY DEF Idle, Command, Pcs

\* A count of zero means that there is none.
LEMMA CountValues ==
    ASSUME NEW form
    PROVE  /\ Count(form) \in Nat
           /\ Count(form) = 0 => \A r \in Records : records[r].form # form
<1> DEFINE S == {r \in Records : records[r].form = form}
<1>1. IsFiniteSet(S)  BY RecordsAssumption, FS_Subset
<1>2. Cardinality(S) \in Nat  BY <1>1, FS_CardinalityType
<1>3. Cardinality(S) = 0 => S = {}  BY <1>1, FS_EmptySet
<1>4. QED  BY <1>2, <1>3 DEF Count

LEMMA DigestType ==
    ASSUME TypeInv, NEW b \in BOOLEAN
    PROVE  [digest |-> Digest, problems |-> b] \in Migration
<1>1. ASSUME NEW r \in {x \in Records : records[x].form = "sealed"}
      PROVE  [id |-> r, row |-> records[r]] \in [id : Records, row : Row]
  BY RecordValues
<1>2. Digest \subseteq [id : Records, row : Row]  BY <1>1 DEF Digest
<1>3. QED  BY <1>2 DEF Migration

----------------------------------------------------------------------------
(***************************************************************************)
(* What each step does, field by field.                                    *)
(***************************************************************************)

told == <<manifest, ledger, announced, automatic, died>>
world == <<records, credentials, mode, canary, service, files, downgraded, thread>>

OthersStay(t) == \A u \in Threads : u # t => thread'[u] = thread[u]
Ends == cmd'.pc = "idle" /\ cmd'.next = NoManifest
Begins(p) == cmd'.pc = p /\ cmd'.next = NoManifest
Goes(p) == /\ cmd'.pc = p /\ cmd'.old = cmd.old
           /\ cmd'.problems = cmd.problems /\ cmd'.next = cmd.next
Writes(k) == cmd'.pc = "write" /\ cmd'.next \in Manifest /\ cmd'.next.destroyed = k

ConnectStep(t) ==
    /\ thread[t].pc = "idle" /\ OthersStay(t)
    /\ \/ /\ thread'[t].pc = "record" /\ mode = "none" /\ thread'[t].row = PlainRow
       \/ /\ thread'[t].pc = "record" /\ mode = "v1" /\ live = canary
          /\ thread'[t].row.form = "v1" /\ thread'[t].row.root = live
       \/ /\ thread'[t].pc = "record" /\ mode = "v3" /\ (service # NoKey \/ live = canary)
          /\ thread'[t].row.form = "sealed" /\ thread'[t].row.index = IndexKey
       \/ /\ thread'[t].pc = "credential" /\ mode = "none" /\ thread'[t].root = Plain
       \/ /\ thread'[t].pc = "credential" /\ mode # "none" /\ live = canary
          /\ thread'[t].root = live
    /\ UNCHANGED <<database, service, files, told, downgraded, cmd>>

InsertStep(t) ==
    /\ \/ /\ thread[t].pc = "record"
          /\ \E r \in Records :
                /\ records'[r] = thread[t].row
                /\ \A s \in Records : s # r => records'[s] = records[s]
          /\ UNCHANGED credentials
       \/ /\ thread[t].pc = "credential"
          /\ \E c \in Credentials :
                /\ credentials'[c] = thread[t].root
                /\ \A d \in Credentials : d # c => credentials'[d] = credentials[d]
          /\ UNCHANGED records
    /\ thread'[t].pc = "idle" /\ OthersStay(t)
    /\ UNCHANGED <<mode, canary, service, files, told, downgraded, cmd>>

DisconnectStep(t) ==
    /\ thread'[t].pc = "idle" /\ OthersStay(t)
    /\ UNCHANGED <<database, service, files, told, downgraded, cmd>>

PurgeStep ==
    /\ \A r \in Records : records'[r] = records[r] \/ records'[r].form = "deleted"
    /\ UNCHANGED <<credentials, mode, canary, service, files, told, downgraded, thread, cmd>>

SeparateStep ==
    /\ service = NoKey /\ cmd.pc = "idle" /\ Drained /\ live # NoKey
    /\ \/ service' = live
       \/ /\ service' = OwnKey /\ mode # "v3"
          /\ \A r \in Records : records[r].form # "sealed"
    /\ UNCHANGED <<database, files, told, downgraded, thread, cmd>>

\* encrypt_store and init_db begin alike: with a key in the file.
EncryptStep ==
    /\ \/ Ready /\ mode # "v1" /\ Begins("encrypt")
       \/ cmd.pc = "idle" /\ mode = "none" /\ Begins("enable")
    /\ \/ live # NoKey /\ UNCHANGED <<live, made>>
       \/ live = NoKey /\ mode = "none" /\ live' = 0 /\ UNCHANGED made
       \/ live = NoKey /\ mode # "none" /\ made' = made + 1 /\ live' = made'
    /\ UNCHANGED <<database, service, staged, retired, told, downgraded, thread>>

EncryptRowsStep ==
    /\ cmd.pc = "encrypt" /\ Goes("announce")
    /\ \A r \in Records :
          IF records[r].form = "plain"
            THEN records'[r].form = "v1" /\ records'[r].root = live
            ELSE records'[r] = records[r]
    /\ \A c \in Credentials :
          credentials'[c] = IF credentials[c] = Plain THEN live ELSE credentials[c]
    /\ mode' = "v1" /\ canary' = live
    /\ downgraded' = (downgraded \/ mode = "v3") /\ automatic' = "no"
    /\ UNCHANGED <<service, files, manifest, ledger, announced, died, thread>>

\* What init_db makes of the store.
SwitchStep ==
    /\ \/ /\ cmd.pc = "enable" /\ (Goes("seal") \/ Ends)
          /\ mode' = "v1" /\ canary' = live /\ automatic' = "v1"
       \/ /\ cmd.pc = "seal" /\ Ends
          /\ mode' = "v3" /\ automatic' = "v3" /\ UNCHANGED canary
    /\ UNCHANGED <<records, credentials, service, files, manifest, ledger, announced,
                   died, downgraded, thread>>

ResealStep ==
    /\ cmd.pc = "reseal" /\ Goes("after")
    /\ \A r \in Records :
          IF records[r].form = "v1"
            THEN records'[r].form = "sealed" /\ records'[r].index = IndexKey
            ELSE records'[r] = records[r]
    /\ mode' = "v3"
    /\ UNCHANGED <<credentials, canary, service, files, told, downgraded, thread>>

RekeyStep ==
    /\ Ready /\ Begins("rekey") /\ cmd'.old = live
    /\ mode = "v3" /\ manifest # NoManifest
    /\ live # NoKey /\ live = canary /\ service # NoKey
    /\ made' = made + 1 /\ staged' = made + 1
    /\ UNCHANGED <<database, service, live, retired, told, downgraded, thread>>

RekeySecretsStep ==
    /\ cmd.pc = "rekey"
    /\ \/ /\ \A c \in Credentials : credentials[c] \in {NoKey, Plain, cmd.old}
          /\ \A c \in Credentials :
                credentials'[c] = IF credentials[c] = cmd.old THEN staged ELSE credentials[c]
          /\ canary' = staged /\ Goes("retire")
          /\ UNCHANGED staged
       \/ /\ \E c \in Credentials : credentials[c] \notin {NoKey, Plain, cmd.old}
          /\ staged' = NoKey /\ Ends
          /\ UNCHANGED <<credentials, canary>>
    /\ UNCHANGED <<records, mode, service, live, retired, made, told, downgraded, thread>>

RetireStep ==
    /\ cmd.pc = "retire" /\ Goes("promote")
    /\ retired' = live /\ live' = NoKey
    /\ UNCHANGED <<database, service, staged, made, told, downgraded, thread>>

PromoteStep ==
    /\ cmd.pc = "promote" /\ Writes(manifest.destroyed)
    /\ live' = staged /\ staged' = NoKey
    /\ UNCHANGED <<database, service, retired, made, told, downgraded, thread>>

OverwriteStep ==
    /\ cmd.pc = "overwrite" /\ Goes("unlink")
    /\ retired' = Overwritten
    /\ UNCHANGED <<database, service, live, staged, made, told, downgraded, thread>>

UnlinkStep ==
    /\ cmd.pc = "unlink" /\ Writes(cmd.old)
    /\ retired' = NoKey
    /\ UNCHANGED <<database, service, live, staged, made, told, downgraded, thread>>

\* The steps of a command that touch neither keys nor data.
PlanStep ==
    /\ \/ cmd.pc = "idle" /\ mode = "v1" /\ Begins("reseal")
       \/ /\ cmd.pc = "after" /\ cmd'.pc = "fingerprint" /\ cmd'.next = cmd.next
       \/ cmd.pc = "fingerprint" /\ Writes(NoKey)
       \/ cmd.pc = "idle" /\ manifest # NoManifest /\ Writes(manifest.destroyed)
    /\ UNCHANGED <<world, told>>

ProveStep ==
    /\ \/ /\ Ready /\ Begins("census") /\ cmd'.old = retired
          /\ manifest # NoManifest /\ retired \in Roots
       \/ /\ cmd.pc = "census" /\ cmd'.pc = "secrets"
          /\ cmd'.old = cmd.old /\ cmd'.next = cmd.next
          /\ ~cmd'.problems => \A r \in Records : records[r].form # "v1"
       \/ /\ cmd.pc = "secrets" /\ cmd'.pc = "digest"
          /\ cmd'.old = cmd.old /\ cmd'.next = cmd.next
          /\ ~cmd'.problems => ~cmd.problems /\ \A c \in Credentials : credentials[c] # cmd.old
       \/ cmd.pc = "digest" /\ ~cmd.problems /\ Goes("overwrite")
       \/ cmd.pc = "digest" /\ Ends
    /\ UNCHANGED <<world, told>>

RecordsStep ==
    /\ \/ /\ cmd.pc = "announce" /\ announced' = TRUE /\ Ends
          /\ UNCHANGED <<manifest, ledger, automatic, died>>
       \/ /\ cmd.pc = "write" /\ manifest' = cmd.next /\ Goes("audit")
          /\ UNCHANGED <<ledger, announced, automatic, died>>
       \/ /\ cmd.pc = "audit" /\ ledger' = ledger \cup {manifest} /\ Ends
          /\ UNCHANGED <<manifest, announced, automatic, died>>
       \/ /\ died' = TRUE /\ Ends
          /\ UNCHANGED <<manifest, ledger, announced, automatic>>
    /\ UNCHANGED world

Does ==
    \/ \E t \in Threads : ConnectStep(t) \/ InsertStep(t) \/ DisconnectStep(t)
    \/ PurgeStep \/ SeparateStep
    \/ EncryptStep \/ EncryptRowsStep \/ SwitchStep \/ ResealStep
    \/ RekeyStep \/ RekeySecretsStep \/ RetireStep \/ PromoteStep
    \/ OverwriteStep \/ UnlinkStep \/ PlanStep \/ ProveStep \/ RecordsStep
    \/ UNCHANGED <<world, told, cmd>>

LEMMA InitType == Init => TypeInv
<1> SUFFICES ASSUME Init PROVE TypeInv  OBVIOUS
<1>1. records \in [Records -> Row \cup {Absent, Deleted}]
  <2>1. {Absent, PlainRow, V1Row(0)} \subseteq Row \cup {Absent, Deleted}
    BY KeyNames, RowValues, V1Values
  <2>2. QED  BY <2>1 DEF Init
<1>2. credentials \in [Credentials -> Roots \cup {NoKey, Plain}]  BY KeyNames DEF Init
<1>3. thread \in [Threads -> Request]  BY RequestValues DEF Init
<1>4. cmd \in Command /\ cmd.pc = "idle"  BY IdleValues DEF Init
<1>5. QED  BY <1>1, <1>2, <1>3, <1>4, KeyNames DEF Init, TypeInv, Documented

LEMMA ThreadSteps ==
    ASSUME TypeInv, NEW t \in Threads, Connect(t) \/ Insert(t) \/ Disconnect(t)
    PROVE  TypeInv' /\ (ConnectStep(t) \/ InsertStep(t) \/ DisconnectStep(t))
<1>1. CASE Connect(t)
  <2>1. PICK q \in Request :
            /\ thread' = [thread EXCEPT ![t] = q]
            /\ \/ q.pc = "record" /\ mode = "none" /\ q.row = PlainRow
               \/ /\ q.pc = "record" /\ mode = "v1" /\ live = canary
                  /\ q.row.form = "v1" /\ q.row.root = live
               \/ /\ q.pc = "record" /\ mode = "v3" /\ (service # NoKey \/ live = canary)
                  /\ q.row.form = "sealed" /\ q.row.index = IndexKey
               \/ q.pc = "credential" /\ mode = "none" /\ q.root = Plain
               \/ q.pc = "credential" /\ mode # "none" /\ live = canary /\ q.root = live
    <3>1. live \in Roots \cup {NoKey} /\ IndexKey \in Roots \cup {NoKey, OwnKey}
      BY DEF TypeInv, IndexKey
    <3> DEFINE PlainRecord == [pc |-> "record", row |-> PlainRow]
               V1Record == [pc |-> "record", row |-> V1Row(live)]
               SealedRecord == [pc |-> "record", row |-> SealedRow(IndexKey)]
               PlainCredential == [pc |-> "credential", root |-> Plain]
               Credential == [pc |-> "credential", root |-> live]
    <3>2. /\ PlainRecord \in Request /\ PlainRecord.pc = "record"
          /\ PlainRecord.row = PlainRow
      BY RowValues, RequestValues
    <3>3. /\ V1Record \in Request /\ V1Record.pc = "record"
          /\ V1Record.row.form = "v1" /\ V1Record.row.root = live
      BY <3>1, V1Values, RequestValues
    <3>4. /\ SealedRecord \in Request /\ SealedRecord.pc = "record"
          /\ SealedRecord.row.form = "sealed" /\ SealedRecord.row.index = IndexKey
      BY <3>1, SealedValues, RequestValues
    <3>5. /\ PlainCredential \in Request /\ PlainCredential.pc = "credential"
          /\ PlainCredential.root = Plain
      BY RequestValues
    <3>6. /\ Credential \in Request /\ Credential.pc = "credential"
          /\ Credential.root = live
      BY <3>1, RequestValues
    <3> HIDE DEF PlainRecord, V1Record, SealedRecord, PlainCredential, Credential
    <3>7. \/ thread' = [thread EXCEPT ![t] = PlainRecord] /\ mode = "none"
          \/ thread' = [thread EXCEPT ![t] = V1Record] /\ mode = "v1" /\ live = canary
          \/ /\ thread' = [thread EXCEPT ![t] = SealedRecord]
             /\ mode = "v3" /\ (service # NoKey \/ live = canary)
          \/ thread' = [thread EXCEPT ![t] = PlainCredential] /\ mode = "none"
          \/ /\ thread' = [thread EXCEPT ![t] = Credential]
             /\ mode # "none" /\ live = canary
      BY <1>1 DEF Connect, PlainRecord, V1Record, SealedRecord, PlainCredential, Credential
    <3>8. QED  BY <3>2, <3>3, <3>4, <3>5, <3>6, <3>7
  <2>2. thread \in [Threads -> Request]  BY DEF TypeInv
  <2>3. /\ thread' \in [Threads -> Request]
        /\ thread'[t] = q /\ \A u \in Threads : u # t => thread'[u] = thread[u]
    BY <2>1, <2>2
  <2>4. thread[t].pc = "idle" /\ UNCHANGED <<database, service, files, record, cmd, history, died>>
    BY <1>1 DEF Connect
  <2>5. TypeInv'
    BY <2>3, <2>4 DEF TypeInv, Documented, database, files, record, history
  <2>6. ConnectStep(t)
    BY <2>1, <2>3, <2>4 DEF ConnectStep, OthersStay, told, database, files, record, history
  <2>7. QED  BY <2>5, <2>6
<1>2. ASSUME thread' = [thread EXCEPT ![t] = NoRequest]
      PROVE  /\ thread' \in [Threads -> Request]
             /\ thread'[t].pc = "idle" /\ OthersStay(t)
  <2>1. thread \in [Threads -> Request]  BY DEF TypeInv
  <2>2. thread'[t] = NoRequest /\ thread' \in [Threads -> Request]
    BY <1>2, <2>1, RequestValues
  <2>3. QED  BY <1>2, <2>1, <2>2, RequestValues DEF OthersStay
<1>3. CASE Insert(t)
  <2>1. thread' = [thread EXCEPT ![t] = NoRequest]
        /\ UNCHANGED <<mode, canary, service, files, record, cmd, history, died>>
    BY <1>3 DEF Insert
  <2>2. /\ thread[t].pc = "record" => thread[t].row \in Row
        /\ thread[t].pc = "credential" => thread[t].root \in Roots \cup {NoKey, Plain}
    BY RequestValues DEF TypeInv
  <2>3. /\ records \in [Records -> Row \cup {Absent, Deleted}]
        /\ credentials \in [Credentials -> Roots \cup {NoKey, Plain}]
    BY DEF TypeInv
  <2>4. CASE /\ thread[t].pc = "record" /\ UNCHANGED credentials
             /\ \E r \in Records : records' = [records EXCEPT ![r] = thread[t].row]
    <3>1. PICK r \in Records : records' = [records EXCEPT ![r] = thread[t].row]
      BY <2>4
    <3>2. /\ records' \in [Records -> Row \cup {Absent, Deleted}]
          /\ records'[r] = thread[t].row
          /\ \A s \in Records : s # r => records'[s] = records[s]
      BY <3>1, <2>2, <2>3, <2>4
    <3>3. TypeInv'
      BY <1>2, <2>1, <2>4, <3>2 DEF TypeInv, Documented, files, record, history
    <3>4. InsertStep(t)
      BY <1>2, <2>1, <2>4, <3>2 DEF InsertStep, told, files, record, history
    <3>5. QED  BY <3>3, <3>4
  <2>5. CASE /\ thread[t].pc = "credential" /\ UNCHANGED records
             /\ \E c \in Credentials :
                    credentials' = [credentials EXCEPT ![c] = thread[t].root]
    <3>1. PICK c \in Credentials : credentials' = [credentials EXCEPT ![c] = thread[t].root]
      BY <2>5
    <3>2. /\ credentials' \in [Credentials -> Roots \cup {NoKey, Plain}]
          /\ credentials'[c] = thread[t].root
          /\ \A d \in Credentials : d # c => credentials'[d] = credentials[d]
      BY <3>1, <2>2, <2>3, <2>5
    <3>3. TypeInv'
      BY <1>2, <2>1, <2>5, <3>2 DEF TypeInv, Documented, files, record, history
    <3>4. InsertStep(t)
      BY <1>2, <2>1, <2>5, <3>2 DEF InsertStep, told, files, record, history
    <3>5. QED  BY <3>3, <3>4
  <2>6. QED  BY <1>3, <2>4, <2>5 DEF Insert
<1>4. CASE Disconnect(t)
  <2>1. /\ thread' = [thread EXCEPT ![t] = NoRequest]
        /\ UNCHANGED <<database, service, files, record, cmd, history, died>>
    BY <1>4 DEF Disconnect
  <2>2. TypeInv'
    BY <1>2, <2>1 DEF TypeInv, Documented, database, files, record, history
  <2>3. DisconnectStep(t)
    BY <1>2, <2>1 DEF DisconnectStep, told, database, files, record, history
  <2>4. QED  BY <2>2, <2>3
<1>5. QED  BY <1>1, <1>3, <1>4

LEMMA JobSteps ==
    ASSUME TypeInv, Purge \/ SeparateService
    PROVE  TypeInv' /\ (PurgeStep \/ SeparateStep)
<1>1. CASE Purge
  <2>1. PICK gone : records' = [r \in Records |-> IF r \in gone THEN Deleted ELSE records[r]]
    BY <1>1 DEF Purge
  <2>2. records' \in [Records -> Row \cup {Absent, Deleted}]  BY <2>1 DEF TypeInv
  <2>3. \A r \in Records : records'[r] = records[r] \/ records'[r].form = "deleted"
    BY <2>1, RowValues
  <2>4. UNCHANGED <<credentials, mode, canary, service, files, record, thread, cmd,
                    history, died>>
    BY <1>1 DEF Purge
  <2>5. TypeInv'  BY <2>2, <2>4 DEF TypeInv, Documented, files, record, history
  <2>6. PurgeStep  BY <2>3, <2>4 DEF PurgeStep, told, files, record, history
  <2>7. QED  BY <2>5, <2>6
<1>2. CASE SeparateService
  <2>1. \/ service' = live
        \/ service' = OwnKey /\ mode # "v3" /\ Count("sealed") = 0
    BY <1>2 DEF SeparateService
  <2>2. \/ service' = live
        \/ /\ service' = OwnKey /\ mode # "v3"
           /\ \A r \in Records : records[r].form # "sealed"
    BY <2>1, CountValues
  <2>3. TypeInv'
    BY <1>2, <2>2 DEF SeparateService, TypeInv, Documented, database, files, record, history
  <2>4. SeparateStep
    BY <1>2, <2>2 DEF SeparateService, SeparateStep, told, database, files, record, history
  <2>5. QED  BY <2>3, <2>4
<1>3. QED  BY <1>1, <1>2

LEMMA EncryptionSteps ==
    ASSUME TypeInv, Encrypt \/ EncryptRows \/ AnnounceEncryption
    PROVE  TypeInv' /\ (EncryptStep \/ EncryptRowsStep \/ RecordsStep)
<1>1. CASE Encrypt
  <2>1. cmd' \in Command /\ Begins("encrypt")
    <3>1. cmd' = [Idle EXCEPT !.pc = "encrypt"]  BY <1>1 DEF Encrypt
    <3>2. QED  BY <3>1 DEF Idle, Command, Pcs, Begins
  <2>2. live' \in Roots \cup {NoKey} /\ made' \in Roots
    BY <1>1, KeyNames, MaxRootAssumption DEF Encrypt, TypeInv, Roots
  <2>3. UNCHANGED <<database, service, staged, retired, record, thread, history, died>>
    BY <1>1 DEF Encrypt
  <2>4. TypeInv'
    BY <2>1, <2>2, <2>3 DEF TypeInv, Begins, Documented, database, record, history
  <2>5. Ready /\ mode # "v1"
        /\ \/ live # NoKey /\ UNCHANGED <<live, made>>
           \/ live = NoKey /\ mode = "none" /\ live' = 0 /\ UNCHANGED made
           \/ live = NoKey /\ mode # "none" /\ made' = made + 1 /\ live' = made'
    BY <1>1 DEF Encrypt
  <2>6. EncryptStep
    BY <2>1, <2>3, <2>5 DEF EncryptStep, told, record, history
  <2>7. QED  BY <2>4, <2>6
<1>2. CASE EncryptRows
  <2>1. cmd \in Command /\ live \in Roots \cup {NoKey}  BY DEF TypeInv
  <2>2. cmd' \in Command /\ Goes("announce")
    <3>1. cmd' = [cmd EXCEPT !.pc = "announce"]  BY <1>2 DEF EncryptRows
    <3>2. QED  BY <2>1, <3>1 DEF Command, Pcs, Goes
  <2>3. records' \in [Records -> Row \cup {Absent, Deleted}]
    BY <1>2, <2>1, V1Values DEF EncryptRows, TypeInv
  <2>4. \A r \in Records :
           IF records[r].form = "plain"
             THEN records'[r].form = "v1" /\ records'[r].root = live
             ELSE records'[r] = records[r]
    BY <1>2, <2>1, V1Values DEF EncryptRows
  <2>5. credentials' \in [Credentials -> Roots \cup {NoKey, Plain}]
        /\ \A c \in Credentials :
              credentials'[c] = IF credentials[c] = Plain THEN live ELSE credentials[c]
    BY <1>2, <2>1 DEF EncryptRows, TypeInv
  <2>6. cmd.pc = "encrypt" /\ mode' = "v1" /\ canary' = live
        /\ downgraded' = (downgraded \/ mode = "v3")
        /\ automatic' = "no"
        /\ UNCHANGED <<service, files, record, thread, refusals, announced, died>>
    BY <1>2 DEF EncryptRows
  <2>7. downgraded' \in BOOLEAN  BY <2>6 DEF TypeInv
  <2>8. TypeInv'
    BY <2>1, <2>2, <2>3, <2>5, <2>6, <2>7 DEF TypeInv, Goes, Documented, files, record
  <2>9. EncryptRowsStep
    BY <2>2, <2>4, <2>5, <2>6 DEF EncryptRowsStep, files, record
  <2>10. QED  BY <2>8, <2>9
<1>3. CASE AnnounceEncryption
  <2>1. cmd' \in Command /\ Ends  BY <1>3, IdleValues DEF AnnounceEncryption, Ends
  <2>2. cmd.pc = "announce" /\ announced' = TRUE
        /\ UNCHANGED <<database, service, files, record, thread, refusals, automatic,
                       downgraded, died>>
    BY <1>3 DEF AnnounceEncryption
  <2>3. TypeInv'
    BY <2>1, <2>2 DEF TypeInv, Ends, Documented, database, files, record
  <2>4. RecordsStep
    BY <2>1, <2>2 DEF RecordsStep, world, database, files, record
  <2>5. QED  BY <2>3, <2>4
<1>4. QED  BY <1>1, <1>2, <1>3

LEMMA SwitchingSteps ==
    ASSUME TypeInv, InitDb \/ Enable \/ SealNew
    PROVE  TypeInv' /\ (EncryptStep \/ SwitchStep)
<1>1. cmd \in Command  BY DEF TypeInv
<1>2. CASE InitDb
  <2>1. cmd' \in Command /\ Begins("enable")
    <3>1. cmd' = [Idle EXCEPT !.pc = "enable"]  BY <1>2 DEF InitDb
    <3>2. QED  BY <3>1 DEF Idle, Command, Pcs, Begins
  <2>2. live' \in Roots \cup {NoKey}  BY <1>2, KeyNames DEF InitDb, TypeInv
  <2>3. UNCHANGED <<database, service, staged, retired, made, record, thread, history,
                    died>>
    BY <1>2 DEF InitDb
  <2>4. TypeInv'
    BY <2>1, <2>2, <2>3 DEF TypeInv, Begins, Documented, database, record, history
  <2>5. EncryptStep
    BY <1>2, <2>1, <2>3 DEF InitDb, EncryptStep, told, record, history
  <2>6. QED  BY <2>4, <2>5
<1>3. CASE Enable
  <2>1. cmd' \in Command /\ (Goes("seal") \/ Ends)
    <3>1. cmd' = [cmd EXCEPT !.pc = "seal"] \/ cmd' = Idle  BY <1>3 DEF Enable
    <3>2. QED  BY <1>1, <3>1, IdleValues DEF Command, Pcs, Goes, Ends
  <2>2. cmd.pc = "enable" /\ mode' = "v1" /\ canary' = live /\ automatic' = "v1"
        /\ UNCHANGED <<records, credentials, service, files, record, thread, refusals,
                       announced, downgraded, died>>
    BY <1>3 DEF Enable
  <2>3. TypeInv'  BY <2>1, <2>2 DEF TypeInv, Goes, Ends, Documented, files, record
  <2>4. SwitchStep  BY <2>1, <2>2 DEF SwitchStep, files, record
  <2>5. QED  BY <2>3, <2>4
<1>4. CASE SealNew
  <2>1. cmd' \in Command /\ Ends  BY <1>4, IdleValues DEF SealNew, Ends
  <2>2. cmd.pc = "seal" /\ mode' = "v3" /\ automatic' = "v3"
        /\ UNCHANGED <<records, credentials, canary, service, files, record, thread,
                       refusals, announced, downgraded, died>>
    BY <1>4 DEF SealNew
  <2>3. TypeInv'  BY <2>1, <2>2 DEF TypeInv, Ends, Documented, files, record
  <2>4. SwitchStep  BY <2>1, <2>2 DEF SwitchStep, files, record
  <2>5. QED  BY <2>3, <2>4
<1>5. QED  BY <1>2, <1>3, <1>4

LEMMA Planned ==
    ASSUME TypeInv, cmd' \in Command, Documented',
           UNCHANGED <<database, service, files, record, thread, history, died>>
    PROVE  TypeInv' /\ UNCHANGED <<world, told>>
BY DEF TypeInv, world, told, database, files, record, history

LEMMA MigrationSteps ==
    ASSUME TypeInv, Migrate \/ Reseal \/ After \/ Fingerprint \/ Verify
    PROVE  TypeInv' /\ (PlanStep \/ ResealStep)
<1>1. cmd \in Command  BY DEF TypeInv
<1>2. CASE Migrate
  <2>1. cmd' \in Command /\ Begins("reseal")
    <3>1. Count("v1") + Count("sealed") \in Nat  BY CountValues
    <3>2. cmd' = [Idle EXCEPT !.pc = "reseal", !.before = Count("v1") + Count("sealed")]
      BY <1>2 DEF Migrate
    <3>3. QED  BY <3>1, <3>2 DEF Idle, Command, Pcs, Begins
  <2>2. TypeInv' /\ UNCHANGED <<world, told>>
    BY <1>2, <2>1, Planned DEF Migrate, Begins, Documented
  <2>3. PlanStep  BY <1>2, <2>1, <2>2 DEF Migrate, Ready, PlanStep
  <2>4. QED  BY <2>2, <2>3
<1>3. CASE Reseal
  <2>1. cmd' \in Command /\ Goes("after")
    <3>1. cmd' = [cmd EXCEPT !.pc = "after"]  BY <1>3 DEF Reseal
    <3>2. QED  BY <1>1, <3>1 DEF Command, Pcs, Goes
  <2>2. IndexKey \in Roots \cup {NoKey, OwnKey}  BY DEF TypeInv, IndexKey
  <2>3. records' \in [Records -> Row \cup {Absent, Deleted}]
    BY <1>3, <2>2, SealedValues DEF Reseal, Resealed, TypeInv
  <2>4. \A r \in Records :
           IF records[r].form = "v1"
             THEN records'[r].form = "sealed" /\ records'[r].index = IndexKey
             ELSE records'[r] = records[r]
    BY <1>3, <2>2, SealedValues DEF Reseal, Resealed
  <2>5. cmd.pc = "reseal" /\ mode' = "v3"
        /\ UNCHANGED <<credentials, canary, service, files, record, thread, history, died>>
    BY <1>3 DEF Reseal
  <2>6. TypeInv'
    BY <2>1, <2>3, <2>5 DEF TypeInv, Goes, Documented, files, record, history
  <2>7. ResealStep
    BY <2>1, <2>4, <2>5 DEF ResealStep, told, files, record, history
  <2>8. QED  BY <2>6, <2>7
<1>4. CASE After
  <2>1. PICK b \in BOOLEAN : cmd' = [cmd EXCEPT !.pc = "fingerprint", !.problems = b]
    BY <1>4 DEF After
  <2>2. cmd' \in Command /\ cmd'.pc = "fingerprint" /\ cmd'.next = cmd.next
    BY <1>1, <2>1 DEF Command, Pcs
  <2>3. TypeInv' /\ UNCHANGED <<world, told>>
    BY <1>4, <2>2, Planned DEF After, Documented
  <2>4. PlanStep  BY <1>4, <2>2, <2>3 DEF After, PlanStep
  <2>5. QED  BY <2>3, <2>4
<1>5. CASE Fingerprint
  <2>1. PICK b \in BOOLEAN :
           cmd' = RecordStep([NoManifestYet EXCEPT !.migrate =
                                 [digest |-> Digest, problems |-> b]])
    <3>1. cmd.problems \in BOOLEAN  BY <1>1 DEF Command
    <3>2. QED  BY <1>5, <3>1 DEF Fingerprint
  <2>2. [digest |-> Digest, problems |-> b] \in Migration  BY DigestType
  <2>3. cmd' \in Command /\ Writes(NoKey)
    <3>1. PICK m : m = [NoManifestYet EXCEPT !.migrate =
                           [digest |-> Digest, problems |-> b]]
      OBVIOUS
    <3>2. m \in Manifest /\ m.destroyed = NoKey
      BY <2>2, <3>1 DEF NoManifestYet, Manifest
    <3>3. cmd' = [cmd EXCEPT !.pc = "write", !.next = m]
      BY <2>1, <3>1 DEF RecordStep
    <3>4. QED  BY <1>1, <3>2, <3>3 DEF Command, Pcs, Writes
  <2>4. TypeInv' /\ UNCHANGED <<world, told>>
    BY <1>5, <2>3, Planned, ManifestValues DEF Fingerprint, Writes, Documented
  <2>5. PlanStep  BY <1>5, <2>3, <2>4 DEF Fingerprint, PlanStep
  <2>6. QED  BY <2>4, <2>5
<1>6. CASE Verify
  <2>1. manifest \in Manifest  BY <1>6 DEF Verify, TypeInv
  <2>2. cmd' \in Command /\ Writes(manifest.destroyed)
    <3>1. PICK m : m = [manifest EXCEPT !.verified = TRUE]  OBVIOUS
    <3>2. m \in Manifest /\ m.destroyed = manifest.destroyed  BY <2>1, <3>1 DEF Manifest
    <3>3. cmd' = [cmd EXCEPT !.pc = "write", !.next = m]
      BY <1>6, <3>1 DEF Verify, RecordStep
    <3>4. QED  BY <1>1, <3>2, <3>3 DEF Command, Pcs, Writes
  <2>3. TypeInv' /\ UNCHANGED <<world, told>>
    BY <1>6, <2>2, Planned, ManifestValues DEF Verify, Writes, Documented
  <2>4. PlanStep  BY <1>6, <2>2, <2>3 DEF Verify, Ready, PlanStep
  <2>5. QED  BY <2>3, <2>4
<1>7. QED  BY <1>2, <1>3, <1>4, <1>5, <1>6

LEMMA RekeyingSteps ==
    ASSUME TypeInv, Rekey \/ RekeySecrets \/ Retire \/ Promote
    PROVE  TypeInv' /\ (RekeyStep \/ RekeySecretsStep \/ RetireStep \/ PromoteStep)
<1>1. cmd \in Command  BY DEF TypeInv
<1>2. CASE Rekey
  <2>1. live \in Roots \cup {NoKey}  BY DEF TypeInv
  <2>2. cmd' \in Command /\ Begins("rekey") /\ cmd'.old = live
    <3>1. cmd' = [Idle EXCEPT !.pc = "rekey", !.old = live]  BY <1>2 DEF Rekey
    <3>2. QED  BY <2>1, <3>1 DEF Idle, Command, Pcs, Begins
  <2>3. made' \in Roots /\ staged' \in Roots
    BY <1>2, MaxRootAssumption DEF Rekey, TypeInv, Roots
  <2>4. UNCHANGED <<database, service, live, retired, record, thread, history, died>>
        /\ manifest # NoManifest
    BY <1>2 DEF Rekey
  <2>5. TypeInv'
    BY <2>2, <2>3, <2>4 DEF TypeInv, Begins, Documented, database, record, history
  <2>6. RekeyStep
    BY <1>2, <2>2, <2>4 DEF Rekey, CanaryOpens, IndexKeyElsewhere, RekeyStep, told, record, history
  <2>7. QED  BY <2>5, <2>6
<1>3. CASE RekeySecrets
  <2>1. cmd.pc = "rekey" /\ manifest # NoManifest
        /\ UNCHANGED <<records, mode, service, live, retired, made, record, thread,
                       history, died>>
    BY <1>3 DEF RekeySecrets, TypeInv, Documented
  <2>2. CASE \A c \in Credentials : credentials[c] \in {NoKey, Plain, cmd.old}
    <3>1. cmd' \in Command /\ Goes("retire")
      <4>1. cmd' = [cmd EXCEPT !.pc = "retire"]  BY <1>3, <2>2 DEF RekeySecrets
      <4>2. QED  BY <1>1, <4>1 DEF Command, Pcs, Goes
    <3>2. /\ credentials' = [c \in Credentials |->
                IF credentials[c] = cmd.old THEN staged ELSE credentials[c]]
          /\ canary' = staged /\ UNCHANGED staged
      BY <1>3, <2>2 DEF RekeySecrets
    <3>3. credentials' \in [Credentials -> Roots \cup {NoKey, Plain}]
      BY <3>2 DEF TypeInv
    <3>4. TypeInv'
      BY <2>1, <3>1, <3>2, <3>3 DEF TypeInv, Goes, Documented, record, history
    <3>5. RekeySecretsStep
      BY <2>1, <2>2, <3>1, <3>2 DEF RekeySecretsStep, told, record, history
    <3>6. QED  BY <3>4, <3>5
  <2>3. CASE ~(\A c \in Credentials : credentials[c] \in {NoKey, Plain, cmd.old})
    <3>1. cmd' \in Command /\ Ends
      BY <1>3, <2>3, IdleValues DEF RekeySecrets, Ends
    <3>2. staged' = NoKey /\ UNCHANGED <<credentials, canary>>
      BY <1>3, <2>3 DEF RekeySecrets
    <3>3. TypeInv'
      BY <2>1, <3>1, <3>2 DEF TypeInv, Ends, Documented, record, history
    <3>4. RekeySecretsStep
      BY <2>1, <2>3, <3>1, <3>2 DEF RekeySecretsStep, told, record, history
    <3>5. QED  BY <3>3, <3>4
  <2>4. QED  BY <2>2, <2>3
<1>4. CASE Retire
  <2>1. cmd' \in Command /\ Goes("promote")
    <3>1. cmd' = [cmd EXCEPT !.pc = "promote"]  BY <1>4 DEF Retire
    <3>2. QED  BY <1>1, <3>1 DEF Command, Pcs, Goes
  <2>2. cmd.pc = "retire" /\ manifest # NoManifest
        /\ retired' = live /\ live' = NoKey
        /\ UNCHANGED <<database, service, staged, made, record, thread, history, died>>
    BY <1>4 DEF Retire, TypeInv, Documented
  <2>3. TypeInv'
    BY <2>1, <2>2 DEF TypeInv, Goes, Documented, database, record, history
  <2>4. RetireStep
    BY <2>1, <2>2 DEF RetireStep, told, record, history
  <2>5. QED  BY <2>3, <2>4
<1>5. CASE Promote
  <2>1. cmd.pc = "promote" /\ manifest # NoManifest
        /\ live' = staged /\ staged' = NoKey
        /\ UNCHANGED <<database, service, retired, made, record, thread, history, died>>
    BY <1>5 DEF Promote, TypeInv, Documented
  <2>2. manifest \in Manifest /\ cmd.old \in Roots \cup {NoKey}
    BY <2>1 DEF TypeInv, Command
  <2>3. cmd' \in Command /\ Writes(manifest.destroyed)
    <3>1. PICK m : m = [manifest EXCEPT !.rekey = cmd.old]  OBVIOUS
    <3>2. m \in Manifest /\ m.destroyed = manifest.destroyed  BY <2>2, <3>1 DEF Manifest
    <3>3. cmd' = [cmd EXCEPT !.pc = "write", !.next = m]
      BY <1>5, <3>1 DEF Promote, RecordStep
    <3>4. QED  BY <1>1, <3>2, <3>3 DEF Command, Pcs, Writes
  <2>4. TypeInv'
    BY <2>1, <2>3, ManifestValues DEF TypeInv, Writes, Documented, database, record, history
  <2>5. PromoteStep
    BY <2>1, <2>3 DEF PromoteStep, told, record, history
  <2>6. QED  BY <2>4, <2>5
<1>6. QED  BY <1>2, <1>3, <1>4, <1>5

LEMMA DestructionSteps ==
    ASSUME TypeInv, \/ Destroy \/ ProveCensus \/ ProveSecrets \/ ProveDigest
                    \/ Overwrite \/ Unlink
    PROVE  TypeInv' /\ (ProveStep \/ OverwriteStep \/ UnlinkStep)
<1>1. cmd \in Command  BY DEF TypeInv
<1>2. CASE Destroy
  <2>1. manifest \in Manifest /\ manifest # NoManifest
    BY <1>2 DEF Destroy, TypeInv
  <2>2. retired \in Roots
    BY <1>2, <2>1, ManifestValues DEF Destroy
  <2>3. cmd' \in Command /\ Begins("census") /\ cmd'.old = retired
    <3>1. cmd' = [Idle EXCEPT !.pc = "census", !.old = retired]  BY <1>2 DEF Destroy
    <3>2. QED  BY <2>2, <3>1 DEF Idle, Command, Pcs, Begins
  <2>4. Ready /\ UNCHANGED <<database, service, files, record, thread, history, died>>
    BY <1>2 DEF Destroy
  <2>5. Documented'  BY <2>1, <2>3, <2>4 DEF Begins, Documented, record
  <2>6. TypeInv' /\ UNCHANGED <<world, told>>  BY <2>3, <2>4, <2>5, Planned
  <2>7. ProveStep  BY <2>1, <2>2, <2>3, <2>4, <2>6 DEF ProveStep
  <2>8. QED  BY <2>6, <2>7
<1>3. CASE ProveCensus
  <2>1. PICK b \in BOOLEAN : /\ cmd' = [cmd EXCEPT !.pc = "secrets", !.problems = b]
                             /\ b = (Count("v1") # 0)
    BY <1>3 DEF ProveCensus
  <2>2. /\ cmd' \in Command /\ cmd'.pc = "secrets" /\ cmd'.old = cmd.old
        /\ cmd'.next = cmd.next /\ cmd'.problems = b
    BY <1>1, <2>1 DEF Command, Pcs
  <2>3. ~b => \A r \in Records : records[r].form # "v1"  BY <2>1, CountValues
  <2>4. cmd.pc = "census" /\ manifest # NoManifest
        /\ UNCHANGED <<database, service, files, record, thread, history, died>>
    BY <1>3 DEF ProveCensus, TypeInv, Documented
  <2>5. Documented'  BY <2>2, <2>4 DEF Documented, record
  <2>6. TypeInv' /\ UNCHANGED <<world, told>>  BY <2>2, <2>4, <2>5, Planned
  <2>7. ProveStep  BY <2>2, <2>3, <2>4, <2>6 DEF ProveStep
  <2>8. QED  BY <2>6, <2>7
<1>4. CASE ProveSecrets
  <2>1. PICK b \in BOOLEAN : /\ cmd' = [cmd EXCEPT !.pc = "digest", !.problems = b]
                             /\ b = (cmd.problems \/ OpenSecrets(cmd.old) # {})
    <3> DEFINE b == cmd.problems \/ OpenSecrets(cmd.old) # {}
    <3>1. b \in BOOLEAN  OBVIOUS
    <3>2. cmd' = [cmd EXCEPT !.pc = "digest", !.problems = b]
      BY <1>1, <1>4 DEF ProveSecrets, Command
    <3>3. QED  BY <3>1, <3>2
  <2>2. /\ cmd' \in Command /\ cmd'.pc = "digest" /\ cmd'.old = cmd.old
        /\ cmd'.next = cmd.next /\ cmd'.problems = b
    BY <1>1, <2>1 DEF Command, Pcs
  <2>3. ~b => ~cmd.problems /\ \A c \in Credentials : credentials[c] # cmd.old
    BY <2>1 DEF OpenSecrets
  <2>4. cmd.pc = "secrets" /\ manifest # NoManifest
        /\ UNCHANGED <<database, service, files, record, thread, history, died>>
    BY <1>4 DEF ProveSecrets, TypeInv, Documented
  <2>5. Documented'  BY <2>2, <2>4 DEF Documented, record
  <2>6. TypeInv' /\ UNCHANGED <<world, told>>  BY <2>2, <2>4, <2>5, Planned
  <2>7. ProveStep  BY <2>2, <2>3, <2>4, <2>6 DEF ProveStep
  <2>8. QED  BY <2>6, <2>7
<1>5. CASE ProveDigest
  <2>1. cmd.pc = "digest" /\ manifest # NoManifest
        /\ UNCHANGED <<database, service, files, record, thread, announced, automatic,
                       downgraded, died>>
    BY <1>5 DEF ProveDigest, TypeInv, Documented
  <2>2. /\ cmd' \in Command
        /\ Ends \/ (~cmd.problems /\ Goes("overwrite"))
    <3>1. \/ cmd' = Idle
          \/ ~cmd.problems /\ cmd' = [cmd EXCEPT !.pc = "overwrite"]
      BY <1>5 DEF ProveDigest
    <3>2. CASE cmd' = Idle  BY <3>2, IdleValues DEF Ends
    <3>3. CASE ~cmd.problems /\ cmd' = [cmd EXCEPT !.pc = "overwrite"]
      BY <1>1, <3>3 DEF Command, Pcs, Goes
    <3>4. QED  BY <3>1, <3>2, <3>3
  <2>3. TypeInv'
    BY <2>1, <2>2 DEF TypeInv, Ends, Goes, Documented, database, files, record
  <2>4. ProveStep
    BY <2>1, <2>2 DEF ProveStep, world, told, database, files, record
  <2>5. QED  BY <2>3, <2>4
<1>6. CASE Overwrite
  <2>1. cmd' \in Command /\ Goes("unlink")
    <3>1. cmd' = [cmd EXCEPT !.pc = "unlink"]  BY <1>6 DEF Overwrite
    <3>2. QED  BY <1>1, <3>1 DEF Command, Pcs, Goes
  <2>2. cmd.pc = "overwrite" /\ manifest # NoManifest /\ retired' = Overwritten
        /\ UNCHANGED <<database, service, live, staged, made, record, thread, history, died>>
    BY <1>6 DEF Overwrite, TypeInv, Documented
  <2>3. TypeInv'
    BY <2>1, <2>2 DEF TypeInv, Goes, Documented, database, record, history
  <2>4. OverwriteStep
    BY <2>1, <2>2 DEF OverwriteStep, told, record, history
  <2>5. QED  BY <2>3, <2>4
<1>7. CASE Unlink
  <2>1. cmd.pc = "unlink" /\ manifest # NoManifest /\ retired' = NoKey
        /\ UNCHANGED <<database, service, live, staged, made, record, thread, history, died>>
    BY <1>7 DEF Unlink, TypeInv, Documented
  <2>2. manifest \in Manifest /\ cmd.old \in Roots \cup {NoKey}
    BY <2>1 DEF TypeInv, Command
  <2>3. cmd' \in Command /\ Writes(cmd.old)
    <3>1. PICK m : m = [manifest EXCEPT !.destroyed = cmd.old]  OBVIOUS
    <3>2. m \in Manifest /\ m.destroyed = cmd.old  BY <2>2, <3>1 DEF Manifest
    <3>3. cmd' = [cmd EXCEPT !.pc = "write", !.next = m]
      BY <1>7, <3>1 DEF Unlink, RecordStep
    <3>4. QED  BY <1>1, <3>2, <3>3 DEF Command, Pcs, Writes
  <2>4. TypeInv'
    BY <2>1, <2>3, ManifestValues DEF TypeInv, Writes, Documented, database, record, history
  <2>5. UnlinkStep
    BY <2>1, <2>3 DEF UnlinkStep, told, record, history
  <2>6. QED  BY <2>4, <2>5
<1>8. QED  BY <1>2, <1>3, <1>4, <1>5, <1>6, <1>7

LEMMA RecordingSteps ==
    ASSUME TypeInv, WriteManifest \/ AppendDigest \/ Die
    PROVE  TypeInv' /\ RecordsStep
<1>1. cmd \in Command  BY DEF TypeInv
<1>2. CASE WriteManifest
  <2>1. cmd' \in Command /\ Goes("audit")
    <3>1. cmd' = [cmd EXCEPT !.pc = "audit"]  BY <1>2 DEF WriteManifest
    <3>2. QED  BY <1>1, <3>1 DEF Command, Pcs, Goes
  <2>2. cmd.pc = "write" /\ manifest' = cmd.next
        /\ UNCHANGED <<database, service, files, ledger, thread, history, died>>
    BY <1>2 DEF WriteManifest
  <2>3. manifest' \in Manifest
    BY <1>1, <2>2 DEF TypeInv, Documented, Command
  <2>4. TypeInv'
    BY <2>1, <2>2, <2>3, ManifestValues DEF TypeInv, Goes, Documented, database, files, history
  <2>5. RecordsStep
    BY <2>1, <2>2 DEF RecordsStep, world, database, files, history
  <2>6. QED  BY <2>4, <2>5
<1>3. CASE AppendDigest
  <2>1. cmd' \in Command /\ Ends  BY <1>3, IdleValues DEF AppendDigest, Ends
  <2>2. cmd.pc = "audit" /\ ledger' = ledger \cup {manifest}
        /\ UNCHANGED <<database, service, files, manifest, thread, history, died>>
    BY <1>3 DEF AppendDigest
  <2>3. ledger' \subseteq Manifest  BY <2>2 DEF TypeInv, Documented
  <2>4. TypeInv'
    BY <2>1, <2>2, <2>3 DEF TypeInv, Ends, Documented, database, files, history
  <2>5. RecordsStep
    BY <2>1, <2>2 DEF RecordsStep, world, database, files, history
  <2>6. QED  BY <2>4, <2>5
<1>4. CASE Die
  <2>1. cmd' \in Command /\ Ends  BY <1>4, IdleValues DEF Die, Ends
  <2>2. died' = TRUE
        /\ UNCHANGED <<database, service, files, record, thread, history>>
    BY <1>4 DEF Die
  <2>3. TypeInv'
    BY <2>1, <2>2 DEF TypeInv, Ends, Documented, database, files, record, history
  <2>4. RecordsStep
    BY <2>1, <2>2 DEF RecordsStep, world, database, files, record, history
  <2>5. QED  BY <2>3, <2>4
<1>5. QED  BY <1>2, <1>3, <1>4

\* Every step keeps the types and is one of those above.
LEMMA Steps == TypeInv /\ [Next]_vars => TypeInv' /\ Does
<1> SUFFICES ASSUME TypeInv, [Next]_vars PROVE TypeInv' /\ Does  OBVIOUS
<1>1. CASE UNCHANGED vars
  BY <1>1 DEF vars, TypeInv, Documented, Does, world, told, database, files, record, history
<1>2. CASE Next
  BY <1>2, ThreadSteps, JobSteps, EncryptionSteps, SwitchingSteps, MigrationSteps, RekeyingSteps,
     DestructionSteps, RecordingSteps DEF Next, Does
<1>3. QED  BY <1>1, <1>2

----------------------------------------------------------------------------
(***************************************************************************)
(* The type invariant.                                                     *)
(***************************************************************************)

\* Every state is well typed, and a command that is about to write or to
\* record a manifest has one.
THEOREM TypeInvariant == Spec => []TypeInv
BY InitType, Steps, PTL DEF Spec

LEMMA TypesOK == TypeInv => TypeOK
<1> SUFFICES ASSUME TypeInv PROVE TypeOK  OBVIOUS
<1>1. \A m \in ledger \cup ({manifest} \ {NoManifest}) :
         m.rekey \in Roots \cup {NoKey} /\ m.destroyed \in Roots \cup {NoKey}
  BY ManifestValues DEF TypeInv
<1>2. cmd.pc \in Pcs  BY DEF TypeInv, Command
<1>3. QED  BY <1>1, <1>2 DEF TypeInv, TypeOK, Pcs

----------------------------------------------------------------------------
(***************************************************************************)
(* The root keys.                                                          *)
(***************************************************************************)

LEMMA FilesChange ==
    Does => \/ UNCHANGED files
            \/ EncryptStep \/ RekeyStep \/ RekeySecretsStep \/ RetireStep \/ PromoteStep
            \/ OverwriteStep \/ UnlinkStep
BY DEF Does, ConnectStep, InsertStep, DisconnectStep, PurgeStep, SeparateStep,
       EncryptRowsStep, SwitchStep, ResealStep, PlanStep, ProveStep, RecordsStep, world

KeysKnown ==
    /\ live \in Roots \cup {NoKey} /\ staged \in Roots \cup {NoKey}
    /\ retired \in Roots \cup {NoKey, Overwritten} /\ made \in Nat
    /\ \A k \in Roots : k \in {live, staged, retired} => k <= made

LEMMA KeysAreKnown == KeyInv => KeysKnown
BY KeyNames DEF KeyInv, TypeInv, KeysAreMade, KeysKnown

LEMMA InOneFileStep == KeyInv /\ Does => KeysInOneFile'
<1> SUFFICES ASSUME KeyInv, Does PROVE KeysInOneFile'  OBVIOUS
<1>1. KeysInOneFile /\ KeysKnown  BY KeysAreKnown DEF KeyInv
<1>2. CASE UNCHANGED files  BY <1>1, <1>2 DEF KeysInOneFile, files
<1>3. CASE EncryptStep
  <2>1. mode = "none" => staged = NoKey /\ retired = NoKey  BY DEF KeyInv, PlainStore
  <2>2. QED  BY <1>1, <1>3, <2>1, KeyNames DEF EncryptStep, KeysInOneFile, KeysKnown
<1>4. CASE RekeyStep
  BY <1>1, <1>4, KeyNames DEF RekeyStep, KeysInOneFile, KeysKnown
<1>5. CASE RekeySecretsStep
  BY <1>1, <1>5, KeyNames DEF RekeySecretsStep, KeysInOneFile
<1>6. CASE RetireStep \/ PromoteStep
  BY <1>1, <1>6, KeyNames DEF RetireStep, PromoteStep, KeysInOneFile
<1>7. CASE OverwriteStep \/ UnlinkStep
  BY <1>1, <1>7, KeyNames DEF OverwriteStep, UnlinkStep, KeysInOneFile
<1>8. QED  BY <1>2, <1>3, <1>4, <1>5, <1>6, <1>7, FilesChange

\* What holds a key after a step held it before, or took it from the file of
\* the key in use or from the staged one.
LEMMA HoldersStep ==
    ASSUME KeyInv, Does, NEW k \in Roots
    PROVE  /\ Holds(k)' => Holds(k) \/ k = live \/ (RekeySecretsStep /\ k = staged)
           /\ \A t \in Threads : ThreadHas(t, k)' =>
                 \/ ThreadHas(t, k)
                 \/ ConnectStep(t) /\ k = live /\ live = canary
<1>1. CASE \E t \in Threads : ConnectStep(t)
  <2>1. PICK t \in Threads : ConnectStep(t)  BY <1>1
  <2>2. \A u \in Threads : u # t => (ThreadHas(u, k)' <=> ThreadHas(u, k))
    BY <2>1 DEF ConnectStep, OthersStay, ThreadHas, RowHas
  <2>3. ThreadHas(t, k)' => k = live /\ live = canary
    BY <2>1, RowValues, KeyNames DEF ConnectStep, ThreadHas, RowHas
  <2>4. UNCHANGED <<records, credentials>>  BY <2>1 DEF ConnectStep, database
  <2>5. QED  BY <2>1, <2>2, <2>3, <2>4 DEF Holds, RowHas
<1>2. CASE \E t \in Threads : InsertStep(t)
  <2>1. PICK t \in Threads : InsertStep(t)  BY <1>2
  <2>2. \A u \in Threads : ThreadHas(u, k)' => ThreadHas(u, k)
    BY <2>1 DEF InsertStep, OthersStay, ThreadHas, RowHas
  <2>3. \A r \in Records : RowHas(records[r], k)' => RowHas(records[r], k) \/ ThreadHas(t, k)
    BY <2>1 DEF InsertStep, ThreadHas, RowHas
  <2>4. \A c \in Credentials : credentials'[c] = k => credentials[c] = k \/ ThreadHas(t, k)
    BY <2>1 DEF InsertStep, ThreadHas
  <2>5. QED  BY <2>2, <2>3, <2>4 DEF Holds
<1>3. CASE \E t \in Threads : DisconnectStep(t)
  <2>1. PICK t \in Threads : DisconnectStep(t)  BY <1>3
  <2>2. \A u \in Threads : ThreadHas(u, k)' => ThreadHas(u, k)
    BY <2>1 DEF DisconnectStep, OthersStay, ThreadHas, RowHas
  <2>3. UNCHANGED <<records, credentials>>  BY <2>1 DEF DisconnectStep, database
  <2>4. QED  BY <2>2, <2>3 DEF Holds, RowHas
<1>4. ASSUME UNCHANGED thread
      PROVE  \A u \in Threads : ThreadHas(u, k)' <=> ThreadHas(u, k)
  BY <1>4 DEF ThreadHas, RowHas
<1>5. CASE PurgeStep
  <2>1. UNCHANGED <<thread, credentials>>  BY <1>5 DEF PurgeStep
  <2>2. \A r \in Records : RowHas(records[r], k)' => RowHas(records[r], k)
    BY <1>5 DEF PurgeStep, RowHas
  <2>3. QED  BY <1>4, <2>1, <2>2 DEF Holds
<1>6. CASE EncryptRowsStep
  <2>1. UNCHANGED thread  BY <1>6 DEF EncryptRowsStep
  <2>2. \A r \in Records : RowHas(records[r], k)' => RowHas(records[r], k) \/ k = live
    BY <1>6 DEF EncryptRowsStep, RowHas
  <2>3. \A c \in Credentials : credentials'[c] = k => credentials[c] = k \/ k = live
    BY <1>6 DEF EncryptRowsStep
  <2>4. QED  BY <1>4, <2>1, <2>2, <2>3 DEF Holds
<1>7. CASE ResealStep
  <2>1. UNCHANGED <<thread, credentials>>  BY <1>7 DEF ResealStep
  <2>2. \A r \in Records : RowHas(records[r], k)' => RowHas(records[r], k)
    BY <1>7 DEF ResealStep, RowHas
  <2>3. QED  BY <1>4, <2>1, <2>2 DEF Holds
<1>8. CASE RekeySecretsStep
  <2>1. UNCHANGED <<thread, records>>  BY <1>8 DEF RekeySecretsStep
  <2>2. \A c \in Credentials : credentials'[c] = k => credentials[c] = k \/ k = staged
    BY <1>8 DEF RekeySecretsStep
  <2>3. QED  BY <1>4, <1>8, <2>1, <2>2 DEF Holds, RowHas
<1>9. CASE UNCHANGED <<records, credentials, thread>>
  BY <1>4, <1>9 DEF Holds, RowHas
<1>10. CASE SeparateStep \/ EncryptStep \/ SwitchStep \/ RekeyStep \/ RetireStep
            \/ PromoteStep \/ OverwriteStep \/ UnlinkStep \/ PlanStep \/ ProveStep \/ RecordsStep
  BY <1>9, <1>10 DEF SeparateStep, EncryptStep, SwitchStep, RekeyStep,
    RetireStep, PromoteStep,
     OverwriteStep, UnlinkStep, PlanStep, ProveStep, RecordsStep, world, database
<1>11. CASE UNCHANGED <<world, told, cmd>>  BY <1>9, <1>11 DEF world, database
<1>12. QED
  BY <1>1, <1>2, <1>3, <1>5, <1>6, <1>7, <1>8, <1>10, <1>11 DEF Does

\* Which keys the files hold after a step.
LEMMA FilesStep ==
    ASSUME KeyInv, Does, NEW k \in Roots, k \in {live, staged, retired}'
    PROVE  \/ k \in {live, staged, retired}
           \/ k > made /\ k = made'
           \/ mode = "none" /\ k = 0
<1>1. KeysKnown  BY KeysAreKnown
<1>2. CASE UNCHANGED files  BY <1>2 DEF files
<1>3. CASE EncryptStep  BY <1>1, <1>3 DEF EncryptStep, KeysKnown
<1>4. CASE RekeyStep  BY <1>1, <1>4 DEF RekeyStep, KeysKnown
<1>5. CASE RekeySecretsStep  BY <1>5, KeyNames DEF RekeySecretsStep
<1>6. CASE RetireStep \/ PromoteStep  BY <1>6, KeyNames DEF RetireStep, PromoteStep
<1>7. CASE OverwriteStep \/ UnlinkStep  BY <1>7, KeyNames DEF OverwriteStep, UnlinkStep
<1>8. QED  BY <1>2, <1>3, <1>4, <1>5, <1>6, <1>7, FilesChange

LEMMA MadeGrows == KeyInv /\ Does => made' >= made
<1> SUFFICES ASSUME KeyInv, Does PROVE made' >= made  OBVIOUS
<1>1. made \in Nat  BY KeysAreKnown DEF KeysKnown
<1>2. QED
  BY <1>1, FilesChange DEF files, EncryptStep, RekeyStep, RekeySecretsStep, RetireStep,
     PromoteStep, OverwriteStep, UnlinkStep

LEMMA MadeStep == KeyInv /\ TypeInv' /\ Does => KeysAreMade'
<1> SUFFICES ASSUME KeyInv, TypeInv', Does, NEW k \in Roots,
                    k \in {live, staged, retired}' \/ Holds(k)'
             PROVE  k <= made'
  BY DEF KeysAreMade
<1>1. made' >= made /\ made \in Nat /\ made' \in Nat /\ k \in Nat
  BY MadeGrows, KeysAreKnown, KeyNames DEF KeysKnown, TypeInv
<1>2. CASE k \in {live, staged, retired} \/ Holds(k)
  BY <1>1, <1>2 DEF KeyInv, KeysAreMade
<1>3. CASE k \in {live, staged, retired}'  BY <1>1, <1>2, <1>3, FilesStep
<1>4. CASE Holds(k)'  BY <1>2, <1>4, HoldersStep
<1>5. QED  BY <1>3, <1>4

LEMMA StagedStep == KeyInv /\ TypeInv' /\ Does => StagedIsNew'
<1> SUFFICES ASSUME KeyInv, TypeInv', Does, (staged \in Roots)', NEW t \in Threads,
                    ThreadHas(t, staged)'
             PROVE  FALSE
  BY DEF StagedIsNew
<1>1. KeysKnown  BY KeysAreKnown
<1>2. PICK k \in Roots : k = staged' /\ ThreadHas(t, k)'  BY DEF ThreadHas, RowHas
<1>3. ThreadHas(t, k) \/ (ConnectStep(t) /\ k = live)  BY <1>2, HoldersStep
<1>4. CASE staged' = staged
  <2>1. ~ThreadHas(t, k)  BY <1>2, <1>4 DEF KeyInv, StagedIsNew
  <2>2. k # live  BY <1>2, <1>4 DEF KeyInv, KeysInOneFile
  <2>3. QED  BY <1>3, <2>1, <2>2
<1>5. CASE RekeyStep
  <2>1. k = made + 1  BY <1>2, <1>5 DEF RekeyStep
  <2>2. k <= made
    <3>1. CASE ThreadHas(t, k)  BY <3>1 DEF KeyInv, KeysAreMade, Holds
    <3>2. CASE k = live  BY <1>1, <3>2 DEF KeysKnown
    <3>3. QED  BY <1>3, <3>1, <3>2
  <2>3. QED  BY <1>1, <2>1, <2>2 DEF KeysKnown
<1>6. CASE staged' = NoKey  BY <1>2, <1>6, KeyNames
<1>7. QED
  BY <1>4, <1>5, <1>6, FilesChange DEF files, EncryptStep, RekeySecretsStep, RetireStep,
     PromoteStep, OverwriteStep, UnlinkStep

LEMMA ModeStep ==
    Does => \/ UNCHANGED <<mode, canary>>
            \/ EncryptRowsStep
            \/ SwitchStep
            \/ ResealStep
            \/ RekeySecretsStep /\ mode' = mode /\ cmd.pc = "rekey"
BY DEF Does, ConnectStep, InsertStep, DisconnectStep, PurgeStep, SeparateStep, EncryptStep,
       RekeyStep, RekeySecretsStep, RetireStep, PromoteStep, OverwriteStep, UnlinkStep,
       PlanStep, ProveStep, RecordsStep, world, database

\* In a store that is not encrypted only these steps are taken.
LEMMA PlainSteps ==
    ASSUME KeyInv, Does, mode = "none"
    PROVE  \/ \E t \in Threads : ConnectStep(t) \/ InsertStep(t) \/ DisconnectStep(t)
           \/ PurgeStep \/ SeparateStep \/ EncryptStep \/ EncryptRowsStep
           \/ SwitchStep /\ cmd.pc = "enable"
           \/ died' = TRUE /\ Ends /\ UNCHANGED <<world, manifest, ledger, announced>>
           \/ UNCHANGED <<world, told, cmd>>
<1>1. cmd.pc \in {"idle", "enable", "encrypt"} /\ manifest = NoManifest /\ retired = NoKey
  BY DEF KeyInv, PlainStore
<1>2. ~RekeyStep  BY DEF RekeyStep
<1>3. ~PlanStep /\ ~ProveStep  BY <1>1, KeyNames DEF PlanStep, ProveStep
<1>4. RecordsStep =>
         died' = TRUE /\ Ends /\ UNCHANGED <<world, manifest, ledger, announced>>
  BY <1>1 DEF RecordsStep
<1>5. ~ResealStep /\ ~RekeySecretsStep /\ ~RetireStep /\ ~PromoteStep
      /\ ~OverwriteStep /\ ~UnlinkStep
  BY <1>1 DEF ResealStep, RekeySecretsStep, RetireStep, PromoteStep, OverwriteStep, UnlinkStep
<1>6. SwitchStep => cmd.pc = "enable"  BY <1>1 DEF SwitchStep
<1>7. QED  BY <1>2, <1>3, <1>4, <1>5, <1>6 DEF Does

PlainKeys == /\ canary = NoKey /\ live \in {NoKey, 0} /\ staged = NoKey /\ retired = NoKey
             /\ made = 0 /\ manifest = NoManifest
             /\ cmd.pc \in {"idle", "enable", "encrypt"} /\ cmd.next = NoManifest
PlainData == /\ \A r \in Records : records[r].form \in {"plain", "absent", "deleted"}
             /\ \A c \in Credentials : credentials[c] \in {NoKey, Plain}
             /\ \A t \in Threads : /\ thread[t].pc = "record" => thread[t].row = PlainRow
                                   /\ thread[t].pc = "credential" => thread[t].root = Plain

LEMMA PlainStep == KeyInv /\ TypeInv' /\ Does => PlainStore'
<1> SUFFICES ASSUME KeyInv, TypeInv', Does PROVE PlainStore'  OBVIOUS
<1>1. CASE mode # "none"
  <2>1. mode' # "none"
    BY <1>1, ModeStep DEF EncryptRowsStep, SwitchStep, ResealStep
  <2>2. canary \in Roots  BY <1>1 DEF KeyInv, PlainStore
  <2>3. canary' \in Roots
    <3>1. CASE EncryptRowsStep
      BY <3>1 DEF EncryptRowsStep, KeyInv, Encrypting
    <3>2. CASE ResealStep  BY <2>2, <3>2 DEF ResealStep
    <3>3. CASE RekeySecretsStep
      BY <2>2, <3>3 DEF RekeySecretsStep, KeyInv, Rekeying
    <3>4. CASE SwitchStep
      BY <2>2, <3>4 DEF SwitchStep, KeyInv, Encrypting
    <3>5. QED  BY <2>2, <3>1, <3>2, <3>3, <3>4, ModeStep
  <2>4. QED  BY <2>1, <2>3 DEF PlainStore
<1>2. CASE mode = "none"
  <2>1. PlainKeys /\ PlainData
    BY <1>2 DEF KeyInv, PlainStore, PlainKeys, PlainData
  <2>2. CASE EncryptRowsStep \/ (SwitchStep /\ cmd.pc = "enable")
    <3>1. mode' = "v1" /\ canary' \in Roots
      BY <2>2 DEF EncryptRowsStep, SwitchStep, KeyInv, Encrypting
    <3>2. QED  BY <3>1 DEF PlainStore
  <2>3. ASSUME PlainKeys', PlainData', mode' = "none"
        PROVE  PlainStore'
    BY <2>3 DEF PlainStore, PlainKeys, PlainData
  <2>4. ASSUME UNCHANGED <<records, credentials, thread>>
        PROVE  PlainData'
    BY <2>1, <2>4 DEF PlainData
  <2>5. ASSUME UNCHANGED <<canary, files, manifest, cmd>>
        PROVE  PlainKeys'
    BY <2>1, <2>5 DEF PlainKeys, files
  <2>6. CASE \E t \in Threads : ConnectStep(t)
    <3>1. PICK t \in Threads : ConnectStep(t)  BY <2>6
    <3>2. PlainKeys' /\ mode' = "none"
      BY <1>2, <2>5, <3>1 DEF ConnectStep, database, told
    <3>3. UNCHANGED <<records, credentials>>  BY <3>1 DEF ConnectStep, database
    <3>4. ASSUME NEW u \in Threads
          PROVE  /\ thread'[u].pc = "record" => thread'[u].row = PlainRow
                 /\ thread'[u].pc = "credential" => thread'[u].root = Plain
      BY <1>2, <2>1, <3>1 DEF ConnectStep, OthersStay, PlainData
    <3>5. PlainData'  BY <2>1, <3>3, <3>4 DEF PlainData
    <3>6. QED  BY <2>3, <3>2, <3>5
  <2>7. CASE \E t \in Threads : InsertStep(t)
    <3>1. PICK t \in Threads : InsertStep(t)  BY <2>7
    <3>2. PlainKeys' /\ mode' = "none"
      BY <1>2, <2>5, <3>1 DEF InsertStep, told
    <3>3. \A u \in Threads : /\ thread'[u].pc = "record" => thread'[u].row = PlainRow
                             /\ thread'[u].pc = "credential" => thread'[u].root = Plain
      BY <2>1, <3>1 DEF InsertStep, OthersStay, PlainData
    <3>4. \A r \in Records : records'[r].form \in {"plain", "absent", "deleted"}
      BY <2>1, <3>1, RowValues DEF InsertStep, PlainData
    <3>5. \A c \in Credentials : credentials'[c] \in {NoKey, Plain}
      BY <2>1, <3>1 DEF InsertStep, PlainData
    <3>6. PlainData'  BY <3>3, <3>4, <3>5 DEF PlainData
    <3>7. QED  BY <2>3, <3>2, <3>6
  <2>8. CASE \E t \in Threads : DisconnectStep(t)
    <3>1. PICK t \in Threads : DisconnectStep(t)  BY <2>8
    <3>2. PlainKeys' /\ mode' = "none"
      BY <1>2, <2>5, <3>1 DEF DisconnectStep, database, told
    <3>3. UNCHANGED <<records, credentials>>  BY <3>1 DEF DisconnectStep, database
    <3>4. \A u \in Threads : /\ thread'[u].pc = "record" => thread'[u].row = PlainRow
                             /\ thread'[u].pc = "credential" => thread'[u].root = Plain
      BY <2>1, <3>1 DEF DisconnectStep, OthersStay, PlainData
    <3>5. PlainData'  BY <2>1, <3>3, <3>4 DEF PlainData
    <3>6. QED  BY <2>3, <3>2, <3>5
  <2>9. CASE PurgeStep
    <3>1. PlainKeys' /\ mode' = "none"  BY <1>2, <2>5, <2>9 DEF PurgeStep, told
    <3>2. PlainData'  BY <2>1, <2>9 DEF PurgeStep, PlainData
    <3>3. QED  BY <2>3, <3>1, <3>2
  <2>10. CASE SeparateStep
    BY <1>2, <2>3, <2>4, <2>5, <2>10 DEF SeparateStep, database, told
  <2>11. CASE EncryptStep
    <3>1. PlainKeys'  BY <1>2, <2>1, <2>11 DEF EncryptStep, Begins, PlainKeys, database, told
    <3>2. QED  BY <1>2, <2>3, <2>4, <2>11, <3>1 DEF EncryptStep, database
  <2>12. CASE Ends /\ UNCHANGED <<world, manifest>>
    <3>1. PlainKeys'  BY <2>1, <2>12 DEF Ends, PlainKeys, world, files
    <3>2. QED  BY <1>2, <2>3, <2>4, <2>12, <3>1 DEF world
  <2>13. CASE UNCHANGED <<world, told, cmd>>
    BY <1>2, <2>3, <2>4, <2>5, <2>13 DEF world, told
  <2>14. QED
    BY <1>2, <2>2, <2>6, <2>7, <2>8, <2>9, <2>10, <2>11, <2>12, <2>13, PlainSteps
<1>3. QED  BY <1>1, <1>2

\* The application and the retention job leave the command where it is.
calm == <<mode, canary, service, files, told, downgraded, cmd>>

LEMMA CommandChange ==
    Does => \/ UNCHANGED calm /\ \/ UNCHANGED <<records, credentials, thread>>
                                 \/ PurgeStep
                                 \/ \E t \in Threads : \/ ConnectStep(t) \/ InsertStep(t)
                                                       \/ DisconnectStep(t)
            \/ SeparateStep \/ EncryptStep \/ EncryptRowsStep \/ SwitchStep
            \/ ResealStep
            \/ RekeyStep \/ RekeySecretsStep \/ RetireStep \/ PromoteStep
            \/ OverwriteStep \/ UnlinkStep \/ PlanStep \/ ProveStep \/ RecordsStep
BY DEF Does, ConnectStep, InsertStep, DisconnectStep, PurgeStep, calm, world, database

RekeyRunning ==
    cmd.pc \in {"rekey", "retire", "promote"} =>
        service # NoKey /\ staged \in Roots /\ cmd.old \in Roots /\ mode = "v3"
RekeyFresh ==
    cmd.pc = "rekey" =>
        /\ live = cmd.old /\ canary = live
        /\ \A r \in Records : ~RowHas(records[r], staged)
        /\ \A c \in Credentials : credentials[c] # staged
RekeyCommitted ==
    cmd.pc = "retire" =>
        /\ live = cmd.old /\ canary = staged
        /\ \A c \in Credentials : credentials[c] \in {NoKey, Plain, staged, live}
RekeyThreads ==
    cmd.pc \in {"rekey", "retire"} =>
        \A t \in Threads : /\ thread[t].pc = "credential" => thread[t].root = live
                           /\ thread[t].pc = "record" => thread[t].row.form = "sealed"
RekeyRetired ==
    cmd.pc = "promote" => live = NoKey /\ retired = cmd.old /\ canary = staged
NothingStaged ==
    cmd.pc \notin {"rekey", "retire", "promote"} /\ ~died => staged = NoKey

LEMMA RekeyingParts ==
    Rekeying <=> /\ RekeyRunning /\ RekeyFresh /\ RekeyCommitted
                 /\ RekeyThreads /\ RekeyRetired /\ NothingStaged
BY DEF Rekeying, RekeyRunning, RekeyFresh, RekeyCommitted, RekeyThreads, RekeyRetired,
       NothingStaged

LEMMA RekeyThreadsStep ==
    ASSUME KeyInv, UNCHANGED calm,
           \/ UNCHANGED <<records, credentials, thread>> \/ PurgeStep
           \/ \E t \in Threads : ConnectStep(t) \/ InsertStep(t) \/ DisconnectStep(t)
    PROVE  RekeyThreads' /\ RekeyCommitted'
<1>1. RekeyThreads /\ RekeyCommitted /\ RekeyRunning
  BY RekeyingParts DEF KeyInv
<1>2. UNCHANGED <<cmd, mode, service, canary, live, staged>>  BY DEF calm, files
<1>3. CASE UNCHANGED <<records, credentials, thread>> \/ PurgeStep
  BY <1>1, <1>2, <1>3 DEF RekeyThreads, RekeyCommitted, PurgeStep
<1>4. ASSUME NEW t \in Threads, ConnectStep(t)
      PROVE  RekeyThreads' /\ RekeyCommitted'
  <2>1. UNCHANGED credentials  BY <1>4 DEF ConnectStep, database
  <2>2. RekeyThreads'
    BY <1>1, <1>2, <1>4 DEF ConnectStep, OthersStay, RekeyThreads, RekeyRunning
  <2>3. QED  BY <1>1, <1>2, <2>1, <2>2 DEF RekeyCommitted
<1>5. ASSUME NEW t \in Threads, InsertStep(t)
      PROVE  RekeyThreads' /\ RekeyCommitted'
  <2>1. RekeyThreads'
    BY <1>1, <1>2, <1>5 DEF InsertStep, OthersStay, RekeyThreads
  <2>2. ASSUME cmd.pc = "retire", NEW c \in Credentials
        PROVE  credentials'[c] \in {NoKey, Plain, staged, live}
    <3>1. credentials[c] \in {NoKey, Plain, staged, live}
      BY <1>1, <2>2 DEF RekeyCommitted
    <3>2. thread[t].pc = "credential" => thread[t].root = live
      BY <1>1, <2>2 DEF RekeyThreads
    <3>3. \/ credentials'[c] = credentials[c]
          \/ thread[t].pc = "credential" /\ credentials'[c] = thread[t].root
      BY <1>5 DEF InsertStep
    <3>4. QED  BY <3>1, <3>2, <3>3
  <2>3. QED  BY <1>1, <1>2, <2>1, <2>2 DEF RekeyCommitted
<1>6. ASSUME NEW t \in Threads, DisconnectStep(t)
      PROVE  RekeyThreads' /\ RekeyCommitted'
  <2>1. UNCHANGED credentials  BY <1>6 DEF DisconnectStep, database
  <2>2. RekeyThreads'
    BY <1>1, <1>2, <1>6 DEF DisconnectStep, OthersStay, RekeyThreads
  <2>3. QED  BY <1>1, <1>2, <2>1, <2>2 DEF RekeyCommitted
<1>7. QED  BY <1>3, <1>4, <1>5, <1>6

LEMMA RekeyingStep == KeyInv /\ TypeInv' /\ Does => Rekeying'
<1> SUFFICES ASSUME KeyInv, TypeInv', Does PROVE Rekeying'  OBVIOUS
<1>1. /\ RekeyRunning /\ RekeyFresh /\ RekeyCommitted
      /\ RekeyThreads /\ RekeyRetired /\ NothingStaged
  BY RekeyingParts DEF KeyInv
<1>2. KeysKnown /\ KeysInOneFile  BY KeysAreKnown DEF KeyInv
<1>3. ASSUME RekeyRunning', RekeyFresh', RekeyCommitted', RekeyThreads', RekeyRetired',
             NothingStaged'
      PROVE  Rekeying'
  BY <1>3 DEF Rekeying, RekeyRunning, RekeyFresh, RekeyCommitted, RekeyThreads,
     RekeyRetired, NothingStaged
<1>4. ASSUME cmd'.pc \notin {"rekey", "retire", "promote"}, NothingStaged'
      PROVE  Rekeying'
  BY <1>4 DEF Rekeying, NothingStaged
<1>5. CASE UNCHANGED calm /\ \/ UNCHANGED <<records, credentials, thread>> \/ PurgeStep
                             \/ \E t \in Threads : \/ ConnectStep(t) \/ InsertStep(t)
                                                   \/ DisconnectStep(t)
  <2>1. UNCHANGED <<cmd, mode, service, canary, live, staged, retired, died>>
    BY <1>5 DEF calm, files, told
  <2>2. RekeyThreads' /\ RekeyCommitted'  BY <1>5, RekeyThreadsStep
  <2>3. RekeyRunning' /\ RekeyRetired' /\ NothingStaged'
    BY <1>1, <2>1 DEF RekeyRunning, RekeyRetired, NothingStaged
  <2>4. RekeyFresh'
    <3>1. SUFFICES ASSUME cmd.pc = "rekey"
                   PROVE  /\ \A r \in Records : ~RowHas(records'[r], staged)
                          /\ \A c \in Credentials : credentials'[c] # staged
      BY <1>1, <2>1 DEF RekeyFresh, RowHas
    <3>2. staged \in Roots /\ live \in Roots /\ live = cmd.old
      BY <1>1, <3>1 DEF RekeyRunning, RekeyFresh
    <3>3. ~Holds(staged)
      BY <1>1, <3>1, <3>2 DEF RekeyFresh, Holds, KeyInv, StagedIsNew
    <3>4. PICK k \in Roots : k = staged  BY <3>2
    <3>5. ~RekeySecretsStep  BY <2>1, <3>1 DEF RekeySecretsStep, Goes, Ends
    <3>6. ~Holds(k)'
      BY <1>2, <3>2, <3>3, <3>4, <3>5, HoldersStep DEF KeysInOneFile
    <3>7. QED  BY <3>4, <3>6 DEF Holds, RowHas
  <2>5. QED  BY <1>3, <2>2, <2>3, <2>4
<1>6. CASE SeparateStep
  BY <1>1, <1>4, <1>6 DEF SeparateStep, NothingStaged, files, told
<1>7. CASE EncryptStep
  BY <1>1, <1>4, <1>7 DEF EncryptStep, Begins, Ready, NothingStaged, told
<1>8. CASE EncryptRowsStep \/ SwitchStep
  BY <1>1, <1>4, <1>8 DEF EncryptRowsStep, SwitchStep, Goes, Ends, NothingStaged, files
<1>9. CASE ResealStep
  BY <1>1, <1>4, <1>9 DEF ResealStep, Goes, NothingStaged, files, told
<1>10. CASE RekeyStep
  <2>1. cmd'.pc = "rekey" /\ staged' = made + 1 /\ live' = live /\ canary' = canary
        /\ cmd'.old = live /\ live = canary /\ service' # NoKey /\ mode' = "v3"
        /\ UNCHANGED <<records, credentials, thread>> /\ Drained
    BY <1>10 DEF RekeyStep, Begins, Ready, database
  <2>2. staged' \in Roots /\ live \in Roots
    BY <1>2, <1>10, <2>1, KeyNames DEF TypeInv, RekeyStep, KeysKnown
  <2>3. ASSUME NEW k \in Roots, k = made + 1 PROVE ~Holds(k)
    BY <1>2, <2>3 DEF KeyInv, KeysAreMade, KeysKnown
  <2>4. RekeyRunning' /\ RekeyRetired' /\ NothingStaged' /\ RekeyCommitted'
    BY <2>1, <2>2 DEF RekeyRunning, RekeyRetired, NothingStaged, RekeyCommitted
  <2>5. RekeyFresh'  BY <2>1, <2>2, <2>3 DEF RekeyFresh, Holds, RowHas
  <2>6. RekeyThreads'  BY <2>1 DEF RekeyThreads, Drained
  <2>7. QED  BY <1>3, <2>4, <2>5, <2>6
<1>11. CASE RekeySecretsStep
  <2>1. cmd.pc = "rekey" /\ UNCHANGED <<mode, service, live, thread, died>>
    BY <1>11 DEF RekeySecretsStep, told
  <2>2. CASE Ends /\ staged' = NoKey
    BY <1>4, <2>2 DEF Ends, NothingStaged
  <2>3. CASE /\ \A c \in Credentials : credentials[c] \in {NoKey, Plain, cmd.old}
             /\ \A c \in Credentials :
                   credentials'[c] = IF credentials[c] = cmd.old THEN staged
                                     ELSE credentials[c]
             /\ canary' = staged /\ Goes("retire") /\ UNCHANGED staged
    <3>1. RekeyRunning' /\ RekeyRetired' /\ NothingStaged' /\ RekeyFresh'
      BY <1>1, <2>1, <2>3 DEF RekeyRunning, RekeyRetired, NothingStaged, RekeyFresh, Goes
    <3>2. RekeyCommitted'
      BY <1>1, <2>1, <2>3 DEF RekeyCommitted, RekeyFresh, Goes
    <3>3. RekeyThreads'  BY <1>1, <2>1, <2>3 DEF RekeyThreads, Goes
    <3>4. QED  BY <1>3, <3>1, <3>2, <3>3
  <2>4. QED  BY <1>11, <2>2, <2>3 DEF RekeySecretsStep
<1>12. CASE RetireStep
  <2>1. RekeyRunning' /\ RekeyRetired' /\ NothingStaged'
    BY <1>1, <1>12 DEF RetireStep, Goes, RekeyRunning, RekeyCommitted, RekeyRetired,
       NothingStaged, database
  <2>2. RekeyFresh' /\ RekeyCommitted' /\ RekeyThreads'
    BY <1>12 DEF RetireStep, Goes, RekeyFresh, RekeyCommitted, RekeyThreads
  <2>3. QED  BY <1>3, <2>1, <2>2
<1>13. CASE PromoteStep
  BY <1>4, <1>13 DEF PromoteStep, Writes, NothingStaged
<1>14. CASE OverwriteStep
  BY <1>1, <1>4, <1>14 DEF OverwriteStep, Goes, NothingStaged, told
<1>15. CASE UnlinkStep
  BY <1>1, <1>4, <1>15 DEF UnlinkStep, Writes, NothingStaged, told
<1>16. CASE PlanStep
  BY <1>1, <1>4, <1>16 DEF PlanStep, Begins, Writes, NothingStaged, world, files, told
<1>17. CASE ProveStep
  BY <1>1, <1>4, <1>17 DEF ProveStep, Ready, Begins, Goes, Ends, NothingStaged, world, files,
     told
<1>18. CASE RecordsStep
  BY <1>1, <1>4, <1>18 DEF RecordsStep, Goes, Ends, NothingStaged, world, files, told
<1>19. QED
  BY <1>5, <1>6, <1>7, <1>8, <1>9, <1>10, <1>11, <1>12, <1>13, <1>14, <1>15, <1>16, <1>17,
     <1>18, CommandChange

DestroyRetired ==
    cmd.pc \in {"census", "secrets", "digest", "overwrite"} => retired = cmd.old
DestroyDrained ==
    cmd.pc \in {"census", "secrets", "digest", "overwrite", "unlink"} =>
        /\ cmd.old \in Roots /\ mode # "none"
        /\ \A t \in Threads : ~ThreadHas(t, cmd.old)
RowsProven ==
    \/ cmd.pc \in {"secrets", "digest"} /\ ~cmd.problems
    \/ cmd.pc \in {"overwrite", "unlink"}
SecretsProven ==
    \/ cmd.pc = "digest" /\ ~cmd.problems
    \/ cmd.pc \in {"overwrite", "unlink"}
DestroyRows == RowsProven => \A r \in Records : ~RowHas(records[r], cmd.old)
DestroySecrets == SecretsProven => \A c \in Credentials : credentials[c] # cmd.old
DestroyUnlink ==
    cmd.pc = "unlink" =>
        retired = Overwritten /\ cmd.old <= made /\ cmd.old \notin {live, staged}

LEMMA DestroyingParts ==
    Destroying <=> /\ DestroyRetired /\ DestroyDrained /\ DestroyRows
                   /\ DestroySecrets /\ DestroyUnlink
BY DEF Destroying, DestroyRetired, DestroyDrained, RowsProven, SecretsProven, DestroyRows,
       DestroySecrets, DestroyUnlink

\* What the application stores is what its requests had.
LEMMA CalmData ==
    ASSUME \/ UNCHANGED <<records, credentials, thread>> \/ PurgeStep
           \/ \E t \in Threads : ConnectStep(t) \/ InsertStep(t) \/ DisconnectStep(t),
           NEW k
    PROVE  /\ \A r \in Records : RowHas(records'[r], k) =>
                 RowHas(records[r], k) \/ \E t \in Threads : ThreadHas(t, k)
           /\ \A c \in Credentials : credentials'[c] = k =>
                 credentials[c] = k \/ \E t \in Threads : ThreadHas(t, k)
<1>1. CASE UNCHANGED <<records, credentials>>  BY <1>1
<1>2. CASE PurgeStep  BY <1>2 DEF PurgeStep, RowHas
<1>3. CASE \E t \in Threads : InsertStep(t)
  BY <1>3 DEF InsertStep, ThreadHas, RowHas
<1>4. QED  BY <1>1, <1>2, <1>3 DEF ConnectStep, DisconnectStep, database

LEMMA DestroyingStep == KeyInv /\ TypeInv' /\ Does => Destroying'
<1> SUFFICES ASSUME KeyInv, TypeInv', Does PROVE Destroying'  OBVIOUS
<1>1. /\ DestroyRetired /\ DestroyDrained /\ DestroyRows /\ DestroySecrets /\ DestroyUnlink
  BY DestroyingParts DEF KeyInv
<1>2. KeysKnown /\ KeysInOneFile  BY KeysAreKnown DEF KeyInv
<1>3. ASSUME DestroyRetired', DestroyDrained', DestroyRows', DestroySecrets', DestroyUnlink'
      PROVE  Destroying'
  BY <1>3 DEF Destroying, DestroyRetired, DestroyDrained, RowsProven, SecretsProven,
     DestroyRows, DestroySecrets, DestroyUnlink
<1>4. ASSUME cmd'.pc \notin {"census", "secrets", "digest", "overwrite", "unlink"}
      PROVE  Destroying'
  BY <1>4 DEF Destroying
<1>5. CASE UNCHANGED calm /\ \/ UNCHANGED <<records, credentials, thread>> \/ PurgeStep
                             \/ \E t \in Threads : \/ ConnectStep(t) \/ InsertStep(t)
                                                   \/ DisconnectStep(t)
  <2>1. UNCHANGED <<cmd, mode, live, staged, retired, made>>  BY <1>5 DEF calm, files
  <2>2. SUFFICES ASSUME cmd.pc \in {"census", "secrets", "digest", "overwrite", "unlink"}
                 PROVE  Destroying'
    BY <1>4, <2>1
  <2>3. /\ cmd.old \in Roots /\ cmd.old # live
        /\ \A t \in Threads : ~ThreadHas(t, cmd.old)
    BY <1>1, <1>2, <2>2 DEF DestroyDrained, DestroyRetired, DestroyUnlink, KeysInOneFile
  <2>4. PICK k \in Roots : k = cmd.old  BY <2>3
  <2>5. \A t \in Threads : ~ThreadHas(t, k)'  BY <2>3, <2>4, HoldersStep
  <2>6. DestroyDrained'
    BY <1>1, <2>1, <2>3, <2>4, <2>5 DEF DestroyDrained, ThreadHas, RowHas
  <2>7. DestroyRows'
    BY <1>1, <1>5, <2>1, <2>3, CalmData DEF DestroyRows, RowsProven, RowHas
  <2>8. DestroySecrets'
    BY <1>1, <1>5, <2>1, <2>3, CalmData DEF DestroySecrets, SecretsProven
  <2>9. DestroyRetired' /\ DestroyUnlink'
    BY <1>1, <2>1 DEF DestroyRetired, DestroyUnlink
  <2>10. QED  BY <1>3, <2>6, <2>7, <2>8, <2>9
<1>6. CASE SeparateStep  BY <1>4, <1>6 DEF SeparateStep
<1>7. CASE EncryptStep \/ RekeyStep \/ PlanStep
  BY <1>4, <1>7 DEF EncryptStep, RekeyStep, PlanStep, Begins, Writes
<1>8. CASE EncryptRowsStep \/ SwitchStep \/ ResealStep \/ RetireStep
  BY <1>4, <1>8 DEF EncryptRowsStep, SwitchStep, ResealStep, RetireStep, Goes, Ends
<1>9. CASE RekeySecretsStep \/ RecordsStep
  BY <1>4, <1>9 DEF RekeySecretsStep, RecordsStep, Goes, Ends
<1>10. CASE PromoteStep \/ UnlinkStep
  BY <1>4, <1>10 DEF PromoteStep, UnlinkStep, Writes
<1>11. CASE OverwriteStep
  <2>1. cmd.pc = "overwrite" /\ cmd'.pc = "unlink" /\ cmd'.old = cmd.old
        /\ retired' = Overwritten
        /\ UNCHANGED <<records, credentials, mode, live, staged, made, thread>>
    BY <1>11 DEF OverwriteStep, Goes, database
  <2>2. cmd.old \in Roots /\ cmd.old = retired
    BY <1>1, <2>1 DEF DestroyRetired, DestroyDrained
  <2>3. DestroyRetired' /\ DestroyUnlink'
    BY <1>2, <2>1, <2>2 DEF DestroyRetired, DestroyUnlink, KeysKnown, KeysInOneFile
  <2>4. DestroyDrained' /\ DestroyRows' /\ DestroySecrets'
    BY <1>1, <2>1 DEF DestroyDrained, DestroyRows, RowsProven, DestroySecrets,
       SecretsProven, ThreadHas, RowHas
  <2>5. QED  BY <1>3, <2>3, <2>4
<1>12. CASE ProveStep
  <2>1. UNCHANGED <<records, credentials, mode, live, staged, retired, made, thread>>
    BY <1>12 DEF ProveStep, world, files
  <2>2. CASE /\ Ready /\ Begins("census") /\ cmd'.old = retired
             /\ manifest # NoManifest /\ retired \in Roots
    <3>1. mode # "none"  BY <2>2 DEF KeyInv, PlainStore
    <3>2. DestroyRetired' /\ DestroyDrained'
      BY <2>1, <2>2, <3>1 DEF Ready, Drained, Begins, DestroyRetired, DestroyDrained,
         ThreadHas
    <3>3. DestroyRows' /\ DestroySecrets' /\ DestroyUnlink'
      BY <2>2 DEF Begins, DestroyRows, RowsProven, DestroySecrets, SecretsProven,
         DestroyUnlink
    <3>4. QED  BY <1>3, <3>2, <3>3
  <2>3. CASE /\ cmd.pc = "census" /\ cmd'.pc = "secrets"
             /\ cmd'.old = cmd.old /\ cmd'.next = cmd.next
             /\ ~cmd'.problems => \A r \in Records : records[r].form # "v1"
    <3>1. DestroyRetired' /\ DestroyDrained' /\ DestroyUnlink'
      BY <1>1, <2>1, <2>3 DEF DestroyRetired, DestroyDrained, DestroyUnlink, ThreadHas,
         RowHas
    <3>2. DestroyRows' /\ DestroySecrets'
      BY <2>1, <2>3 DEF DestroyRows, RowsProven, DestroySecrets, SecretsProven, RowHas
    <3>3. QED  BY <1>3, <3>1, <3>2
  <2>4. CASE /\ cmd.pc = "secrets" /\ cmd'.pc = "digest"
             /\ cmd'.old = cmd.old /\ cmd'.next = cmd.next
             /\ ~cmd'.problems => /\ ~cmd.problems
                                  /\ \A c \in Credentials : credentials[c] # cmd.old
    <3>1. DestroyRetired' /\ DestroyDrained' /\ DestroyUnlink'
      BY <1>1, <2>1, <2>4 DEF DestroyRetired, DestroyDrained, DestroyUnlink, ThreadHas,
         RowHas
    <3>2. DestroyRows' /\ DestroySecrets'
      BY <1>1, <2>1, <2>4 DEF DestroyRows, RowsProven, DestroySecrets, SecretsProven, RowHas
    <3>3. QED  BY <1>3, <3>1, <3>2
  <2>5. CASE cmd.pc = "digest" /\ ~cmd.problems /\ Goes("overwrite")
    <3>1. DestroyRetired' /\ DestroyDrained' /\ DestroyUnlink'
      BY <1>1, <2>1, <2>5 DEF Goes, DestroyRetired, DestroyDrained, DestroyUnlink, ThreadHas,
         RowHas
    <3>2. DestroyRows' /\ DestroySecrets'
      BY <1>1, <2>1, <2>5 DEF Goes, DestroyRows, RowsProven, DestroySecrets, SecretsProven,
         RowHas
    <3>3. QED  BY <1>3, <3>1, <3>2
  <2>6. CASE cmd.pc = "digest" /\ Ends  BY <1>4, <2>6 DEF Ends
  <2>7. QED  BY <1>12, <2>2, <2>3, <2>4, <2>5, <2>6 DEF ProveStep
<1>13. QED
  BY <1>5, <1>6, <1>7, <1>8, <1>9, <1>10, <1>11, <1>12, CommandChange

LEMMA EncryptingStep == KeyInv /\ TypeInv' /\ Does => Encrypting'
<1> SUFFICES ASSUME KeyInv, TypeInv', Does PROVE Encrypting'  OBVIOUS
<1>1. Encrypting /\ KeysKnown  BY KeysAreKnown DEF KeyInv
<1>2. CASE UNCHANGED calm  BY <1>1, <1>2 DEF Encrypting, calm, files
<1>3. CASE EncryptStep
  <2>1. live' \in Roots \cup {NoKey} /\ live' # NoKey
    BY <1>3, KeyNames DEF EncryptStep, TypeInv
  <2>2. mode' = mode  BY <1>3 DEF EncryptStep, database
  <2>3. \/ mode # "v1" /\ cmd'.pc = "encrypt"
        \/ mode = "none" /\ cmd'.pc = "enable"
    BY <1>3 DEF EncryptStep, Begins
  <2>4. QED  BY <2>1, <2>2, <2>3 DEF Encrypting
<1>4. CASE SeparateStep \/ RekeyStep \/ PlanStep
  BY <1>4 DEF SeparateStep, RekeyStep, PlanStep, Begins, Writes, Encrypting
<1>5. CASE EncryptRowsStep \/ SwitchStep \/ ResealStep \/ RetireStep \/ OverwriteStep
  BY <1>5 DEF EncryptRowsStep, SwitchStep, ResealStep, RetireStep, OverwriteStep,
    Goes, Ends,
     Encrypting
<1>6. CASE RekeySecretsStep \/ RecordsStep \/ PromoteStep \/ UnlinkStep \/ ProveStep
  BY <1>6 DEF RekeySecretsStep, RecordsStep, PromoteStep, UnlinkStep, ProveStep, Goes, Ends,
     Begins, Writes, Encrypting
<1>7. QED  BY <1>2, <1>3, <1>4, <1>5, <1>6, CommandChange

LEMMA KeyInit == Init => KeyInv
<1> SUFFICES ASSUME Init PROVE KeyInv  OBVIOUS
<1>1. TypeInv  BY InitType
<1>2. \A t \in Threads : thread[t].pc = "idle"  BY RequestValues DEF Init
<1>3. cmd.pc = "idle" /\ cmd.next = NoManifest  BY IdleValues DEF Init
<1>4. KeysInOneFile /\ StagedIsNew /\ Rekeying /\ Destroying /\ Encrypting
  BY <1>3, KeyNames DEF Init, KeysInOneFile, StagedIsNew, Rekeying, Destroying, Encrypting
<1>5. CASE mode = "none"
  <2>1. /\ live = NoKey /\ staged = NoKey /\ retired = NoKey /\ made = 0
        /\ canary = NoKey /\ manifest = NoManifest
        /\ records \in [Records -> {Absent, PlainRow}]
        /\ credentials \in [Credentials -> {NoKey, Plain}]
    BY <1>5 DEF Init
  <2>2. \A r \in Records : records[r].form \in {"plain", "absent"}  BY <2>1, RowValues
  <2>3. \A k \in Roots : ~Holds(k)
    <3>1. ASSUME NEW k \in Roots PROVE \A r \in Records : ~RowHas(records[r], k)
      BY <2>2 DEF RowHas
    <3>2. ASSUME NEW k \in Roots PROVE \A c \in Credentials : credentials[c] # k
      BY <2>1, KeyNames
    <3>3. ASSUME NEW k \in Roots PROVE \A t \in Threads : ~ThreadHas(t, k)
      BY <1>2 DEF ThreadHas
    <3>4. QED  BY <3>1, <3>2, <3>3 DEF Holds
  <2>4. KeysAreMade  BY <2>1, <2>3, KeyNames DEF KeysAreMade
  <2>5. PlainStore  BY <1>2, <1>3, <1>5, <2>1, <2>2 DEF PlainStore
  <2>6. QED  BY <1>1, <1>4, <2>4, <2>5 DEF KeyInv
<1>6. CASE mode # "none"
  <2>1. /\ live = 0 /\ staged = NoKey /\ retired = NoKey /\ made = 0 /\ canary = 0
        /\ records \in [Records -> {Absent, V1Row(0)}]
        /\ credentials \in [Credentials -> {NoKey, 0}]
    BY <1>6 DEF Init
  <2>2. \A k \in Roots, r \in Records : RowHas(records[r], k) => k = 0
    <3>1. V1Row(0).root = 0  BY V1Values, KeyNames
    <3>2. Absent.form # "v1"  BY RowValues
    <3>3. \A r \in Records : records[r] = Absent \/ records[r] = V1Row(0)  BY <2>1
    <3>4. QED  BY <3>1, <3>2, <3>3 DEF RowHas
  <2>3. \A k \in Roots : Holds(k) => k = 0
    <3>1. \A k \in Roots, t \in Threads : ~ThreadHas(t, k)  BY <1>2 DEF ThreadHas
    <3>2. \A k \in Roots, c \in Credentials : credentials[c] = k => k = 0
      BY <2>1, KeyNames
    <3>3. QED  BY <2>2, <3>1, <3>2 DEF Holds
  <2>4. KeysAreMade  BY <2>1, <2>3, KeyNames DEF KeysAreMade
  <2>5. PlainStore  BY <1>6, <2>1, KeyNames DEF PlainStore
  <2>6. QED  BY <1>1, <1>4, <2>4, <2>5 DEF KeyInv
<1>7. QED  BY <1>5, <1>6

LEMMA KeyStep == KeyInv /\ [Next]_vars => KeyInv' /\ Does
<1> SUFFICES ASSUME KeyInv, [Next]_vars PROVE KeyInv' /\ Does  OBVIOUS
<1>1. TypeInv' /\ Does  BY Steps DEF KeyInv
<1>2. KeysInOneFile' /\ KeysAreMade' /\ StagedIsNew' /\ PlainStore' /\ Rekeying'
      /\ Destroying' /\ Encrypting'
  BY <1>1, InOneFileStep, MadeStep, StagedStep, PlainStep, RekeyingStep, DestroyingStep,
     EncryptingStep
<1>3. QED  BY <1>1, <1>2 DEF KeyInv

\* Every root key is in one file at most, what holds one was made with it, and
\* a command holds what its next step needs.
THEOREM KeyInvariant == Spec => []KeyInv
BY KeyInit, KeyStep, PTL DEF Spec

----------------------------------------------------------------------------
(***************************************************************************)
(* Nothing lost.                                                           *)
(***************************************************************************)

LEMMA Ratchets ==
    KeyInv /\ Does => /\ downgraded => downgraded'
                      /\ died => died'
                      /\ made \in Nat /\ made' >= made
<1> SUFFICES ASSUME KeyInv, Does PROVE (downgraded => downgraded') /\ (died => died')
  BY MadeGrows, KeysAreKnown DEF KeysKnown
<1>1. downgraded => downgraded'
  BY DEF Does, ConnectStep, InsertStep, DisconnectStep, PurgeStep, SeparateStep,
    EncryptStep,
     EncryptRowsStep, SwitchStep, ResealStep, RekeyStep, RekeySecretsStep,
       RetireStep, PromoteStep,
     OverwriteStep, UnlinkStep, PlanStep, ProveStep, RecordsStep, world
<1>2. died => died'
  BY DEF Does, ConnectStep, InsertStep, DisconnectStep, PurgeStep, SeparateStep,
    EncryptStep,
     EncryptRowsStep, SwitchStep, ResealStep, RekeyStep, RekeySecretsStep,
       RetireStep, PromoteStep,
     OverwriteStep, UnlinkStep, PlanStep, ProveStep, RecordsStep, told
<1>3. QED  BY <1>1, <1>2

\* The four ways a key leaves the disk.
LEMMA DiskStep ==
    ASSUME KeyInv, Does, NEW k \in OnDisk, k \notin OnDisk'
    PROVE  \/ k = staged /\ (RekeyStep \/ (RekeySecretsStep /\ staged' = NoKey))
           \/ k = retired /\ (RetireStep \/ OverwriteStep)
<1>1. k \in Roots /\ k \in {live, staged, retired} /\ k \notin {live, staged, retired}'
  BY DEF OnDisk
<1>2. CASE UNCHANGED files  BY <1>1, <1>2 DEF files
<1>3. CASE EncryptStep  BY <1>1, <1>3, KeyNames DEF EncryptStep
<1>4. CASE RekeyStep  BY <1>1, <1>4 DEF RekeyStep
<1>5. CASE RekeySecretsStep  BY <1>1, <1>5 DEF RekeySecretsStep
<1>6. CASE RetireStep  BY <1>1, <1>6, KeyNames DEF RetireStep
<1>7. CASE PromoteStep
  <2>1. live' = staged /\ retired' = retired  BY <1>7 DEF PromoteStep
  <2>2. live = NoKey  BY <1>7, RekeyingParts DEF PromoteStep, KeyInv, RekeyRetired
  <2>3. QED  BY <1>1, <2>1, <2>2, KeyNames
<1>8. CASE OverwriteStep  BY <1>1, <1>8 DEF OverwriteStep
<1>9. CASE UnlinkStep
  <2>1. retired = Overwritten
    BY <1>9, DestroyingParts DEF UnlinkStep, KeyInv, DestroyUnlink
  <2>2. QED  BY <1>1, <1>9, <2>1, KeyNames DEF UnlinkStep
<1>10. QED
  BY <1>2, <1>3, <1>4, <1>5, <1>6, <1>7, <1>8, <1>9, FilesChange

\* Where a secret, and where a row in v1 format, is from.
LEMMA SecretStep ==
    ASSUME Does, NEW c \in Credentials
    PROVE  \/ credentials'[c] = credentials[c]
           \/ \E t \in Threads : /\ UNCHANGED <<files, canary>>
                                 /\ thread[t].pc = "credential"
                                 /\ credentials'[c] = thread[t].root
           \/ EncryptRowsStep /\ credentials'[c] = live
           \/ RekeySecretsStep /\ staged' = staged /\ canary' = staged
              /\ credentials'[c] = staged
<1>1. CASE UNCHANGED credentials  BY <1>1
<1>2. CASE \E t \in Threads : InsertStep(t)  BY <1>2 DEF InsertStep
<1>3. CASE EncryptRowsStep  BY <1>3 DEF EncryptRowsStep
<1>4. CASE RekeySecretsStep  BY <1>4 DEF RekeySecretsStep
<1>5. QED
  BY <1>1, <1>2, <1>3, <1>4 DEF Does, ConnectStep, DisconnectStep, PurgeStep, SeparateStep,
     EncryptStep, SwitchStep, ResealStep, RekeyStep, RetireStep, PromoteStep,
     OverwriteStep, UnlinkStep, PlanStep, ProveStep, RecordsStep, world, database

LEMMA RowStep ==
    ASSUME Does, NEW r \in Records, records'[r].form = "v1"
    PROVE  \/ records'[r] = records[r]
           \/ \E t \in Threads : /\ thread[t].pc = "record"
                                 /\ records'[r] = thread[t].row
                                 /\ UNCHANGED files
           \/ EncryptRowsStep /\ records'[r].root = live
<1>1. CASE UNCHANGED records  BY <1>1
<1>2. CASE \E t \in Threads : InsertStep(t)  BY <1>2 DEF InsertStep
<1>3. CASE EncryptRowsStep  BY <1>3 DEF EncryptRowsStep
<1>4. CASE PurgeStep  BY <1>4 DEF PurgeStep
<1>5. CASE ResealStep  BY <1>5 DEF ResealStep
<1>6. QED
  BY <1>1, <1>2, <1>3, <1>4, <1>5 DEF Does, ConnectStep, DisconnectStep, SeparateStep,
     EncryptStep, SwitchStep, RekeyStep, RekeySecretsStep, RetireStep, PromoteStep,
     OverwriteStep, UnlinkStep, PlanStep, ProveStep, RecordsStep, world, database

LEMMA RequestStep ==
    ASSUME Does, NEW t \in Threads, thread'[t].pc # "idle"
    PROVE  \/ thread'[t] = thread[t]
           \/ ConnectStep(t)
<1>1. CASE UNCHANGED thread  BY <1>1
<1>2. CASE \E u \in Threads : ConnectStep(u) \/ InsertStep(u) \/ DisconnectStep(u)
  BY <1>2 DEF ConnectStep, InsertStep, DisconnectStep, OthersStay
<1>3. QED
  BY <1>1, <1>2 DEF Does, PurgeStep, SeparateStep, EncryptStep, EncryptRowsStep, SwitchStep,
     ResealStep,
     RekeyStep, RekeySecretsStep, RetireStep, PromoteStep, OverwriteStep, UnlinkStep,
     PlanStep, ProveStep, RecordsStep, world

Kept == ~downgraded \/ (made <= 1 /\ ~died)

SecretsStanding ==
    /\ \A c \in Credentials :
          /\ credentials[c] \in OnDisk \cup {NoKey, Plain}
          /\ credentials[c] = staged /\ staged \in Roots => canary = staged
    /\ \A t \in Threads :
          thread[t].pc = "credential" => thread[t].root \in OnDisk \cup {Plain}

LEMMA LiveOnDisk ==
    KeyInv => /\ live = canary /\ mode # "none" => live \in OnDisk
              /\ cmd.pc = "encrypt" => live \in OnDisk
BY DEF KeyInv, PlainStore, Encrypting, OnDisk

\* What is kept when a key leaves the disk: no secret is under it.
LEMMA SecretStays ==
    ASSUME KeyInv, SecretsStanding, Does, NEW c \in Credentials,
           credentials'[c] = credentials[c], credentials[c] \in OnDisk
    PROVE  credentials[c] \in OnDisk'
<1> SUFFICES ASSUME credentials[c] \notin OnDisk' PROVE FALSE  OBVIOUS
<1>1. credentials[c] \in Roots  BY DEF OnDisk
<1>2. /\ RekeyFresh /\ RekeyCommitted /\ KeysInOneFile
      /\ DestroyRetired /\ DestroyDrained /\ DestroySecrets
  BY RekeyingParts, DestroyingParts DEF KeyInv
<1>3. CASE credentials[c] = staged /\ RekeyStep
  BY <1>1, <1>2, <1>3 DEF SecretsStanding, RekeyStep, KeysInOneFile
<1>4. CASE credentials[c] = staged /\ RekeySecretsStep
  BY <1>2, <1>4 DEF RekeySecretsStep, RekeyFresh
<1>5. CASE credentials[c] = retired /\ RetireStep
  BY <1>1, <1>2, <1>5, KeyNames DEF RetireStep, RekeyCommitted, KeysInOneFile
<1>6. CASE credentials[c] = retired /\ OverwriteStep
  BY <1>2, <1>6 DEF OverwriteStep, DestroyRetired, DestroySecrets, SecretsProven
<1>7. QED  BY <1>3, <1>4, <1>5, <1>6, DiskStep

LEMMA RequestStays ==
    ASSUME KeyInv, Does, NEW t \in Threads, NEW k \in OnDisk,
           thread'[t] = thread[t], ThreadHas(t, k)
    PROVE  k \in OnDisk' \/ RetireStep
<1> SUFFICES ASSUME k \notin OnDisk', ~RetireStep PROVE FALSE  OBVIOUS
<1>1. k \in Roots  BY DEF OnDisk
<1>2. StagedIsNew /\ DestroyRetired /\ DestroyDrained
  BY DestroyingParts DEF KeyInv
<1>3. CASE k = staged  BY <1>1, <1>2, <1>3 DEF StagedIsNew
<1>4. CASE k = retired /\ OverwriteStep
  BY <1>2, <1>4 DEF OverwriteStep, DestroyRetired, DestroyDrained
<1>5. QED  BY <1>3, <1>4, DiskStep

LEMMA SecretsStep ==
    KeyInv /\ SecretsReadable /\ TypeInv' /\ Does => SecretsReadable'
<1> SUFFICES ASSUME KeyInv, SecretsReadable, TypeInv', Does, Kept'
             PROVE  SecretsStanding'
  BY DEF SecretsReadable, Kept, SecretsStanding
<1>1. SecretsStanding
  <2>1. made' \in Nat  BY KeyNames DEF TypeInv
  <2>2. Kept  BY <2>1, Ratchets DEF Kept
  <2>3. QED  BY <2>2 DEF SecretsReadable, Kept, SecretsStanding
<1>2. KeysKnown /\ KeysInOneFile /\ StagedIsNew /\ RekeyRunning /\ NothingStaged
      /\ RekeyThreads
  BY KeysAreKnown, RekeyingParts DEF KeyInv
<1>3. ASSUME NEW c \in Credentials
      PROVE  credentials'[c] \in OnDisk' \cup {NoKey, Plain}
  <2>1. CASE credentials'[c] = credentials[c]
    BY <1>1, <2>1, SecretStays DEF SecretsStanding
  <2>2. CASE \E t \in Threads : /\ UNCHANGED <<files, canary>>
                                /\ thread[t].pc = "credential"
                                /\ credentials'[c] = thread[t].root
    BY <1>1, <2>2 DEF SecretsStanding, OnDisk, files
  <2>3. CASE EncryptRowsStep /\ credentials'[c] = live
    BY <2>3, LiveOnDisk DEF EncryptRowsStep, OnDisk, files
  <2>4. CASE /\ RekeySecretsStep /\ staged' = staged
             /\ credentials'[c] = staged
    <3>1. staged \in Roots  BY <1>2, <2>4 DEF RekeySecretsStep, RekeyRunning
    <3>2. QED  BY <2>4, <3>1 DEF OnDisk
  <2>5. QED  BY <2>1, <2>2, <2>3, <2>4, SecretStep
<1>4. ASSUME NEW c \in Credentials, credentials'[c] = staged', staged' \in Roots
      PROVE  canary' = staged'
  <2>1. ~EncryptRowsStep
    <3>1. SUFFICES ASSUME EncryptRowsStep PROVE FALSE  OBVIOUS
    <3>2. cmd.pc = "encrypt" /\ staged' = staged /\ died' = died
          /\ downgraded' = (downgraded \/ mode = "v3")
      BY <3>1 DEF EncryptRowsStep, files, told
    <3>3. mode \in {"none", "v3"}  BY <3>2 DEF KeyInv, Encrypting, TypeInv
    <3>4. CASE mode = "none"  BY <1>4, <3>2, <3>4, KeyNames DEF KeyInv, PlainStore
    <3>5. CASE mode = "v3"
      <4>1. ~died  BY <3>2, <3>5 DEF Kept
      <4>2. QED  BY <1>2, <1>4, <3>2, <4>1, KeyNames DEF NothingStaged
    <3>6. QED  BY <3>3, <3>4, <3>5
  <2>2. CASE RekeyStep
    <3>1. credentials[c] = made + 1 /\ credentials[c] \in Roots
      BY <1>4, <2>2 DEF RekeyStep, database
    <3>2. credentials[c] <= made
      BY <3>1 DEF KeyInv, KeysAreMade, Holds
    <3>3. QED  BY <1>2, <3>1, <3>2 DEF KeysKnown
  <2>3. CASE ~RekeyStep
    <3>1. staged' = staged
      BY <1>4, <2>3, FilesChange, KeyNames DEF files, EncryptStep, RekeySecretsStep,
         RetireStep, PromoteStep, OverwriteStep, UnlinkStep
    <3>2. CASE credentials'[c] = credentials[c]
      <4>1. canary = staged  BY <1>1, <1>4, <3>1, <3>2 DEF SecretsStanding
      <4>2. CASE RekeySecretsStep
        BY <1>4, <3>1, <4>1, <4>2, KeyNames DEF RekeySecretsStep
      <4>3. CASE ResealStep  BY <3>1, <4>1, <4>3 DEF ResealStep
      <4>4. CASE SwitchStep
        <5>1. mode # "none"  BY <1>4, <3>1, KeyNames DEF KeyInv, PlainStore
        <5>2. canary' = canary  BY <4>4, <5>1 DEF SwitchStep, KeyInv, Encrypting
        <5>3. QED  BY <3>1, <4>1, <5>2
      <4>5. QED  BY <2>1, <3>1, <4>1, <4>2, <4>3, <4>4, ModeStep
    <3>3. CASE \E t \in Threads : /\ thread[t].pc = "credential"
                                  /\ credentials'[c] = thread[t].root
      BY <1>2, <1>4, <3>1, <3>3 DEF StagedIsNew, ThreadHas
    <3>4. QED  BY <2>1, <3>1, <3>2, <3>3, SecretStep
  <2>4. QED  BY <2>2, <2>3
<1>5. ASSUME NEW t \in Threads, thread'[t].pc = "credential"
      PROVE  thread'[t].root \in OnDisk' \cup {Plain}
  <2>1. CASE ConnectStep(t)
    BY <1>5, <2>1, LiveOnDisk DEF ConnectStep, OnDisk, files
  <2>2. CASE thread'[t] = thread[t]
    <3>1. SUFFICES ASSUME thread[t].root \in OnDisk
                   PROVE  thread[t].root \in OnDisk'
      BY <1>1, <1>5, <2>2 DEF SecretsStanding
    <3>2. ThreadHas(t, thread[t].root)  BY <1>5, <2>2 DEF ThreadHas
    <3>3. CASE RetireStep
      <4>1. thread[t].root = live  BY <1>2, <1>5, <2>2, <3>3 DEF RetireStep, RekeyThreads
      <4>2. QED  BY <3>1, <3>3, <4>1 DEF RetireStep, OnDisk
    <3>4. QED  BY <2>2, <3>1, <3>2, <3>3, RequestStays
  <2>3. QED  BY <1>5, <2>1, <2>2, RequestStep
<1>6. QED  BY <1>3, <1>4, <1>5 DEF SecretsStanding

RowsStanding ==
    /\ \A r \in Records : records[r].form = "v1" => records[r].root \in OnDisk
    /\ \A t \in Threads :
          thread[t].pc = "record" /\ thread[t].row.form = "v1" =>
              thread[t].row.root \in OnDisk

\* With one re-keying, no retired key is there to be replaced by the next.
LEMMA OneRekeying ==
    ASSUME KeyInv, Does, made' <= 1, made' \in Nat
    PROVE  /\ RekeyStep => staged \notin Roots
           /\ RetireStep => retired \notin Roots
<1>1. KeysKnown /\ KeysInOneFile /\ RekeyRunning /\ RekeyCommitted
  BY KeysAreKnown, RekeyingParts DEF KeyInv
<1>2. Roots \subseteq Nat  BY KeyNames
<1>3. CASE RekeyStep
  <2>1. made = 0 /\ live \in Roots
    BY <1>1, <1>3 DEF RekeyStep, KeysKnown
  <2>2. live = 0  BY <1>1, <1>2, <2>1 DEF KeysKnown
  <2>3. staged \in Roots => staged = 0  BY <1>1, <1>2, <2>1 DEF KeysKnown
  <2>4. staged \notin Roots  BY <1>1, <2>1, <2>2, <2>3 DEF KeysInOneFile
  <2>5. ~RetireStep  BY <1>3 DEF RekeyStep, RetireStep, Ready
  <2>6. QED  BY <2>4, <2>5
<1>4. CASE RetireStep
  <2>1. made \in Nat /\ made <= 1 /\ live \in Roots /\ staged \in Roots
    BY <1>1, <1>4 DEF RetireStep, KeysKnown, RekeyRunning, RekeyCommitted
  <2>2. retired \notin Roots
    <3>1. SUFFICES ASSUME retired \in Roots PROVE FALSE  OBVIOUS
    <3>2. live \in {0, 1} /\ staged \in {0, 1} /\ retired \in {0, 1}
      BY <1>1, <1>2, <2>1, <3>1 DEF KeysKnown
    <3>3. QED  BY <1>1, <2>1, <3>2 DEF KeysInOneFile
  <2>3. ~RekeyStep  BY <1>4 DEF RekeyStep, RetireStep, Ready
  <2>4. QED  BY <2>2, <2>3
<1>5. QED  BY <1>3, <1>4

LEMMA RowsStep == KeyInv /\ RowsReadable /\ TypeInv' /\ Does => RowsReadable'
<1> SUFFICES ASSUME KeyInv, RowsReadable, TypeInv', Does, made' <= 1
             PROVE  RowsStanding'
  BY DEF RowsReadable, RowsStanding
<1>1. made' \in Nat  BY KeyNames DEF TypeInv
<1>2. RowsStanding
  BY <1>1, Ratchets DEF RowsReadable, RowsStanding
<1>3. /\ RekeyFresh /\ DestroyRetired /\ DestroyRows
  BY RekeyingParts, DestroyingParts DEF KeyInv
<1>4. ASSUME NEW r \in Records, records'[r].form = "v1"
      PROVE  records'[r].root \in OnDisk'
  <2>1. CASE records'[r] = records[r]
    <3>1. PICK k : k = records[r].root  OBVIOUS
    <3>2. k \in OnDisk /\ RowHas(records[r], k)
      BY <1>2, <1>4, <2>1, <3>1 DEF RowsStanding, RowHas
    <3>3. SUFFICES ASSUME k \notin OnDisk' PROVE FALSE  BY <2>1, <3>1
    <3>4. k \in Roots  BY <3>2 DEF OnDisk
    <3>5. CASE k = staged /\ RekeySecretsStep
      BY <1>3, <3>2, <3>5 DEF RekeySecretsStep, RekeyFresh
    <3>6. CASE k = retired /\ OverwriteStep
      BY <1>3, <3>2, <3>6 DEF OverwriteStep, DestroyRetired, DestroyRows, RowsProven
    <3>7. QED  BY <1>1, <3>2, <3>3, <3>4, <3>5, <3>6, DiskStep, OneRekeying
  <2>2. CASE \E t \in Threads : /\ thread[t].pc = "record"
                                /\ records'[r] = thread[t].row
                                /\ UNCHANGED files
    BY <1>2, <1>4, <2>2 DEF RowsStanding, OnDisk, files
  <2>3. CASE EncryptRowsStep /\ records'[r].root = live
    BY <2>3, LiveOnDisk DEF EncryptRowsStep, OnDisk, files
  <2>4. QED  BY <1>4, <2>1, <2>2, <2>3, RowStep
<1>5. ASSUME NEW t \in Threads, thread'[t].pc = "record", thread'[t].row.form = "v1"
      PROVE  thread'[t].row.root \in OnDisk'
  <2>1. CASE ConnectStep(t)
    <3>1. thread'[t].row.root = live /\ live = canary /\ mode # "none" /\ UNCHANGED files
      BY <1>5, <2>1, RowValues DEF ConnectStep
    <3>2. QED  BY <3>1, LiveOnDisk DEF OnDisk, files
  <2>2. CASE thread'[t] = thread[t]
    <3>1. PICK k : k = thread[t].row.root  OBVIOUS
    <3>2. k \in OnDisk /\ ThreadHas(t, k)
      BY <1>2, <1>5, <2>2, <3>1 DEF RowsStanding, ThreadHas, RowHas
    <3>3. CASE RetireStep
      <4>1. k # retired  BY <1>1, <3>2, <3>3, OneRekeying DEF OnDisk
      <4>2. ~RekeyStep /\ ~RekeySecretsStep
        BY <3>3 DEF RetireStep, RekeyStep, RekeySecretsStep, Ready
      <4>3. k \in OnDisk'  BY <3>2, <4>1, <4>2, DiskStep
      <4>4. QED  BY <2>2, <3>1, <4>3
    <3>4. QED  BY <2>2, <3>1, <3>2, <3>3, RequestStays
  <2>3. QED  BY <1>5, <2>1, <2>2, RequestStep
<1>6. QED  BY <1>4, <1>5 DEF RowsStanding

\* The key of the index changes only where nothing was indexed with it.
LEMMA IndexKeyStep ==
    ASSUME KeyInv, Findable, Does
    PROVE  \/ IndexKey' = IndexKey
           \/ EncryptStep /\ mode = "none"
           \/ SeparateStep /\ Drained /\ \A r \in Records : records[r].form # "sealed"
<1>1. RekeyRunning  BY RekeyingParts DEF KeyInv
<1>2. CASE EncryptStep
  BY <1>2, KeyNames DEF EncryptStep, Findable, IndexKey
<1>3. CASE RetireStep \/ PromoteStep
  BY <1>1, <1>3 DEF RetireStep, PromoteStep, RekeyRunning, IndexKey
<1>4. CASE SeparateStep  BY <1>4 DEF SeparateStep, IndexKey, files
<1>5. CASE RekeyStep \/ RekeySecretsStep \/ OverwriteStep \/ UnlinkStep
  BY <1>5 DEF RekeyStep, RekeySecretsStep, OverwriteStep, UnlinkStep, IndexKey
<1>6. CASE UNCHANGED <<service, live>>  BY <1>6 DEF IndexKey
<1>7. CASE UNCHANGED calm \/ PlanStep \/ ProveStep \/ RecordsStep \/ EncryptRowsStep
           \/ SwitchStep \/ ResealStep
  BY <1>6, <1>7 DEF calm, PlanStep, ProveStep, RecordsStep, EncryptRowsStep, SwitchStep, ResealStep,
    world,
     files
<1>8. QED  BY <1>2, <1>3, <1>4, <1>5, <1>7, CommandChange

LEMMA SealedRowStep ==
    ASSUME Does, NEW r \in Records, records'[r].form = "sealed"
    PROVE  \/ records'[r] = records[r]
           \/ \E t \in Threads : /\ thread[t].pc = "record"
                                 /\ records'[r] = thread[t].row
                                 /\ UNCHANGED <<service, files>>
           \/ ResealStep /\ records'[r].index = IndexKey
<1>1. CASE UNCHANGED records  BY <1>1
<1>2. CASE \E t \in Threads : InsertStep(t)  BY <1>2 DEF InsertStep
<1>3. CASE EncryptRowsStep  BY <1>3 DEF EncryptRowsStep
<1>4. CASE PurgeStep  BY <1>4 DEF PurgeStep
<1>5. CASE ResealStep  BY <1>5 DEF ResealStep
<1>6. QED
  BY <1>1, <1>2, <1>3, <1>4, <1>5 DEF Does, ConnectStep, DisconnectStep, SeparateStep,
     EncryptStep, SwitchStep, RekeyStep, RekeySecretsStep, RetireStep, PromoteStep,
     OverwriteStep, UnlinkStep, PlanStep, ProveStep, RecordsStep, world, database

LEMMA FindableStep == KeyInv /\ Findable /\ KeyInv' /\ Does => Findable'
<1> SUFFICES ASSUME KeyInv, Findable, KeyInv', Does PROVE Findable'  OBVIOUS
<1>1. ASSUME NEW r \in Records, records'[r].form = "sealed"
      PROVE  records'[r].index = IndexKey'
  <2>1. CASE records'[r] = records[r]
    <3>1. records[r].form = "sealed" /\ records[r].index = IndexKey
      BY <1>1, <2>1 DEF Findable, SealedRowsAreFindable
    <3>2. mode # "none"  BY <3>1 DEF KeyInv, PlainStore
    <3>3. QED  BY <2>1, <3>1, <3>2, IndexKeyStep
  <2>2. CASE \E t \in Threads : /\ thread[t].pc = "record"
                                /\ records'[r] = thread[t].row
                                /\ UNCHANGED <<service, files>>
    BY <1>1, <2>2 DEF Findable, IndexKey, files
  <2>3. CASE ResealStep /\ records'[r].index = IndexKey
    BY <2>3 DEF ResealStep, IndexKey, files
  <2>4. QED  BY <1>1, <2>1, <2>2, <2>3, SealedRowStep
<1>2. ASSUME NEW t \in Threads, thread'[t].pc = "record", thread'[t].row.form = "sealed"
      PROVE  thread'[t].row.index = IndexKey'
  <2>1. CASE ConnectStep(t)
    <3>1. thread'[t].row.index = IndexKey /\ UNCHANGED <<service, files>>
      BY <1>2, <2>1, RowValues DEF ConnectStep
    <3>2. QED  BY <3>1 DEF IndexKey, files
  <2>2. CASE thread'[t] = thread[t]
    <3>1. thread[t].row.index = IndexKey  BY <1>2, <2>2 DEF Findable
    <3>2. ~Drained /\ mode # "none"
      BY <1>2, <2>2, RowValues DEF Drained, KeyInv, PlainStore
    <3>3. IndexKey' = IndexKey  BY <3>2, IndexKeyStep
    <3>4. QED  BY <2>2, <3>1, <3>3
  <2>3. QED  BY <1>2, <2>1, <2>2, RequestStep
<1>3. ASSUME service' = NoKey, mode' # "none"
      PROVE  live' \in Roots
  <2>1. service = NoKey
    <3>1. SeparateStep => service' # NoKey  BY KeyNames DEF SeparateStep
    <3>2. SeparateStep \/ service' = service
      BY CommandChange DEF calm, EncryptStep, EncryptRowsStep, SwitchStep, ResealStep,
        RekeyStep,
         RekeySecretsStep, RetireStep, PromoteStep, OverwriteStep, UnlinkStep, PlanStep,
         ProveStep, RecordsStep, world
    <3>3. QED  BY <1>3, <3>1, <3>2
  <2>2. CASE EncryptRowsStep \/ (SwitchStep /\ cmd.pc = "enable")
    BY <2>2 DEF EncryptRowsStep, SwitchStep, KeyInv, Encrypting, files
  <2>3. CASE ~EncryptRowsStep /\ ~(SwitchStep /\ cmd.pc = "enable")
    <3>1. mode # "none" /\ live \in Roots
      <4>1. mode # "none"
        BY <1>3, <2>3, ModeStep DEF SwitchStep, ResealStep, KeyInv, PlainStore
      <4>2. QED  BY <2>1, <4>1 DEF Findable
    <3>2. ~RetireStep /\ ~PromoteStep
      BY <2>1, RekeyingParts DEF RetireStep, PromoteStep, KeyInv, RekeyRunning
    <3>3. live' = live
      BY <3>1, <3>2, FilesChange, KeyNames DEF files, EncryptStep, RekeyStep,
         RekeySecretsStep, OverwriteStep, UnlinkStep
    <3>4. QED  BY <3>1, <3>3
  <2>4. QED  BY <2>2, <2>3
<1>4. QED  BY <1>1, <1>2, <1>3 DEF Findable, SealedRowsAreFindable

LEMMA ReadableInit == Init => ReadableInv
<1> SUFFICES ASSUME Init PROVE ReadableInv  OBVIOUS
<1>1. KeyInv  BY KeyInit
<1>2. \A t \in Threads : thread[t].pc = "idle"  BY RequestValues DEF Init
<1>3. /\ mode # "none" => live = 0
      /\ \A r \in Records :
            \/ records[r] \in {Absent, PlainRow}
            \/ mode # "none" /\ records[r] = V1Row(0)
      /\ \A c \in Credentials :
            \/ credentials[c] \in {NoKey, Plain}
            \/ mode # "none" /\ credentials[c] = 0
      /\ staged = NoKey
  BY DEF Init
<1>4. mode # "none" => 0 \in OnDisk  BY <1>3, KeyNames DEF OnDisk
<1>5. SecretsReadable  BY <1>2, <1>3, <1>4, KeyNames DEF SecretsReadable
<1>6. V1Row(0).form = "v1" /\ V1Row(0).root = 0  BY V1Values, KeyNames
<1>7. RowsReadable  BY <1>2, <1>3, <1>4, <1>6, RowValues DEF RowsReadable
<1>8. Findable
  BY <1>2, <1>3, <1>6, RowValues, KeyNames DEF Findable, SealedRowsAreFindable
<1>9. QED  BY <1>1, <1>5, <1>7, <1>8 DEF ReadableInv

\* Wherever a command died and whatever ran beside it, rows and secrets stay
\* under a key a file holds, and sealed rows are indexed with the key search
\* uses.
THEOREM NothingIsLost == Spec => []NothingLost
<1>1. ReadableInv /\ [Next]_vars => ReadableInv'
  <2> SUFFICES ASSUME ReadableInv, [Next]_vars PROVE ReadableInv'  OBVIOUS
  <2>1. KeyInv' /\ Does  BY KeyStep DEF ReadableInv
  <2>2. TypeInv'  BY <2>1 DEF KeyInv
  <2>3. SecretsReadable' /\ RowsReadable' /\ Findable'
    BY <2>1, <2>2, SecretsStep, RowsStep, FindableStep DEF ReadableInv
  <2>4. QED  BY <2>1, <2>3 DEF ReadableInv
<1>2. ReadableInv => NothingLost
  BY TypesOK DEF ReadableInv, KeyInv, SecretsReadable, RowsReadable, Findable, NothingLost,
     SecretsKept, RowsKept
<1>3. QED  BY <1>1, <1>2, ReadableInit, PTL DEF Spec

----------------------------------------------------------------------------
(***************************************************************************)
(* What is destroyed is dead.                                              *)
(***************************************************************************)

DeadKey(k) == k <= made /\ k \notin {live, staged, retired} /\ ~Holds(k) /\ mode # "none"

\* No step brings a key back that is in no file and in nobody's hands.
LEMMA DeadStays ==
    ASSUME KeyInv, TypeInv', Does, NEW k \in Roots, DeadKey(k)
    PROVE  DeadKey(k)'
<1>1. made' >= made /\ made \in Nat /\ made' \in Nat /\ k \in Nat
  BY Ratchets, KeyNames DEF TypeInv
<1>2. k <= made'  BY <1>1 DEF DeadKey
<1>3. k \notin {live, staged, retired}'  BY <1>1, FilesStep DEF DeadKey
<1>4. ~Holds(k)'  BY HoldersStep DEF DeadKey
<1>5. mode' # "none"  BY ModeStep DEF DeadKey, EncryptRowsStep, SwitchStep, ResealStep
<1>6. QED  BY <1>2, <1>3, <1>4, <1>5 DEF DeadKey

\* Which destruction a manifest, written or about to be, tells of after a step.
LEMMA RecordedStep ==
    ASSUME KeyInv, TypeInv', Does, NEW k \in Roots,
           \/ manifest' # NoManifest /\ manifest'.destroyed = k
           \/ cmd'.next # NoManifest /\ cmd'.next.destroyed = k
    PROVE  \/ manifest # NoManifest /\ manifest.destroyed = k
           \/ cmd.next # NoManifest /\ cmd.next.destroyed = k
           \/ UnlinkStep /\ cmd.old = k
<1>1. CASE UNCHANGED calm  BY <1>1 DEF calm, told
<1>2. CASE SeparateStep  BY <1>2 DEF SeparateStep, told
<1>3. CASE EncryptStep \/ RekeyStep  BY <1>3 DEF EncryptStep, RekeyStep, Begins, told
<1>4. CASE EncryptRowsStep \/ SwitchStep \/ ResealStep \/ RetireStep \/ OverwriteStep
  BY <1>4 DEF EncryptRowsStep, SwitchStep, ResealStep, RetireStep, OverwriteStep,
    Goes, Ends,
     told
<1>5. CASE RekeySecretsStep  BY <1>5 DEF RekeySecretsStep, Goes, Ends, told
<1>6. CASE PromoteStep
  BY <1>6 DEF PromoteStep, Writes, told, KeyInv, TypeInv, Documented
<1>7. CASE UnlinkStep  BY <1>7 DEF UnlinkStep, Writes, told
<1>8. CASE PlanStep  BY <1>8, KeyNames DEF PlanStep, Begins, Writes, told
<1>9. CASE ProveStep  BY <1>9 DEF ProveStep, Begins, Goes, Ends, told
<1>10. CASE RecordsStep
  BY <1>10 DEF RecordsStep, Goes, Ends, KeyInv, TypeInv, Documented
<1>11. QED
  BY <1>1, <1>2, <1>3, <1>4, <1>5, <1>6, <1>7, <1>8, <1>9, <1>10, CommandChange

LEMMA DestroyedTypes ==
    TypeInv => /\ manifest # NoManifest => manifest.destroyed \in Roots \cup {NoKey}
               /\ cmd.next # NoManifest => cmd.next.destroyed \in Roots \cup {NoKey}
BY ManifestValues DEF TypeInv, Command

LEMMA DeathStep == DeathInv /\ [Next]_vars => DeathInv'
<1> SUFFICES ASSUME DeathInv, [Next]_vars PROVE DeathInv'  OBVIOUS
<1>1. KeyInv' /\ Does /\ KeyInv  BY KeyStep DEF DeathInv
<1>2. TypeInv'  BY <1>1 DEF KeyInv
<1>3. ASSUME NEW k \in Roots,
             \/ manifest' # NoManifest /\ manifest'.destroyed = k
             \/ cmd'.next # NoManifest /\ cmd'.next.destroyed = k
      PROVE  DeadKey(k)'
  <2>1. CASE \/ manifest # NoManifest /\ manifest.destroyed = k
             \/ cmd.next # NoManifest /\ cmd.next.destroyed = k
    <3>1. DeadKey(k)
      BY <2>1, KeyNames DEF DeathInv, DestroyedIsDead, Dead, DeadKey
    <3>2. QED  BY <1>1, <1>2, <3>1, DeadStays
  <2>2. CASE UnlinkStep /\ cmd.old = k
    <3>1. DestroyDrained /\ DestroyRows /\ DestroySecrets /\ DestroyUnlink
      BY <1>1, DestroyingParts DEF KeyInv
    <3>2. cmd.pc = "unlink"  BY <2>2 DEF UnlinkStep
    <3>3. /\ k <= made /\ k \notin {live, staged} /\ mode # "none"
          /\ \A t \in Threads : ~ThreadHas(t, k)
          /\ \A r \in Records : ~RowHas(records[r], k)
          /\ \A c \in Credentials : credentials[c] # k
      BY <2>2, <3>1, <3>2 DEF DestroyDrained, DestroyRows, RowsProven, DestroySecrets,
         SecretsProven, DestroyUnlink
    <3>4. ~Holds(k)  BY <3>3 DEF Holds
    <3>5. retired' = NoKey
          /\ UNCHANGED <<records, credentials, thread, mode, live, staged, made>>
      BY <2>2 DEF UnlinkStep, database
    <3>6. ~Holds(k)'  BY <3>4, <3>5 DEF Holds, ThreadHas, RowHas
    <3>7. QED  BY <3>3, <3>5, <3>6, KeyNames DEF DeadKey
  <2>3. QED  BY <1>1, <1>2, <1>3, <2>1, <2>2, RecordedStep
<1>4. /\ manifest' # NoManifest => manifest'.destroyed \in Roots \cup {NoKey}
      /\ cmd'.next # NoManifest => cmd'.next.destroyed \in Roots \cup {NoKey}
  BY <1>2, ManifestValues DEF TypeInv, Command
<1>5. (manifest # NoManifest => Dead(manifest.destroyed))'
  <2>1. SUFFICES ASSUME manifest' # NoManifest, manifest'.destroyed \in Roots
                 PROVE  Dead(manifest.destroyed)'
    BY <1>4 DEF Dead
  <2>2. PICK k \in Roots : k = manifest'.destroyed  BY <2>1
  <2>3. DeadKey(k)'  BY <1>3, <2>1, <2>2
  <2>4. QED  BY <2>2, <2>3 DEF DeadKey, Dead, Holds, ThreadHas, RowHas
<1>6. (cmd.next # NoManifest => Dead(cmd.next.destroyed))'
  <2>1. SUFFICES ASSUME cmd'.next # NoManifest, cmd'.next.destroyed \in Roots
                 PROVE  Dead(cmd.next.destroyed)'
    BY <1>4 DEF Dead
  <2>2. PICK k \in Roots : k = cmd'.next.destroyed  BY <2>1
  <2>3. DeadKey(k)'  BY <1>3, <2>1, <2>2
  <2>4. QED  BY <2>2, <2>3 DEF DeadKey, Dead, Holds, ThreadHas, RowHas
<1>7. QED  BY <1>1, <1>5, <1>6 DEF DeathInv, DestroyedIsDead

\* The key a manifest calls destroyed is in no file, and opens nothing, from
\* then on.
THEOREM DestroyedForGood == Spec => []DestructionIsReal
<1>1. Init => DeathInv
  BY KeyInit, IdleValues DEF Init, DeathInv, DestroyedIsDead
<1>2. DeathInv => DestructionIsReal
  BY KeyNames DEF DeathInv, DestroyedIsDead, Dead, Holds, RowHas, OnDisk, Opens,
     DestructionIsReal
<1>3. QED  BY <1>1, <1>2, DeathStep, PTL DEF Spec


----------------------------------------------------------------------------
(***************************************************************************)
(* What was done is on record.                                             *)
(***************************************************************************)

MigrationOnItsWay ==
    mode = "v3" /\ automatic # "v3" /\ ~died =>
        \/ cmd.pc \in {"after", "fingerprint", "write", "audit"}
        \/ manifest # NoManifest /\ manifest \in ledger
EncryptionOnItsWay ==
    mode # "none" /\ automatic = "no" /\ ~died => announced \/ cmd.pc = "announce"

LEMMA MigrationStep ==
    KeyInv /\ MigrationOnItsWay /\ Does => MigrationOnItsWay'
<1> SUFFICES ASSUME KeyInv, MigrationOnItsWay, Does PROVE MigrationOnItsWay'  OBVIOUS
<1>1. CASE UNCHANGED calm  BY <1>1 DEF calm, told, MigrationOnItsWay
<1>2. CASE SeparateStep \/ EncryptStep \/ RekeyStep
  BY <1>2 DEF SeparateStep, EncryptStep, RekeyStep, Ready, database, told, MigrationOnItsWay
<1>3. CASE EncryptRowsStep \/ SwitchStep
  BY <1>3 DEF EncryptRowsStep, SwitchStep, MigrationOnItsWay
<1>4. CASE ResealStep  BY <1>4 DEF ResealStep, Goes, MigrationOnItsWay
<1>5. CASE RekeySecretsStep \/ RetireStep \/ OverwriteStep
  BY <1>5 DEF RekeySecretsStep, RetireStep, OverwriteStep, database, told, MigrationOnItsWay
<1>6. CASE PromoteStep \/ UnlinkStep
  BY <1>6 DEF PromoteStep, UnlinkStep, Writes, MigrationOnItsWay
<1>7. CASE PlanStep  BY <1>7 DEF PlanStep, Writes, world, told, MigrationOnItsWay
<1>8. CASE ProveStep
  BY <1>8 DEF ProveStep, Ready, world, told, MigrationOnItsWay
<1>9. CASE RecordsStep
  BY <1>9 DEF RecordsStep, Goes, world, MigrationOnItsWay, KeyInv, TypeInv, Documented
<1>10. QED
  BY <1>1, <1>2, <1>3, <1>4, <1>5, <1>6, <1>7, <1>8, <1>9, CommandChange

LEMMA EncryptionStep ==
    KeyInv /\ EncryptionOnItsWay /\ Does => EncryptionOnItsWay'
<1> SUFFICES ASSUME KeyInv, EncryptionOnItsWay, Does PROVE EncryptionOnItsWay'  OBVIOUS
<1>1. CASE UNCHANGED calm  BY <1>1 DEF calm, told, EncryptionOnItsWay
<1>2. CASE SeparateStep \/ EncryptStep \/ RekeyStep
  BY <1>2 DEF SeparateStep, EncryptStep, RekeyStep, Ready, database, told, EncryptionOnItsWay
<1>3. CASE EncryptRowsStep \/ SwitchStep
  BY <1>3 DEF EncryptRowsStep, SwitchStep, Goes, EncryptionOnItsWay
<1>4. CASE ResealStep
  BY <1>4 DEF ResealStep, told, EncryptionOnItsWay, KeyInv, PlainStore
<1>5. CASE RekeySecretsStep \/ RetireStep \/ OverwriteStep
  BY <1>5 DEF RekeySecretsStep, RetireStep, OverwriteStep, database, told, EncryptionOnItsWay
<1>6. CASE PromoteStep \/ UnlinkStep
  BY <1>6 DEF PromoteStep, UnlinkStep, database, told, EncryptionOnItsWay
<1>7. CASE PlanStep  BY <1>7 DEF PlanStep, world, told, EncryptionOnItsWay
<1>8. CASE ProveStep  BY <1>8 DEF ProveStep, Ready, world, told, EncryptionOnItsWay
<1>9. CASE RecordsStep  BY <1>9 DEF RecordsStep, world, EncryptionOnItsWay
<1>10. QED
  BY <1>1, <1>2, <1>3, <1>4, <1>5, <1>6, <1>7, <1>8, <1>9, CommandChange

LEMMA LedgerGrows == Does => ledger \subseteq ledger'
BY DEF Does, ConnectStep, InsertStep, DisconnectStep, PurgeStep, SeparateStep, EncryptStep,
   EncryptRowsStep, SwitchStep, ResealStep, RekeyStep, RekeySecretsStep,
     RetireStep, PromoteStep,
   OverwriteStep, UnlinkStep, PlanStep, ProveStep, RecordsStep, told

\* A destruction on its way into the ledger stays on its way until it is there,
\* if the command does not die.
LEMMA OnItsWayStep ==
    ASSUME KeyInv, Does, ~died', NEW k, DestructionOnItsWay(k)
    PROVE  DestructionOnItsWay(k)'
<1>1. CASE DestroyedOnRecord(k)
  BY <1>1, LedgerGrows DEF DestroyedOnRecord, DestructionOnItsWay
<1>2. CASE UNCHANGED calm
  BY <1>2 DEF calm, told, DestroyedOnRecord, DestructionOnItsWay
<1>3. CASE UnlinkStep /\ cmd.old = k
  BY <1>3 DEF UnlinkStep, Writes, DestructionOnItsWay
<1>4. CASE RecordsStep
  <2>1. CASE /\ cmd.pc = "write" /\ cmd.next.destroyed = k
             /\ manifest' = cmd.next /\ Goes("audit")
    BY <2>1 DEF Goes, DestructionOnItsWay
  <2>2. CASE cmd.pc = "audit" /\ manifest.destroyed = k /\ ledger' = ledger \cup {manifest}
    BY <2>2 DEF DestroyedOnRecord, DestructionOnItsWay
  <2>3. QED  BY <1>1, <1>4, <2>1, <2>2 DEF RecordsStep, DestructionOnItsWay
<1>5. cmd.pc \in {"unlink", "write", "audit"} =>
         UNCHANGED calm \/ UnlinkStep \/ RecordsStep
  BY CommandChange DEF SeparateStep, EncryptStep, EncryptRowsStep, SwitchStep, ResealStep,
    RekeyStep,
     RekeySecretsStep, RetireStep, PromoteStep, OverwriteStep, PlanStep, ProveStep, Ready
<1>6. QED
  BY <1>1, <1>2, <1>3, <1>4, <1>5 DEF UnlinkStep, DestructionOnItsWay

\* Where credentials are re-keyed once, every secret is under the key in use:
\* the transaction does not roll back.
LEMMA RekeySucceeds ==
    ASSUME KeyInv, SecretsReadable, made <= 1, ~died, RekeySecretsStep
    PROVE  staged' = staged /\ staged \in Roots
<1>1. KeysKnown /\ KeysInOneFile /\ RekeyRunning /\ RekeyFresh
  BY KeysAreKnown, RekeyingParts DEF KeyInv
<1>2. live = cmd.old /\ staged \in Roots /\ cmd.old \in Roots
      /\ \A c \in Credentials : credentials[c] # staged
  BY <1>1 DEF RekeySecretsStep, RekeyRunning, RekeyFresh
<1>3. retired \notin Roots
  <2>1. SUFFICES ASSUME retired \in Roots PROVE FALSE  OBVIOUS
  <2>2. live \in Nat /\ staged \in Nat /\ retired \in Nat /\ made \in Nat
    BY <1>1, <1>2, <2>1, KeyNames DEF KeysKnown
  <2>3. live <= made /\ staged <= made /\ retired <= made
    BY <1>1, <1>2, <2>1 DEF KeysKnown
  <2>4. live \in {0, 1} /\ staged \in {0, 1} /\ retired \in {0, 1}
    BY <2>2, <2>3
  <2>5. QED  BY <1>1, <1>2, <2>1, <2>4 DEF KeysInOneFile
<1>4. \A c \in Credentials : credentials[c] \in OnDisk \cup {NoKey, Plain}
  BY DEF SecretsReadable
<1>5. \A c \in Credentials : credentials[c] \in {NoKey, Plain, cmd.old}
  BY <1>2, <1>3, <1>4 DEF OnDisk
<1>6. QED  BY <1>2, <1>5 DEF RekeySecretsStep

KeysWhere(k) == k \in {live, staged, retired} \/ DestructionOnItsWay(k)

LEMMA AccountStep ==
    ASSUME KeyInv, SecretsReadable, KeysAccounted, TypeInv', Does,
           made' <= 1, ~died', mode' # "none", NEW k \in 0 .. made'
    PROVE  KeysWhere(k)'
<1>1. KeysKnown /\ KeysInOneFile  BY KeysAreKnown DEF KeyInv
<1>2. made \in Nat /\ made' \in Roots /\ made' \in Nat /\ made <= made' /\ ~died
  BY Ratchets, KeyNames DEF TypeInv
<1>3. k \in Roots  BY <1>2, MaxRootAssumption DEF Roots
<1>4. CASE mode = "none"
  <2>1. EncryptRowsStep \/ SwitchStep
    BY <1>4, ModeStep DEF ResealStep, KeyInv, PlainStore
  <2>2. live \in Roots /\ live \in {NoKey, 0} /\ made = 0
    BY <1>4, <2>1 DEF EncryptRowsStep, SwitchStep, KeyInv, PlainStore, Encrypting
  <2>3. live = 0 /\ live' = live /\ made' = made
    BY <2>1, <2>2, KeyNames DEF EncryptRowsStep, SwitchStep, files
  <2>4. QED  BY <2>2, <2>3 DEF KeysWhere
<1>5. CASE mode # "none" /\ k \notin 0 .. made
  <2>1. made' # made  BY <1>2, <1>5
  <2>2. \/ EncryptStep /\ live' = made' /\ made' = made + 1
        \/ RekeyStep
    BY <2>1, FilesChange DEF files, EncryptStep, RekeySecretsStep, RetireStep, PromoteStep,
       OverwriteStep, UnlinkStep
  <2>3. k = made + 1 /\ k = made'  BY <1>2, <1>5, <2>2 DEF RekeyStep
  <2>4. QED  BY <2>2, <2>3 DEF RekeyStep, KeysWhere
<1>6. CASE mode # "none" /\ k \in 0 .. made
  <2>1. KeysWhere(k)  BY <1>2, <1>6 DEF KeysAccounted, KeysWhere
  <2>2. CASE DestructionOnItsWay(k)
    BY <2>2, OnItsWayStep DEF KeysWhere
  <2>3. CASE k \in {live, staged, retired} /\ k \in {live, staged, retired}'
    BY <2>3 DEF KeysWhere
  <2>4. CASE k \in {live, staged, retired} /\ k \notin {live, staged, retired}'
    <3>1. k \in OnDisk /\ k \notin OnDisk'  BY <1>3, <2>4 DEF OnDisk
    <3>2. ~(k = staged /\ RekeyStep) /\ ~(k = retired /\ RetireStep)
      BY <1>2, <1>3, OneRekeying
    <3>3. ~(RekeySecretsStep /\ staged' = NoKey)
      BY <1>2, RekeySucceeds, KeyNames
    <3>4. k = retired /\ OverwriteStep  BY <3>1, <3>2, <3>3, DiskStep
    <3>5. cmd'.pc = "unlink" /\ cmd'.old = k
      BY <3>4, DestroyingParts DEF OverwriteStep, Goes, KeyInv, DestroyRetired
    <3>6. QED  BY <3>5 DEF KeysWhere, DestructionOnItsWay
  <2>5. QED  BY <2>1, <2>2, <2>3, <2>4 DEF KeysWhere
<1>7. QED  BY <1>4, <1>5, <1>6

LEMMA RecordInit == Init => RecordInv
<1> SUFFICES ASSUME Init PROVE RecordInv  OBVIOUS
<1>1. KeyInv /\ SecretsReadable  BY ReadableInit DEF ReadableInv
<1>2. StepOnItsWay  BY DEF Init, StepOnItsWay
<1>3. mode # "none" => live = 0 /\ made = 0  BY DEF Init
<1>4. KeysAccounted  BY <1>3 DEF KeysAccounted
<1>5. QED  BY <1>1, <1>2, <1>4 DEF RecordInv

LEMMA LedgerStep == RecordInv /\ [Next]_vars => RecordInv'
<1> SUFFICES ASSUME RecordInv, [Next]_vars PROVE RecordInv'  OBVIOUS
<1>1. KeyInv /\ SecretsReadable /\ StepOnItsWay /\ KeysAccounted  BY DEF RecordInv
<1>2. KeyInv' /\ Does  BY <1>1, KeyStep
<1>3. TypeInv'  BY <1>2 DEF KeyInv
<1>4. SecretsReadable'  BY <1>1, <1>2, <1>3, SecretsStep
<1>5. MigrationOnItsWay /\ EncryptionOnItsWay
  BY <1>1 DEF StepOnItsWay, MigrationOnItsWay, EncryptionOnItsWay
<1>6. MigrationOnItsWay' /\ EncryptionOnItsWay'
  BY <1>1, <1>2, <1>5, MigrationStep, EncryptionStep
<1>7. StepOnItsWay'
  BY <1>6 DEF StepOnItsWay, MigrationOnItsWay, EncryptionOnItsWay
<1>8. KeysAccounted'
  BY <1>1, <1>2, <1>3, AccountStep DEF KeysAccounted, KeysWhere
<1>9. QED  BY <1>2, <1>4, <1>7, <1>8 DEF RecordInv

\* The encryption the operator commands is in the ledger, the migration in
\* manifest and ledger, and the end of a root key in the entry of its
\* destruction, unless a command died; what init_db encrypts or seals by itself
\* is in neither.
THEOREM StepsOnRecord == Spec => []StepsAreRecorded
<1>1. RecordInv => StepsAreRecorded
  <2> SUFFICES ASSUME RecordInv PROVE StepsAreRecorded  OBVIOUS
  <2>1. EncryptionIsRecorded /\ MigrationIsRecorded
    BY DEF RecordInv, StepOnItsWay, EncryptionIsRecorded, MigrationIsRecorded
  <2>2. ASSUME cmd.pc = "idle", made <= 1, ~died, NEW k \in Roots, Gone(k)
        PROVE  DestroyedOnRecord(k)
    <3>1. mode # "none"  BY <2>2 DEF Gone, RecordInv, KeyInv, PlainStore
    <3>2. k \in 0 .. made
      BY <2>2, KeyNames DEF Gone, Roots, RecordInv, KeyInv, TypeInv
    <3>3. k \in {live, staged, retired} \/ DestructionOnItsWay(k)
      BY <2>2, <3>1, <3>2 DEF RecordInv, KeysAccounted
    <3>4. k \notin {live, staged, retired}  BY <2>2 DEF Gone, OnDisk
    <3>5. QED  BY <2>2, <3>3, <3>4 DEF DestructionOnItsWay
  <2>3. KeysGoOnTheRecord  BY <2>2 DEF KeysGoOnTheRecord
  <2>4. QED  BY <2>1, <2>3 DEF StepsAreRecorded
<1>2. QED  BY <1>1, RecordInit, LedgerStep, PTL DEF Spec

(***************************************************************************)
(* Reseal.                                                                 *)
(***************************************************************************)
LEMMA BatchOfStale == \A S, rs : rs \in SelectBatch(S) => rs \subseteq S
BY DEF SelectBatch, kSubset

LEMMA ResealTypeStep == ResealTypeOK /\ [ResealNext]_resealVars => ResealTypeOK'
<1> SUFFICES ASSUME ResealTypeOK, [ResealNext]_resealVars PROVE ResealTypeOK'
  OBVIOUS
<1> USE DEF ResealTypeOK, Keys, SealedTo
<1>0. MaxDeaths \in Nat  BY BatchAssumption
<1>1. ASSUME NEW t \in Connections, SealerFor(t) \/ InsertEvent(t) \/ EndRequest(t)
      PROVE  ResealTypeOK'
  BY <1>1 DEF SealerFor, InsertEvent, EndRequest
<1>2. CASE PurgeEvents  BY <1>2 DEF PurgeEvents
<1>3. CASE Select
  <2>1. rows' \subseteq Events
    BY <1>3, BatchOfStale DEF Select
  <2>2. QED  BY <1>3, <2>1 DEF Select
<1>4. CASE ResealBatch  BY <1>4 DEF ResealBatch, Rewrite
<1>5. CASE SetKem \/ WriteReport \/ RecordReport \/ Begin
  BY <1>5 DEF SetKem, WriteReport, RecordReport, Begin
<1>6. CASE DieResealing  BY <1>0, <1>6 DEF DieResealing
<1>7. CASE UNCHANGED resealVars  BY <1>7 DEF resealVars
<1>8. QED  BY <1>1, <1>2, <1>3, <1>4, <1>5, <1>6, <1>7 DEF ResealNext, Step

LEMMA ResealTypes == ResealSpec => []ResealTypeOK
<1>1. ASSUME ResealInit PROVE ResealTypeOK
  <2>1. events \in [Events -> Keys \cup {"absent", "deleted"}]
    BY <1>1 DEF ResealInit, Keys
  <2>2. deaths \in 0 .. MaxDeaths  BY <1>1, BatchAssumption DEF ResealInit
  <2>3. QED  BY <1>1, <2>1, <2>2 DEF ResealInit, ResealTypeOK, Keys
<1>2. QED  BY <1>1, ResealTypeStep, PTL DEF ResealSpec

\* A row the retention job deleted stays deleted, also where reseal-v4 read it
\* before and writes its batch afterwards (seal_store.py:846-853).
THEOREM PurgeStaysFinal == ResealSpec => PurgeIsFinal
<1>1. ASSUME ResealTypeOK, [ResealNext]_resealVars
      PROVE  \A r \in Events : events[r] = "deleted" => events'[r] = "deleted"
  <2> SUFFICES ASSUME NEW r \in Events, events[r] = "deleted" PROVE events'[r] = "deleted"
    OBVIOUS
  <2>1. ASSUME NEW t \in Connections, SealerFor(t) \/ InsertEvent(t) \/ EndRequest(t)
        PROVE  events'[r] = "deleted"
    BY <1>1, <2>1 DEF SealerFor, InsertEvent, EndRequest, SealedTo, ResealTypeOK
  <2>2. CASE PurgeEvents
    BY <1>1, <2>2 DEF PurgeEvents, SealedTo, ResealTypeOK
  <2>3. CASE ResealBatch  BY <1>1, <2>3 DEF ResealBatch, Rewrite
  <2>4. CASE Select \/ SetKem \/ WriteReport \/ RecordReport \/ Begin \/ DieResealing
    BY <1>1, <2>4 DEF Select, SetKem, WriteReport, RecordReport, Begin, DieResealing
  <2>5. CASE UNCHANGED resealVars  BY <1>1, <2>5 DEF resealVars
  <2>6. QED  BY <1>1, <2>1, <2>2, <2>3, <2>4, <2>5 DEF ResealNext, Step
<1>2. QED  BY <1>1, ResealTypes, PTL DEF ResealSpec, PurgeIsFinal

\* No connection can settle on the old key any more, so that what the last
\* batch left under it is nothing, and stays so.
AgainInv ==
    /\ ResealTypeOK
    /\ meta = [public |-> "new", kem |-> "new"]
    /\ \A t \in Connections : sealer[t] # "old"
    /\ pc \in {"kem", "write", "audit"} => SealedTo("old") = {}

LEMMA AgainStep == AgainInv /\ [ResealNext]_resealVars => AgainInv'
<1> SUFFICES ASSUME AgainInv, [ResealNext]_resealVars PROVE AgainInv'
  OBVIOUS
<1>1. ResealTypeOK /\ ResealTypeOK'  BY ResealTypeStep DEF AgainInv
<1>2. meta.public = "new" /\ meta.kem = "new"  BY DEF AgainInv
<1>3. meta' = meta /\ \A t \in Connections : sealer'[t] # "old"
  <2>1. ASSUME NEW t \in Connections, SealerFor(t) \/ InsertEvent(t) \/ EndRequest(t)
        PROVE  meta' = meta /\ \A u \in Connections : sealer'[u] # "old"
    BY <1>1, <1>2, <2>1 DEF SealerFor, InsertEvent, EndRequest, AgainInv, ResealTypeOK
  <2>2. CASE Select \/ SetKem
    BY <1>2, <2>2 DEF Select, SetKem, AgainInv
  <2>3. CASE PurgeEvents \/ ResealBatch \/ WriteReport \/ RecordReport \/ Begin \/ DieResealing
    BY <2>3 DEF PurgeEvents, ResealBatch, WriteReport, RecordReport, Begin, DieResealing, AgainInv
  <2>4. CASE UNCHANGED resealVars  BY <2>4 DEF resealVars, AgainInv
  <2>5. QED  BY <2>1, <2>2, <2>3, <2>4 DEF ResealNext, Step
<1>4. SealedTo("old")' \subseteq SealedTo("old")
  <2>1. ASSUME NEW t \in Connections, SealerFor(t) \/ InsertEvent(t) \/ EndRequest(t)
        PROVE  SealedTo("old")' \subseteq SealedTo("old")
    BY <1>1, <2>1 DEF SealerFor, InsertEvent, EndRequest, AgainInv, ResealTypeOK, SealedTo
  <2>2. CASE PurgeEvents  BY <1>1, <2>2 DEF PurgeEvents, ResealTypeOK, SealedTo
  <2>3. CASE ResealBatch  BY <2>3 DEF ResealBatch, Rewrite, SealedTo
  <2>4. CASE Select \/ SetKem \/ WriteReport \/ RecordReport \/ Begin \/ DieResealing
    BY <2>4 DEF Select, SetKem, WriteReport, RecordReport, Begin, DieResealing, SealedTo
  <2>5. CASE UNCHANGED resealVars  BY <2>5 DEF resealVars, SealedTo
  <2>6. QED  BY <2>1, <2>2, <2>3, <2>4, <2>5 DEF ResealNext, Step
<1>5. pc' \in {"kem", "write", "audit"} =>
        pc \in {"kem", "write", "audit"} \/ SealedTo("old") = {}
  <2>1. ASSUME NEW t \in Connections, SealerFor(t) \/ InsertEvent(t) \/ EndRequest(t)
        PROVE  pc' = pc
    BY <2>1 DEF SealerFor, InsertEvent, EndRequest
  <2>2. CASE Select  BY <2>2 DEF Select
  <2>3. CASE PurgeEvents \/ ResealBatch \/ RecordReport \/ Begin \/ DieResealing
    BY <2>3 DEF PurgeEvents, ResealBatch, RecordReport, Begin, DieResealing
  <2>4. CASE SetKem \/ WriteReport  BY <2>4 DEF SetKem, WriteReport
  <2>5. CASE UNCHANGED resealVars  BY <2>5 DEF resealVars
  <2>6. QED  BY <2>1, <2>2, <2>3, <2>4, <2>5 DEF ResealNext, Step
<1>6. pc' \in {"kem", "write", "audit"} => SealedTo("old")' = {}
  BY <1>4, <1>5 DEF AgainInv
<1>7. QED  BY <1>1, <1>3, <1>6 DEF AgainInv

\* "The previous disclosure key now opens nothing in this database"
\* (seal_store.py:889) is false of a first run (OldKeyOpensNothing); it is true
\* of every run that begins when the store names the new key and each request
\* that had settled on the old one has ended.
THEOREM RepeatedRunReportsTruly ==
    RunAgain /\ [][ResealNext]_resealVars => []ReportIsTrue
<1>1. RunAgain => AgainInv  BY DEF RunAgain, AgainInv
<1>2. AgainInv => ReportIsTrue  BY DEF AgainInv, ReportIsTrue
<1>3. QED  BY <1>1, <1>2, AgainStep, PTL
=============================================================================
