--------------------------- MODULE RegistryAdmission ---------------------------
(***************************************************************************)
(* How a change in whose keys count reaches a key-holding service: exported *)
(* by scripts/manage_keys.py with a version, carried to the service's host, *)
(* and admitted at start-up by admit_registry of justikey/servicekit.py     *)
(* against the version and digest the service's own ledger database holds.  *)
(* The two meta rows and the ledger entry of a role are three separate      *)
(* commits, and the process may die between any two of them.                *)
(*                                                                         *)
(* The digest of a set of principals is the set itself.                     *)
(***************************************************************************)
EXTENDS Naturals, Sequences

CONSTANTS
    Roles,      \* the roles in the order main() admits them
    Principals, \* what a registry can contain
    NoFile, NoDigest,
    MaxVersion  \* bound on the exports of each role

Role == {Roles[i] : i \in 1 .. Len(Roles)}
Registry == [version : Nat \ {0}, principals : Principals]

ASSUME RolesAssumption ==
    /\ Len(Roles) \in Nat \ {0}
    /\ \A i, j \in 1 .. Len(Roles) : Roles[i] = Roles[j] => i = j
ASSUME NothingAssumption == NoFile \notin Registry /\ NoDigest \notin Principals

VARIABLES
    out,        \* application: the file at the export path
    latest,     \* history: the last registry exported
    exported,   \* history: every registry exported, backups of it included
    file,       \* service host: the file --approvers / --requesters names
    version,    \* service: meta registry_version:<role>, 0 when there is none
    digest,     \* service: meta registry_digest:<role>
    ledger,     \* service: the registry_new / registry_updated entries
    inLoop,     \* the custodian records each role inside the loop; the
                \* disclosure service records all of them after it
    pc,         \* service: what main() is doing
    turn,       \* service: the role main() is at
    loaded,     \* service: the registry read for each role
    changed,    \* service: the roles whose status is not "unchanged"
    serving,    \* history: every registry ever served, by role
    refused,    \* history: the registry exported last has been refused
    mishaps     \* history: an export was moved and not copied, a start died

application == <<out, latest, exported>>
meta == <<version, digest>>
process == <<pc, turn, loaded, changed>>
registryVars == <<application, file, meta, ledger, inLoop, process, serving,
                  refused, mishaps>>

RegistryTypeOK ==
    /\ out \in [Role -> Registry \cup {NoFile}]
    /\ latest \in [Role -> Registry \cup {NoFile}]
    /\ exported \in [Role -> SUBSET Registry]
    /\ file \in [Role -> Registry \cup {NoFile}]
    /\ version \in [Role -> Nat]
    /\ digest \in [Role -> Principals \cup {NoDigest}]
    /\ ledger \in [Role -> SUBSET Registry]
    /\ pc \in {"down", "check", "version", "digest", "record", "recordall", "serving"}
    /\ turn \in 1 .. Len(Roles) + 1
    /\ loaded \in [Role -> Registry \cup {NoFile}]
    /\ changed \subseteq Role
    /\ serving \in [Role -> SUBSET Registry]
    /\ inLoop \in BOOLEAN
    /\ refused \in BOOLEAN
    /\ mishaps \subseteq {"moved", "died"}

RegistryInit ==
    /\ out = [r \in Role |-> NoFile]
    /\ latest = [r \in Role |-> NoFile]
    /\ exported = [r \in Role |-> {}]
    /\ file = [r \in Role |-> NoFile]
    /\ version = [r \in Role |-> 0]
    /\ digest = [r \in Role |-> NoDigest]
    /\ ledger = [r \in Role |-> {}]
    /\ pc = "down"
    /\ turn = 1
    /\ loaded = [r \in Role |-> NoFile]
    /\ changed = {}
    /\ serving = [r \in Role |-> {}]
    /\ inLoop \in BOOLEAN
    /\ refused = FALSE
    /\ mishaps = {}

-------------------------------------------------------------------------------
(* The operator and the application *)

NextVersionForgetting(r, p) == IF out[r] = NoFile THEN 1 ELSE out[r].version
\* The version moves when the contents differ from the file at the path; a
\* missing file reads as version 0.
NextVersion(r, p) ==
    IF out[r] = NoFile THEN 1
    ELSE IF out[r].principals = p THEN out[r].version ELSE out[r].version + 1

\* p is who is enrolled and not revoked at that moment; it changes freely
\* between two exports.
Export(r, p) ==
    /\ NextVersion(r, p) <= MaxVersion[r]
    /\ LET new == [version |-> NextVersion(r, p), principals |-> p] IN
       /\ out' = [out EXCEPT ![r] = new]
       /\ latest' = [latest EXCEPT ![r] = new]
       /\ exported' = [exported EXCEPT ![r] = @ \cup {new}]
    /\ UNCHANGED <<file, meta, ledger, inLoop, process, serving, refused, mishaps>>

\* "Move these to the disclosure service's host": copied, or moved.
Carry(r) ==
    /\ out[r] # NoFile
    /\ file' = [file EXCEPT ![r] = out[r]]
    /\ \/ UNCHANGED <<out, mishaps>>
       \/ out' = [out EXCEPT ![r] = NoFile] /\ mishaps' = mishaps \cup {"moved"}
    /\ UNCHANGED <<latest, exported, meta, ledger, process, serving,
                   refused, inLoop>>

\* An older copy is put back on the service's host.
Restore(r) ==
    /\ \E old \in exported[r] : file' = [file EXCEPT ![r] = old]
    /\ UNCHANGED <<application, meta, ledger, process, serving, refused,
                   inLoop, mishaps>>

-------------------------------------------------------------------------------
(* The service's main() *)

\* The process is gone, and what it had read with it.
Ended ==
    /\ pc' = "down"
    /\ turn' = 1
    /\ loaded' = [r \in Role |-> NoFile]
    /\ changed' = {}

Begin ==
    /\ pc = "down"
    /\ \A r \in Role : file[r] # NoFile
    /\ pc' = "check"
    /\ UNCHANGED <<application, file, meta, ledger, turn, loaded, changed, serving,
                   refused, inLoop, mishaps>>

RollbackIgnored(r, f) == version[r] = f.version /\ digest[r] # f.principals
\* registry.check raises: a version that went backwards, or contents that
\* changed without it.
Unacceptable(r, f) ==
    \/ f.version < version[r]
    \/ version[r] = f.version /\ digest[r] # f.principals

Unchanged(r, f) == version[r] = f.version /\ digest[r] = f.principals

\* After a role: the next one, or what follows the loop.
After(i) == IF i < Len(Roles) THEN "check"
            ELSE IF inLoop THEN "serving" ELSE "recordall"

CheckRole ==
    /\ pc = "check"
    /\ LET r == Roles[turn]
           f == file[r]
       IN  \/ /\ Unacceptable(r, f)
              /\ Ended
              /\ refused' = (refused \/ f = latest[r])
           \/ /\ ~Unacceptable(r, f)
              /\ loaded' = [loaded EXCEPT ![r] = f]
              /\ IF Unchanged(r, f)
                   THEN /\ pc' = After(turn)
                        /\ turn' = turn + 1
                        /\ UNCHANGED changed
                   ELSE /\ pc' = "version"
                        /\ changed' = changed \cup {r}
                        /\ UNCHANGED turn
              /\ UNCHANGED refused
    /\ serving' = IF pc' = "serving"
                  THEN [r \in Role |-> serving[r] \cup {loaded'[r]}] ELSE serving
    /\ UNCHANGED <<application, file, meta, ledger, inLoop, mishaps>>

SetVersion ==
    /\ pc = "version"
    /\ version' = [version EXCEPT ![Roles[turn]] = loaded[Roles[turn]].version]
    /\ pc' = "digest"
    /\ UNCHANGED <<application, file, digest, ledger, turn, loaded, changed,
                   serving, refused, inLoop, mishaps>>

SetDigest ==
    /\ pc = "digest"
    /\ digest' = [digest EXCEPT ![Roles[turn]] = loaded[Roles[turn]].principals]
    /\ IF inLoop THEN pc' = "record" /\ UNCHANGED turn
                 ELSE pc' = After(turn) /\ turn' = turn + 1
    /\ UNCHANGED <<application, file, version, ledger, loaded, changed,
                   serving, refused, inLoop, mishaps>>

RecordFirstRole ==
    /\ pc = "record"
    /\ LET r == Roles[turn] IN
       ledger' = IF turn = 1 THEN [ledger EXCEPT ![r] = @ \cup {loaded[r]}] ELSE ledger
    /\ pc' = After(turn)
    /\ turn' = turn + 1
    /\ serving' = IF pc' = "serving"
                  THEN [r \in Role |-> serving[r] \cup {loaded[r]}] ELSE serving
    /\ UNCHANGED <<application, file, meta, loaded, changed, refused, inLoop,
                   mishaps>>
\* The custodian: the role just admitted enters the ledger.
RecordRole ==
    /\ pc = "record"
    /\ LET r == Roles[turn] IN
       ledger' = [ledger EXCEPT ![r] = @ \cup {loaded[r]}]
    /\ pc' = After(turn)
    /\ turn' = turn + 1
    /\ serving' = IF pc' = "serving"
                  THEN [r \in Role |-> serving[r] \cup {loaded[r]}] ELSE serving
    /\ UNCHANGED <<application, file, meta, loaded, changed, refused, inLoop,
                   mishaps>>

\* The disclosure service: one ledger entry after another, then it serves.
RecordAll ==
    /\ pc = "recordall"
    /\ \/ \E r \in changed :
            /\ ledger' = [ledger EXCEPT ![r] = @ \cup {loaded[r]}]
            /\ changed' = changed \ {r}
            /\ UNCHANGED <<pc, serving>>
       \/ /\ changed = {}
          /\ pc' = "serving"
          /\ serving' = [r \in Role |-> serving[r] \cup {loaded[r]}]
          /\ UNCHANGED <<ledger, changed>>
    /\ UNCHANGED <<application, file, meta, turn, loaded, refused, inLoop,
                   mishaps>>

\* A serving process stops, or one that is starting dies.
Stop ==
    /\ pc # "down"
    /\ Ended
    /\ mishaps' = IF pc = "serving" THEN mishaps ELSE mishaps \cup {"died"}
    /\ UNCHANGED <<application, file, meta, ledger, serving,
                   refused, inLoop>>

RegistryNext ==
    \/ \E r \in Role : (\E p \in Principals : Export(r, p)) \/ Carry(r) \/ Restore(r)
    \/ Begin \/ CheckRole \/ SetVersion \/ SetDigest \/ RecordRole \/ RecordAll
    \/ Stop

RegistrySpec == RegistryInit /\ [][RegistryNext]_registryVars

-------------------------------------------------------------------------------
(* Properties *)

\* "An older copy would reinstate keys that were revoked since": what is
\* served is never older than anything the service has served before,
\* whatever file it finds and wherever an earlier start died.
NeverServesOlder ==
    pc = "serving" =>
        \A r \in Role : \A s \in serving[r] : s.version <= loaded[r].version

\* No silent swap: one version is never served with two different contents,
\* also where moved files make the exporter use one number twice.
OneContentsPerVersion ==
    \A r \in Role : \A s, t \in serving[r] : s.version = t.version => s = t

\* What is served is what the service will compare the next file with.
ServedIsCommitted ==
    pc = "serving" =>
        \A r \in Role : version[r] = loaded[r].version /\ digest[r] = loaded[r].principals

\* What a role is served only moves forward, in well-typed states: never to an
\* older version, to other contents only under a new number, and committed.
ServedOnlyAdvances ==
    RegistryTypeOK /\ NeverServesOlder /\ OneContentsPerVersion /\ ServedIsCommitted

\* Only the two cases that must stop the service stop it: the registry the
\* application exported last is never refused, as long as the exports are
\* copied and no start dies.
LatestIsAdmitted == mishaps = {} => ~refused

\* "a legitimate change is a visible, attributable ledger entry rather than a
\* silent swap" (justikey/registry.py): whatever the custodian ever served is
\* in its ledger, where no start died.
ServedIsLedgered ==
    inLoop /\ "died" \notin mishaps => \A r \in Role : serving[r] \subseteq ledger[r]

-------------------------------------------------------------------------------
(* What the text promises and the code does not keep *)

\* The same sentence of the disclosure service, whose main() stops at a
\* second role that is refused before it recorded the first.
DisclosureServedIsLedgered ==
    "died" \notin mishaps => \A r \in Role : serving[r] \subseteq ledger[r]

\* "a version that went backwards, and a change in contents that did not bother
\* to move the version" (registry.py) are all that stops the service; but it
\* refuses a file whose admission died half-way, and one numbered afresh.
LatestIsAlwaysAdmitted == ~refused
===============================================================================
