--------------------------------- MODULE Reseal ---------------------------------
(***************************************************************************)
(* reseal-v4 of scripts/seal_store.py: every sealed row is opened with the  *)
(* disclosure key of before ("old") and sealed to the custodian's ("new"),  *)
(* in batches, while the application goes on sealing observations to the    *)
(* key the meta rows name and the retention job goes on deleting.  The rows *)
(* of a batch are read before its transaction begins; the command may die   *)
(* between any two steps, or end on a row it cannot open, and be run again. *)
(***************************************************************************)
EXTENDS Naturals, FiniteSets, FiniteSetsExt

CONSTANTS
    Events,      \* bound: rows lpr_events will ever have
    Connections, \* connections of the application at once
    Unreadable,  \* rows that the old key does not open
    Batch,       \* --batch
    MaxDeaths    \* bound on how often the command dies

ASSUME UnreadableAssumption == Unreadable \subseteq Events
ASSUME BatchAssumption == Batch \in Nat \ {0} /\ MaxDeaths \in Nat

VARIABLES
    events,   \* lpr_events: the key each row is sealed to
    meta,     \* disclosure_public_key and disclosure_kem
    sealer,   \* the sealer each connection settled on
    pc, rows, \* the command: what it is doing and the batch it has read
    reported, \* "The previous disclosure key now opens nothing in this
              \* database" has been recorded in the manifest and the ledger
    deaths

resealVars == <<events, meta, sealer, pc, rows, reported, deaths>>

Keys == {"old", "new"}

ResealTypeOK ==
    /\ events \in [Events -> Keys \cup {"absent", "deleted"}]
    /\ meta \in [public : Keys, kem : Keys]
    /\ sealer \in [Connections -> Keys \cup {"none"}]
    /\ pc \in {"idle", "select", "batch", "kem", "write", "audit"}
    /\ rows \subseteq Events
    /\ reported \in BOOLEAN
    /\ deaths \in 0 .. MaxDeaths

ResealInit ==
    /\ events \in [Events -> {"old", "absent"}]
    /\ \A r \in Unreadable : events[r] = "old"
    /\ meta = [public |-> "old", kem |-> "old"]
    /\ sealer = [t \in Connections |-> "none"]
    /\ pc = "idle" /\ rows = {} /\ reported = FALSE /\ deaths = 0

SealedTo(key) == {r \in Events : events[r] = key}

-------------------------------------------------------------------------------
(* The application and the retention job *)

\* sealer_for: built once for a connection, from the two meta rows; a key that
\* is not of the suite named beside it is refused.
SealerFor(t) ==
    /\ sealer[t] = "none"
    /\ meta.public = meta.kem
    /\ sealer' = [sealer EXCEPT ![t] = meta.public]
    /\ UNCHANGED <<events, meta, pc, rows, reported, deaths>>

InsertEvent(t) ==
    /\ sealer[t] # "none"
    /\ \E r \in SealedTo("absent") : events' = [events EXCEPT ![r] = sealer[t]]
    /\ UNCHANGED <<meta, sealer, pc, rows, reported, deaths>>

EndRequest(t) ==
    /\ sealer[t] # "none"
    /\ sealer' = [sealer EXCEPT ![t] = "none"]
    /\ UNCHANGED <<events, meta, pc, rows, reported, deaths>>

PurgeEvents ==
    /\ \E r \in SealedTo("old") \cup SealedTo("new") :
         events' = [events EXCEPT ![r] = "deleted"]
    /\ UNCHANGED <<meta, sealer, pc, rows, reported, deaths>>

-------------------------------------------------------------------------------
(* cmd_reseal_v4 *)

Begin ==
    /\ pc = "idle"
    /\ pc' = "select"
    /\ UNCHANGED <<events, meta, sealer, rows, reported, deaths>>

SelectAllButOne(stale) == kSubset(IF Cardinality(stale) < Batch
                                  THEN Cardinality(stale) - 1 ELSE Batch, stale)
SelectBatch(stale) == kSubset(IF Cardinality(stale) < Batch THEN Cardinality(stale)
                              ELSE Batch, stale)

\* Any batch of the rows not under the target yet; with none left, the
\* public key is published first.
Select ==
    /\ pc = "select"
    /\ IF SealedTo("old") # {}
         THEN /\ rows' \in SelectBatch(SealedTo("old"))
              /\ pc' = "batch"
              /\ UNCHANGED meta
         ELSE /\ meta' = [meta EXCEPT !.public = "new"]
              /\ pc' = "kem"
              /\ UNCHANGED rows
    /\ UNCHANGED <<events, sealer, reported, deaths>>

RewriteAll(batch) == [r \in Events |-> IF r \in batch \ Unreadable THEN "new" ELSE events[r]]
\* A row that does not open is left as it was; UPDATE ... WHERE id=?: one
\* deleted since it was read stays deleted.
Rewrite(batch) == [r \in Events |->
    IF r \in batch \ Unreadable /\ events[r] # "deleted" THEN "new" ELSE events[r]]

\* The rest of the batch is committed before a row that did not open ends the
\* command, with nothing published or reported.
ResealBatch ==
    /\ pc = "batch"
    /\ events' = Rewrite(rows)
    /\ rows' = {}
    /\ pc' = IF rows \cap Unreadable = {} THEN "select" ELSE "idle"
    /\ UNCHANGED <<meta, sealer, reported, deaths>>

SetKemNever ==
    /\ pc = "kem"
    /\ pc' = "write"
    /\ UNCHANGED <<events, meta, sealer, rows, reported, deaths>>
SetKem ==
    /\ pc = "kem"
    /\ meta' = [meta EXCEPT !.kem = "new"]
    /\ pc' = "write"
    /\ UNCHANGED <<events, sealer, rows, reported, deaths>>

\* The manifest is written, then its digest appended to the ledger.
WriteReport ==
    /\ pc = "write"
    /\ pc' = "audit"
    /\ UNCHANGED <<events, meta, sealer, rows, reported, deaths>>

RecordReport ==
    /\ pc = "audit"
    /\ reported' = TRUE
    /\ pc' = "idle"
    /\ UNCHANGED <<events, meta, sealer, rows, deaths>>

DieResealing ==
    /\ pc # "idle" /\ deaths < MaxDeaths
    /\ pc' = "idle" /\ rows' = {} /\ deaths' = deaths + 1
    /\ UNCHANGED <<events, meta, sealer, reported>>

Step == Select \/ ResealBatch \/ SetKem \/ WriteReport \/ RecordReport

ResealNext ==
    \/ \E t \in Connections : SealerFor(t) \/ InsertEvent(t) \/ EndRequest(t)
    \/ PurgeEvents \/ Begin \/ Step \/ DieResealing

ResealSpec == ResealInit /\ [][ResealNext]_resealVars
\* A running command goes on, an interrupted or a finished one is run again,
\* a connection ends, and new ones are made.
FairSpec == /\ ResealSpec /\ WF_resealVars(Step) /\ WF_resealVars(Begin)
            /\ \A t \in Connections : WF_resealVars(EndRequest(t)) /\ SF_resealVars(SealerFor(t))

-------------------------------------------------------------------------------
(* Properties *)

\* "It destroys nothing [...] an interruption costs a retry"
\* (docs/stage-5-key-isolation.md): a run repeated after deaths and beside a
\* busy application in the end leaves no row under the old key, for good, but
\* those it cannot open, as long as these are fewer than a batch.
ResealConverges == <>[](SealedTo("old") \subseteq Unreadable)

\* "records nobody can open" are never written: in the end the application
\* seals to the new key, whatever died between the two meta rows, unless a row
\* that cannot be opened keeps the run from its end.
ApplicationFollows ==
    []<>(SealedTo("old") \cap Unreadable # {} \/ \E t \in Connections : sealer[t] = "new")

\* A purged observation never returns, also when the purge falls between the
\* reading and the writing of its batch.
PurgeIsFinal == [][\A r \in Events :
    events[r] = "deleted" => events'[r] = "deleted"]_resealVars

\* What the report says is so when it is made again: from a run that begins
\* with both meta rows of the new key, and no connection left that settled on
\* the old one, ReportIsTrue from then on.
RunAgain ==
    /\ ResealTypeOK /\ pc = "idle"
    /\ meta = [public |-> "new", kem |-> "new"]
    /\ \A t \in Connections : sealer[t] # "old"
ReportIsTrue == pc \in {"write", "audit"} => SealedTo("old") = {}

-------------------------------------------------------------------------------
(* What the text promises and the code does not keep *)

\* "The previous disclosure key now opens nothing in this database", printed
\* by the command at its end.
OldKeyOpensNothing == reported => SealedTo("old") = {}
===============================================================================
