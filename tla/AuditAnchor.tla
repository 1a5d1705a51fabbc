----------------------------- MODULE AuditAnchor -----------------------------
(***************************************************************************)
(* The audit ledger and its published checkpoints: audit.append_event and  *)
(* the anchoring it triggers (justikey/anchor.py), the same anchoring      *)
(* requested from the audit page or by scripts/anchor_audit.py, the        *)
(* verification of the ledger against its anchors, and the independent     *)
(* witness that is sent a copy of each anchor.                             *)
(*                                                                         *)
(* Every request thread of the server has a connection of its own; the     *)
(* maintenance scripts are further processes on the same database and the  *)
(* same anchor log.  The lock around create_anchor belongs to one process. *)
(*                                                                         *)
(* A ledger entry is a number no other entry has (its timestamp and        *)
(* details); the chained hash of entry n stands for all of the first n     *)
(* entries, so it is that prefix.  The hash of an anchor is a number no    *)
(* other anchor has (created_at is in microseconds).                       *)
(***************************************************************************)
EXTENDS Integers, Sequences, FiniteSets

CONSTANTS
    Threads,        \* threads of execution with a database connection
    Processes,
    ProcessOf,      \* the process each thread runs in
    Server,         \* the web application's process; the others run scripts
    NoThread,       \* nobody holds the lock
    Interval,       \* ANCHOR_INTERVAL_ENTRIES; 0 anchors on request only
    MaxEntries,     \* bound on the entries ever appended
    MaxCrashes,     \* bound on process crashes
    MaxPowerLosses  \* bound on losses of power

ASSUME AnchorAssumption ==
    /\ IsFiniteSet(Threads)
    /\ ProcessOf \in [Threads -> Processes]
    /\ NoThread \notin Threads
    /\ Interval \in Nat
    /\ {MaxEntries, MaxCrashes, MaxPowerLosses} \subseteq Nat

GenesisAnchorHash == 0

VARIABLES
    ledger,     \* audit_log in order of seq
    durable,    \* how many of its entries a power loss cannot take back
    written,    \* history: entries ever appended
    anchors,    \* the lines of the anchor log, fsynced one by one
    sent,       \* submissions to the witness under way
    witness,    \* the witness's store
    lock,       \* the holder of each process's _lock
    pc, then,   \* where each thread is, and where it goes after anchoring
    head,       \* the ledger a thread saw when it read the chain head
    last,       \* how many anchors it saw when it read the last one
    own,        \* history: the place of the entry it recorded; 0 after a request
    verdict,    \* the outcome of the last verification finished
    crashes, losses,    \* how often a process died, the host lost power
    removed,    \* history: entries lost although an anchor covered them
    abandoned   \* history: entries whose thread died or failed while anchoring

threadVars == <<lock, pc, then, head, last, own>>
boundVars == <<crashes, losses, removed, abandoned>>
vars == <<ledger, durable, written, anchors, sent, witness, threadVars,
          verdict, boundVars>>

Places == {"idle", "appended", "counted", "waiting", "headed", "linked",
           "logging", "verifying", "compared"}
Verdicts == {"ok", "no_anchors", "broken_anchor_chain", "truncated", "rewritten"}
Anchor == [anchor_seq : Nat, audit_seq : Nat, audit_hash : Seq(Nat),
           prev_anchor_hash : Nat, hash : Nat]

TypeOK ==
    /\ ledger \in Seq(Nat)
    /\ durable \in Nat
    /\ written \in Nat
    /\ anchors \in Seq(Anchor)
    /\ sent \subseteq Anchor
    /\ witness \in Seq(Anchor)
    /\ lock \in [Processes -> Threads \cup {NoThread}]
    /\ pc \in [Threads -> Places]
    /\ then \in [Threads -> {"idle", "logging", "verifying"}]
    /\ head \in [Threads -> Seq(Nat)]
    /\ last \in [Threads -> Nat]
    /\ own \in [Threads -> Nat]
    /\ verdict \in Verdicts \cup {"none"}
    /\ crashes \in Nat
    /\ losses \in Nat
    /\ removed \subseteq Nat
    /\ abandoned \subseteq Nat

Init ==
    /\ ledger = <<>> /\ durable = 0 /\ written = 0
    /\ anchors = <<>> /\ sent = {} /\ witness = <<>>
    /\ lock = [p \in Processes |-> NoThread]
    /\ pc = [t \in Threads |-> "idle"]
    /\ then = [t \in Threads |-> "idle"]
    /\ head = [t \in Threads |-> <<>>]
    /\ last = [t \in Threads |-> 0]
    /\ own = [t \in Threads |-> 0]
    /\ verdict = "none"
    /\ crashes = 0 /\ losses = 0 /\ removed = {} /\ abandoned = {}

-------------------------------------------------------------------------------
(* append_event and what calls it *)

\* One transaction; a positive interval sends the thread on to maybe_anchor.
AppendEvent(t, next) ==
    /\ written < MaxEntries
    /\ ledger' = Append(ledger, written + 1)
    /\ written' = written + 1
    /\ pc' = [pc EXCEPT ![t] = IF Interval > 0 THEN "appended" ELSE next]
    /\ then' = [then EXCEPT ![t] = next]
    /\ own' = [own EXCEPT ![t] = Len(ledger) + 1]
    /\ UNCHANGED <<durable, anchors, sent, witness, lock, head, last, verdict,
                   boundVars>>

\* A request or a script records what it did.
RecordEvent(t) == pc[t] = "idle" /\ AppendEvent(t, "idle")

\* GET /audit/verify records the verification before it verifies.
OpenVerifyPage(t) ==
    /\ ProcessOf[t] = Server
    /\ pc[t] = "idle"
    /\ AppendEvent(t, "verifying")

\* POST /audit/anchor: a published anchor is followed by an entry of its own.
PressAnchor(t) ==
    /\ ProcessOf[t] = Server
    /\ pc[t] = "idle"
    /\ pc' = [pc EXCEPT ![t] = "waiting"]
    /\ then' = [then EXCEPT ![t] = "logging"]
    /\ own' = [own EXCEPT ![t] = 0]
    /\ UNCHANGED <<ledger, durable, written, anchors, sent, witness, lock, head,
                   last, verdict, boundVars>>

LogAnchored(t) == pc[t] = "logging" /\ AppendEvent(t, "idle")

\* scripts/anchor_audit.py anchors under the lock of the process it runs in.
RunAnchorAudit(t) ==
    /\ pc[t] = "idle"
    /\ pc' = [pc EXCEPT ![t] = "waiting"]
    /\ then' = [then EXCEPT ![t] = "idle"]
    /\ own' = [own EXCEPT ![t] = 0]
    /\ UNCHANGED <<ledger, durable, written, anchors, sent, witness, lock, head,
                   last, verdict, boundVars>>

-------------------------------------------------------------------------------
(* maybe_anchor and create_anchor *)

\* Threads that have an entry or a request they have not anchored yet.
InFlight == {t \in Threads : pc[t] \in {"appended", "counted", "waiting",
                                        "headed", "linked"}}

LastAnchored(log) == IF log = <<>> THEN 0 ELSE log[Len(log)].audit_seq

\* entries_since_last_anchor reads the head, and then the last anchor.
ReadHead(t) ==
    /\ pc[t] = "appended"
    /\ head' = [head EXCEPT ![t] = ledger]
    /\ pc' = [pc EXCEPT ![t] = "counted"]
    /\ UNCHANGED <<ledger, durable, written, anchors, sent, witness, lock, then,
                   last, own, verdict, boundVars>>

CheckIntervalOffByOne(t) ==
    /\ pc[t] = "counted"
    /\ pc' = [pc EXCEPT ![t] = IF Len(head[t]) - LastAnchored(anchors) <= Interval
                               THEN then[t] ELSE "waiting"]
    /\ head' = [head EXCEPT ![t] = <<>>]
    /\ UNCHANGED <<ledger, durable, written, anchors, sent, witness, lock, then,
                   last, own, verdict, boundVars>>
CheckInterval(t) ==
    /\ pc[t] = "counted"
    /\ pc' = [pc EXCEPT ![t] = IF Len(head[t]) - LastAnchored(anchors) < Interval
                               THEN then[t] ELSE "waiting"]
    /\ head' = [head EXCEPT ![t] = <<>>]
    /\ UNCHANGED <<ledger, durable, written, anchors, sent, witness, lock, then,
                   last, own, verdict, boundVars>>

\* create_anchor returned None: the audit page only redirects.
Unpublished(t) == IF then[t] = "logging" THEN "idle" ELSE then[t]

\* chain_head, read again under the lock.
TakeLock(t) ==
    /\ pc[t] = "waiting"
    /\ lock[ProcessOf[t]] = NoThread
    /\ head' = [head EXCEPT ![t] = ledger]
    /\ IF ledger = <<>>
         THEN pc' = [pc EXCEPT ![t] = Unpublished(t)] /\ UNCHANGED lock
         ELSE pc' = [pc EXCEPT ![t] = "headed"]
              /\ lock' = [lock EXCEPT ![ProcessOf[t]] = t]
    /\ UNCHANGED <<ledger, durable, written, anchors, sent, witness, then, last,
                   own, verdict, boundVars>>

ReadLastUnlocking(t) ==
    /\ pc[t] = "headed"
    /\ lock' = [lock EXCEPT ![ProcessOf[t]] = NoThread]
    /\ IF anchors # <<>> /\ LastAnchored(anchors) = Len(head[t])
         THEN /\ pc' = [pc EXCEPT ![t] = Unpublished(t)]
              /\ head' = [head EXCEPT ![t] = <<>>]
              /\ UNCHANGED last
         ELSE /\ pc' = [pc EXCEPT ![t] = "linked"]
              /\ last' = [last EXCEPT ![t] = Len(anchors)]
              /\ UNCHANGED head
    /\ UNCHANGED <<ledger, durable, written, anchors, sent, witness, then, own,
                   verdict, boundVars>>
\* store.last(); a head that has not moved is not anchored again.
ReadLast(t) ==
    /\ pc[t] = "headed"
    /\ IF anchors # <<>> /\ LastAnchored(anchors) = Len(head[t])
         THEN /\ pc' = [pc EXCEPT ![t] = Unpublished(t)]
              /\ lock' = [lock EXCEPT ![ProcessOf[t]] = NoThread]
              /\ head' = [head EXCEPT ![t] = <<>>]
              /\ UNCHANGED last
         ELSE /\ pc' = [pc EXCEPT ![t] = "linked"]
              /\ last' = [last EXCEPT ![t] = Len(anchors)]
              /\ UNCHANGED <<lock, head>>
    /\ UNCHANGED <<ledger, durable, written, anchors, sent, witness, then, own,
                   verdict, boundVars>>

NewAnchor(t) ==
    [anchor_seq |-> IF last[t] = 0 THEN 1 ELSE anchors[last[t]].anchor_seq + 1,
     audit_seq |-> Len(head[t]),
     audit_hash |-> head[t],
     prev_anchor_hash |-> IF last[t] = 0 THEN GenesisAnchorHash
                                         ELSE anchors[last[t]].hash,
     hash |-> Len(anchors) + 1]

\* One O_APPEND write, after which the lock is released.
WriteLine(t, next) ==
    /\ pc[t] = "linked"
    /\ anchors' = Append(anchors, NewAnchor(t))
    /\ lock' = [lock EXCEPT ![ProcessOf[t]] = NoThread]
    /\ pc' = [pc EXCEPT ![t] = next]
    /\ head' = [head EXCEPT ![t] = <<>>]
    /\ last' = [last EXCEPT ![t] = 0]
    /\ UNCHANGED <<ledger, durable, written, witness, then, own, verdict,
                   boundVars>>

\* A thread is left to tell the witness.
Publish(t) == WriteLine(t, then[t]) /\ sent' = sent \cup {NewAnchor(t)}

\* create_anchor raises after the line is in the log: the fsync fails, or the
\* thread that would tell the witness does not start.
PublishFails(t) == WriteLine(t, Unpublished(t)) /\ UNCHANGED sent

\* No store, or an exception anywhere before: maybe_anchor reports it and its
\* caller goes on as if anchored; the page and the script give up.
AnchoringFails(t) ==
    /\ t \in InFlight
    /\ pc' = [pc EXCEPT ![t] = Unpublished(t)]
    /\ lock' = [lock EXCEPT ![ProcessOf[t]] = IF @ = t THEN NoThread ELSE @]
    /\ head' = [head EXCEPT ![t] = <<>>]
    /\ last' = [last EXCEPT ![t] = 0]
    /\ abandoned' = abandoned \cup {own[t]}
    /\ UNCHANGED <<ledger, durable, written, anchors, sent, witness, then, own,
                   verdict, crashes, losses, removed>>

-------------------------------------------------------------------------------
(* The witness: submissions arrive in any order, or not at all *)

\* record_anchor: a sequence number already held is a duplicate or a conflict.
RecordAnchor(a) ==
    IF \E i \in 1..Len(witness) : witness[i].anchor_seq = a.anchor_seq
    THEN witness ELSE Append(witness, a)

Deliver(a) ==
    /\ a \in sent
    /\ sent' = sent \ {a}
    /\ witness' = RecordAnchor(a)
    /\ UNCHANGED <<ledger, durable, written, anchors, threadVars, verdict,
                   boundVars>>

\* Nothing is submitted a second time.
LoseSubmission(a) ==
    /\ a \in sent
    /\ sent' = sent \ {a}
    /\ UNCHANGED <<ledger, durable, written, anchors, witness, threadVars,
                   verdict, boundVars>>

-------------------------------------------------------------------------------
(* verify_anchors, in the server and in scripts/verify_audit.py *)

\* The script appends nothing and takes no lock, wherever it runs.
RunVerifyAudit(t) ==
    /\ pc[t] = "idle"
    /\ pc' = [pc EXCEPT ![t] = "verifying"]
    /\ UNCHANGED <<ledger, durable, written, anchors, sent, witness, lock, then,
                   head, last, own, verdict, boundVars>>

\* The ledger is read first ...
VerifyHead(t) ==
    /\ pc[t] = "verifying"
    /\ head' = [head EXCEPT ![t] = ledger]
    /\ pc' = [pc EXCEPT ![t] = "compared"]
    /\ UNCHANGED <<ledger, durable, written, anchors, sent, witness, lock, then,
                   last, own, verdict, boundVars>>

Linked(log) ==
    \A i \in 1..Len(log) :
        /\ log[i].anchor_seq = i
        /\ log[i].prev_anchor_hash = IF i = 1 THEN GenesisAnchorHash
                                              ELSE log[i - 1].hash

\* The chained hash stored with entry n.
HashAt(entries, n) == SubSeq(entries, 1, n)

VerdictSkippingHashes(log, entries) ==
    IF log = <<>> THEN "no_anchors"
    ELSE IF ~Linked(log) THEN "broken_anchor_chain"
    ELSE IF \E i \in 1..Len(log) : log[i].audit_seq > Len(entries) THEN "truncated"
    ELSE "ok"
VerdictAtHead(log, entries) ==
    IF log = <<>> THEN "no_anchors"
    ELSE IF ~Linked(log) THEN "broken_anchor_chain"
    ELSE IF \E i \in 1..Len(log) : log[i].audit_seq >= Len(entries) THEN "truncated"
    ELSE IF \E i \in 1..Len(log) :
                HashAt(entries, log[i].audit_seq) # log[i].audit_hash THEN "rewritten"
    ELSE "ok"
VerdictOf(log, entries) ==
    IF log = <<>> THEN "no_anchors"
    ELSE IF ~Linked(log) THEN "broken_anchor_chain"
    ELSE IF \E i \in 1..Len(log) : log[i].audit_seq > Len(entries) THEN "truncated"
    ELSE IF \E i \in 1..Len(log) :
                HashAt(entries, log[i].audit_seq) # log[i].audit_hash THEN "rewritten"
    ELSE "ok"

\* ... and compared with the anchors found afterwards.
VerifyAnchors(t) ==
    /\ pc[t] = "compared"
    /\ verdict' = VerdictOf(anchors, head[t])
    /\ pc' = [pc EXCEPT ![t] = "idle"]
    /\ head' = [head EXCEPT ![t] = <<>>]
    /\ UNCHANGED <<ledger, durable, written, anchors, sent, witness, lock, then,
                   last, own, boundVars>>

-------------------------------------------------------------------------------
(* The environment *)

\* The write-ahead log reaches the disk: synchronous = NORMAL does not wait
\* for it at COMMIT.
Sync ==
    /\ durable # Len(ledger)
    /\ durable' = Len(ledger)
    /\ UNCHANGED <<ledger, written, anchors, sent, witness, threadVars, verdict,
                   boundVars>>

\* A process dies with its threads and its lock; its submissions may be lost.
Crash(p) ==
    /\ crashes < MaxCrashes
    /\ crashes' = crashes + 1
    /\ lock' = [lock EXCEPT ![p] = NoThread]
    /\ pc' = [t \in Threads |-> IF ProcessOf[t] = p THEN "idle" ELSE pc[t]]
    /\ head' = [t \in Threads |-> IF ProcessOf[t] = p THEN <<>> ELSE head[t]]
    /\ last' = [t \in Threads |-> IF ProcessOf[t] = p THEN 0 ELSE last[t]]
    /\ abandoned' = abandoned \cup {own[t] : t \in {u \in InFlight : ProcessOf[u] = p}}
    /\ UNCHANGED <<ledger, durable, written, anchors, sent, witness, then, own,
                   verdict, losses, removed>>

\* Entries among the last ones of a ledger cut to n that an anchor covered.
CoveredBeyond(n) ==
    {ledger[i] : i \in {j \in n + 1 .. Len(ledger) :
        \E k \in 1..Len(anchors) : j <= anchors[k].audit_seq}}

\* The host loses power: every thread stops, entries not yet on disk are gone.
PowerLoss ==
    /\ losses < MaxPowerLosses
    /\ losses' = losses + 1
    /\ \E n \in durable .. Len(ledger) :
          /\ ledger' = SubSeq(ledger, 1, n)
          /\ durable' = n
          /\ removed' = removed \cup CoveredBeyond(n)
    /\ lock' = [p \in Processes |-> NoThread]
    /\ pc' = [t \in Threads |-> "idle"]
    /\ head' = [t \in Threads |-> <<>>]
    /\ last' = [t \in Threads |-> 0]
    /\ sent' = {}
    /\ verdict' = "none"
    /\ UNCHANGED <<written, anchors, witness, then, own, crashes, abandoned>>

Anchoring(t) ==
    \/ ReadHead(t)
    \/ CheckInterval(t)
    \/ TakeLock(t)
    \/ ReadLast(t)
    \/ Publish(t)
    \/ PublishFails(t)
    \/ AnchoringFails(t)

Verifying(t) ==
    \/ RunVerifyAudit(t)
    \/ VerifyHead(t)
    \/ VerifyAnchors(t)

Step(t) ==
    \/ RecordEvent(t)
    \/ OpenVerifyPage(t)
    \/ PressAnchor(t)
    \/ LogAnchored(t)
    \/ RunAnchorAudit(t)
    \/ Anchoring(t)
    \/ Verifying(t)

Next ==
    \/ \E t \in Threads : Step(t)
    \/ \E a \in sent : Deliver(a) \/ LoseSubmission(a)
    \/ Sync
    \/ \E p \in Processes : Crash(p)
    \/ PowerLoss

Spec == Init /\ [][Next]_vars

-------------------------------------------------------------------------------
(* Properties *)

OneProcess == \A t \in Threads : ProcessOf[t] = Server

\* However the threads of one process interleave their appends, presses and
\* crashes, the anchor log verifies against the ledger at every moment.
LogVerifies ==
    OneProcess /\ losses = 0 =>
        /\ Linked(anchors)
        /\ \A i \in 1..Len(anchors) :
              /\ anchors[i].audit_seq <= Len(ledger)
              /\ HashAt(ledger, anchors[i].audit_seq) = anchors[i].audit_hash

\* No anchor of one process republishes or falls behind an earlier one.
AnchorsAdvance ==
    OneProcess /\ losses = 0 =>
        \A i, j \in 1..Len(anchors) :
            i < j => anchors[i].audit_seq < anchors[j].audit_seq

\* An entry an interval or more beyond the last anchor is one whose own thread
\* has yet to check or to anchor, or died or failed before it had.
TailAccounted ==
    OneProcess /\ Interval > 0 /\ losses = 0 =>
        \A n \in LastAnchored(anchors) + Interval .. Len(ledger) :
            n \in abandoned \/ \E t \in InFlight : own[t] = n

\* The anchors of one process follow the head of the ledger: each is further on
\* than the one before, and every entry that an interval separates from the
\* last one has a thread that failed it or still owes it an anchor.  When
\* anchoring keeps failing (maybe_anchor goes on) that tail has no bound.
AnchorsFollowHead == AnchorsAdvance /\ TailAccounted

\* A verification reads the ledger and then the anchors while other threads
\* append and anchor.  Unless the last anchor it finds is beyond the head it
\* read, it accepts the intact ledger: no entry, anchor or crash it overlapped
\* with raises a false alarm (verify_anchors against create_anchor).
IntactLedgerVerifies ==
    [][\A t \in Threads :
          /\ OneProcess /\ losses = 0
          /\ VerifyAnchors(t) /\ LastAnchored(anchors) <= Len(head[t])
          => verdict' \in {"ok", "no_anchors"}]_vars

\* Each copy the witness holds is the line the anchor log has at that place,
\* so its refusals only ever meet a log that was replaced.
WitnessHoldsPublished ==
    OneProcess =>
        \A i \in 1..Len(witness) :
            /\ witness[i].anchor_seq \in 1..Len(anchors)
            /\ witness[i] = anchors[witness[i].anchor_seq]

\* test_anchors_prove_the_missing_tail, test_rewritten_history: a ledger that
\* lost an anchored entry never verifies again, however much is appended and
\* anchored after the loss.
RemovalReported == verdict = "ok" => removed = {}

-------------------------------------------------------------------------------
(* What the text promises and the code does not keep *)

\* "`ok` is False only for real integrity failures" (justikey/anchor.py,
\* verify_anchors): a ledger is only called truncated when it lost entries.
TruncatedOnlyIfRemoved == verdict = "truncated" => removed # {}

\* The same sentence for a log nobody but JustiKey's own processes wrote: the
\* anchor chain they publish together is never reported broken.
ChainNotBrokenByItself == verdict # "broken_anchor_chain"

\* "an anchor only ever attests to durable state" (justikey/audit.py,
\* append_event).
AnchorAttestsDurableState ==
    \A i \in 1..Len(anchors) : anchors[i].audit_seq <= durable
===============================================================================
