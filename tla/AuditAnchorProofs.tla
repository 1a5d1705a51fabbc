-------------------------- MODULE AuditAnchorProofs --------------------------
(***************************************************************************)
(* Theorems about AuditAnchor, for any number of threads, processes,       *)
(* entries, crashes and losses of power.                                   *)
(***************************************************************************)
EXTENDS AuditAnchor, SequenceTheorems, FiniteSetTheorems, TLAPS

USE DEF GenesisAnchorHash

(* The entries of h are the first entries of s. *)
Begins(h, s) ==
    /\ Len(h) <= Len(s)
    /\ \A i \in 1..Len(h) : h[i] = s[i]

\* What a sequence begins with, its prefixes of that length begin with too.
LEMMA BeginsCut ==
    ASSUME NEW h, NEW s, NEW c, NEW n \in Nat,
           Len(h) \in Nat, Len(h) <= n, Begins(h, s),
           Len(c) = n, \A i \in 1..n : c[i] = s[i]
    PROVE  Begins(h, c)
  <1>1. \A i \in 1..Len(h) : i \in 1..n
    OBVIOUS
  <1>. QED  BY <1>1 DEF Begins

LEMMA PrefixFacts ==
    ASSUME NEW s \in Seq(Nat), NEW n \in Nat, n <= Len(s)
    PROVE  /\ SubSeq(s, 1, n) \in Seq(Nat)
           /\ Len(SubSeq(s, 1, n)) = n
           /\ \A i \in 1..n : SubSeq(s, 1, n)[i] = s[i]
  <1>1. Len(s) \in Nat
    OBVIOUS
  <1>2. \A i \in 1..n : s[i] \in Nat
    BY <1>1
  <1>. QED  BY <1>1, <1>2

LEMMA SameSequence ==
    ASSUME NEW h \in Seq(Nat), NEW s \in Seq(Nat), Begins(h, s)
    PROVE  HashAt(s, Len(h)) = h
  <1>1. /\ HashAt(s, Len(h)) \in Seq(Nat)
        /\ Len(HashAt(s, Len(h))) = Len(h)
        /\ \A i \in 1..Len(h) : HashAt(s, Len(h))[i] = s[i]
    BY PrefixFacts DEF Begins, HashAt
  <1>2. \A i \in 1..Len(h) : HashAt(s, Len(h))[i] = h[i]
    BY <1>1 DEF Begins
  <1>. QED  BY <1>1, <1>2, SeqEqual

LEMMA AppendFacts ==
    ASSUME NEW S, NEW s \in Seq(S), NEW x \in S
    PROVE  /\ Append(s, x) \in Seq(S)
           /\ Len(Append(s, x)) = Len(s) + 1
           /\ \A i \in 1..Len(s) : Append(s, x)[i] = s[i]
           /\ Append(s, x)[Len(s) + 1] = x
  OBVIOUS

-------------------------------------------------------------------------------
(* Types *)

LEMMA NewAnchorType ==
    ASSUME TypeOK, NEW t \in Threads, last[t] <= Len(anchors)
    PROVE  NewAnchor(t) \in Anchor
  <1>1. last[t] # 0 => anchors[last[t]] \in Anchor
    BY DEF TypeOK
  <1>2. last[t] # 0 => /\ anchors[last[t]].anchor_seq \in Nat
                       /\ anchors[last[t]].hash \in Nat
    BY <1>1 DEF Anchor
  <1>3. head[t] \in Seq(Nat) /\ Len(head[t]) \in Nat /\ Len(anchors) \in Nat
    BY DEF TypeOK
  <1>. QED  BY <1>2, <1>3 DEF NewAnchor, Anchor

(* The number of anchors a thread remembers does not exceed the log. *)
LastBelow == \A t \in Threads : last[t] <= Len(anchors)

Typed == TypeOK /\ LastBelow

LEMMA TypedInit == Init => Typed
  <1>. SUFFICES ASSUME Init PROVE Typed
    OBVIOUS
  <1>1. <<>> \in Seq(Nat) /\ <<>> \in Seq(Anchor) /\ Len(<<>>) = 0
    OBVIOUS
  <1>. QED  BY <1>1 DEF Init, Typed, TypeOK, LastBelow, Places, Verdicts

(* A published line, whether or not its publisher learns of it. *)
LEMMA LineWritten ==
    ASSUME TypeOK, NEW t \in Threads, Publish(t) \/ PublishFails(t)
    PROVE  \E next \in {"idle", "logging", "verifying"} :
              WriteLine(t, next) /\ sent' \subseteq sent \cup {NewAnchor(t)}
  <1>1. /\ then[t] \in {"idle", "logging", "verifying"}
        /\ Unpublished(t) \in {"idle", "logging", "verifying"}
    BY DEF TypeOK, Unpublished
  <1>. QED  BY <1>1 DEF Publish, PublishFails

(* A thread whose anchoring fails is where one that anchored nothing is. *)
LEMMA FailsTo ==
    ASSUME TypeOK, NEW t \in Threads, AnchoringFails(t)
    PROVE  /\ pc'[t] \in {"idle", "verifying"}
           /\ head'[t] = <<>>
           /\ \A u \in Threads : u # t => /\ pc'[u] = pc[u]
                                         /\ head'[u] = head[u]
                                         /\ last'[u] = last[u]
  BY DEF AnchoringFails, Unpublished, TypeOK

LEMMA TypedStep == Typed /\ [Next]_vars => Typed'
  <1>. SUFFICES ASSUME Typed, [Next]_vars PROVE Typed'
    OBVIOUS
  <1>. USE DEF Typed
  <1>. USE DEF LastBelow, threadVars, boundVars
  <1>0. CASE UNCHANGED vars
    BY <1>0 DEF vars, TypeOK
  <1>a. ASSUME NEW t \in Threads, NEW next \in {"idle", "verifying"},
               AppendEvent(t, next)
        PROVE  Typed'
    <2>1. Append(ledger, written + 1) \in Seq(Nat)
      BY DEF TypeOK
    <2>. QED  BY <1>a, <2>1 DEF AppendEvent, TypeOK, Places
  <1>1. ASSUME NEW t \in Threads, Step(t)
        PROVE  Typed'
    <2>1. CASE RecordEvent(t)
      BY <2>1, <1>a DEF RecordEvent
    <2>2. CASE OpenVerifyPage(t)
      BY <2>2, <1>a DEF OpenVerifyPage
    <2>3. CASE PressAnchor(t)
      BY <2>3 DEF PressAnchor, TypeOK, Places
    <2>4. CASE LogAnchored(t)
      BY <2>4, <1>a DEF LogAnchored
    <2>5. CASE RunAnchorAudit(t)
      BY <2>5, SMTT(20) DEF RunAnchorAudit, TypeOK, Places
    <2>6. CASE ReadHead(t)
      BY <2>6 DEF ReadHead, TypeOK, Places
    <2>7. CASE CheckInterval(t)
      BY <2>7 DEF CheckInterval, TypeOK, Places
    <2>8. CASE TakeLock(t)
      <3>1. /\ lock' \in [Processes -> Threads \cup {NoThread}]
            /\ pc' \in [Threads -> Places]
        <4>1. lock \in [Processes -> Threads \cup {NoThread}] /\ ProcessOf[t] \in Processes
          BY AnchorAssumption DEF TypeOK
        <4>2. \/ UNCHANGED lock
              \/ lock' = [lock EXCEPT ![ProcessOf[t]] = t]
          BY <2>8 DEF TakeLock
        <4>3. pc' \in [Threads -> Places]
          BY <2>8 DEF TakeLock, Unpublished, TypeOK, Places
        <4>. QED  BY <4>1, <4>2, <4>3
      <3>2. head' \in [Threads -> Seq(Nat)]
        BY <2>8 DEF TakeLock, TypeOK
      <3>3. UNCHANGED <<ledger, durable, written, anchors, sent, witness, then, last,
                        own, verdict, boundVars>>
        BY <2>8 DEF TakeLock
      <3>. QED  BY <3>1, <3>2, <3>3 DEF TypeOK
    <2>9. CASE ReadLast(t)
      <3>1. Len(anchors) \in Nat
        BY DEF TypeOK
      <3>2. UNCHANGED <<ledger, durable, written, anchors, sent, witness, then,
                        own, verdict, boundVars>>
        BY <2>9 DEF ReadLast
      <3>3. /\ lock' \in [Processes -> Threads \cup {NoThread}]
            /\ pc' \in [Threads -> Places]
        BY <2>9, AnchorAssumption DEF ReadLast, Unpublished, TypeOK, Places
      <3>a. \/ UNCHANGED head
            \/ head' = [head EXCEPT ![t] = <<>>]
        BY <2>9 DEF ReadLast
      <3>b. head' \in [Threads -> Seq(Nat)]
        <4>1. head \in [Threads -> Seq(Nat)] /\ <<>> \in Seq(Nat)
          BY DEF TypeOK
        <4>2. CASE UNCHANGED head
          BY <4>1, <4>2
        <4>3. CASE head' = [head EXCEPT ![t] = <<>>]
          BY <4>1, <4>3
        <4>. QED  BY <3>a, <4>2, <4>3
      <3>c. \/ UNCHANGED last
            \/ last' = [last EXCEPT ![t] = Len(anchors)]
        BY <2>9 DEF ReadLast
      <3>4. /\ last' \in [Threads -> Nat]
            /\ \A u \in Threads : last'[u] <= Len(anchors)
        <4>1. last \in [Threads -> Nat]
          BY DEF TypeOK
        <4>2. CASE UNCHANGED last
          BY <4>1, <4>2
        <4>3. CASE last' = [last EXCEPT ![t] = Len(anchors)]
          BY <4>1, <4>3, <3>1
        <4>. QED  BY <3>c, <4>2, <4>3
      <3>. QED  BY <3>2, <3>3, <3>b, <3>4 DEF TypeOK
    <2>10. CASE Publish(t) \/ PublishFails(t)
      <3>0. PICK next \in {"idle", "logging", "verifying"} :
               WriteLine(t, next) /\ sent' \subseteq sent \cup {NewAnchor(t)}
        BY <2>10, LineWritten
      <3>1. NewAnchor(t) \in Anchor
        BY NewAnchorType
      <3>2. /\ Append(anchors, NewAnchor(t)) \in Seq(Anchor)
            /\ Len(Append(anchors, NewAnchor(t))) = Len(anchors) + 1
        BY <3>1 DEF TypeOK
      <3>3. last' \in [Threads -> Nat] /\ \A u \in Threads : last'[u] <= last[u]
        BY <3>0 DEF WriteLine, TypeOK
      <3>4. /\ Len(anchors) \in Nat
            /\ Len(anchors') = Len(anchors) + 1
            /\ \A u \in Threads : last[u] \in Nat /\ last'[u] \in Nat
        BY <3>0, <3>2, <3>3 DEF WriteLine, TypeOK
      <3>5. LastBelow'
        BY <3>3, <3>4
      <3>6. /\ anchors' \in Seq(Anchor)
            /\ sent' \subseteq Anchor
            /\ head' \in [Threads -> Seq(Nat)]
        BY <3>0, <3>1, <3>2 DEF WriteLine, TypeOK
      <3>7. /\ lock' \in [Processes -> Threads \cup {NoThread}]
            /\ pc' \in [Threads -> Places]
        BY <3>0, AnchorAssumption DEF WriteLine, TypeOK, Places
      <3>8. UNCHANGED <<ledger, durable, written, witness, then, own, verdict,
                        boundVars>>
        BY <3>0 DEF WriteLine
      <3>. QED  BY <3>3, <3>5, <3>6, <3>7, <3>8 DEF TypeOK
    <2>11. CASE RunVerifyAudit(t)
      BY <2>11 DEF RunVerifyAudit, TypeOK, Places
    <2>12. CASE VerifyHead(t)
      BY <2>12 DEF VerifyHead, TypeOK, Places
    <2>13. CASE VerifyAnchors(t)
      BY <2>13 DEF VerifyAnchors, VerdictOf, TypeOK, Places, Verdicts
    <2>14. CASE AnchoringFails(t)
      <3>1. /\ pc' \in [Threads -> Places]
            /\ last' \in [Threads -> Nat]
            /\ \A u \in Threads : last'[u] <= Len(anchors)
        BY <2>14 DEF AnchoringFails, Unpublished, TypeOK, Places
      <3>2. lock' \in [Processes -> Threads \cup {NoThread}]
        BY <2>14, AnchorAssumption DEF AnchoringFails, TypeOK
      <3>3. head' \in [Threads -> Seq(Nat)]
        BY <2>14 DEF AnchoringFails, TypeOK
      <3>4. abandoned' \subseteq Nat
        BY <2>14 DEF AnchoringFails, TypeOK
      <3>5. UNCHANGED <<ledger, durable, written, anchors, sent, witness, then, own,
                        verdict, crashes, losses, removed>>
        BY <2>14 DEF AnchoringFails
      <3>. QED  BY <3>1, <3>2, <3>3, <3>4, <3>5 DEF TypeOK
    <2>. QED  BY <1>1, <2>1, <2>2, <2>3, <2>4, <2>5, <2>6, <2>7, <2>8, <2>9,
                 <2>10, <2>11, <2>12, <2>13, <2>14 DEF Step, Anchoring, Verifying
  <1>2. ASSUME NEW a \in sent, Deliver(a)
        PROVE  Typed'
    <2>1. RecordAnchor(a) \in Seq(Anchor)
      BY DEF RecordAnchor, TypeOK
    <2>. QED  BY <1>2, <2>1 DEF Deliver, TypeOK
  <1>3. ASSUME NEW a \in sent, LoseSubmission(a)
        PROVE  Typed'
    BY <1>3 DEF LoseSubmission, TypeOK
  <1>4. CASE Sync
    BY <1>4 DEF Sync, TypeOK
  <1>5. ASSUME NEW p \in Processes, Crash(p)
        PROVE  Typed'
    <2>1. /\ lock' \in [Processes -> Threads \cup {NoThread}]
          /\ pc' \in [Threads -> Places]
          /\ head' \in [Threads -> Seq(Nat)]
          /\ last' \in [Threads -> Nat]
          /\ \A u \in Threads : last'[u] <= Len(anchors)
          /\ crashes' \in Nat
      BY <1>5 DEF Crash, TypeOK, Places
    <2>2. abandoned' \subseteq Nat
      BY <1>5 DEF Crash, InFlight, TypeOK
    <2>3. UNCHANGED <<ledger, durable, written, anchors, sent, witness, then, own,
                      verdict, losses, removed>>
      BY <1>5 DEF Crash
    <2>. QED  BY <2>1, <2>2, <2>3 DEF TypeOK
  <1>6. CASE PowerLoss
    <2>1. PICK n \in durable .. Len(ledger) :
             /\ ledger' = SubSeq(ledger, 1, n)
             /\ durable' = n
             /\ removed' = removed \cup CoveredBeyond(n)
      BY <1>6 DEF PowerLoss
    <2>2. n \in Nat /\ n <= Len(ledger) /\ ledger \in Seq(Nat)
      BY DEF TypeOK
    <2>3. ledger' \in Seq(Nat)
      BY <2>1, <2>2, PrefixFacts
    <2>4. CoveredBeyond(n) \subseteq Nat
      BY <2>2 DEF CoveredBeyond
    <2>5. durable' \in Nat /\ removed' \subseteq Nat
      BY <2>1, <2>2, <2>4 DEF TypeOK
    <2>6. /\ lock' \in [Processes -> Threads \cup {NoThread}]
          /\ pc' \in [Threads -> Places]
          /\ head' \in [Threads -> Seq(Nat)]
          /\ last' \in [Threads -> Nat]
          /\ losses' \in Nat
          /\ sent' = {} /\ verdict' = "none"
          /\ \A u \in Threads : last'[u] = 0
          /\ UNCHANGED <<written, anchors, witness, then, own, crashes, abandoned>>
      BY <1>6 DEF PowerLoss, TypeOK, Places
    <2>7. Len(anchors) \in Nat
      BY DEF TypeOK
    <2>. QED  BY <2>3, <2>5, <2>6, <2>7 DEF TypeOK
  <1>. QED  BY <1>0, <1>1, <1>2, <1>3, <1>4, <1>5, <1>6 DEF Next

(* Every variable keeps its type (append_event, create_anchor,             *)
(* record_anchor, verify_anchors, and the loss of what was not synced).    *)
THEOREM TypeCorrect == Spec => []TypeOK
  <1>1. Spec => []Typed
    BY TypedInit, TypedStep, PTL DEF Spec
  <1>2. Typed => TypeOK
    BY DEF Typed
  <1>. QED  BY <1>1, <1>2, PTL

-------------------------------------------------------------------------------
(* What verification says of a ledger that lost entries *)

(* This entry is in no ledger any more, and will not be in one again. *)
Lost(id) ==
    /\ id <= written
    /\ \A j \in 1..Len(ledger) : ledger[j] # id

IdsGrow ==
    /\ \A i \in 1..Len(ledger) : ledger[i] <= written
    /\ \A i, j \in 1..Len(ledger) : i < j => ledger[i] < ledger[j]

HeadsBegin ==
    \A t \in Threads :
        pc[t] \in {"headed", "linked", "compared"} => Begins(head[t], ledger)

AnchorLengths ==
    \A i \in 1..Len(anchors) : anchors[i].audit_seq = Len(anchors[i].audit_hash)

AnchorsCovered ==
    removed = {} =>
        \A i \in 1..Len(anchors) : Begins(anchors[i].audit_hash, ledger)

LossShows ==
    removed # {} =>
        \E i \in 1..Len(anchors) : \E x \in 1..Len(anchors[i].audit_hash) :
            Lost(anchors[i].audit_hash[x])

VerdictSound ==
    /\ verdict = "ok" => removed = {}
    /\ losses = 0 => removed = {}

LossInv ==
    /\ Typed
    /\ IdsGrow
    /\ HeadsBegin
    /\ AnchorLengths
    /\ AnchorsCovered
    /\ LossShows
    /\ VerdictSound

LEMMA Lengths ==
    ASSUME TypeOK
    PROVE  /\ Len(ledger) \in Nat
           /\ Len(anchors) \in Nat
           /\ \A t \in Threads : head[t] \in Seq(Nat) /\ Len(head[t]) \in Nat
           /\ \A i \in 1..Len(ledger) : ledger[i] \in Nat
           /\ \A i \in 1..Len(anchors) :
                 /\ anchors[i] \in Anchor
                 /\ anchors[i].audit_hash \in Seq(Nat)
                 /\ anchors[i].audit_seq \in Nat
                 /\ Len(anchors[i].audit_hash) \in Nat
  <1>1. \A i \in 1..Len(anchors) : anchors[i] \in Anchor
    BY DEF TypeOK
  <1>2. \A i \in 1..Len(anchors) :
           anchors[i].audit_hash \in Seq(Nat) /\ anchors[i].audit_seq \in Nat
    BY <1>1 DEF Anchor
  <1>. QED  BY <1>1, <1>2 DEF TypeOK

LEMMA LossInit == Init => LossInv
  <1>. SUFFICES ASSUME Init PROVE LossInv
    OBVIOUS
  <1>1. Len(<<>>) = 0
    OBVIOUS
  <1>. QED  BY <1>1, TypedInit DEF Init, LossInv, IdsGrow, HeadsBegin, AnchorLengths,
                 AnchorsCovered, LossShows, VerdictSound

(* Steps that change neither the ledger, nor the anchors, nor the verdict. *)
LEMMA LossFrame ==
    ASSUME LossInv, Typed', HeadsBegin',
           UNCHANGED <<ledger, written, anchors, verdict, losses, removed>>
    PROVE  LossInv'
  BY DEF LossInv, IdsGrow, AnchorLengths, AnchorsCovered, LossShows, Lost,
         VerdictSound, Begins

LEMMA LossAppend ==
    ASSUME LossInv, Typed', NEW t \in Threads, NEW next, AppendEvent(t, next),
           next \notin {"headed", "linked", "compared"}
    PROVE  LossInv'
  <1>. USE Lengths DEF LossInv, Typed
  <1>1. written \in Nat /\ ledger \in Seq(Nat) /\ written + 1 \in Nat
    BY DEF TypeOK
  <1>2. /\ ledger' = Append(ledger, written + 1)
        /\ written' = written + 1
        /\ UNCHANGED <<anchors, head, verdict, boundVars>>
    BY DEF AppendEvent
  <1>3. /\ Len(ledger') = Len(ledger) + 1
        /\ \A i \in 1..Len(ledger) : ledger'[i] = ledger[i]
        /\ ledger'[Len(ledger) + 1] = written + 1
    BY <1>1, <1>2, AppendFacts
  <1>4. \A i \in 1..Len(ledger') : i \in 1..Len(ledger) \/ i = Len(ledger) + 1
    BY <1>3
  <1>5. IdsGrow'
    <2>1. \A i \in 1..Len(ledger') : ledger'[i] <= written'
      BY <1>1, <1>2, <1>3, <1>4 DEF IdsGrow
    <2>2. \A i, j \in 1..Len(ledger') : i < j => ledger'[i] < ledger'[j]
      BY <1>1, <1>2, <1>3, <1>4 DEF IdsGrow
    <2>. QED  BY <2>1, <2>2 DEF IdsGrow
  <1>6. \A h : h \in Seq(Nat) /\ Begins(h, ledger) => Begins(h, ledger')
    BY <1>3 DEF Begins
  <1>7. HeadsBegin'
    <2>. SUFFICES ASSUME NEW u \in Threads,
                         pc'[u] \in {"headed", "linked", "compared"}
                  PROVE  Begins(head[u], ledger')
      BY <1>2 DEF HeadsBegin
    <2>1. pc[u] \in {"headed", "linked", "compared"}
      BY DEF AppendEvent, TypeOK
    <2>. QED  BY <1>6, <2>1 DEF HeadsBegin
  <1>8. AnchorLengths' /\ AnchorsCovered'
    BY <1>2, <1>6 DEF AnchorLengths, AnchorsCovered, boundVars
  <1>9. LossShows'
    <2>. SUFFICES ASSUME removed # {}
                  PROVE  LossShows'
      BY <1>2 DEF LossShows, boundVars
    <2>1. PICK i \in 1..Len(anchors) : \E x \in 1..Len(anchors[i].audit_hash) :
             Lost(anchors[i].audit_hash[x])
      BY DEF LossShows
    <2>2. PICK x \in 1..Len(anchors[i].audit_hash) : Lost(anchors[i].audit_hash[x])
      BY <2>1
    <2>3. anchors[i].audit_hash[x] \in Nat
      OBVIOUS
    <2>4. Lost(anchors[i].audit_hash[x])'
      BY <1>1, <1>2, <1>3, <1>4, <2>2, <2>3 DEF Lost
    <2>. QED  BY <1>2, <2>4 DEF LossShows
  <1>10. VerdictSound'
    BY <1>2 DEF VerdictSound, boundVars
  <1>. QED  BY <1>5, <1>7, <1>8, <1>9, <1>10

LEMMA LossPublish ==
    ASSUME LossInv, Typed', NEW t \in Threads,
           NEW next \in {"idle", "logging", "verifying"}, WriteLine(t, next)
    PROVE  LossInv'
  <1>. USE Lengths DEF LossInv, Typed
  <1>1. /\ anchors' = Append(anchors, NewAnchor(t))
        /\ UNCHANGED <<ledger, written, verdict, boundVars>>
    BY DEF WriteLine
  <1>2. NewAnchor(t) \in Anchor /\ anchors \in Seq(Anchor)
    <2>1. NewAnchor(t) \in Anchor
      BY NewAnchorType DEF LastBelow
    <2>. QED  BY <2>1 DEF TypeOK
  <1>3. /\ Len(anchors') = Len(anchors) + 1
        /\ \A i \in 1..Len(anchors) : anchors'[i] = anchors[i]
        /\ anchors'[Len(anchors) + 1] = NewAnchor(t)
    BY <1>1, <1>2, AppendFacts
  <1>4. \A i \in 1..Len(anchors') : i \in 1..Len(anchors) \/ i = Len(anchors) + 1
    BY <1>3
  <1>5. /\ NewAnchor(t).audit_hash = head[t]
        /\ NewAnchor(t).audit_seq = Len(head[t])
    BY DEF NewAnchor
  <1>6. Begins(head[t], ledger)
    BY DEF WriteLine, HeadsBegin
  <1>7. AnchorLengths'
    BY <1>3, <1>4, <1>5 DEF AnchorLengths
  <1>8. AnchorsCovered'
    BY <1>1, <1>3, <1>4, <1>5, <1>6 DEF AnchorsCovered, boundVars
  <1>9. HeadsBegin'
    BY <1>1 DEF HeadsBegin, WriteLine, TypeOK
  <1>10. LossShows'
    BY <1>1, <1>3, <1>4, SMTT(20) DEF LossShows, Lost, boundVars
  <1>11. IdsGrow' /\ VerdictSound'
    BY <1>1 DEF IdsGrow, VerdictSound, boundVars
  <1>. QED  BY <1>7, <1>8, <1>9, <1>10, <1>11

LEMMA LossVerify ==
    ASSUME LossInv, Typed', NEW t \in Threads, VerifyAnchors(t)
    PROVE  LossInv'
  <1>. USE Lengths DEF LossInv, Typed
  <1>1. /\ verdict' = VerdictOf(anchors, head[t])
        /\ UNCHANGED <<ledger, written, anchors, boundVars>>
    BY DEF VerifyAnchors
  <1>2. verdict' = "ok" => removed = {}
    <2>. SUFFICES ASSUME verdict' = "ok", removed # {}
                  PROVE  FALSE
      OBVIOUS
    <2>1. PICK i \in 1..Len(anchors) : \E x \in 1..Len(anchors[i].audit_hash) :
             Lost(anchors[i].audit_hash[x])
      BY DEF LossShows
    <2>2. PICK x \in 1..Len(anchors[i].audit_hash) : Lost(anchors[i].audit_hash[x])
      BY <2>1
    <2>. DEFINE n == anchors[i].audit_seq
    <2>3. n <= Len(head[t]) /\ HashAt(head[t], n) = anchors[i].audit_hash
      BY <1>1 DEF VerdictOf
    <2>4. n \in Nat /\ n = Len(anchors[i].audit_hash) /\ x \in 1..n
      BY SMTT(20) DEF AnchorLengths
    <2>5. anchors[i].audit_hash[x] = head[t][x]
      BY <2>3, <2>4, PrefixFacts DEF HashAt
    <2>6. Begins(head[t], ledger)
      BY DEF HeadsBegin, VerifyAnchors
    <2>7. x \in 1..Len(ledger) /\ head[t][x] = ledger[x]
      <3>1. x \in 1..Len(head[t])
        BY <2>3, <2>4
      <3>. QED  BY <3>1, <2>6, SMTT(20) DEF Begins
    <2>. QED  BY <2>2, <2>5, <2>7 DEF Lost
  <1>3. HeadsBegin'
    BY <1>1 DEF HeadsBegin, VerifyAnchors, TypeOK
  <1>4. VerdictSound'
    BY <1>1, <1>2 DEF VerdictSound, boundVars
  <1>5. IdsGrow' /\ AnchorLengths' /\ AnchorsCovered' /\ LossShows'
    BY <1>1 DEF IdsGrow, AnchorLengths, AnchorsCovered, LossShows, Lost, boundVars
  <1>. QED  BY <1>3, <1>4, <1>5

LEMMA LossPower ==
    ASSUME LossInv, Typed', PowerLoss
    PROVE  LossInv'
  <1>. USE Lengths DEF LossInv, Typed
  <1>1. PICK n \in durable .. Len(ledger) :
           /\ ledger' = SubSeq(ledger, 1, n)
           /\ removed' = removed \cup CoveredBeyond(n)
    BY DEF PowerLoss
  <1>2. n \in Nat /\ n <= Len(ledger) /\ ledger \in Seq(Nat)
    BY DEF TypeOK
  <1>3. /\ Len(ledger') = n
        /\ \A i \in 1..n : ledger'[i] = ledger[i]
    BY <1>1, <1>2, PrefixFacts
  <1>4. /\ UNCHANGED <<written, anchors>>
        /\ verdict' = "none"
        /\ losses' = losses + 1
        /\ losses \in Nat
        /\ \A t \in Threads : pc'[t] = "idle"
    BY DEF PowerLoss, TypeOK
  <1>5. IdsGrow'
    <2>1. \A i \in 1..n : i \in 1..Len(ledger)
      BY <1>2
    <2>2. \A i \in 1..n : ledger'[i] <= written'
      BY <1>3, <1>4, <2>1 DEF IdsGrow
    <2>3. \A i, j \in 1..n : i < j => ledger'[i] < ledger'[j]
      BY <1>3, <2>1 DEF IdsGrow
    <2>. QED  BY <1>3, <2>2, <2>3 DEF IdsGrow
  <1>6. HeadsBegin' /\ AnchorLengths' /\ VerdictSound'
    BY <1>4 DEF HeadsBegin, AnchorLengths, VerdictSound
  <1>7. AnchorsCovered'
    <2>. SUFFICES ASSUME removed' = {}, NEW i \in 1..Len(anchors)
                  PROVE  Begins(anchors[i].audit_hash, ledger')
      BY <1>4 DEF AnchorsCovered
    <2>1. removed = {} /\ CoveredBeyond(n) = {}
      BY <1>1
    <2>2. Begins(anchors[i].audit_hash, ledger)
      BY <2>1 DEF AnchorsCovered
    <2>3. anchors[i].audit_seq = Len(anchors[i].audit_hash)
      BY DEF AnchorLengths
    <2>4. anchors[i].audit_seq <= n
      <3>. SUFFICES ASSUME anchors[i].audit_seq > n
                    PROVE  FALSE
        BY <1>2
      <3>1. n + 1 \in n + 1 .. Len(ledger) /\ n + 1 <= anchors[i].audit_seq
        BY <1>2, <2>2, <2>3 DEF Begins
      <3>2. ledger[n + 1] \in CoveredBeyond(n)
        BY <3>1 DEF CoveredBeyond
      <3>. QED  BY <2>1, <3>2
    <2>. DEFINE h == anchors[i].audit_hash
    <2>5. Len(h) \in Nat /\ Len(h) <= n
      BY <1>2, <2>2, <2>3, <2>4
    <2>. QED  BY ONLY <1>2, <1>3, <2>2, <2>5, BeginsCut
  <1>8. LossShows'
    <2>. SUFFICES ASSUME removed' # {}
                  PROVE  \E i \in 1..Len(anchors) :
                            \E x \in 1..Len(anchors[i].audit_hash) :
                               Lost(anchors[i].audit_hash[x])'
      BY <1>4 DEF LossShows
    <2>1. CASE removed # {}
      <3>1. PICK i \in 1..Len(anchors) : \E x \in 1..Len(anchors[i].audit_hash) :
               Lost(anchors[i].audit_hash[x])
        BY <2>1 DEF LossShows
      <3>2. PICK x \in 1..Len(anchors[i].audit_hash) : Lost(anchors[i].audit_hash[x])
        BY <3>1
      <3>a. \A j \in 1..n : j \in 1..Len(ledger)
        BY <1>2
      <3>b. \A j \in 1..n : ledger'[j] # anchors[i].audit_hash[x]
        BY <1>3, <3>2, <3>a DEF Lost
      <3>3. Lost(anchors[i].audit_hash[x])'
        BY <1>3, <1>4, <3>2, <3>b DEF Lost
      <3>. QED  BY <3>3
    <2>2. CASE removed = {}
      <3>1. CoveredBeyond(n) # {}
        BY <1>1, <2>2
      <3>2. PICK j \in n + 1 .. Len(ledger) :
               \E k \in 1..Len(anchors) : j <= anchors[k].audit_seq
        BY <3>1 DEF CoveredBeyond
      <3>3. PICK k \in 1..Len(anchors) : j <= anchors[k].audit_seq
        BY <3>2
      <3>4. /\ j \in 1..Len(anchors[k].audit_hash)
            /\ anchors[k].audit_hash[j] = ledger[j]
            /\ j \in 1..Len(ledger)
        <4>. DEFINE h == anchors[k].audit_hash
        <4>1. Begins(h, ledger) /\ anchors[k].audit_seq = Len(h)
          BY <2>2, <3>3 DEF AnchorsCovered, AnchorLengths
        <4>2. j \in Nat /\ j >= 1 /\ j <= Len(ledger)
          BY <1>2, <3>2
        <4>3. j <= Len(h) /\ Len(h) \in Nat
          BY <3>3, <4>1
        <4>4. j \in 1..Len(h)
          BY <4>2, <4>3
        <4>5. h[j] = ledger[j]
          BY <4>1, <4>4 DEF Begins
        <4>. QED  BY <4>2, <4>4, <4>5
      <3>5. \A m \in 1..n : ledger[m] # ledger[j]
        <4>. SUFFICES ASSUME NEW m \in 1..n PROVE ledger[m] # ledger[j]
          OBVIOUS
        <4>1. m \in 1..Len(ledger) /\ m < j
          BY <1>2, <3>2
        <4>2. ledger[m] < ledger[j]
          BY <3>4, <4>1 DEF IdsGrow
        <4>3. ledger[m] \in Nat /\ ledger[j] \in Nat
          BY <3>4, <4>1
        <4>. QED  BY <4>2, <4>3
      <3>6. ledger[j] <= written
        BY <3>4 DEF IdsGrow
      <3>7. Lost(anchors[k].audit_hash[j])'
        BY <1>3, <1>4, <3>4, <3>5, <3>6 DEF Lost
      <3>. QED  BY <3>3, <3>4, <3>7
    <2>. QED  BY <2>1, <2>2
  <1>. QED  BY <1>5, <1>6, <1>7, <1>8

LEMMA LossStep == LossInv /\ [Next]_vars => LossInv'
  <1>. SUFFICES ASSUME LossInv, [Next]_vars PROVE LossInv'
    OBVIOUS
  <1>t. Typed'
    BY TypedStep DEF LossInv
  <1>. USE <1>t DEF LossInv, Typed, boundVars, threadVars
  <1>b. Begins(ledger, ledger)
    BY Lengths DEF Begins
  <1>0. CASE UNCHANGED vars
    <2>1. HeadsBegin'
      BY <1>0 DEF vars, HeadsBegin
    <2>. QED  BY <1>0, <2>1, LossFrame DEF vars
  <1>1. ASSUME NEW t \in Threads, Step(t)
        PROVE  LossInv'
    <2>1. CASE RecordEvent(t) \/ OpenVerifyPage(t) \/ LogAnchored(t)
      BY <2>1, LossAppend DEF RecordEvent, OpenVerifyPage, LogAnchored
    <2>2. CASE PressAnchor(t)
      <3>1. HeadsBegin'
        BY <2>2 DEF PressAnchor, HeadsBegin, TypeOK
      <3>. QED  BY <2>2, <3>1, LossFrame DEF PressAnchor
    <2>3. CASE RunAnchorAudit(t)
      <3>1. HeadsBegin'
        BY <2>3 DEF RunAnchorAudit, HeadsBegin, TypeOK
      <3>. QED  BY <2>3, <3>1, LossFrame DEF RunAnchorAudit
    <2>4. CASE ReadHead(t)
      <3>1. HeadsBegin'
        BY <2>4 DEF ReadHead, HeadsBegin, TypeOK
      <3>. QED  BY <2>4, <3>1, LossFrame DEF ReadHead
    <2>5. CASE CheckInterval(t)
      <3>1. HeadsBegin'
        BY <2>5 DEF CheckInterval, HeadsBegin, TypeOK
      <3>. QED  BY <2>5, <3>1, LossFrame DEF CheckInterval
    <2>6. CASE TakeLock(t)
      <3>1. HeadsBegin'
        BY <1>b, <2>6 DEF TakeLock, HeadsBegin, TypeOK
      <3>. QED  BY <2>6, <3>1, LossFrame DEF TakeLock
    <2>7. CASE ReadLast(t)
      <3>1. HeadsBegin'
        <4>. SUFFICES ASSUME NEW u \in Threads,
                             pc'[u] \in {"headed", "linked", "compared"}
                      PROVE  Begins(head'[u], ledger')
          BY DEF HeadsBegin
        <4>1. UNCHANGED ledger
          BY <2>7 DEF ReadLast
        <4>2. pc[u] \in {"headed", "linked", "compared"} /\ head'[u] = head[u]
          BY <2>7 DEF ReadLast, Unpublished, TypeOK
        <4>. QED  BY <4>1, <4>2 DEF HeadsBegin
      <3>. QED  BY <2>7, <3>1, LossFrame DEF ReadLast
    <2>8. CASE Publish(t) \/ PublishFails(t)
      BY <2>8, LineWritten, LossPublish
    <2>9. CASE RunVerifyAudit(t)
      <3>1. HeadsBegin'
        BY <2>9 DEF RunVerifyAudit, HeadsBegin, TypeOK
      <3>. QED  BY <2>9, <3>1, LossFrame DEF RunVerifyAudit
    <2>10. CASE VerifyHead(t)
      <3>1. HeadsBegin'
        BY <1>b, <2>10 DEF VerifyHead, HeadsBegin, TypeOK
      <3>. QED  BY <2>10, <3>1, LossFrame DEF VerifyHead
    <2>11. CASE VerifyAnchors(t)
      BY <2>11, LossVerify
    <2>12. CASE AnchoringFails(t)
      <3>1. UNCHANGED <<ledger, written, anchors, verdict, losses, removed>>
        BY <2>12 DEF AnchoringFails
      <3>2. HeadsBegin'
        BY <2>12, <3>1, FailsTo DEF HeadsBegin
      <3>. QED  BY <3>1, <3>2, LossFrame
    <2>. QED  BY <1>1, <2>1, <2>2, <2>3, <2>4, <2>5, <2>6, <2>7, <2>8, <2>9,
                 <2>10, <2>11, <2>12 DEF Step, Anchoring, Verifying
  <1>2. ASSUME NEW a \in sent, Deliver(a) \/ LoseSubmission(a)
        PROVE  LossInv'
    <2>1. HeadsBegin'
      BY <1>2 DEF Deliver, LoseSubmission, HeadsBegin
    <2>. QED  BY <1>2, <2>1, LossFrame DEF Deliver, LoseSubmission
  <1>3. CASE Sync
    <2>1. HeadsBegin'
      BY <1>3 DEF Sync, HeadsBegin
    <2>. QED  BY <1>3, <2>1, LossFrame DEF Sync
  <1>4. ASSUME NEW p \in Processes, Crash(p)
        PROVE  LossInv'
    <2>1. HeadsBegin'
      BY <1>4 DEF Crash, HeadsBegin
    <2>. QED  BY <1>4, <2>1, LossFrame DEF Crash
  <1>5. CASE PowerLoss
    BY <1>5, LossPower
  <1>. QED  BY <1>0, <1>1, <1>2, <1>3, <1>4, <1>5 DEF Next

(* A ledger that lost an anchored entry never verifies again, whatever is  *)
(* appended and anchored afterwards and by whichever process               *)
(* (verify_anchors: the "truncated" and "rewritten" checks).               *)
THEOREM LossIsReported == Spec => []RemovalReported
  <1>1. Spec => []LossInv
    BY LossInit, LossStep, PTL DEF Spec
  <1>2. LossInv => RemovalReported
    BY DEF LossInv, VerdictSound, RemovalReported
  <1>. QED  BY <1>1, <1>2, PTL

-------------------------------------------------------------------------------
(* One process: the lock makes reading the last anchor and writing the next *)
(* one step, so the log stays one chain                                     *)

LockHeld ==
    \A t \in Threads : pc[t] \in {"headed", "linked"} => lock[ProcessOf[t]] = t

LastHeld == \A t \in Threads : pc[t] = "linked" => last[t] = Len(anchors)

Published(a) == a.anchor_seq \in 1..Len(anchors) /\ a = anchors[a.anchor_seq]

CopiesHeld ==
    /\ \A a \in sent : Published(a)
    /\ \A i \in 1..Len(witness) : Published(witness[i])

ChainInv ==
    /\ Typed
    /\ LockHeld
    /\ LastHeld
    /\ Linked(anchors)
    /\ CopiesHeld

LEMMA ChainInit == Init => ChainInv
  <1>. SUFFICES ASSUME Init PROVE ChainInv
    OBVIOUS
  <1>1. Len(<<>>) = 0
    OBVIOUS
  <1>. QED  BY <1>1, TypedInit DEF Init, ChainInv, LockHeld, LastHeld, Linked,
                 CopiesHeld

(* Two threads of one process are not both between lock and write. *)
LEMMA OneHolder ==
    ASSUME OneProcess, LockHeld, NEW t \in Threads, NEW u \in Threads,
           pc[t] \in {"headed", "linked"}, pc[u] \in {"headed", "linked"}
    PROVE  t = u
  BY DEF OneProcess, LockHeld

LEMMA ChainFrame ==
    ASSUME ChainInv, Typed', LockHeld', LastHeld', UNCHANGED anchors,
           sent' \subseteq sent, UNCHANGED witness
    PROVE  ChainInv'
  BY DEF ChainInv, CopiesHeld, Published, Linked

LEMMA ChainPublish ==
    ASSUME OneProcess, ChainInv, Typed', NEW t \in Threads,
           NEW next \in {"idle", "logging", "verifying"}, WriteLine(t, next),
           sent' \subseteq sent \cup {NewAnchor(t)}
    PROVE  ChainInv'
  <1>. USE DEF ChainInv, Typed
  <1>1. /\ anchors' = Append(anchors, NewAnchor(t))
        /\ sent' \subseteq sent \cup {NewAnchor(t)}
        /\ UNCHANGED witness
    BY DEF WriteLine
  <1>2. NewAnchor(t) \in Anchor /\ anchors \in Seq(Anchor) /\ Len(anchors) \in Nat
    <2>1. NewAnchor(t) \in Anchor
      BY NewAnchorType DEF LastBelow
    <2>. QED  BY <2>1 DEF TypeOK
  <1>3. /\ Len(anchors') = Len(anchors) + 1
        /\ \A i \in 1..Len(anchors) : anchors'[i] = anchors[i]
        /\ anchors'[Len(anchors) + 1] = NewAnchor(t)
    BY <1>1, <1>2, AppendFacts
  <1>4. last[t] = Len(anchors)
    BY DEF LastHeld, WriteLine
  <1>5. /\ NewAnchor(t).anchor_seq = Len(anchors) + 1
        /\ NewAnchor(t).prev_anchor_hash =
             IF Len(anchors) = 0 THEN GenesisAnchorHash ELSE anchors[Len(anchors)].hash
    BY <1>2, <1>4 DEF NewAnchor, Linked
  <1>6. Linked(anchors')
    <2>. SUFFICES ASSUME NEW i \in 1..Len(anchors')
                  PROVE  /\ anchors'[i].anchor_seq = i
                         /\ anchors'[i].prev_anchor_hash =
                              IF i = 1 THEN GenesisAnchorHash ELSE anchors'[i - 1].hash
      BY DEF Linked
    <2>1. CASE i \in 1..Len(anchors)
      <3>1. i # 1 => i - 1 \in 1..Len(anchors)
        BY <1>2, <2>1
      <3>. QED  BY <1>3, <2>1, <3>1 DEF Linked
    <2>2. CASE i = Len(anchors) + 1
      <3>1. i # 1 => i - 1 = Len(anchors) /\ i - 1 \in 1..Len(anchors)
        BY <1>2, <2>2
      <3>2. i = 1 <=> Len(anchors) = 0
        BY <1>2, <2>2
      <3>. QED  BY <1>3, <1>5, <2>2, <3>1, <3>2
    <2>. QED  BY <1>2, <1>3, <2>1, <2>2
  <1>7. \A a : Published(a) => Published(a)'
    BY <1>2, <1>3 DEF Published
  <1>9. /\ NewAnchor(t).anchor_seq \in 1..Len(anchors')
        /\ NewAnchor(t) = anchors'[NewAnchor(t).anchor_seq]
    BY <1>2, <1>3, <1>5
  <1>10. CopiesHeld'
    BY <1>1, <1>7, <1>9 DEF CopiesHeld, Published
  <1>11. \A u \in Threads : pc'[u] \in {"headed", "linked"} =>
            u # t /\ pc[u] \in {"headed", "linked"}
    BY DEF WriteLine, TypeOK
  <1>12. \A u \in Threads : pc'[u] \notin {"headed", "linked"}
    BY <1>11, OneHolder DEF WriteLine
  <1>13. LockHeld' /\ LastHeld'
    BY <1>12 DEF LockHeld, LastHeld
  <1>. QED  BY <1>6, <1>10, <1>13

LEMMA ChainStep == OneProcess /\ ChainInv /\ [Next]_vars => ChainInv'
  <1>. SUFFICES ASSUME OneProcess, ChainInv, [Next]_vars PROVE ChainInv'
    OBVIOUS
  <1>t. Typed'
    BY TypedStep DEF ChainInv
  <1>. USE <1>t DEF ChainInv, Typed, boundVars, threadVars
  <1>0. CASE UNCHANGED vars
    <2>1. LockHeld' /\ LastHeld'
      BY <1>0 DEF vars, LockHeld, LastHeld
    <2>. QED  BY <1>0, <2>1, ChainFrame DEF vars
  (* A thread elsewhere moves elsewhere, with no word in the lock. *)
  <1>a. ASSUME NEW t \in Threads, NEW place \in Places \ {"headed", "linked"},
               pc' = [pc EXCEPT ![t] = place], UNCHANGED <<lock, last, anchors>>
        PROVE  LockHeld' /\ LastHeld'
    BY <1>a DEF LockHeld, LastHeld, TypeOK
  <1>b. ASSUME NEW t \in Threads, NEW next \in {"idle", "verifying"},
               AppendEvent(t, next)
        PROVE  ChainInv'
    <2>1. LockHeld' /\ LastHeld'
      BY <1>a, <1>b DEF AppendEvent, Places
    <2>. QED  BY <1>b, <2>1, ChainFrame DEF AppendEvent
  <1>1. ASSUME NEW t \in Threads, Step(t)
        PROVE  ChainInv'
    <2>1. CASE RecordEvent(t) \/ OpenVerifyPage(t) \/ LogAnchored(t)
      BY <2>1, <1>b DEF RecordEvent, OpenVerifyPage, LogAnchored
    <2>2. CASE PressAnchor(t)
      <3>1. LockHeld' /\ LastHeld'
        BY <1>a, <2>2 DEF PressAnchor, Places
      <3>. QED  BY <2>2, <3>1, ChainFrame DEF PressAnchor
    <2>3. CASE RunAnchorAudit(t)
      <3>1. LockHeld' /\ LastHeld'
        BY <1>a, <2>3 DEF RunAnchorAudit, Places
      <3>. QED  BY <2>3, <3>1, ChainFrame DEF RunAnchorAudit
    <2>4. CASE ReadHead(t)
      <3>1. LockHeld' /\ LastHeld'
        BY <1>a, <2>4 DEF ReadHead, Places
      <3>. QED  BY <2>4, <3>1, ChainFrame DEF ReadHead
    <2>5. CASE CheckInterval(t)
      <3>1. then[t] \in Places \ {"headed", "linked"}
        BY DEF TypeOK, Places
      <3>2. LockHeld' /\ LastHeld'
        BY <1>a, <2>5, <3>1 DEF CheckInterval, Places
      <3>. QED  BY <2>5, <3>2, ChainFrame DEF CheckInterval
    <2>6. CASE TakeLock(t)
      <3>0. \A u \in Threads : pc[u] \notin {"headed", "linked"}
        BY <2>6, AnchorAssumption DEF TakeLock, OneProcess, LockHeld
      <3>1. \A u \in Threads : u # t => pc'[u] \notin {"headed", "linked"}
        BY <2>6, <3>0 DEF TakeLock, TypeOK
      <3>a. ProcessOf[t] \in Processes
        BY AnchorAssumption
      <3>b. ASSUME ledger = <<>>
            PROVE  pc'[t] \in {"idle", "verifying", "logging"}
        <4>1. pc' = [pc EXCEPT ![t] = Unpublished(t)]
          BY ONLY <2>6, <3>b DEF TakeLock
        <4>2. pc'[t] = Unpublished(t)
          BY <4>1 DEF TypeOK
        <4>. QED  BY <4>2 DEF Unpublished, TypeOK
      <3>c. ASSUME ledger # <<>>
            PROVE  pc'[t] = "headed" /\ lock'[ProcessOf[t]] = t
        <4>1. /\ pc' = [pc EXCEPT ![t] = "headed"]
              /\ lock' = [lock EXCEPT ![ProcessOf[t]] = t]
          BY ONLY <2>6, <3>c DEF TakeLock
        <4>. QED  BY <3>a, <4>1 DEF TypeOK
      <3>2. pc'[t] # "linked" /\ (pc'[t] = "headed" => lock'[ProcessOf[t]] = t)
        BY ONLY <3>b, <3>c
      <3>3. LockHeld' /\ LastHeld'
        BY <3>1, <3>2 DEF LockHeld, LastHeld
      <3>. QED  BY <2>6, <3>3, ChainFrame DEF TakeLock
    <2>7. CASE ReadLast(t)
      <3>0. \A u \in Threads : u # t => pc[u] \notin {"headed", "linked"}
        BY <2>7, OneHolder DEF ReadLast
      <3>1. \A u \in Threads : u # t => pc'[u] \notin {"headed", "linked"}
        BY <2>7, <3>0 DEF ReadLast, TypeOK
      <3>2. lock[ProcessOf[t]] = t
        BY <2>7 DEF ReadLast, LockHeld
      <3>3. /\ pc'[t] # "headed"
            /\ pc'[t] = "linked" => /\ lock' = lock
                                    /\ last'[t] = Len(anchors)
        BY <2>7 DEF ReadLast, Unpublished, TypeOK
      <3>4. UNCHANGED <<anchors, sent, witness>>
        BY <2>7 DEF ReadLast
      <3>5. LockHeld' /\ LastHeld'
        BY <3>1, <3>2, <3>3, <3>4 DEF LockHeld, LastHeld
      <3>. QED  BY <3>4, <3>5, ChainFrame
    <2>8. CASE Publish(t) \/ PublishFails(t)
      BY <2>8, LineWritten, ChainPublish
    <2>9. CASE RunVerifyAudit(t)
      <3>1. LockHeld' /\ LastHeld'
        BY <1>a, <2>9 DEF RunVerifyAudit, Places
      <3>. QED  BY <2>9, <3>1, ChainFrame DEF RunVerifyAudit
    <2>10. CASE VerifyHead(t)
      <3>1. LockHeld' /\ LastHeld'
        BY <1>a, <2>10 DEF VerifyHead, Places
      <3>. QED  BY <2>10, <3>1, ChainFrame DEF VerifyHead
    <2>11. CASE VerifyAnchors(t)
      <3>1. LockHeld' /\ LastHeld'
        BY <1>a, <2>11 DEF VerifyAnchors, Places
      <3>. QED  BY <2>11, <3>1, ChainFrame DEF VerifyAnchors
    <2>12. CASE AnchoringFails(t)
      <3>1. UNCHANGED <<anchors, sent, witness>>
        BY <2>12 DEF AnchoringFails
      <3>2. ASSUME NEW u \in Threads, pc'[u] \in {"headed", "linked"}
            PROVE  u # t /\ pc'[u] = pc[u] /\ last'[u] = last[u]
        BY <2>12, <3>2, FailsTo
      <3>3. ASSUME NEW u \in Threads, pc'[u] \in {"headed", "linked"}
            PROVE  lock'[ProcessOf[u]] = u
        <4>1. u # t /\ lock[ProcessOf[u]] = u
          BY <3>2, <3>3 DEF LockHeld
        <4>2. ProcessOf[u] \in Processes /\ ProcessOf[t] \in Processes
          BY AnchorAssumption
        <4>3. lock' = [lock EXCEPT ![ProcessOf[t]] =
                          IF lock[ProcessOf[t]] = t THEN NoThread ELSE lock[ProcessOf[t]]]
          BY <2>12 DEF AnchoringFails
        <4>. QED  BY <4>1, <4>2, <4>3 DEF TypeOK
      <3>4. LockHeld' /\ LastHeld'
        BY <3>1, <3>2, <3>3 DEF LockHeld, LastHeld
      <3>. QED  BY <3>1, <3>4, ChainFrame
    <2>. QED  BY <1>1, <2>1, <2>2, <2>3, <2>4, <2>5, <2>6, <2>7, <2>8, <2>9,
                 <2>10, <2>11, <2>12 DEF Step, Anchoring, Verifying
  <1>2. ASSUME NEW a \in sent, Deliver(a)
        PROVE  ChainInv'
    <2>1. LockHeld' /\ LastHeld' /\ Linked(anchors)'
      BY <1>2 DEF Deliver, LockHeld, LastHeld, Linked
    <2>2. witness \in Seq(Anchor) /\ a \in Anchor /\ Published(a)
      BY DEF TypeOK, CopiesHeld
    <2>3. \A b : Published(b) => Published(b)'
      BY <1>2 DEF Deliver, Published
    <2>4. \A i \in 1..Len(witness') : Published(witness'[i])
      <3>1. CASE witness' = witness
        BY <3>1 DEF CopiesHeld
      <3>2. CASE witness' = Append(witness, a)
        <4>1. /\ Len(witness') = Len(witness) + 1
              /\ \A i \in 1..Len(witness) : witness'[i] = witness[i]
              /\ witness'[Len(witness) + 1] = a
          BY <2>2, <3>2, AppendFacts
        <4>2. Len(witness) \in Nat
          BY <2>2
        <4>. QED  BY <2>2, <4>1, <4>2 DEF CopiesHeld
      <3>. QED  BY <1>2, <3>1, <3>2 DEF Deliver, RecordAnchor
    <2>5. CopiesHeld'
      BY <1>2, <2>3, <2>4 DEF Deliver, CopiesHeld
    <2>. QED  BY <2>1, <2>5
  <1>3. ASSUME NEW a \in sent, LoseSubmission(a)
        PROVE  ChainInv'
    <2>1. LockHeld' /\ LastHeld'
      BY <1>3 DEF LoseSubmission, LockHeld, LastHeld
    <2>. QED  BY <1>3, <2>1, ChainFrame DEF LoseSubmission
  <1>4. CASE Sync
    <2>1. LockHeld' /\ LastHeld'
      BY <1>4 DEF Sync, LockHeld, LastHeld
    <2>. QED  BY <1>4, <2>1, ChainFrame DEF Sync
  <1>5. ASSUME NEW p \in Processes, Crash(p)
        PROVE  ChainInv'
    <2>1. LockHeld' /\ LastHeld'
      BY <1>5, AnchorAssumption DEF Crash, LockHeld, LastHeld, TypeOK
    <2>. QED  BY <1>5, <2>1, ChainFrame DEF Crash
  <1>6. CASE PowerLoss
    <2>1. LockHeld' /\ LastHeld'
      BY <1>6 DEF PowerLoss, LockHeld, LastHeld
    <2>. QED  BY <1>6, <2>1, ChainFrame DEF PowerLoss
  <1>. QED  BY <1>0, <1>1, <1>2, <1>3, <1>4, <1>5, <1>6 DEF Next

LEMMA ChainHolds == OneProcess /\ Spec => []ChainInv
  <1>1. CASE OneProcess
    <2>1. ChainInv /\ [Next]_vars => ChainInv'
      BY <1>1, ChainStep
    <2>. QED  BY <2>1, ChainInit, PTL DEF Spec
  <1>2. CASE ~OneProcess
    BY <1>2
  <1>. QED  BY <1>1, <1>2

(* With one process the anchor log is one chain that matches the ledger    *)
(* until the host loses power: the work of _lock in create_anchor.         *)
THEOREM OneProcessVerifies == Spec => []LogVerifies
  <1>1. LossInv /\ (OneProcess => ChainInv) => LogVerifies
    <2>. SUFFICES ASSUME LossInv, OneProcess, ChainInv, losses = 0
                  PROVE  /\ Linked(anchors)
                         /\ \A i \in 1..Len(anchors) :
                               /\ anchors[i].audit_seq <= Len(ledger)
                               /\ HashAt(ledger, anchors[i].audit_seq)
                                    = anchors[i].audit_hash
      BY DEF LogVerifies
    <2>. USE DEF LossInv, Typed
    <2>1. removed = {}
      BY DEF VerdictSound
    <2>2. ASSUME NEW i \in 1..Len(anchors)
          PROVE  /\ anchors[i].audit_seq <= Len(ledger)
                 /\ HashAt(ledger, anchors[i].audit_seq) = anchors[i].audit_hash
      <3>1. Begins(anchors[i].audit_hash, ledger)
        BY <2>1 DEF AnchorsCovered
      <3>2. anchors[i].audit_seq = Len(anchors[i].audit_hash)
        BY DEF AnchorLengths
      <3>3. anchors[i].audit_hash \in Seq(Nat) /\ ledger \in Seq(Nat)
        BY Lengths DEF TypeOK
      <3>. QED  BY <3>1, <3>2, <3>3, SameSequence DEF Begins
    <2>. QED  BY <2>2 DEF ChainInv
  <1>2. Spec => []LossInv
    BY LossInit, LossStep, PTL DEF Spec
  <1>3. CASE OneProcess
    <2>1. LossInv /\ ChainInv => LogVerifies
      BY <1>1
    <2>2. Spec => []ChainInv
      BY <1>3, ChainHolds
    <2>. QED  BY <1>2, <2>1, <2>2, PTL
  <1>4. CASE ~OneProcess
    <2>1. LossInv => LogVerifies
      BY <1>4 DEF LogVerifies
    <2>. QED  BY <1>2, <2>1, PTL
  <1>. QED  BY <1>3, <1>4

(* With one process every copy the witness holds is the published line,    *)
(* through lost and reordered submissions, crashes and losses of power     *)
(* (record_anchor).                                                        *)
THEOREM WitnessAgrees == Spec => []WitnessHoldsPublished
  <1>1. CASE OneProcess
    <2>1. ChainInv => WitnessHoldsPublished
      BY DEF ChainInv, CopiesHeld, Published, WitnessHoldsPublished
    <2>2. Spec => []ChainInv
      BY <1>1, ChainHolds
    <2>. QED  BY <2>1, <2>2, PTL
  <1>2. CASE ~OneProcess
    <2>2. TypeOK => WitnessHoldsPublished
      BY <1>2 DEF WitnessHoldsPublished
    <2>. QED  BY <2>2, TypeCorrect, PTL
  <1>. QED  BY <1>1, <1>2

-------------------------------------------------------------------------------
(* One process: the log advances, so a verification that finds no anchor    *)
(* beyond the head it read finds an intact ledger                           *)

(* A thread between lock and write holds a head no anchor is beyond, and,  *)
(* once it has compared, a head beyond every anchor.                       *)
HeadsAhead ==
    \A t \in Threads : \A i \in 1..Len(anchors) :
        /\ pc[t] = "headed" => anchors[i].audit_seq <= Len(head[t])
        /\ pc[t] = "linked" => anchors[i].audit_seq < Len(head[t])

Advancing ==
    \A i, j \in 1..Len(anchors) :
        i < j => anchors[i].audit_seq < anchors[j].audit_seq

AdvanceInv == losses = 0 => HeadsAhead /\ Advancing

LEMMA AdvanceInit == Init => AdvanceInv
  <1>1. Len(<<>>) = 0
    OBVIOUS
  <1>. QED  BY <1>1 DEF Init, AdvanceInv, HeadsAhead, Advancing

(* No anchor is beyond a ledger that lost nothing. *)
LEMMA AnchorsWithin ==
    ASSUME LossInv, losses = 0, NEW i \in 1..Len(anchors)
    PROVE  anchors[i].audit_seq <= Len(ledger)
  BY DEF LossInv, VerdictSound, AnchorsCovered, AnchorLengths, Begins

(* The last anchor is the one furthest on. *)
LEMMA LastIsFurthest ==
    ASSUME TypeOK, Advancing, NEW i \in 1..Len(anchors)
    PROVE  anchors[i].audit_seq <= LastAnchored(anchors)
  <1>1. anchors # <<>> /\ Len(anchors) \in 1..Len(anchors)
    BY DEF TypeOK
  <1>2. LastAnchored(anchors) = anchors[Len(anchors)].audit_seq
    BY <1>1 DEF LastAnchored
  <1>3. i = Len(anchors) \/ i < Len(anchors)
    BY <1>1, Lengths
  <1>. QED  BY <1>1, <1>2, <1>3, Lengths DEF Advancing

(* Steps that leave the anchors alone and bring no thread to the lock. *)
LEMMA AdvanceFrame ==
    ASSUME AdvanceInv, UNCHANGED <<anchors, losses>>,
           \A u \in Threads : pc'[u] \in {"headed", "linked"} =>
               pc[u] = pc'[u] /\ head'[u] = head[u]
    PROVE  AdvanceInv'
  BY DEF AdvanceInv, HeadsAhead, Advancing

LEMMA AdvancePublish ==
    ASSUME OneProcess, LossInv, ChainInv, AdvanceInv, NEW t \in Threads,
           NEW next \in {"idle", "logging", "verifying"}, WriteLine(t, next)
    PROVE  AdvanceInv'
  <1>. USE Lengths DEF LossInv, ChainInv, Typed
  <1>. SUFFICES ASSUME losses = 0 PROVE HeadsAhead' /\ Advancing'
    BY DEF WriteLine, AdvanceInv, boundVars
  <1>1. NewAnchor(t) \in Anchor /\ anchors \in Seq(Anchor) /\ Len(anchors) \in Nat
    <2>1. NewAnchor(t) \in Anchor
      BY NewAnchorType DEF LastBelow
    <2>. QED  BY <2>1 DEF TypeOK
  <1>2. /\ Len(anchors') = Len(anchors) + 1
        /\ \A i \in 1..Len(anchors) : anchors'[i] = anchors[i]
        /\ anchors'[Len(anchors) + 1] = NewAnchor(t)
    BY <1>1, AppendFacts DEF WriteLine
  <1>3. \A i \in 1..Len(anchors) : anchors[i].audit_seq < Len(head[t])
    BY DEF AdvanceInv, HeadsAhead, WriteLine
  <1>4. NewAnchor(t).audit_seq = Len(head[t])
    BY DEF NewAnchor
  <1>5. \A i \in 1..Len(anchors') : i \in 1..Len(anchors) \/ i = Len(anchors) + 1
    BY <1>1, <1>2
  <1>6. Advancing'
    <2>. SUFFICES ASSUME NEW i \in 1..Len(anchors'), NEW j \in 1..Len(anchors'), i < j
                  PROVE  anchors'[i].audit_seq < anchors'[j].audit_seq
      BY DEF Advancing
    <2>1. i \in 1..Len(anchors)
      BY <1>1, <1>2, <1>5
    <2>2. CASE j \in 1..Len(anchors)
      BY <1>2, <2>1, <2>2 DEF AdvanceInv, Advancing
    <2>3. CASE j = Len(anchors) + 1
      BY <1>2, <1>3, <1>4, <2>1, <2>3
    <2>. QED  BY <1>5, <2>2, <2>3
  <1>7. \A u \in Threads : pc'[u] \in {"headed", "linked"} =>
            u # t /\ pc[u] \in {"headed", "linked"}
    BY DEF WriteLine, TypeOK
  <1>8. \A u \in Threads : pc'[u] \notin {"headed", "linked"}
    BY <1>7, OneHolder DEF WriteLine
  <1>. QED  BY <1>6, <1>8 DEF HeadsAhead

LEMMA AdvanceReadLast ==
    ASSUME LossInv, AdvanceInv, NEW t \in Threads, ReadLast(t)
    PROVE  AdvanceInv'
  <1>. USE Lengths DEF LossInv, Typed
  <1>. SUFFICES ASSUME losses = 0 PROVE HeadsAhead' /\ Advancing'
    BY DEF ReadLast, AdvanceInv, boundVars
  <1>1. UNCHANGED anchors /\ Advancing /\ HeadsAhead /\ TypeOK
    BY DEF ReadLast, AdvanceInv
  <1>2. Advancing'
    BY <1>1 DEF Advancing
  <1>3. ASSUME NEW u \in Threads, u # t
        PROVE  pc'[u] = pc[u] /\ head'[u] = head[u]
    BY <1>1, <1>3 DEF ReadLast, TypeOK
  <1>4. pc'[t] \in {"headed", "linked"} => pc'[t] = "linked" /\ head'[t] = head[t]
                 /\ (anchors = <<>> \/ LastAnchored(anchors) # Len(head[t]))
    BY DEF ReadLast, Unpublished, TypeOK
  <1>5. ASSUME NEW i \in 1..Len(anchors), pc'[t] = "linked"
        PROVE  anchors[i].audit_seq < Len(head[t])
    <2>1. anchors # <<>> /\ Len(anchors) \in 1..Len(anchors)
      BY <1>1 DEF TypeOK
    <2>2. LastAnchored(anchors) = anchors[Len(anchors)].audit_seq
      BY <2>1 DEF LastAnchored
    <2>3. \A k \in 1..Len(anchors) : anchors[k].audit_seq <= Len(head[t])
      BY <1>1 DEF ReadLast, HeadsAhead
    <2>4. anchors[i].audit_seq <= LastAnchored(anchors)
      BY <1>1, LastIsFurthest
    <2>. QED  BY <1>1, <1>4, <1>5, <2>1, <2>2, <2>3, <2>4
  <1>6. HeadsAhead'
    <2>. SUFFICES ASSUME NEW u \in Threads, NEW i \in 1..Len(anchors)
                  PROVE  /\ pc'[u] = "headed" => anchors[i].audit_seq <= Len(head'[u])
                         /\ pc'[u] = "linked" => anchors[i].audit_seq < Len(head'[u])
      BY <1>1 DEF HeadsAhead
    <2>1. CASE u = t
      BY <1>4, <1>5, <2>1
    <2>2. CASE u # t
      BY <1>1, <1>3, <2>2 DEF HeadsAhead
    <2>. QED  BY <2>1, <2>2
  <1>. QED  BY <1>2, <1>6

LEMMA AdvanceStep ==
    OneProcess /\ LossInv /\ ChainInv /\ AdvanceInv /\ [Next]_vars => AdvanceInv'
  <1>. SUFFICES ASSUME OneProcess, LossInv, ChainInv, AdvanceInv, [Next]_vars
                PROVE  AdvanceInv'
    OBVIOUS
  <1>. USE DEF LossInv, Typed, boundVars, threadVars
  <1>0. CASE UNCHANGED vars
    BY <1>0, AdvanceFrame DEF vars
  <1>1. ASSUME NEW t \in Threads, Step(t)
        PROVE  AdvanceInv'
    <2>1. CASE RecordEvent(t) \/ OpenVerifyPage(t) \/ LogAnchored(t)
      BY <2>1, AdvanceFrame DEF RecordEvent, OpenVerifyPage, LogAnchored, AppendEvent, TypeOK
    <2>2. CASE PressAnchor(t)
      BY <2>2, AdvanceFrame DEF PressAnchor, TypeOK
    <2>3. CASE RunAnchorAudit(t)
      BY <2>3, AdvanceFrame DEF RunAnchorAudit, TypeOK
    <2>4. CASE ReadHead(t)
      BY <2>4, AdvanceFrame DEF ReadHead, TypeOK
    <2>5. CASE CheckInterval(t)
      BY <2>5, AdvanceFrame DEF CheckInterval, TypeOK
    <2>6. CASE TakeLock(t)
      <3>. SUFFICES ASSUME losses = 0 PROVE HeadsAhead' /\ Advancing'
        BY <2>6 DEF TakeLock, AdvanceInv
      <3>1. UNCHANGED anchors /\ Advancing /\ HeadsAhead
        BY <2>6 DEF TakeLock, AdvanceInv
      <3>2. ASSUME NEW u \in Threads, u # t
            PROVE  pc'[u] = pc[u] /\ head'[u] = head[u]
        BY <2>6, <3>2 DEF TakeLock, TypeOK
      <3>3. pc'[t] # "linked" /\ head'[t] = ledger
        BY <2>6 DEF TakeLock, Unpublished, TypeOK
      <3>4. HeadsAhead'
        <4>. SUFFICES ASSUME NEW u \in Threads, NEW i \in 1..Len(anchors)
                      PROVE  /\ pc'[u] = "headed" => anchors[i].audit_seq <= Len(head'[u])
                             /\ pc'[u] = "linked" => anchors[i].audit_seq < Len(head'[u])
          BY <3>1 DEF HeadsAhead
        <4>1. CASE u = t
          BY <3>3, <4>1, AnchorsWithin
        <4>2. CASE u # t
          BY <3>1, <3>2, <4>2 DEF HeadsAhead
        <4>. QED  BY <4>1, <4>2
      <3>. QED  BY <3>1, <3>4 DEF Advancing
    <2>7. CASE ReadLast(t)
      BY <2>7, AdvanceReadLast
    <2>8. CASE Publish(t) \/ PublishFails(t)
      BY <2>8, LineWritten, AdvancePublish
    <2>9. CASE RunVerifyAudit(t)
      BY <2>9, AdvanceFrame DEF RunVerifyAudit, TypeOK
    <2>10. CASE VerifyHead(t)
      BY <2>10, AdvanceFrame DEF VerifyHead, TypeOK
    <2>11. CASE VerifyAnchors(t)
      BY <2>11, AdvanceFrame DEF VerifyAnchors, TypeOK
    <2>12. CASE AnchoringFails(t)
      BY <2>12, AdvanceFrame, FailsTo DEF AnchoringFails
    <2>. QED  BY <1>1, <2>1, <2>2, <2>3, <2>4, <2>5, <2>6, <2>7, <2>8, <2>9,
                 <2>10, <2>11, <2>12 DEF Step, Anchoring, Verifying
  <1>2. ASSUME NEW a \in sent, Deliver(a) \/ LoseSubmission(a)
        PROVE  AdvanceInv'
    BY <1>2, AdvanceFrame DEF Deliver, LoseSubmission
  <1>3. CASE Sync
    BY <1>3, AdvanceFrame DEF Sync
  <1>4. ASSUME NEW p \in Processes, Crash(p)
        PROVE  AdvanceInv'
    BY <1>4, AdvanceFrame DEF Crash, TypeOK
  <1>5. CASE PowerLoss
    BY <1>5 DEF PowerLoss, AdvanceInv, TypeOK
  <1>. QED  BY <1>0, <1>1, <1>2, <1>3, <1>4, <1>5 DEF Next

LEMMA AdvanceHolds == OneProcess /\ Spec => [](LossInv /\ ChainInv /\ AdvanceInv)
  <1>1. CASE OneProcess
    <2>1. LossInv /\ ChainInv /\ AdvanceInv /\ [Next]_vars
            => (LossInv /\ ChainInv /\ AdvanceInv)'
      BY <1>1, LossStep, ChainStep, AdvanceStep
    <2>2. Init => LossInv /\ ChainInv /\ AdvanceInv
      BY LossInit, ChainInit, AdvanceInit
    <2>. QED  BY <2>1, <2>2, PTL DEF Spec
  <1>2. CASE ~OneProcess
    BY <1>2
  <1>. QED  BY <1>1, <1>2

-------------------------------------------------------------------------------
(* One process: an entry that an interval separates from the last anchor    *)
(* has a thread that owes it an anchor, or that died or failed first        *)

(* A thread that has read the head has read its own entry. *)
HeadsSeeOwn ==
    \A t \in Threads :
        /\ own[t] <= Len(ledger)
        /\ pc[t] \in {"counted", "headed", "linked"} => own[t] <= Len(head[t])

Accounted(n) == n \in abandoned \/ \E t \in InFlight : own[t] = n

TailInv ==
    losses = 0 =>
        /\ HeadsSeeOwn
        /\ Interval > 0 =>
              \A n \in LastAnchored(anchors) + Interval .. Len(ledger) : Accounted(n)

LEMMA LastAnchoredOf == ASSUME NEW log \in Seq(Anchor) PROVE LastAnchored(log) \in Nat
  <1>1. CASE log = <<>>
    BY <1>1 DEF LastAnchored
  <1>2. CASE log # <<>>
    <2>1. Len(log) \in 1..Len(log) /\ log[Len(log)] \in Anchor
      BY <1>2
    <2>2. log[Len(log)].audit_seq \in Nat
      BY <2>1 DEF Anchor
    <2>. QED  BY <1>2, <2>2 DEF LastAnchored
  <1>. QED  BY <1>1, <1>2

LEMMA LastAnchoredType == TypeOK => LastAnchored(anchors) \in Nat
  BY LastAnchoredOf DEF TypeOK

LEMMA TailInit == Init => TailInv
  <1>1. Len(<<>>) = 0 /\ Interval \in Nat
    BY AnchorAssumption
  <1>. QED  BY <1>1 DEF Init, TailInv, HeadsSeeOwn, LastAnchored

(* A thread that leaves or gives up has an anchor near its entry, or has   *)
(* abandoned it; nothing else of the account changes.                      *)
LEMMA TailMove ==
    ASSUME TypeOK, TypeOK', TailInv, NEW t \in Threads,
           UNCHANGED <<ledger, losses>>, abandoned \subseteq abandoned',
           \A u \in Threads : u # t => pc'[u] = pc[u] /\ own'[u] = own[u] /\ head'[u] = head[u],
           losses = 0 =>
              /\ LastAnchored(anchors) <= LastAnchored(anchors')
              /\ own'[t] <= Len(ledger)
              /\ pc'[t] \in {"counted", "headed", "linked"} => own'[t] <= Len(head'[t])
              /\ t \in InFlight /\ Interval > 0 =>
                    \/ t \in InFlight' /\ own'[t] = own[t]
                    \/ own[t] \in abandoned'
                    \/ own[t] < LastAnchored(anchors') + Interval
    PROVE  TailInv'
  <1>. SUFFICES ASSUME losses = 0 PROVE TailInv'
    BY DEF TailInv
  <1>1. HeadsSeeOwn'
    BY DEF TailInv, HeadsSeeOwn
  <1>2. ASSUME Interval > 0,
               NEW n \in LastAnchored(anchors') + Interval .. Len(ledger)
        PROVE  Accounted(n)'
    <2>1. /\ LastAnchored(anchors) \in Nat /\ LastAnchored(anchors') \in Nat
          /\ Interval \in Nat /\ Len(ledger) \in Nat
      <3>1. anchors \in Seq(Anchor) /\ anchors' \in Seq(Anchor) /\ ledger \in Seq(Nat)
        BY DEF TypeOK
      <3>. QED  BY <3>1, LastAnchoredOf, AnchorAssumption
    <2>2. n \in LastAnchored(anchors) + Interval .. Len(ledger)
      BY <2>1
    <2>3. Accounted(n)
      BY <1>2, <2>2 DEF TailInv
    <2>4. CASE n \in abandoned
      BY <2>4 DEF Accounted
    <2>5. ASSUME NEW u \in InFlight, own[u] = n
          PROVE  Accounted(n)'
      <3>1. u \in Threads
        BY DEF InFlight
      <3>2. CASE u = t
        <4>1. ~(own[t] < LastAnchored(anchors') + Interval)
          BY <2>1, <2>5, <3>2
        <4>. QED  BY <1>2, <2>5, <3>2, <4>1 DEF Accounted
      <3>3. CASE u # t
        <4>1. u \in InFlight' /\ own'[u] = n
          BY <2>5, <3>1, <3>3 DEF InFlight
        <4>. QED  BY <4>1 DEF Accounted
      <3>. QED  BY <3>2, <3>3
    <2>. QED  BY <2>3, <2>4, <2>5 DEF Accounted
  <1>. QED  BY <1>1, <1>2 DEF TailInv

LEMMA TailAppend ==
    ASSUME TypeOK, TypeOK', TailInv, NEW t \in Threads,
           NEW next \in {"idle", "verifying"}, AppendEvent(t, next), t \notin InFlight
    PROVE  TailInv'
  <1>. SUFFICES ASSUME losses = 0 PROVE TailInv'
    BY DEF TailInv, AppendEvent, boundVars
  <1>1. /\ Len(ledger) \in Nat /\ Len(ledger') = Len(ledger) + 1
        /\ LastAnchored(anchors) \in Nat /\ Interval \in Nat
        /\ \A u \in Threads : own[u] \in Nat /\ Len(head[u]) \in Nat
    <2>1. ledger \in Seq(Nat) /\ written + 1 \in Nat
      BY DEF TypeOK
    <2>2. Len(ledger') = Len(ledger) + 1
      BY <2>1, AppendFacts DEF AppendEvent
    <2>. QED  BY <2>1, <2>2, LastAnchoredType, AnchorAssumption, Lengths DEF TypeOK
  <1>2. /\ own'[t] = Len(ledger) + 1
        /\ pc'[t] = IF Interval > 0 THEN "appended" ELSE next
        /\ \A u \in Threads : u # t => pc'[u] = pc[u] /\ own'[u] = own[u]
        /\ UNCHANGED <<anchors, head, abandoned, losses>>
    BY DEF AppendEvent, TypeOK, boundVars
  <1>3. HeadsSeeOwn'
    <2>. SUFFICES ASSUME NEW u \in Threads
                  PROVE  /\ own'[u] <= Len(ledger')
                         /\ pc'[u] \in {"counted", "headed", "linked"}
                              => own'[u] <= Len(head'[u])
      BY DEF HeadsSeeOwn
    <2>1. CASE u = t
      BY <1>1, <1>2, <2>1
    <2>2. CASE u # t
      BY <1>1, <1>2, <2>2 DEF TailInv, HeadsSeeOwn
    <2>. QED  BY <2>1, <2>2
  <1>4. ASSUME Interval > 0,
               NEW n \in LastAnchored(anchors) + Interval .. Len(ledger')
        PROVE  Accounted(n)'
    <2>1. CASE n = Len(ledger) + 1
      <3>1. t \in InFlight'
        BY <1>2, <1>4 DEF InFlight
      <3>. QED  BY <1>2, <2>1, <3>1 DEF Accounted
    <2>2. CASE n # Len(ledger) + 1
      <3>1. n \in LastAnchored(anchors) + Interval .. Len(ledger)
        BY <1>1, <2>2
      <3>2. Accounted(n)
        BY <1>4, <3>1 DEF TailInv
      <3>3. \A u \in InFlight : u \in InFlight' /\ own'[u] = own[u]
        BY <1>2 DEF InFlight
      <3>. QED  BY <1>2, <3>2, <3>3 DEF Accounted
    <2>. QED  BY <2>1, <2>2
  <1>. QED  BY <1>2, <1>3, <1>4 DEF TailInv

LEMMA TailCrash ==
    ASSUME TypeOK, TailInv, NEW p \in Processes, Crash(p)
    PROVE  TailInv'
  <1>. SUFFICES ASSUME losses = 0 PROVE TailInv'
    BY DEF TailInv, Crash
  <1>1. /\ UNCHANGED <<ledger, anchors, own, losses>>
        /\ abandoned' = abandoned \cup {own[t] : t \in {u \in InFlight : ProcessOf[u] = p}}
        /\ \A u \in Threads : /\ ProcessOf[u] = p => pc'[u] = "idle"
                              /\ ProcessOf[u] # p => pc'[u] = pc[u] /\ head'[u] = head[u]
    BY DEF Crash
  <1>2. HeadsSeeOwn'
    BY <1>1 DEF TailInv, HeadsSeeOwn
  <1>3. ASSUME NEW n, Accounted(n)
        PROVE  Accounted(n)'
    <2>1. CASE n \in abandoned
      BY <1>1, <2>1 DEF Accounted
    <2>2. ASSUME NEW t \in InFlight, own[t] = n
          PROVE  Accounted(n)'
      <3>1. CASE ProcessOf[t] = p
        BY <1>1, <2>2, <3>1 DEF Accounted
      <3>2. CASE ProcessOf[t] # p
        <4>1. t \in InFlight' /\ own'[t] = n
          BY <1>1, <2>2, <3>2 DEF InFlight
        <4>. QED  BY <4>1 DEF Accounted
      <3>. QED  BY <3>1, <3>2
    <2>. QED  BY <1>3, <2>1, <2>2 DEF Accounted
  <1>. QED  BY <1>1, <1>2, <1>3 DEF TailInv

(* Anchoring owes an entry its anchor until it leaves one near it, finds   *)
(* one there, or fails.                                                    *)
LEMMA TailAnchoring ==
    ASSUME OneProcess, LossInv, TypeOK', AdvanceInv, TailInv, NEW t \in Threads,
           Anchoring(t)
    PROVE  TailInv'
  <1>. USE DEF LossInv, Typed
  <1>1. /\ LastAnchored(anchors) \in Nat /\ Interval \in Nat /\ Len(ledger) \in Nat
        /\ TypeOK /\ Len(head[t]) \in Nat /\ own[t] \in Nat
        /\ Len(<<>>) = 0
    BY LastAnchoredType, AnchorAssumption, Lengths DEF TypeOK
  <1>2. losses = 0 =>
           /\ own[t] <= Len(ledger)
           /\ pc[t] \in {"counted", "headed", "linked"} => own[t] <= Len(head[t])
    BY DEF TailInv, HeadsSeeOwn
  <1>3. CASE ReadHead(t)
    <2>1. /\ \A u \in Threads : u # t => pc'[u] = pc[u] /\ own'[u] = own[u] /\ head'[u] = head[u]
          /\ UNCHANGED <<ledger, anchors, abandoned, losses, own>>
          /\ pc'[t] = "counted" /\ head'[t] = ledger
      BY <1>3 DEF ReadHead, TypeOK, boundVars
    <2>2. t \in InFlight'
      BY <2>1 DEF InFlight
    <2>. QED  BY <1>1, <1>2, <2>1, <2>2, TailMove
  <1>4. CASE CheckInterval(t)
    <2>1. /\ \A u \in Threads : u # t => pc'[u] = pc[u] /\ own'[u] = own[u] /\ head'[u] = head[u]
          /\ UNCHANGED <<ledger, anchors, abandoned, losses, own>>
          /\ pc[t] = "counted"
          /\ pc'[t] \notin {"counted", "headed", "linked"}
          /\ \/ pc'[t] = "waiting"
             \/ Len(head[t]) - LastAnchored(anchors) < Interval
      BY <1>4 DEF CheckInterval, TypeOK, boundVars
    <2>2. pc'[t] = "waiting" => t \in InFlight'
      BY DEF InFlight
    <2>. QED  BY <1>1, <1>2, <2>1, <2>2, TailMove
  <1>5. CASE TakeLock(t)
    <2>1. /\ \A u \in Threads : u # t => pc'[u] = pc[u] /\ own'[u] = own[u] /\ head'[u] = head[u]
          /\ UNCHANGED <<ledger, anchors, abandoned, losses, own>>
          /\ head'[t] = ledger
          /\ ledger = <<>> \/ pc'[t] = "headed"
      BY <1>5 DEF TakeLock, TypeOK, boundVars
    <2>2. pc'[t] = "headed" => t \in InFlight'
      BY DEF InFlight
    <2>3. ledger = <<>> /\ losses = 0 => own[t] < LastAnchored(anchors) + Interval \/ ~(Interval > 0)
      BY <1>1, <1>2
    <2>. QED  BY <1>1, <1>2, <2>1, <2>2, <2>3, TailMove
  <1>6. CASE ReadLast(t)
    <2>1. /\ \A u \in Threads : u # t => pc'[u] = pc[u] /\ own'[u] = own[u] /\ head'[u] = head[u]
          /\ UNCHANGED <<ledger, anchors, abandoned, losses, own>>
          /\ pc[t] = "headed"
          /\ \/ pc'[t] = "linked" /\ head'[t] = head[t]
             \/ /\ LastAnchored(anchors) = Len(head[t])
                /\ pc'[t] \notin {"counted", "headed", "linked"}
      BY <1>6 DEF ReadLast, Unpublished, TypeOK, boundVars
    <2>2. pc'[t] = "linked" => t \in InFlight'
      BY DEF InFlight
    <2>. QED  BY <1>1, <1>2, <2>1, <2>2, TailMove
  <1>7. CASE Publish(t) \/ PublishFails(t)
    <2>0. PICK next \in {"idle", "logging", "verifying"} : WriteLine(t, next)
      BY <1>1, <1>7, LineWritten
    <2>1. /\ \A u \in Threads : u # t => pc'[u] = pc[u] /\ own'[u] = own[u] /\ head'[u] = head[u]
          /\ UNCHANGED <<ledger, abandoned, losses, own>> /\ pc[t] = "linked"
          /\ pc'[t] \notin {"counted", "headed", "linked"}
      BY <2>0 DEF WriteLine, TypeOK, boundVars
    <2>2. NewAnchor(t) \in Anchor /\ anchors \in Seq(Anchor) /\ Len(anchors) \in Nat
      <3>1. NewAnchor(t) \in Anchor
        BY NewAnchorType DEF LastBelow
      <3>. QED  BY <3>1 DEF TypeOK
    <2>3. Len(anchors') = Len(anchors) + 1 /\ anchors'[Len(anchors')] = NewAnchor(t)
      BY <2>0, <2>2, AppendFacts DEF WriteLine
    <2>4. anchors' # <<>>
      BY <2>2, <2>3
    <2>5. LastAnchored(anchors') = Len(head[t])
      BY <2>3, <2>4 DEF LastAnchored, NewAnchor
    <2>6. losses = 0 => LastAnchored(anchors) <= Len(head[t])
      <3>1. CASE anchors = <<>>
        BY <1>1, <3>1 DEF LastAnchored
      <3>2. CASE anchors # <<>>
        <4>1. Len(anchors) \in 1..Len(anchors)
          BY <2>2, <3>2
        <4>2. LastAnchored(anchors) = anchors[Len(anchors)].audit_seq
          BY <3>2 DEF LastAnchored
        <4>. QED  BY <1>1, <2>1, <4>1, <4>2 DEF AdvanceInv, HeadsAhead
      <3>. QED  BY <3>1, <3>2
    <2>7. losses = 0 /\ Interval > 0 => own[t] < LastAnchored(anchors') + Interval
      BY <1>1, <1>2, <2>1, <2>5
    <2>. QED  BY <1>1, <1>2, <2>1, <2>5, <2>6, <2>7, TailMove
  <1>8. CASE AnchoringFails(t)
    <2>1. /\ \A u \in Threads : u # t => pc'[u] = pc[u] /\ own'[u] = own[u] /\ head'[u] = head[u]
          /\ UNCHANGED <<ledger, anchors, losses, own>>
          /\ own[t] \in abandoned' /\ abandoned \subseteq abandoned'
          /\ pc'[t] \notin {"counted", "headed", "linked"}
      BY <1>1, <1>8, FailsTo DEF AnchoringFails
    <2>. QED  BY <1>1, <1>2, <2>1, TailMove
  <1>. QED  BY <1>3, <1>4, <1>5, <1>6, <1>7, <1>8 DEF Anchoring

LEMMA TailStep ==
    OneProcess /\ LossInv /\ AdvanceInv /\ TailInv /\ [Next]_vars => TailInv'
  <1>. SUFFICES ASSUME OneProcess, LossInv, AdvanceInv, TailInv, [Next]_vars
                PROVE  TailInv'
    OBVIOUS
  <1>t. TypeOK /\ TypeOK'
    BY LossStep DEF LossInv, Typed
  <1>0. ASSUME UNCHANGED <<ledger, anchors, losses, pc, head, own, abandoned>>
        PROVE  TailInv'
    BY <1>0 DEF TailInv, HeadsSeeOwn, Accounted, InFlight
  <1>1. ASSUME NEW t \in Threads, Step(t)
        PROVE  TailInv'
    <2>1. CASE RecordEvent(t) \/ OpenVerifyPage(t) \/ LogAnchored(t)
      BY <1>t, <2>1, TailAppend DEF RecordEvent, OpenVerifyPage, LogAnchored, InFlight
    <2>2. CASE Anchoring(t)
      BY <1>t, <2>2, TailAnchoring
    <2>3. CASE PressAnchor(t) \/ RunAnchorAudit(t) \/ Verifying(t)
      <3>1. /\ UNCHANGED <<ledger, anchors, abandoned, losses>>
            /\ \A u \in Threads : u # t => /\ pc'[u] = pc[u] /\ own'[u] = own[u]
                                           /\ head'[u] = head[u]
            /\ pc[t] \in {"idle", "verifying", "compared"}
            /\ pc'[t] \notin {"counted", "headed", "linked"}
            /\ own'[t] = own[t] \/ own'[t] = 0
        BY <1>t, <2>3 DEF PressAnchor, RunAnchorAudit, Verifying, RunVerifyAudit, VerifyHead,
                          VerifyAnchors, TypeOK, boundVars
      <3>2. t \notin InFlight
        BY <3>1 DEF InFlight
      <3>3. /\ LastAnchored(anchors) = LastAnchored(anchors')
            /\ LastAnchored(anchors) \in Nat /\ Len(ledger) \in Nat
        BY <1>t, <3>1, LastAnchoredType, Lengths
      <3>4. losses = 0 => own'[t] <= Len(ledger)
        BY <3>1, <3>3 DEF TailInv, HeadsSeeOwn
      <3>. QED  BY <1>t, <3>1, <3>2, <3>3, <3>4, TailMove
    <2>. QED  BY <1>1, <2>1, <2>2, <2>3 DEF Step
  <1>2. CASE UNCHANGED vars
    BY <1>0, <1>2 DEF vars, threadVars, boundVars
  <1>3. ASSUME NEW a \in sent, Deliver(a) \/ LoseSubmission(a)
        PROVE  TailInv'
    BY <1>0, <1>3 DEF Deliver, LoseSubmission, threadVars, boundVars
  <1>4. CASE Sync
    BY <1>0, <1>4 DEF Sync, threadVars, boundVars
  <1>5. ASSUME NEW p \in Processes, Crash(p)
        PROVE  TailInv'
    BY <1>t, <1>5, TailCrash
  <1>6. CASE PowerLoss
    BY <1>t, <1>6 DEF PowerLoss, TailInv, TypeOK
  <1>. QED  BY <1>1, <1>2, <1>3, <1>4, <1>5, <1>6 DEF Next

(* With one process, any number of threads, crashes and failed attempts to  *)
(* anchor, the anchors follow the head: each is further on than the one     *)
(* before (create_anchor's comparison with the last anchor, made under      *)
(* _lock), and an entry an interval or more beyond the last one is one      *)
(* whose own thread has yet to check, or died or failed to anchor           *)
(* (maybe_anchor, which goes on after a failure).                           *)
THEOREM AnchorsFollow == Spec => []AnchorsFollowHead
  <1>1. CASE OneProcess
    <2>1. LossInv /\ ChainInv /\ AdvanceInv /\ TailInv /\ [Next]_vars
            => (LossInv /\ ChainInv /\ AdvanceInv /\ TailInv)'
      BY <1>1, LossStep, ChainStep, AdvanceStep, TailStep
    <2>2. Init => LossInv /\ ChainInv /\ AdvanceInv /\ TailInv
      BY LossInit, ChainInit, AdvanceInit, TailInit
    <2>3. AdvanceInv => AnchorsAdvance
      BY DEF AdvanceInv, Advancing, AnchorsAdvance
    <2>4. TailInv => TailAccounted
      BY DEF TailInv, TailAccounted, Accounted
    <2>. QED  BY <2>1, <2>2, <2>3, <2>4, PTL DEF Spec, AnchorsFollowHead
  <1>2. CASE ~OneProcess
    <2>1. TypeOK => AnchorsFollowHead
      BY <1>2 DEF AnchorsFollowHead, AnchorsAdvance, TailAccounted
    <2>. QED  BY <2>1, TypeCorrect, PTL
  <1>. QED  BY <1>1, <1>2

(* What a thread compares with the anchors is the beginning of the ledger. *)
LEMMA QuietVerdict ==
    ASSUME LossInv, ChainInv, AdvanceInv, losses = 0, NEW t \in Threads,
           VerifyAnchors(t), LastAnchored(anchors) <= Len(head[t])
    PROVE  verdict' \in {"ok", "no_anchors"}
  <1>. USE DEF LossInv, Typed
  <1>1. Linked(anchors) /\ Advancing /\ removed = {} /\ TypeOK
    BY DEF ChainInv, AdvanceInv, VerdictSound
  <1>2. Begins(head[t], ledger)
    BY DEF VerifyAnchors, HeadsBegin
  <1>3. ASSUME NEW i \in 1..Len(anchors)
        PROVE  /\ anchors[i].audit_seq <= Len(head[t])
               /\ HashAt(head[t], anchors[i].audit_seq) = anchors[i].audit_hash
    <2>1. anchors[i].audit_seq <= LastAnchored(anchors)
      BY <1>1, LastIsFurthest
    <2>2. /\ anchors[i].audit_seq \in Nat /\ anchors[i].audit_hash \in Seq(Nat)
          /\ head[t] \in Seq(Nat) /\ Len(head[t]) \in Nat
      BY <1>1, Lengths
    <2>3. anchors # <<>> /\ Len(anchors) \in 1..Len(anchors)
      BY <1>1 DEF TypeOK
    <2>4. LastAnchored(anchors) \in Nat
      BY <1>1, <2>3, Lengths DEF LastAnchored
    <2>5. anchors[i].audit_seq <= Len(head[t])
      BY <2>1, <2>2, <2>4
    <2>6. Begins(anchors[i].audit_hash, ledger)
          /\ Len(anchors[i].audit_hash) = anchors[i].audit_seq
      BY <1>1 DEF AnchorsCovered, AnchorLengths
    <2>7. Begins(anchors[i].audit_hash, head[t])
      BY <1>2, <2>2, <2>5, <2>6 DEF Begins
    <2>. QED  BY <2>2, <2>5, <2>6, <2>7, SameSequence
  <1>4. ~(\E i \in 1..Len(anchors) : anchors[i].audit_seq > Len(head[t]))
    <2>1. \A i \in 1..Len(anchors) : anchors[i].audit_seq \in Nat /\ Len(head[t]) \in Nat
      BY <1>1, Lengths
    <2>. QED  BY <1>3, <2>1
  <1>5. VerdictOf(anchors, head[t]) \in {"ok", "no_anchors"}
    BY <1>1, <1>3, <1>4 DEF VerdictOf
  <1>. QED  BY <1>5 DEF VerifyAnchors

(* What IntactLedgerVerifies says of a step. *)
QuietStep ==
    \A t \in Threads :
        /\ OneProcess /\ losses = 0
        /\ VerifyAnchors(t) /\ LastAnchored(anchors) <= Len(head[t])
        => verdict' \in {"ok", "no_anchors"}

(* With one process a verification that overlaps appends, anchors and       *)
(* crashes accepts the intact ledger, unless the last anchor is beyond the  *)
(* head it read (verify_anchors beside create_anchor).                      *)
THEOREM NoFalseAlarm == Spec => IntactLedgerVerifies
  <1>1. CASE OneProcess
    <2>1. LossInv /\ ChainInv /\ AdvanceInv /\ [Next]_vars => [QuietStep]_vars
      BY QuietVerdict DEF QuietStep
    <2>2. Spec => [](LossInv /\ ChainInv /\ AdvanceInv)
      BY <1>1, AdvanceHolds
    <2>3. Spec => [][QuietStep]_vars
      BY <2>1, <2>2, PTL DEF Spec
    <2>. QED  BY <2>3 DEF IntactLedgerVerifies, QuietStep
  <1>2. CASE ~OneProcess
    <2>1. [Next]_vars => [QuietStep]_vars
      BY <1>2 DEF QuietStep
    <2>2. Spec => [][QuietStep]_vars
      BY <2>1, PTL DEF Spec
    <2>. QED  BY <2>2 DEF IntactLedgerVerifies, QuietStep
  <1>. QED  BY <1>1, <1>2
===============================================================================
