------------------------- MODULE CustodianSearchProofs -------------------------
(***************************************************************************)
(* Theorems about CustodianSearch, for every set of searches and           *)
(* approvals, every cap, every registry history and every choice of times; *)
(* the last of them, that it implements the bounded-use capability.        *)
(***************************************************************************)
EXTENDS SearchCapability, TLAPS

(***************************************************************************)
(* Types.  A call carries what its search holds, a search waits for at     *)
(* most one, and a handler lives only while its custodian does.            *)
(***************************************************************************)

CallCarriesSearch ==
    \A s \in Searches : call[s] # "none" =>
        /\ request[s] \in Request
        /\ request[s].approval = approval[s]
        /\ request[s].proof = proof[s]
        /\ request[s].stated = stated[s]
        /\ request[s].row = row[s] + 1

CallIsAwaited ==
    \A s \in Searches : /\ call[s] # "none" => pc[s] \in {"waiting", "error", "lost"}
                        /\ call[s] \in Working => up

RowsInScope ==
    \A s \in Searches :
        /\ row[s] <= Rows[approval[s]]
        /\ call[s] # "none" => row[s] < Rows[approval[s]]
        /\ pc[s] \in {"counting", "reading", "auditing", "shown"}
             => row[s] = Rows[approval[s]]

ProofIsForPresence ==
    \A s \in Searches : proof[s] # NoProof => approval[s] \in Presence

TypeInv ==
    /\ TypeOK
    /\ now <= MaxTime
    /\ CallCarriesSearch
    /\ CallIsAwaited
    /\ RowsInScope
    /\ ProofIsForPresence

LEMMA TypeInit == Init => TypeInv
BY SearchAssumption, CustodianAssumption
DEF Init, StoreInit, CustodianInit, TypeInv, TypeOK, StoreTypeOK, CustodianTypeOK,
    CallCarriesSearch, CallIsAwaited, RowsInScope, ProofIsForPresence,
    Searches, Live, Ended, Working

LEMMA TypeStep == TypeInv /\ [Next]_vars => TypeInv'
<1> SUFFICES ASSUME TypeInv, [Next]_vars PROVE TypeInv'
  OBVIOUS
<1> USE DEF TypeInv, TypeOK, StoreTypeOK, CustodianTypeOK, CallCarriesSearch,
            CallIsAwaited, RowsInScope, ProofIsForPresence, Searches, Live, Ended,
            Working, Answers, Goto
<1>1. ASSUME NEW s \in Searches, Evaluate(s) PROVE TypeInv'
  BY <1>1 DEF Evaluate, custodianVars
<1>2. ASSUME NEW s \in Searches, Connect(s) PROVE TypeInv'
  BY <1>2 DEF Connect, custodianVars
<1>3. ASSUME NEW s \in Searches, Token(s) PROVE TypeInv'
  BY <1>3 DEF Token, custodianVars
<1>4. ASSUME NEW s \in Searches, Prove(s) PROVE TypeInv'
  <2>1. <<s, now>> \in Proofs
    BY ProofsAssumption
  <2>2. QED BY <1>4, <2>1, NoProofAssumption DEF Prove, custodianVars
<1>5. ASSUME NEW s \in Searches, Verify(s) PROVE TypeInv'
  BY <1>5 DEF Verify, custodianVars
<1>6. ASSUME NEW s \in Searches, Retoken(s) PROVE TypeInv'
  BY <1>6 DEF Retoken, custodianVars
<1>7. ASSUME NEW s \in Searches, SendOpen(s) PROVE TypeInv'
  <2>1. row[s] + 1 \in 1 .. MaxRows
    BY <1>7, SearchAssumption, CustodianAssumption DEF SendOpen
  <2>2. request'[s] \in Request
    BY <1>7, <2>1 DEF SendOpen, Request
  <2>3. QED BY <1>7, <2>2 DEF SendOpen
<1>8. ASSUME NEW s \in Searches, AllOpened(s) PROVE TypeInv'
  BY <1>8 DEF AllOpened, custodianVars
<1>9. ASSUME NEW s \in Searches, Receive(s) PROVE TypeInv'
  <2>1. CASE call[s] = "200" /\ row' = [row EXCEPT ![s] = @ + 1] /\ Goto(s, "opening")
    <3>1. Rows[approval[s]] \in 0 .. MaxRows /\ row[s] < Rows[approval[s]]
      BY <2>1, SearchAssumption
    <3>2. row[s] + 1 \in 0 .. MaxRows /\ row[s] + 1 <= Rows[approval[s]]
      BY <3>1, CustodianAssumption
    <3>3. QED BY <1>9, <2>1, <3>2 DEF Receive
  <2>2. CASE UNCHANGED row /\ Goto(s, "error")
    BY <1>9, <2>2 DEF Receive
  <2>3. QED BY <1>9, <2>1, <2>2 DEF Receive
<1>10. ASSUME NEW s \in Searches, Timeout(s) PROVE TypeInv'
  BY <1>10 DEF Timeout, custodianVars
<1>11. ASSUME NEW s \in Searches, CountUse(s) PROVE TypeInv'
  BY <1>11 DEF CountUse, custodianVars
<1>12. ASSUME NEW s \in Searches, ReadCount(s) PROVE TypeInv'
  BY <1>12 DEF ReadCount, custodianVars
<1>13. ASSUME NEW s \in Searches, Audit(s) PROVE TypeInv'
  BY <1>13 DEF Audit, custodianVars
<1>14. ASSUME NEW s \in Searches, CheckOpen(s), UNCHANGED searchVars PROVE TypeInv'
  BY <1>14 DEF CheckOpen, searchVars
<1>15. ASSUME NEW s \in Searches, SpendOpen(s), UNCHANGED searchVars PROVE TypeInv'
  <2> DEFINE a == request[s].approval
             p == ProofSpent(s)
  <2>1. a \in Approvals /\ p \in Proofs \cup {NoProof}
    BY <1>15 DEF SpendOpen, ProofSpent, Request
  <2>2. Unexpired \subseteq Proofs
    BY DEF Unexpired
  <2>3. CASE ClaimGranted(a, p) /\ call' = [call EXCEPT ![s] = "claimed"]
                                /\ use' = [use EXCEPT ![s] = usage[a] + 1]
    BY <1>15, <2>1, <2>2, <2>3 DEF SpendOpen, ClaimGranted, searchVars
  <2>4. CASE /\ ClaimReplayed(p) \/ ClaimRefused(a, p)
             /\ call' = [call EXCEPT ![s] = "refused"]
             /\ UNCHANGED use
    BY <1>15, <2>2, <2>4 DEF SpendOpen, ClaimReplayed, ClaimRefused, storeVars, searchVars
  <2>5. QED BY <1>15, <2>3, <2>4 DEF SpendOpen
<1>16. ASSUME NEW s \in Searches, Agree(s), UNCHANGED searchVars PROVE TypeInv'
  BY <1>16 DEF Agree, searchVars
<1>17. ASSUME NEW s \in Searches, RecordOpen(s), UNCHANGED searchVars PROVE TypeInv'
  <2>1. request[s].row \in 1 .. MaxRows
    BY <1>17 DEF RecordOpen, Request
  <2>2. opened' \subseteq Decision
    BY <1>17, <2>1 DEF RecordOpen, Decided, Decision
  <2>3. QED BY <1>17, <2>2 DEF RecordOpen, searchVars
<1>18. CASE CustodianCrash /\ UNCHANGED searchVars
  BY <1>18 DEF CustodianCrash, searchVars
<1>19. CASE CustodianStart /\ UNCHANGED searchVars
  BY <1>19, CustodianAssumption DEF CustodianStart, PurgeExpired, Unexpired, searchVars
<1>20. CASE Tick
  BY <1>20, SearchAssumption DEF Tick, custodianVars, searchVars
<1>21. CASE ApplicationCrash
  BY <1>21 DEF ApplicationCrash, custodianVars
<1>22. CASE UNCHANGED vars
  BY <1>22 DEF vars, custodianVars, searchVars
<1>23. QED
  BY <1>1, <1>2, <1>3, <1>4, <1>5, <1>6, <1>7, <1>8, <1>9, <1>10, <1>11, <1>12,
     <1>13, <1>14, <1>15, <1>16, <1>17, <1>18, <1>19, <1>20, <1>21, <1>22
  DEF Next, Step, ServeOpen

LEMMA TypeInvariant == Spec => []TypeInv
BY TypeInit, TypeStep, PTL DEF Spec

-------------------------------------------------------------------------------
(***************************************************************************)
(* The openings.  What the ledger says was opened for a search is what it  *)
(* has received, and at most one more that is on its way.                  *)
(***************************************************************************)

\* Between the handler's checks and its entry.
Checked == {"checked", "claimed", "agreed"}

Unasked == {"idle", "connecting", "tokening", "proving", "verifying",
            "retokening", "denying", "denied"}

UnaskedOpensNothing ==
    \A s \in Searches : pc[s] \in Unasked => GrantedTo(s) = {} /\ row[s] = 0

ReceivedIsOpened ==
    \A s \in Searches :
        /\ \A n \in 1 .. row[s] : \E d \in GrantedTo(s) : d.row = n
        /\ call[s] = "200" => \E d \in GrantedTo(s) : d.row = row[s] + 1

OpenedIsReceived ==
    \A s \in Searches : \A d \in GrantedTo(s) :
        d.row \in 1 .. row[s] \/ (call[s] = "200" /\ d.row = row[s] + 1)

CheckedUnderHeld ==
    \A s \in Searches : call[s] \in Checked =>
        held = stated[s] /\ approval[s] \notin Revoked[held]

ShownIsAudited == \A s \in Searches : pc[s] = "shown" => audited[s] = "disclosure"

OpeningInv ==
    /\ TypeInv
    /\ UnaskedOpensNothing
    /\ ReceivedIsOpened
    /\ OpenedIsReceived
    /\ CheckedUnderHeld
    /\ ShownIsAudited
    /\ OnePolicyPerSearch

\* The entry by which the handler of a search opens a record.
NewEntry(s) == [call |-> s, row |-> request[s].row, use |-> use[s], held |-> held,
                event |-> "open_granted"]

Opens(s) ==
    /\ up
    /\ call[s] = "agreed"
    /\ call' = [call EXCEPT ![s] = "200"]
    /\ GrantedTo(s)' = GrantedTo(s) \cup {NewEntry(s)}
    /\ \A t \in Searches : t # s => GrantedTo(t)' = GrantedTo(t)
    /\ UNCHANGED <<now, usage, spent, up, held, request, use, searchVars>>

OpensNothing == \A s \in Searches : GrantedTo(s)' = GrantedTo(s)

LEMMA RecordSteps ==
    ASSUME NEW s \in Searches, RecordOpen(s), UNCHANGED searchVars
    PROVE  (OpensNothing /\ call[s] # "agreed") \/ Opens(s)
<1>1. CASE call[s] = "agreed" /\ Decided(s, "open_granted", use[s])
           /\ call' = [call EXCEPT ![s] = "200"]
  BY <1>1 DEF RecordOpen, Opens, Decided, GrantedTo, NewEntry
<1>2. CASE /\ call[s] # "agreed"
           /\ Decided(s, "open_refused", 0) \/ Decided(s, "agreement_unavailable", 0)
  BY <1>2 DEF OpensNothing, Decided, GrantedTo
<1>3. QED BY <1>1, <1>2 DEF RecordOpen

LEMMA OtherStepsOpenNothing ==
    ASSUME UNCHANGED opened
    PROVE  OpensNothing
BY DEF OpensNothing, GrantedTo

LEMMA OpeningInit == Init => OpeningInv
<1> SUFFICES ASSUME Init PROVE OpeningInv
  OBVIOUS
<1>1. TypeInv
  BY TypeInit
<1>2. \A s \in Searches : GrantedTo(s) = {} /\ row[s] = 0 /\ call[s] = "none"
  BY DEF Init, CustodianInit, GrantedTo, Searches
<1>3. QED
  BY <1>1, <1>2
  DEF Init, OpeningInv, UnaskedOpensNothing, ReceivedIsOpened, OpenedIsReceived,
      CheckedUnderHeld, Checked, ShownIsAudited, OnePolicyPerSearch

\* A reply read, and a record opened, keep the ledger and the searches in step.
LEMMA ReceivedStep ==
    ASSUME OpeningInv, NEW s \in Searches, OpensNothing,
           call[s] = "200", call'[s] = "none", row'[s] = row[s] + 1,
           \A t \in Searches : t # s => row'[t] = row[t] /\ call'[t] = call[t]
    PROVE  ReceivedIsOpened' /\ OpenedIsReceived'
<1>1. row[s] \in Nat
  BY DEF OpeningInv, TypeInv, TypeOK
<1>2. \A n : n \in 1 .. (row[s] + 1) <=> n \in 1 .. row[s] \/ n = row[s] + 1
  BY <1>1
<1>3. ReceivedIsOpened /\ OpenedIsReceived
  BY DEF OpeningInv
<1>4. ReceivedIsOpened'
  <2> SUFFICES ASSUME NEW t \in Searches
               PROVE  /\ \A n \in 1 .. row'[t] : \E d \in GrantedTo(t) : d.row = n
                      /\ call'[t] = "200" => \E d \in GrantedTo(t) : d.row = row'[t] + 1
    BY DEF ReceivedIsOpened, OpensNothing
  <2>1. CASE t = s
    BY <1>2, <1>3, <2>1 DEF ReceivedIsOpened
  <2>2. CASE t # s
    BY <1>3, <2>2 DEF ReceivedIsOpened
  <2>3. QED BY <2>1, <2>2
<1>5. OpenedIsReceived'
  <2> SUFFICES ASSUME NEW t \in Searches, NEW d \in GrantedTo(t)
               PROVE  d.row \in 1 .. row'[t] \/ (call'[t] = "200" /\ d.row = row'[t] + 1)
    BY DEF OpenedIsReceived, OpensNothing
  <2>1. CASE t = s
    BY <1>2, <1>3, <2>1 DEF OpenedIsReceived
  <2>2. CASE t # s
    BY <1>3, <2>2 DEF OpenedIsReceived
  <2>3. QED BY <2>1, <2>2
<1>6. QED BY <1>4, <1>5

LEMMA OpensStep ==
    ASSUME OpeningInv, NEW s \in Searches, Opens(s)
    PROVE  ReceivedIsOpened' /\ OpenedIsReceived' /\ OnePolicyPerSearch'
                             /\ UnaskedOpensNothing'
<1>1. /\ UNCHANGED <<held, row, pc, stated, approval>>
      /\ call'[s] = "200" /\ \A t \in Searches : t # s => call'[t] = call[t]
      /\ GrantedTo(s)' = GrantedTo(s) \cup {NewEntry(s)}
      /\ \A t \in Searches : t # s => GrantedTo(t)' = GrantedTo(t)
  BY DEF Opens, searchVars, OpeningInv, TypeInv, TypeOK, CustodianTypeOK, Searches
<1>2. /\ NewEntry(s).row = row[s] + 1 /\ NewEntry(s).held = held
      /\ pc[s] \notin Unasked
      /\ held = stated[s] /\ approval[s] \notin Revoked[held]
  BY DEF Opens, NewEntry, OpeningInv, TypeInv, CallCarriesSearch, CallIsAwaited,
         CheckedUnderHeld, Checked, Unasked
<1>3. ReceivedIsOpened'
  BY <1>1, <1>2 DEF OpeningInv, ReceivedIsOpened
<1>4. OpenedIsReceived'
  BY <1>1, <1>2 DEF OpeningInv, OpenedIsReceived, Opens
<1>5. OnePolicyPerSearch'
  BY <1>1, <1>2 DEF OpeningInv, OnePolicyPerSearch
<1>6. UnaskedOpensNothing'
  BY <1>1, <1>2 DEF OpeningInv, UnaskedOpensNothing
<1>7. QED BY <1>3, <1>4, <1>5, <1>6

LEMMA OpeningStep == OpeningInv /\ [Next]_vars => OpeningInv'
<1> SUFFICES ASSUME OpeningInv, [Next]_vars PROVE OpeningInv'
  OBVIOUS
<1>0. TypeInv'
  BY TypeStep DEF OpeningInv
<1>r. ASSUME NEW s \in Searches, Receive(s), call[s] = "200", Goto(s, "opening"),
             row' = [row EXCEPT ![s] = @ + 1]
      PROVE  ReceivedIsOpened' /\ OpenedIsReceived'
  <2>1. /\ call'[s] = "none" /\ row'[s] = row[s] + 1 /\ UNCHANGED opened
        /\ \A t \in Searches : t # s => row'[t] = row[t] /\ call'[t] = call[t]
    BY <1>r DEF Receive, OpeningInv, TypeInv, TypeOK, CustodianTypeOK, Searches
  <2>2. QED BY <1>r, <2>1, ReceivedStep, OtherStepsOpenNothing
<1> USE <1>0 DEF OpeningInv, TypeInv, TypeOK, StoreTypeOK, CustodianTypeOK,
            CallCarriesSearch, CallIsAwaited, UnaskedOpensNothing, ReceivedIsOpened,
            OpenedIsReceived, CheckedUnderHeld, Checked, ShownIsAudited,
            OnePolicyPerSearch, Searches, Unasked, Goto
<1>1. ASSUME OpensNothing, UNCHANGED <<call, row, held, stated, approval>>,
             \A s \in Searches :
                 /\ pc'[s] \in Unasked => pc[s] \in Unasked
                 /\ pc'[s] = "shown" => pc[s] = "shown" \/ audited'[s] = "disclosure"
                 /\ pc[s] = "shown" => audited'[s] = audited[s]
      PROVE  OpeningInv'
  BY <1>1 DEF OpensNothing
<1>2. ASSUME NEW s \in Searches,
             \/ Evaluate(s) \/ Token(s) \/ Prove(s) \/ Verify(s) \/ Retoken(s)
             \/ AllOpened(s) \/ Timeout(s) \/ CountUse(s) \/ ReadCount(s) \/ Audit(s)
      PROVE  OpeningInv'
  <2>1. OpensNothing /\ UNCHANGED <<call, row, held, stated, approval>>
    BY <1>2, OtherStepsOpenNothing
    DEF Evaluate, Token, Prove, Verify, Retoken, AllOpened, Timeout, CountUse,
        ReadCount, Audit, custodianVars
  <2>2. \A t \in Searches :
            /\ pc'[t] \in Unasked => pc[t] \in Unasked
            /\ pc'[t] = "shown" => pc[t] = "shown" \/ audited'[t] = "disclosure"
            /\ pc[t] = "shown" => audited'[t] = audited[t]
    BY <1>2
    DEF Evaluate, Token, Prove, Verify, Retoken, AllOpened, Timeout, CountUse,
        ReadCount, Audit
  <2>3. QED BY <1>1, <2>1, <2>2
<1>3. ASSUME NEW s \in Searches, Connect(s) PROVE OpeningInv'
  <2>1. OpensNothing
    BY <1>3, OtherStepsOpenNothing DEF Connect, custodianVars
  <2>2. GrantedTo(s) = {} /\ call[s] = "none"
    BY <1>3 DEF Connect
  <2>3. QED BY <1>3, <2>1, <2>2 DEF Connect, custodianVars, OpensNothing
<1>4. ASSUME NEW s \in Searches, SendOpen(s) PROVE OpeningInv'
  <2>1. OpensNothing
    BY <1>4, OtherStepsOpenNothing DEF SendOpen
  <2>2. call[s] = "none"
    BY <1>4 DEF SendOpen
  <2>3. QED BY <1>4, <2>1, <2>2 DEF SendOpen, OpensNothing
<1>5. ASSUME NEW s \in Searches, Receive(s) PROVE OpeningInv'
  <2>1. OpensNothing
    BY <1>5, OtherStepsOpenNothing DEF Receive
  <2>2. CASE call[s] = "200" /\ row' = [row EXCEPT ![s] = @ + 1] /\ Goto(s, "opening")
    <3>1. ReceivedIsOpened' /\ OpenedIsReceived'
      BY <1>5, <1>r, <2>2
    <3>2. UnaskedOpensNothing' /\ CheckedUnderHeld' /\ ShownIsAudited' /\ OnePolicyPerSearch'
      BY <1>5, <2>1, <2>2 DEF Receive, OpensNothing
    <3>3. QED BY <3>1, <3>2
  <2>3. CASE call[s] # "200" /\ UNCHANGED row /\ Goto(s, "error")
    BY <1>5, <2>1, <2>3 DEF Receive, OpensNothing
  <2>4. QED BY <1>5, <2>2, <2>3 DEF Receive
<1>6. ASSUME NEW s \in Searches, CheckOpen(s), UNCHANGED searchVars PROVE OpeningInv'
  <2>1. OpensNothing
    BY <1>6, OtherStepsOpenNothing DEF CheckOpen
  <2>2. QED
    BY <1>6, <2>1 DEF CheckOpen, searchVars, OpensNothing, SameRegistry, ApprovalStands
<1>7. ASSUME NEW s \in Searches, SpendOpen(s) \/ Agree(s), UNCHANGED searchVars
      PROVE  OpeningInv'
  <2>1. OpensNothing
    BY <1>7, OtherStepsOpenNothing DEF SpendOpen, Agree
  <2>2. \A t \in Searches : /\ call'[t] \in Checked => call[t] \in Checked
                            /\ call'[t] = "200" <=> call[t] = "200"
    BY <1>7 DEF SpendOpen, Agree
  <2>3. QED BY <1>7, <2>1, <2>2 DEF SpendOpen, Agree, searchVars, OpensNothing
<1>8. ASSUME NEW s \in Searches, RecordOpen(s), UNCHANGED searchVars PROVE OpeningInv'
  <2>1. CASE OpensNothing /\ call[s] # "agreed"
    BY <1>8, <2>1 DEF RecordOpen, searchVars, OpensNothing
  <2>2. CASE Opens(s)
    <3>1. ReceivedIsOpened' /\ OpenedIsReceived' /\ OnePolicyPerSearch'
                            /\ UnaskedOpensNothing'
      BY <2>2, OpensStep
    <3>2. CheckedUnderHeld' /\ ShownIsAudited'
      BY <2>2 DEF Opens, searchVars
    <3>3. QED BY <3>1, <3>2
  <2>3. QED BY <1>8, <2>1, <2>2, RecordSteps
<1>9. CASE CustodianCrash /\ UNCHANGED searchVars
  BY <1>9, OtherStepsOpenNothing DEF CustodianCrash, searchVars, OpensNothing, Working
<1>10. CASE CustodianStart /\ UNCHANGED searchVars
  BY <1>10, OtherStepsOpenNothing DEF CustodianStart, searchVars, OpensNothing, Working
<1>11. CASE Tick
  BY <1>11, OtherStepsOpenNothing DEF Tick, custodianVars, searchVars, OpensNothing
<1>12. CASE ApplicationCrash
  BY <1>12, OtherStepsOpenNothing
  DEF ApplicationCrash, custodianVars, OpensNothing, Live
<1>13. CASE UNCHANGED vars
  BY <1>13, OtherStepsOpenNothing DEF vars, custodianVars, searchVars, OpensNothing
<1>14. QED
  BY <1>2, <1>3, <1>4, <1>5, <1>6, <1>7, <1>8, <1>9, <1>10, <1>11, <1>12, <1>13
  DEF Next, Step, ServeOpen

LEMMA OpeningInvariant == Spec => []OpeningInv
BY OpeningInit, OpeningStep, PTL DEF Spec

\* Every record shown has its two entries, whatever times out or dies between
\* an opening, its reply and the page.
THEOREM EveryShownRecordIsAccounted == Spec => []ShownIsAccounted
<1>1. OpeningInv => ShownIsAccounted
  BY DEF OpeningInv, ReceivedIsOpened, ShownIsAudited, ShownIsAccounted
<1>2. QED BY <1>1, OpeningInvariant, PTL

\* The registry a search was given when it connected is the one each of its
\* records was opened under, across every restart in between.
THEOREM OnePolicyHolds == Spec => []OnePolicyPerSearch
<1>1. OpeningInv => OnePolicyPerSearch
  BY DEF OpeningInv
<1>2. QED BY <1>1, OpeningInvariant, PTL

\* A denial has opened nothing and a counted search has opened its scope.
THEOREM AllOrNothingHolds == Spec => []AllOrNothing
<1>1. ASSUME OpeningInv PROVE CountFollowsOpening
  <2> SUFFICES ASSUME NEW s \in Searches,
                      pc[s] \in {"counting", "reading", "auditing", "shown"}
               PROVE  {d.row : d \in GrantedTo(s)} = 1 .. Rows[approval[s]]
    BY DEF CountFollowsOpening
  <2>1. row[s] = Rows[approval[s]] /\ call[s] = "none"
    BY <1>1 DEF OpeningInv, TypeInv, RowsInScope, CallIsAwaited
  <2>2. \A d \in GrantedTo(s) : d.row \in 1 .. row[s]
    BY <1>1, <2>1 DEF OpeningInv, OpenedIsReceived
  <2>3. \A n \in 1 .. row[s] : \E d \in GrantedTo(s) : d.row = n
    BY <1>1 DEF OpeningInv, ReceivedIsOpened
  <2>4. QED BY <2>1, <2>2, <2>3
<1>2. OpeningInv => TypeOK /\ DenialOpensNothing
  BY DEF OpeningInv, TypeInv, UnaskedOpensNothing, Unasked, DenialOpensNothing
<1>3. OpeningInv => AllOrNothing
  BY <1>1, <1>2 DEF AllOrNothing
<1>4. QED BY <1>3, OpeningInvariant, PTL

-------------------------------------------------------------------------------
(***************************************************************************)
(* The price.  A row counts the use of every opening for as long as it     *)
(* exists; once purged its approval has expired and no handler that        *)
(* checked it is left.  A confirmation that paid is spent until it expires.*)
(***************************************************************************)

Paid == {"claimed", "agreed"}

RowCountsUses ==
    \A s \in Searches : \A d \in GrantedTo(s) :
        \/ usage[approval[s]] > 0 /\ d.use <= usage[approval[s]]
        \/ usage[approval[s]] = 0 /\ now > Expiry[approval[s]]

PaidCountsUse ==
    \A s \in Searches : call[s] \in Paid => use[s] \in 1 .. usage[approval[s]]

CheckedSeesRow ==
    \A s, t \in Searches :
        call[s] = "checked" /\ approval[s] = approval[t] /\ GrantedTo(t) # {}
            => usage[approval[s]] > 0

RowWithinCap == Limit > 0 => \A a \in Approvals : usage[a] <= Limit

PaidUsesDistinct ==
    \A s, t \in Searches : call[s] \in Paid /\ approval[s] = approval[t] =>
        /\ \A d \in GrantedTo(t) : use[s] # d.use
        /\ s # t /\ call[t] \in Paid => use[s] # use[t]

CountInv ==
    /\ OpeningInv
    /\ RowCountsUses
    /\ PaidCountsUse
    /\ CheckedSeesRow
    /\ RowWithinCap
    /\ PaidUsesDistinct
    /\ OpeningsCounted

ProofSpentOrOver ==
    \A s \in Searches :
        proof[s] # NoProof /\ (call[s] \in Paid \/ GrantedTo(s) # {})
            => proof[s] \in spent \/ now > ProofExpires[proof[s]]

SecondPaymentIsLate ==
    \A s \in Searches :
        proof[s] # NoProof /\ call[s] \in Paid /\ GrantedTo(s) # {}
            => now > ProofExpires[proof[s]]

PaymentInv ==
    /\ CountInv
    /\ ProofSpentOrOver
    /\ SecondPaymentIsLate
    /\ ProofOpensOneRecord
\* The steps that neither check, nor pay, nor open, nor purge.
NoPayment ==
    /\ OpensNothing
    /\ now <= now'
    /\ UNCHANGED <<usage, use, approval>>
    /\ spent' \in {spent, Unexpired}
    /\ \A s \in Searches :
          /\ call'[s] = "checked" => call[s] = "checked"
          /\ call'[s] \in Paid => call[s] \in Paid
          /\ proof'[s] = proof[s] \/ (GrantedTo(s) = {} /\ call'[s] \notin Checked)

Checks(s) ==
    /\ call' = [call EXCEPT ![s] = "checked"]
    /\ call[s] = "sent"
    /\ now <= Expiry[approval[s]]
    /\ PresenceShown(approval[s], proof[s])
    /\ OpensNothing
    /\ UNCHANGED <<now, usage, spent, use, approval, proof>>

Pays(s) ==
    /\ call[s] = "checked"
    /\ call' = [call EXCEPT ![s] = "claimed"]
    /\ use' = [use EXCEPT ![s] = usage[approval[s]] + 1]
    /\ ClaimGranted(approval[s], proof[s])
    /\ OpensNothing
    /\ UNCHANGED <<now, approval, proof>>

Purges ==
    /\ PurgeExpired
    /\ \A s \in Searches : call[s] \notin Working
    /\ OpensNothing
    /\ UNCHANGED <<now, call, use, approval, proof>>

LEMMA PaymentSteps ==
    ASSUME OpeningInv, [Next]_vars
    PROVE  \/ NoPayment
           \/ \E s \in Searches : Checks(s) \/ Pays(s) \/ Opens(s)
           \/ Purges
<1> USE DEF OpeningInv, TypeInv, TypeOK, StoreTypeOK, CustodianTypeOK, Searches
<1>1. ASSUME UNCHANGED <<now, usage, spent, custodianVars, approval, proof>>
      PROVE  NoPayment
  BY <1>1, OtherStepsOpenNothing DEF custodianVars, NoPayment
<1>2. ASSUME NEW s \in Searches,
             \/ Evaluate(s) \/ Connect(s) \/ Token(s) \/ Verify(s) \/ Retoken(s)
             \/ AllOpened(s) \/ Timeout(s) \/ CountUse(s) \/ ReadCount(s) \/ Audit(s)
      PROVE  NoPayment
  BY <1>1, <1>2
  DEF Evaluate, Connect, Token, Verify, Retoken, AllOpened, Timeout, CountUse,
      ReadCount, Audit
<1>3. ASSUME NEW s \in Searches, Prove(s) PROVE NoPayment
  <2>1. GrantedTo(s) = {} /\ call[s] \notin Checked
    BY <1>3 DEF Prove, UnaskedOpensNothing, Unasked, CallIsAwaited, Checked
  <2>2. QED BY <1>3, <2>1, OtherStepsOpenNothing DEF Prove, custodianVars, NoPayment
<1>4. ASSUME NEW s \in Searches, SendOpen(s) \/ Receive(s) PROVE NoPayment
  BY <1>4, OtherStepsOpenNothing DEF SendOpen, Receive, NoPayment, Paid
<1>5. ASSUME NEW s \in Searches, CheckOpen(s), UNCHANGED searchVars
      PROVE  NoPayment \/ Checks(s)
  <2>1. CASE call' = [call EXCEPT ![s] = "refused"]
    BY <1>5, <2>1, OtherStepsOpenNothing DEF CheckOpen, searchVars, NoPayment, Paid
  <2>2. CASE /\ call' = [call EXCEPT ![s] = "checked"]
             /\ ApprovalStands(request[s].approval)
             /\ PresenceShown(request[s].approval, request[s].proof)
    BY <1>5, <2>2, OtherStepsOpenNothing
    DEF CheckOpen, searchVars, Checks, ApprovalStands, CallCarriesSearch
  <2>3. QED BY <1>5, <2>1, <2>2 DEF CheckOpen
<1>6. ASSUME NEW s \in Searches, SpendOpen(s), UNCHANGED searchVars
      PROVE  NoPayment \/ Pays(s)
  <2>1. request[s].approval = approval[s] /\ ProofSpent(s) = proof[s]
    BY <1>6 DEF SpendOpen, CallCarriesSearch, ProofIsForPresence, ProofSpent
  <2>2. CASE /\ ClaimGranted(approval[s], proof[s])
             /\ call' = [call EXCEPT ![s] = "claimed"]
             /\ use' = [use EXCEPT ![s] = usage[approval[s]] + 1]
    BY <1>6, <2>2, OtherStepsOpenNothing DEF SpendOpen, searchVars, Pays
  <2>3. CASE /\ ClaimReplayed(proof[s]) \/ ClaimRefused(approval[s], proof[s])
             /\ call' = [call EXCEPT ![s] = "refused"]
             /\ UNCHANGED use
    BY <1>6, <2>3, OtherStepsOpenNothing
    DEF SpendOpen, searchVars, NoPayment, Paid, ClaimReplayed, ClaimRefused, storeVars
  <2>4. QED BY <1>6, <2>1, <2>2, <2>3 DEF SpendOpen
<1>7. ASSUME NEW s \in Searches, Agree(s), UNCHANGED searchVars PROVE NoPayment
  BY <1>7, OtherStepsOpenNothing DEF Agree, searchVars, NoPayment, Paid
<1>8. ASSUME NEW s \in Searches, RecordOpen(s), UNCHANGED searchVars
      PROVE  NoPayment \/ Opens(s)
  <2>1. CASE OpensNothing /\ call[s] # "agreed"
    BY <1>8, <2>1 DEF RecordOpen, searchVars, NoPayment, Paid
  <2>2. QED BY <1>8, <2>1, RecordSteps
<1>9. CASE CustodianCrash /\ UNCHANGED searchVars
  BY <1>9, OtherStepsOpenNothing DEF CustodianCrash, searchVars, NoPayment, Paid
<1>10. CASE CustodianStart /\ UNCHANGED searchVars
  BY <1>10, OtherStepsOpenNothing DEF CustodianStart, searchVars, Purges, CallIsAwaited
<1>11. CASE Tick
  BY <1>11, OtherStepsOpenNothing DEF Tick, custodianVars, searchVars, NoPayment
<1>12. CASE ApplicationCrash \/ UNCHANGED vars
  BY <1>1, <1>12 DEF ApplicationCrash, vars, searchVars
<1>13. QED
  BY <1>2, <1>3, <1>4, <1>5, <1>6, <1>7, <1>8, <1>9, <1>10, <1>11, <1>12
  DEF Next, Step, ServeOpen
LEMMA CountStep == CountInv /\ [Next]_vars => CountInv'
<1> SUFFICES ASSUME CountInv, [Next]_vars PROVE CountInv'
  OBVIOUS
<1>0. OpeningInv'
  BY OpeningStep DEF CountInv
<1>t. /\ now \in Nat /\ usage \in [Approvals -> Nat] /\ use \in [Searches -> Nat]
      /\ call \in [Searches -> Working \cup Answers \cup {"none", "reset"}]
      /\ approval \in [Searches -> Approvals]
      /\ \A s \in Searches : \A d \in GrantedTo(s) : d.use \in Nat
      /\ now' \in Nat /\ spent \subseteq Proofs
  BY <1>0 DEF CountInv, OpeningInv, TypeInv, TypeOK, StoreTypeOK, CustodianTypeOK,
              Searches, GrantedTo, Decision
<1> USE <1>t, ExpiryAssumption, LimitAssumption
<1>1. CASE NoPayment
  <2> USE <1>1 DEF NoPayment, CountInv, OpensNothing
  <2>1. RowCountsUses'
    BY DEF RowCountsUses
  <2>2. PaidCountsUse' /\ CheckedSeesRow' /\ RowWithinCap'
    BY DEF PaidCountsUse, CheckedSeesRow, RowWithinCap
  <2>3. PaidUsesDistinct'
    BY DEF PaidUsesDistinct
  <2>4. OpeningsCounted'
    BY DEF OpeningsCounted
  <2>5. QED BY <1>0, <2>1, <2>2, <2>3, <2>4
<1>2. ASSUME NEW s \in Searches, Checks(s) PROVE CountInv'
  <2> USE <1>2 DEF Checks, CountInv, OpensNothing, Paid
  <2>1. \A t \in Searches : t # s => call'[t] = call[t]
    OBVIOUS
  <2>2. call'[s] = "checked"
    OBVIOUS
  <2>3. RowCountsUses' /\ RowWithinCap' /\ OpeningsCounted'
    BY DEF RowCountsUses, RowWithinCap, OpeningsCounted
  <2>4. PaidCountsUse'
    BY <2>1, <2>2 DEF PaidCountsUse
  <2>5. PaidUsesDistinct'
    BY <2>1, <2>2 DEF PaidUsesDistinct
  <2>6. CheckedSeesRow'
    <3> SUFFICES ASSUME NEW q \in Searches, NEW t \in Searches,
                        call'[q] = "checked", approval[q] = approval[t],
                        GrantedTo(t) # {}
                 PROVE  usage[approval[q]] > 0
      BY DEF CheckedSeesRow
    <3>1. CASE q = s
      <4>1. PICK d \in GrantedTo(t) : TRUE
        OBVIOUS
      <4>2. now <= Expiry[approval[t]] /\ approval[t] \in Approvals
        BY <3>1
      <4>3. QED BY <3>1, <4>1, <4>2 DEF RowCountsUses
    <3>2. CASE q # s
      BY <2>1, <3>2 DEF CheckedSeesRow
    <3>3. QED BY <3>1, <3>2
  <2>7. QED BY <1>0, <2>3, <2>4, <2>5, <2>6
<1>3. ASSUME NEW s \in Searches, Pays(s) PROVE CountInv'
  <2> DEFINE a == approval[s]
  <2>1. /\ call[s] = "checked" /\ a \in Approvals
        /\ ~AtCap(a) /\ OpensNothing /\ UNCHANGED <<now, approval>>
    BY <1>3 DEF Pays, ClaimGranted
  <2>2. /\ use'[s] = usage[a] + 1 /\ call'[s] = "claimed"
        /\ \A t \in Searches : t # s => use'[t] = use[t] /\ call'[t] = call[t]
    BY <1>3 DEF Pays
  <2>3. \A b \in Approvals : usage'[b] = IF b = a THEN usage[a] + 1 ELSE usage[b]
    BY <1>3, <2>1 DEF Pays, ClaimGranted
  <2>4. \A t \in Searches : \A d \in GrantedTo(t) :
            approval[t] = a => usage[a] > 0 /\ d.use <= usage[a]
    BY <2>1 DEF CountInv, CheckedSeesRow, RowCountsUses
  <2>5. \A t \in Searches : call[t] \in Paid /\ approval[t] = a => use[t] <= usage[a]
    BY DEF CountInv, PaidCountsUse
  <2> USE <2>1 DEF CountInv, OpensNothing
  <2>6. RowCountsUses'
    BY <2>3, <2>4 DEF RowCountsUses
  <2>7. PaidCountsUse'
    BY <2>2, <2>3 DEF PaidCountsUse, Paid
  <2>8. CheckedSeesRow'
    BY <2>2, <2>3 DEF CheckedSeesRow
  <2>9. RowWithinCap'
    BY <2>3 DEF RowWithinCap, AtCap
  <2>10. PaidUsesDistinct'
    <3> SUFFICES ASSUME NEW q \in Searches, NEW t \in Searches,
                        call'[q] \in Paid, approval[q] = approval[t]
                 PROVE  /\ \A d \in GrantedTo(t) : use'[q] # d.use
                        /\ q # t /\ call'[t] \in Paid => use'[q] # use'[t]
      BY DEF PaidUsesDistinct
    <3>1. CASE q = s
      BY <2>2, <2>4, <2>5, <3>1
    <3>2. CASE q # s
      <4>1. \A d \in GrantedTo(t) : use'[q] # d.use
        BY <2>2, <3>2 DEF PaidUsesDistinct
      <4>2. CASE t = s
        BY <2>2, <2>5, <3>2, <4>1, <4>2
      <4>3. CASE t # s
        BY <2>2, <3>2, <4>1, <4>3 DEF PaidUsesDistinct
      <4>4. QED BY <4>2, <4>3
    <3>3. QED BY <3>1, <3>2
  <2>11. OpeningsCounted'
    BY DEF OpeningsCounted
  <2>12. QED BY <1>0, <2>6, <2>7, <2>8, <2>9, <2>10, <2>11
<1>4. ASSUME NEW s \in Searches, Opens(s) PROVE CountInv'
  <2>1. /\ UNCHANGED <<now, usage, use, approval>>
        /\ call[s] \in Paid /\ call'[s] \notin Paid \cup {"checked"}
        /\ \A t \in Searches : t # s => call'[t] = call[t]
    BY <1>4 DEF Opens, searchVars, Paid
  <2>2. /\ NewEntry(s).use = use[s]
        /\ GrantedTo(s)' = GrantedTo(s) \cup {NewEntry(s)}
        /\ \A t \in Searches : t # s => GrantedTo(t)' = GrantedTo(t)
    BY <1>4 DEF Opens, NewEntry
  <2>3. use[s] >= 1 /\ use[s] <= usage[approval[s]] /\ approval[s] \in Approvals
    BY <2>1 DEF CountInv, PaidCountsUse
  <2> USE <2>1 DEF CountInv
  <2>4. RowCountsUses'
    BY <2>2, <2>3 DEF RowCountsUses
  <2>5. PaidCountsUse' /\ RowWithinCap'
    BY DEF PaidCountsUse, RowWithinCap
  <2>6. CheckedSeesRow'
    <3> SUFFICES ASSUME NEW q \in Searches, NEW t \in Searches,
                        call'[q] = "checked", approval[q] = approval[t],
                        GrantedTo(t)' # {}
                 PROVE  usage[approval[q]] > 0
      BY DEF CheckedSeesRow
    <3>1. CASE t = s
      BY <2>3, <3>1
    <3>2. CASE t # s
      BY <2>2, <3>2 DEF CheckedSeesRow
    <3>3. QED BY <3>1, <3>2
  <2>7. PaidUsesDistinct'
    <3> SUFFICES ASSUME NEW q \in Searches, NEW t \in Searches,
                        call'[q] \in Paid, approval[q] = approval[t]
                 PROVE  /\ \A d \in GrantedTo(t)' : use[q] # d.use
                        /\ q # t /\ call'[t] \in Paid => use[q] # use[t]
      BY DEF PaidUsesDistinct
    <3>1. q # s /\ call[q] \in Paid
      OBVIOUS
    <3>2. \A d \in GrantedTo(t) : use[q] # d.use
      BY <3>1 DEF PaidUsesDistinct
    <3>3. t = s => use[q] # NewEntry(s).use
      BY <2>2, <3>1 DEF PaidUsesDistinct
    <3>4. q # t /\ call'[t] \in Paid => use[q] # use[t]
      BY <3>1 DEF PaidUsesDistinct
    <3>5. QED BY <2>2, <3>2, <3>3, <3>4
  <2>8. OpeningsCounted'
    <3> SUFFICES ASSUME NEW q \in Searches, NEW t \in Searches,
                        approval[q] = approval[t],
                        NEW d \in GrantedTo(q)', NEW e \in GrantedTo(t)'
                 PROVE  /\ d.use >= 1
                        /\ Limit > 0 => d.use <= Limit
                        /\ d # e => d.use # e.use
      BY DEF OpeningsCounted
    <3>1. CASE q = s /\ d = NewEntry(s)
      <4>1. d.use >= 1 /\ (Limit > 0 => d.use <= Limit)
        BY <2>2, <2>3, <3>1 DEF RowWithinCap
      <4>2. e # d => e \in GrantedTo(t)
        BY <2>2, <3>1
      <4>3. QED BY <2>2, <3>1, <4>1, <4>2 DEF PaidUsesDistinct
    <3>2. CASE d \in GrantedTo(q)
      <4>1. CASE e \in GrantedTo(t)
        BY <3>2, <4>1 DEF OpeningsCounted
      <4>2. CASE t = s /\ e = NewEntry(s)
        <5>1. d.use # e.use
          BY <2>2, <3>2, <4>2 DEF PaidUsesDistinct
        <5>2. QED BY <3>2, <5>1 DEF OpeningsCounted
      <4>3. QED BY <2>2, <4>1, <4>2
    <3>3. QED BY <2>2, <3>1, <3>2
  <2>9. QED BY <1>0, <2>4, <2>5, <2>6, <2>7, <2>8
<1>5. CASE Purges
  <2>1. /\ UNCHANGED <<now, use, call, approval>> /\ OpensNothing
        /\ \A s \in Searches : call[s] \notin Paid \cup {"checked"}
    BY <1>5 DEF Purges, Working, Paid
  <2>2. \A b \in Approvals : usage'[b] = IF Expiry[b] < now THEN 0 ELSE usage[b]
    BY <1>5 DEF Purges, PurgeExpired
  <2> USE <2>1 DEF CountInv, OpensNothing
  <2>3. RowCountsUses' /\ RowWithinCap'
    BY <2>2 DEF RowCountsUses, RowWithinCap
  <2>4. PaidCountsUse' /\ CheckedSeesRow' /\ PaidUsesDistinct' /\ OpeningsCounted'
    BY DEF PaidCountsUse, CheckedSeesRow, PaidUsesDistinct, OpeningsCounted
  <2>5. QED BY <1>0, <2>3, <2>4
<1>6. QED BY <1>1, <1>2, <1>3, <1>4, <1>5, PaymentSteps DEF CountInv

LEMMA PaymentStep == PaymentInv /\ [Next]_vars => PaymentInv'
<1> SUFFICES ASSUME PaymentInv, [Next]_vars PROVE PaymentInv'
  OBVIOUS
<1>0. CountInv'
  BY CountStep DEF PaymentInv
<1>t. /\ now \in Nat /\ spent \subseteq Proofs /\ now' \in Nat
      /\ proof \in [Searches -> Proofs \cup {NoProof}]
      /\ call \in [Searches -> Working \cup Answers \cup {"none", "reset"}]
  BY <1>0 DEF PaymentInv, CountInv, OpeningInv, TypeInv, TypeOK, StoreTypeOK,
              CustodianTypeOK, Searches
<1> USE <1>t, ExpiryAssumption, NoProofAssumption
<1>1. CASE NoPayment
  <2> USE <1>1 DEF NoPayment, PaymentInv, OpensNothing, Unexpired, Paid, Checked
  <2>1. ProofSpentOrOver'
    BY DEF ProofSpentOrOver
  <2>2. SecondPaymentIsLate'
    BY DEF SecondPaymentIsLate
  <2>3. ProofOpensOneRecord'
    BY DEF ProofOpensOneRecord
  <2>4. QED BY <1>0, <2>1, <2>2, <2>3
<1>2. ASSUME NEW s \in Searches, Checks(s) PROVE PaymentInv'
  BY <1>0, <1>2
  DEF Checks, PaymentInv, OpensNothing, Paid, ProofSpentOrOver, SecondPaymentIsLate,
      ProofOpensOneRecord
<1>3. ASSUME NEW s \in Searches, Pays(s) PROVE PaymentInv'
  <2>1. /\ ~AlreadyUsed(proof[s])
        /\ spent' = IF proof[s] = NoProof THEN spent ELSE Unexpired \cup {proof[s]}
        /\ OpensNothing /\ UNCHANGED <<now, proof>>
    BY <1>3 DEF Pays, ClaimGranted
  <2>2. call'[s] = "claimed" /\ \A t \in Searches : t # s => call'[t] = call[t]
    BY <1>3 DEF Pays
  <2>3. proof[s] # NoProof /\ GrantedTo(s) # {} => now > ProofExpires[proof[s]]
    BY <2>1 DEF PaymentInv, ProofSpentOrOver, AlreadyUsed, Unexpired
  <2> USE <2>1, <2>2 DEF PaymentInv, OpensNothing
  <2>4. ProofSpentOrOver'
    BY DEF ProofSpentOrOver, Unexpired
  <2>5. SecondPaymentIsLate'
    BY <2>3 DEF SecondPaymentIsLate
  <2>6. ProofOpensOneRecord'
    BY DEF ProofOpensOneRecord
  <2>7. QED BY <1>0, <2>4, <2>5, <2>6
<1>4. ASSUME NEW s \in Searches, Opens(s) PROVE PaymentInv'
  <2>1. /\ UNCHANGED <<now, spent, proof>>
        /\ call[s] \in Paid /\ call'[s] \notin Paid
        /\ \A t \in Searches : t # s => call'[t] = call[t]
        /\ GrantedTo(s)' = GrantedTo(s) \cup {NewEntry(s)}
        /\ \A t \in Searches : t # s => GrantedTo(t)' = GrantedTo(t)
    BY <1>4 DEF Opens, searchVars, Paid
  <2> USE <2>1 DEF PaymentInv
  <2>2. ProofSpentOrOver'
    BY DEF ProofSpentOrOver
  <2>3. SecondPaymentIsLate'
    BY DEF SecondPaymentIsLate
  <2>4. ProofOpensOneRecord'
    BY DEF ProofOpensOneRecord, SecondPaymentIsLate
  <2>5. QED BY <1>0, <2>2, <2>3, <2>4
<1>5. CASE Purges
  <2>1. /\ UNCHANGED <<now, call, proof>> /\ OpensNothing /\ spent' = Unexpired
    BY <1>5 DEF Purges, PurgeExpired
  <2>2. ProofSpentOrOver' /\ SecondPaymentIsLate' /\ ProofOpensOneRecord'
    BY <2>1 DEF PaymentInv, OpensNothing, Unexpired, ProofSpentOrOver,
                SecondPaymentIsLate, ProofOpensOneRecord
  <2>3. QED BY <1>0, <2>2 DEF PaymentInv
<1>6. QED BY <1>1, <1>2, <1>3, <1>4, <1>5, PaymentSteps DEF PaymentInv, CountInv

LEMMA PaymentInit == Init => PaymentInv
<1> SUFFICES ASSUME Init PROVE PaymentInv
  OBVIOUS
<1>1. OpeningInv
  BY OpeningInit
<1>2. \A s \in Searches : GrantedTo(s) = {} /\ call[s] = "none" /\ proof[s] = NoProof
  BY DEF Init, CustodianInit, GrantedTo, Searches
<1>3. usage = [a \in Approvals |-> 0]
  BY DEF Init, StoreInit
<1>4. CountInv
  BY <1>1, <1>2, <1>3, LimitAssumption
  DEF CountInv, RowCountsUses, PaidCountsUse, Paid, CheckedSeesRow, RowWithinCap,
      PaidUsesDistinct, OpeningsCounted
<1>5. QED
  BY <1>2, <1>4
  DEF PaymentInv, ProofSpentOrOver, SecondPaymentIsLate, ProofOpensOneRecord, Paid

LEMMA PaymentInvariant == Spec => []PaymentInv
BY PaymentInit, PaymentStep, PTL DEF Spec

\* However many searches share an approval, and whatever times out, crashes or
\* is purged: every record opened cost a use of its own within the cap, and a
\* live confirmation opened one.
THEOREM EveryOpeningIsPaid == Spec => []OpeningsArePaid
<1>1. PaymentInv => OpeningsArePaid
  BY DEF PaymentInv, CountInv, OpeningsArePaid
<1>2. QED BY <1>1, PaymentInvariant, PTL

-------------------------------------------------------------------------------
(***************************************************************************)
(* The capability.  The row of an approval counts every use there was for  *)
(* as long as its approval stands, so that a handler that checked the      *)
(* approval claims the next one; a proof that paid is in the store until   *)
(* it expires.                                                             *)
(***************************************************************************)

HistoryTypeOK == uses \in [Approvals -> Nat] /\ bought \subseteq Proofs

RowIsUses ==
    \A a \in Approvals : \/ usage[a] = uses[a]
                         \/ usage[a] = 0 /\ now > Expiry[a]

CheckedSeesUses ==
    \A s \in Searches : call[s] = "checked" =>
        /\ usage[approval[s]] = uses[approval[s]]
        /\ approval[s] \in Presence => proof[s] # NoProof

BoughtIsSpent == \A p \in bought : p \in spent \/ now > ProofExpires[p]

PaidIsBought ==
    \A s \in Searches : call[s] \in Paid /\ approval[s] \in Presence => proof[s] \in bought

CapabilityInv ==
    /\ CountInv
    /\ HistoryTypeOK
    /\ RowIsUses
    /\ CheckedSeesUses
    /\ BoughtIsSpent
    /\ PaidIsBought
    /\ OpeningsAreUses

\* The history changes with a claim, and with nothing else.
LEMMA HistoryStep ==
    ASSUME OpeningInv, Next, Remember
    PROVE  \/ /\ NoPayment \/ Purges \/ \E s \in Searches : Checks(s) \/ Opens(s)
              /\ UNCHANGED <<uses, bought>>
           \/ \E s \in Searches :
                 /\ Pays(s)
                 /\ uses' = [uses EXCEPT ![approval[s]] = @ + 1]
                 /\ bought' = bought \cup ({proof[s]} \ {NoProof})
<1>1. \/ NoPayment
      \/ \E s \in Searches : Checks(s) \/ Pays(s) \/ Opens(s)
      \/ Purges
  BY PaymentSteps
<1>t. call \in [Searches -> Working \cup Answers \cup {"none", "reset"}]
  BY DEF OpeningInv, TypeInv, TypeOK, CustodianTypeOK, Searches
<1>2. CASE NoPayment \/ Purges \/ \E s \in Searches : Checks(s) \/ Opens(s)
  <2>1. \A t \in Searches : ~Spending(t)
    BY <1>t, <1>2 DEF Spending, NoPayment, Purges, Checks, Opens, Paid
  <2>2. QED BY <1>2, <2>1 DEF Remember
<1>3. ASSUME NEW s \in Searches, Pays(s)
      PROVE  /\ uses' = [uses EXCEPT ![approval[s]] = @ + 1]
             /\ bought' = bought \cup ({proof[s]} \ {NoProof})
  <2>1. Spending(s) /\ \A t \in Searches : t # s => ~Spending(t)
    BY <1>t, <1>3 DEF Spending, Pays
  <2>2. request[s].approval = approval[s] /\ ProofSpent(s) = proof[s]
    BY <1>3 DEF Pays, OpeningInv, TypeInv, CallCarriesSearch, ProofIsForPresence, ProofSpent,
                TypeOK
  <2>3. QED BY <2>1, <2>2 DEF Remember
<1>4. QED BY <1>1, <1>2, <1>3

LEMMA CapabilityStep == CapabilityInv /\ [Next /\ Remember]_countingVars => CapabilityInv'
<1> SUFFICES ASSUME CapabilityInv, [Next /\ Remember]_countingVars PROVE CapabilityInv'
  OBVIOUS
<1>0. CountInv'
  BY CountStep DEF CapabilityInv, countingVars
<1>t. /\ now \in Nat /\ now' \in Nat
      /\ usage \in [Approvals -> Nat] /\ use \in [Searches -> Nat] /\ spent \subseteq Proofs
      /\ call \in [Searches -> Working \cup Answers \cup {"none", "reset"}]
      /\ approval \in [Searches -> Approvals]
      /\ proof \in [Searches -> Proofs \cup {NoProof}]
      /\ uses \in [Approvals -> Nat] /\ bought \subseteq Proofs
  BY <1>0 DEF CapabilityInv, HistoryTypeOK, CountInv, OpeningInv, TypeInv, TypeOK,
              StoreTypeOK, CustodianTypeOK, Searches
<1> USE <1>t, ExpiryAssumption, NoProofAssumption
<1>1. ASSUME NoPayment, UNCHANGED <<uses, bought>> PROVE CapabilityInv'
  <2> USE <1>1 DEF NoPayment, CapabilityInv, OpensNothing
  <2>1. HistoryTypeOK' /\ RowIsUses'
    BY DEF HistoryTypeOK, RowIsUses
  <2>2. CheckedSeesUses'
    BY DEF CheckedSeesUses, Checked
  <2>3. BoughtIsSpent'
    BY DEF BoughtIsSpent, Unexpired
  <2>4. PaidIsBought'
    BY DEF PaidIsBought, Paid, Checked
  <2>5. OpeningsAreUses'
    BY DEF OpeningsAreUses
  <2>6. QED BY <1>0, <2>1, <2>2, <2>3, <2>4, <2>5
<1>2. ASSUME NEW s \in Searches, Checks(s), UNCHANGED <<uses, bought>>
      PROVE  CapabilityInv'
  <2> USE <1>2 DEF Checks, CapabilityInv, OpensNothing
  <2>1. HistoryTypeOK' /\ RowIsUses' /\ BoughtIsSpent' /\ OpeningsAreUses'
    BY DEF HistoryTypeOK, RowIsUses, BoughtIsSpent, OpeningsAreUses
  <2>2. CheckedSeesUses'
    <3>1. usage[approval[s]] = uses[approval[s]]
      BY DEF RowIsUses
    <3>2. approval[s] \in Presence => proof[s] # NoProof
      BY DEF PresenceShown
    <3>3. \A t \in Searches : t # s => call'[t] = call[t]
      OBVIOUS
    <3>4. QED BY <3>1, <3>2, <3>3 DEF CheckedSeesUses
  <2>3. PaidIsBought'
    BY DEF PaidIsBought, Paid
  <2>4. QED BY <1>0, <2>1, <2>2, <2>3
<1>3. ASSUME NEW s \in Searches, Opens(s), UNCHANGED <<uses, bought>>
      PROVE  CapabilityInv'
  <2>1. /\ UNCHANGED <<now, usage, spent, use, approval, proof>>
        /\ call[s] \in Paid /\ call'[s] \notin Paid \cup {"checked"}
        /\ \A t \in Searches : t # s => call'[t] = call[t]
    BY <1>3 DEF Opens, searchVars, Paid
  <2>2. /\ NewEntry(s).use = use[s]
        /\ GrantedTo(s)' = GrantedTo(s) \cup {NewEntry(s)}
        /\ \A t \in Searches : t # s => GrantedTo(t)' = GrantedTo(t)
    BY <1>3 DEF Opens, NewEntry
  <2> USE <1>3, <2>1 DEF CapabilityInv
  <2>3. HistoryTypeOK' /\ RowIsUses' /\ BoughtIsSpent'
    BY DEF HistoryTypeOK, RowIsUses, BoughtIsSpent
  <2>4. CheckedSeesUses' /\ PaidIsBought'
    BY DEF CheckedSeesUses, PaidIsBought
  <2>5. use[s] \in 1 .. uses[approval[s]]
    <3>1. use[s] \in 1 .. usage[approval[s]]
      BY DEF CountInv, PaidCountsUse
    <3>2. usage[approval[s]] = uses[approval[s]]
      BY <3>1 DEF RowIsUses
    <3>3. QED BY <3>1, <3>2
  <2>6. OpeningsAreUses'
    BY <2>2, <2>5 DEF OpeningsAreUses, PaidIsBought
  <2>7. QED BY <1>0, <2>3, <2>4, <2>6
<1>4. ASSUME Purges, UNCHANGED <<uses, bought>> PROVE CapabilityInv'
  <2>1. /\ UNCHANGED <<now, use, call, approval, proof>> /\ OpensNothing
        /\ \A s \in Searches : call[s] \notin Paid \cup {"checked"}
        /\ spent' = Unexpired
    BY <1>4 DEF Purges, PurgeExpired, Working, Paid
  <2>2. \A b \in Approvals : usage'[b] = IF Expiry[b] < now THEN 0 ELSE usage[b]
    BY <1>4 DEF Purges, PurgeExpired
  <2> USE <1>4, <2>1 DEF CapabilityInv, OpensNothing
  <2>3. HistoryTypeOK' /\ RowIsUses'
    BY <2>2 DEF HistoryTypeOK, RowIsUses
  <2>4. CheckedSeesUses' /\ PaidIsBought' /\ OpeningsAreUses'
    BY DEF CheckedSeesUses, PaidIsBought, OpeningsAreUses
  <2>5. BoughtIsSpent'
    BY DEF BoughtIsSpent, Unexpired
  <2>6. QED BY <1>0, <2>3, <2>4, <2>5
<1>5. ASSUME NEW s \in Searches, Pays(s),
             uses' = [uses EXCEPT ![approval[s]] = @ + 1],
             bought' = bought \cup ({proof[s]} \ {NoProof})
      PROVE  CapabilityInv'
  <2>1. /\ call[s] = "checked" /\ OpensNothing /\ UNCHANGED <<now, approval, proof>>
        /\ call'[s] = "claimed" /\ \A t \in Searches : t # s => call'[t] = call[t]
    BY <1>5 DEF Pays
  <2>2. /\ usage' = [usage EXCEPT ![approval[s]] = @ + 1]
        /\ spent' = IF proof[s] = NoProof THEN spent ELSE Unexpired \cup {proof[s]}
    BY <1>5 DEF Pays, ClaimGranted
  <2>3. usage[approval[s]] = uses[approval[s]]
        /\ (approval[s] \in Presence => proof[s] # NoProof)
    BY <2>1 DEF CapabilityInv, CheckedSeesUses
  <2> USE <1>5, <2>1, <2>2 DEF CapabilityInv, OpensNothing
  <2>4. HistoryTypeOK'
    BY DEF HistoryTypeOK
  <2>5. RowIsUses' /\ CheckedSeesUses'
    BY <2>3 DEF RowIsUses, CheckedSeesUses
  <2>6. BoughtIsSpent'
    BY DEF BoughtIsSpent, Unexpired
  <2>7. PaidIsBought'
    BY <2>3 DEF PaidIsBought
  <2>8. OpeningsAreUses'
    <3>1. \A b \in Approvals : uses[b] <= uses'[b]
      OBVIOUS
    <3>2. QED BY <3>1 DEF OpeningsAreUses
  <2>9. QED BY <1>0, <2>4, <2>5, <2>6, <2>7, <2>8
<1>6. CASE UNCHANGED countingVars
  BY <1>0, <1>6
  DEF CapabilityInv, countingVars, vars, custodianVars, searchVars, HistoryTypeOK, RowIsUses,
      CheckedSeesUses, BoughtIsSpent, PaidIsBought, OpeningsAreUses, GrantedTo
<1>7. CASE Next /\ Remember
  BY <1>1, <1>2, <1>3, <1>4, <1>5, <1>7, HistoryStep DEF CapabilityInv, CountInv
<1>8. QED BY <1>6, <1>7

LEMMA CapabilityInit == CountingInit => CapabilityInv
<1> SUFFICES ASSUME CountingInit PROVE CapabilityInv
  OBVIOUS
<1>1. CountInv
  BY PaymentInit DEF CountingInit, PaymentInv
<1>2. \A s \in Searches : GrantedTo(s) = {} /\ call[s] = "none"
  BY DEF CountingInit, Init, CustodianInit, GrantedTo, Searches
<1>3. usage = [a \in Approvals |-> 0] /\ uses = [a \in Approvals |-> 0] /\ bought = {}
  BY DEF CountingInit, Init, StoreInit
<1>4. QED
  BY <1>1, <1>2, <1>3
  DEF CapabilityInv, HistoryTypeOK, RowIsUses, CheckedSeesUses, BoughtIsSpent, PaidIsBought,
      Paid, OpeningsAreUses

LEMMA CapabilityInvariant == CountingSpec => []CapabilityInv
BY CapabilityInit, CapabilityStep, PTL DEF CountingSpec

\* What is opened was bought: every opening in the ledger is one of the uses
\* the capability counts, and its proof one of those that have paid.
THEOREM OpeningsAreBought == CountingSpec => []OpeningsAreUses
<1>1. CapabilityInv => OpeningsAreUses
  BY DEF CapabilityInv
<1>2. QED BY <1>1, CapabilityInvariant, PTL

\* A claim is a use as the capability has it.
LEMMA PayingDiscloses ==
    ASSUME CapabilityInv, NEW s \in Searches, Pays(s),
           uses' = [uses EXCEPT ![approval[s]] = @ + 1],
           bought' = bought \cup ({proof[s]} \ {NoProof})
    PROVE  Cap!Disclose(approval[s], proof[s])
<1>t. /\ now \in Nat /\ approval[s] \in Approvals /\ spent \subseteq Proofs
      /\ proof[s] \in Proofs \cup {NoProof} /\ bought \subseteq Proofs
      /\ usage[approval[s]] \in Nat /\ Expiry[approval[s]] \in Nat
      /\ \A p \in Proofs : ProofExpires[p] \in Nat
  BY ExpiryAssumption
  DEF CapabilityInv, HistoryTypeOK, CountInv, OpeningInv, TypeInv, TypeOK, StoreTypeOK, Searches
<1>1. /\ call[s] = "checked" /\ UNCHANGED now
      /\ ~AlreadyUsed(proof[s]) /\ ~RowExpired(approval[s]) /\ ~AtCap(approval[s])
  BY DEF Pays, ClaimGranted
<1>2. usage[approval[s]] = uses[approval[s]]
  BY <1>1 DEF CapabilityInv, CheckedSeesUses
<1>3. Limit > 0 => uses[approval[s]] < Limit
  BY <1>t, <1>1, <1>2, LimitAssumption DEF AtCap
<1>4. uses[approval[s]] > 0 => now <= Expiry[approval[s]]
  BY <1>t, <1>1, <1>2 DEF RowExpired
<1>5. proof[s] \in bought => now > ProofExpires[proof[s]]
  <2> SUFFICES ASSUME proof[s] \in bought PROVE now > ProofExpires[proof[s]]
    OBVIOUS
  <2>1. proof[s] \in Proofs /\ proof[s] # NoProof
    BY <1>t, NoProofAssumption
  <2>2. proof[s] \in spent \/ now > ProofExpires[proof[s]]
    BY DEF CapabilityInv, BoughtIsSpent
  <2>3. QED BY <1>t, <1>1, <2>1, <2>2 DEF AlreadyUsed, Unexpired
<1>6. QED BY <1>1, <1>3, <1>4, <1>5 DEF Cap!Disclose

LEMMA ClockStep == ASSUME Next PROVE Tick \/ UNCHANGED now
<1>1. ASSUME NEW s \in Searches, Evaluate(s) \/ Step(s) PROVE UNCHANGED now
  BY <1>1
  DEF Evaluate, Step, Connect, Token, Prove, Verify, Retoken, SendOpen, AllOpened, Receive,
      Timeout, CountUse, ReadCount, Audit
<1>2. ASSUME NEW s \in Searches, ServeOpen(s) PROVE UNCHANGED now
  BY <1>2 DEF ServeOpen, CheckOpen, SpendOpen, Agree, RecordOpen
<1>3. ASSUME CustodianCrash \/ CustodianStart \/ ApplicationCrash PROVE UNCHANGED now
  BY <1>3 DEF CustodianCrash, CustodianStart, ApplicationCrash
<1>4. QED BY <1>1, <1>2, <1>3 DEF Next

LEMMA SearchStepMaps ==
    CapabilityInv /\ [Next /\ Remember]_countingVars => [Cap!Next]_<<now, uses, bought>>
<1> SUFFICES ASSUME CapabilityInv, [Next /\ Remember]_countingVars
             PROVE  [Cap!Next]_<<now, uses, bought>>
  OBVIOUS
<1>1. CASE UNCHANGED countingVars
  BY <1>1 DEF countingVars, vars
<1>2. ASSUME NEW s \in Searches, Pays(s),
             uses' = [uses EXCEPT ![approval[s]] = @ + 1],
             bought' = bought \cup ({proof[s]} \ {NoProof})
      PROVE  Cap!Next
  <2>1. Cap!Disclose(approval[s], proof[s])
    BY <1>2, PayingDiscloses
  <2>2. approval[s] \in Approvals /\ proof[s] \in Proofs \cup {NoProof}
    BY DEF CapabilityInv, CountInv, OpeningInv, TypeInv, TypeOK
  <2>3. QED BY <2>1, <2>2 DEF Cap!Next
<1>3. CASE Next /\ UNCHANGED <<uses, bought>>
  <2>1. Tick => Cap!Tick
    BY <1>3 DEF Tick, Cap!Tick
  <2>2. QED BY <1>3, <2>1, ClockStep DEF Cap!Next
<1>4. CASE Next /\ Remember
  BY <1>2, <1>3, <1>4, HistoryStep DEF CapabilityInv, CountInv
<1>5. QED BY <1>1, <1>4

\* The whole composition, application, transport and custodian, with whatever
\* times out, crashes, is purged or is revoked, is a bounded-use capability: its
\* uses never exceed the cap, end with the approval, and no confirmation pays
\* twice while it lives.
THEOREM SearchIsCapability == CountingSpec => SearchImplementsCapability
<1>1. CountingInit => Cap!Init
  BY DEF CountingInit, Init, StoreInit, Cap!Init
<1>2. QED
  BY <1>1, SearchStepMaps, CapabilityInvariant, PTL
  DEF CountingSpec, SearchImplementsCapability, Cap!Spec
===============================================================================
