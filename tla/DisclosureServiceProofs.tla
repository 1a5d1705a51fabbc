----------------------- MODULE DisclosureServiceProofs -----------------------
(***************************************************************************)
(* Theorems about DisclosureService, for every set of requests, approvals  *)
(* and proofs, every cap and every choice of times.                        *)
(***************************************************************************)
EXTENDS DisclosureRefinement, TLAPS, FiniteSetTheorems

(***************************************************************************)
(* Types.  A thread that loaded a credential did so to check a proof.      *)
(***************************************************************************)

LoadedHasProof == \A r \in Requests : pc[r] = "loaded" => proof[r] \in Proofs

\* Past verify_approval the statement is one an enrolled approver signed.
VerifiedIsGenuine ==
    \A r \in Requests :
        pc[r] \in {"approved", "loaded", "present", "claimed", "opened"}
            => approval[r] \in Approvals

TypeInv == TypeOK /\ LoadedHasProof /\ VerifiedIsGenuine

LEMMA TypeStep == TypeInv /\ [Next]_vars => TypeInv'
<1> SUFFICES ASSUME TypeInv, [Next]_vars PROVE TypeInv'
  OBVIOUS
<1> USE DEF TypeInv, LoadedHasProof, VerifiedIsGenuine, TypeOK, StoreTypeOK, Live, Ended
<1>1. ASSUME NEW r \in Requests, VerifyApproval(r) PROVE TypeInv'
  BY <1>1 DEF VerifyApproval, ApprovalHolds
<1>2. ASSUME NEW r \in Requests, SkipPresence(r) PROVE TypeInv'
  BY <1>2 DEF SkipPresence
<1>3. ASSUME NEW r \in Requests, LoadCredential(r) PROVE TypeInv'
  <2>1. CASE proof[r] = NoProof
    BY <1>3, <2>1 DEF LoadCredential
  <2>2. CASE proof[r] # NoProof
    <3>1. proof[r] \in Proofs
      BY <2>2
    <3>2. MadeWith[proof[r]] # Software => counters[MadeWith[proof[r]]] \in Nat
      BY <3>1, ServiceAssumption
    <3>3. QED BY <1>3, <2>2, <3>1, <3>2 DEF LoadCredential
  <2>3. QED BY <2>1, <2>2
<1>4. ASSUME NEW r \in Requests, CheckProof(r) PROVE TypeInv'
  <2>1. CASE ProofHolds(r)
    <3>1. proof[r] \in Proofs
      BY <1>4 DEF CheckProof
    <3>2. MadeWith[proof[r]] \in Authenticators \cup {Software} /\ Counter[proof[r]] \in Nat
      BY <3>1, ServiceAssumption
    <3>3. Recorded(proof[r]) \in [Authenticators -> Nat]
      BY <3>2 DEF Recorded
    <3>4. QED BY <1>4, <2>1, <3>3 DEF CheckProof
  <2>2. CASE ~ProofHolds(r)
    BY <1>4, <2>2 DEF CheckProof
  <2>3. QED BY <2>1, <2>2
<1>5. ASSUME NEW r \in Requests, Claim(r) PROVE TypeInv'
  <2> DEFINE a == approval[r]
             p == Spends(r)
  <2>1. p = NoProof \/ p \in Proofs
    BY DEF Spends
  <2>2. Unexpired \subseteq Proofs
    BY DEF Unexpired
  <2>3. CASE ClaimGranted(a, p) /\ pc' = [pc EXCEPT ![r] = "claimed"]
             /\ use' = [use EXCEPT ![r] = usage[a] + 1] /\ at' = [at EXCEPT ![r] = now]
    <3>0. a \in Approvals
      BY <1>5 DEF Claim
    <3>1. usage' \in [Approvals -> Nat] /\ spent' \subseteq Proofs
      BY <3>0, <2>1, <2>2, <2>3 DEF ClaimGranted
    <3>2. usage[a] + 1 \in Nat
      BY <3>0
    <3>3. QED BY <1>5, <2>3, <3>1, <3>2 DEF Claim
  <2>4. CASE /\ ClaimReplayed(p) \/ ClaimRefused(a, p)
             /\ pc' = [pc EXCEPT ![r] = "refused"]
             /\ UNCHANGED <<use, at>>
    BY <1>5, <2>2, <2>4 DEF Claim, ClaimReplayed, ClaimRefused, storeVars
  <2>5. QED BY <1>5, <2>3, <2>4 DEF Claim
<1>6. ASSUME NEW r \in Requests, Open(r) PROVE TypeInv'
  BY <1>6 DEF Open
<1>7. ASSUME NEW r \in Requests, Record(r) PROVE TypeInv'
  BY <1>7 DEF Record, Entry
<1>8. ASSUME NEW r \in Requests, Respond(r) PROVE TypeInv'
  BY <1>8 DEF Respond
<1>9. ASSUME NEW r \in Requests, Lose(r) PROVE TypeInv'
  BY <1>9 DEF Lose
<1>10. CASE Tick
  BY <1>10 DEF Tick, serviceVars
<1>11. CASE Crash
  BY <1>11 DEF Crash
<1>12. CASE Start
  BY <1>12 DEF Start, PurgeExpired, Unexpired
<1>13. CASE UNCHANGED vars
  BY <1>13 DEF vars, serviceVars
<1>14. QED
  BY <1>1, <1>2, <1>3, <1>4, <1>5, <1>6, <1>7, <1>8, <1>9, <1>10, <1>11,
     <1>12, <1>13 DEF Next, Handle

LEMMA TypeInit == Init => TypeInv
BY DEF Init, StoreInit, TypeInv, LoadedHasProof, VerifiedIsGenuine,
       TypeOK, StoreTypeOK, Live, Ended

LEMMA TypeInvariant == Spec => []TypeInv
BY TypeInit, TypeStep, PTL DEF Spec

\* The variables keep their types in every reachable state.
THEOREM TypeCorrect == Spec => []TypeOK
<1>1. TypeInv => TypeOK
  BY DEF TypeInv
<1>2. QED BY <1>1, TypeInvariant, PTL

-------------------------------------------------------------------------------
(***************************************************************************)
(* The cap.  A row counts every granted use for as long as it exists; once *)
(* it is purged its approval has expired, so no thread that could claim it *)
(* again is left: the process that ran the purge had no thread yet.        *)
(***************************************************************************)

DownMeansIdle == ~up => \A r \in Requests : pc[r] \notin Live

\* A granted claim belongs to a genuine approval and a thread past claim().
GrantedPastClaim ==
    \A r \in Requests :
        Granted(r) => /\ approval[r] \in Approvals
                      /\ pc[r] \notin {"sent", "approved", "loaded", "present"}

RowCountsUses ==
    \A r \in Requests :
        Granted(r) => \/ usage[approval[r]] > 0 /\ use[r] <= usage[approval[r]]
                      \/ usage[approval[r]] = 0 /\ now > Expiry[approval[r]]

\* A thread that verified an approval and has not claimed it yet still finds
\* the row of every earlier use.
VerifiedSeesRow ==
    \A r, s \in Requests :
        /\ pc[r] \in {"approved", "loaded", "present"}
        /\ Granted(s)
        /\ approval[r] = approval[s]
        => usage[approval[r]] > 0

RowWithinCap == Limit > 0 => \A a \in Approvals : usage[a] <= Limit

CapInv ==
    /\ TypeInv
    /\ DownMeansIdle
    /\ GrantedPastClaim
    /\ RowCountsUses
    /\ VerifiedSeesRow
    /\ RowWithinCap
    /\ CapRespected

\* Steps of one thread that neither claim nor verify.
Quiet(r) ==
    /\ UNCHANGED <<now, usage, up, use, approval>>
    /\ up
    /\ \E to \in Live \cup Ended :
          /\ pc' = [pc EXCEPT ![r] = to]
          /\ pc[r] # "sent"
          /\ to \in {"loaded", "present"} => pc[r] \in {"approved", "loaded"}
          /\ to # "approved"

LEMMA QuietSteps ==
    ASSUME TypeInv, NEW r \in Requests,
           \/ SkipPresence(r) \/ LoadCredential(r) \/ CheckProof(r)
           \/ Open(r) \/ Record(r) \/ Respond(r) \/ Lose(r)
    PROVE  Quiet(r)
<1> USE DEF Quiet, Live, Ended
<1>1. CASE SkipPresence(r)
  BY <1>1 DEF SkipPresence
<1>2. CASE LoadCredential(r)
  BY <1>2 DEF LoadCredential
<1>3. CASE CheckProof(r)
  BY <1>3 DEF CheckProof
<1>4. CASE Open(r)
  BY <1>4 DEF Open
<1>5. CASE Record(r)
  BY <1>5 DEF Record
<1>6. CASE Respond(r)
  BY <1>6 DEF Respond
<1>7. CASE Lose(r)
  BY <1>7 DEF Lose
<1>8. QED BY <1>1, <1>2, <1>3, <1>4, <1>5, <1>6, <1>7

LEMMA CapStep == CapInv /\ [Next]_vars => CapInv'
<1> SUFFICES ASSUME CapInv, [Next]_vars PROVE CapInv'
  OBVIOUS
<1>0. TypeInv'
  BY TypeStep DEF CapInv
<1> USE <1>0, ExpiryAssumption, LimitAssumption
    DEF CapInv, TypeInv, TypeOK, StoreTypeOK, Granted
<1>1. ASSUME NEW r \in Requests, Quiet(r) PROVE CapInv'
  <2> USE <1>1 DEF Quiet, Live, Ended
  <2>1. DownMeansIdle'
    BY DEF DownMeansIdle
  <2>2. GrantedPastClaim'
    BY DEF GrantedPastClaim
  <2>3. RowCountsUses' /\ RowWithinCap' /\ CapRespected'
    BY DEF RowCountsUses, RowWithinCap, CapRespected
  <2>4. VerifiedSeesRow'
    BY DEF VerifiedSeesRow
  <2>5. QED BY <2>1, <2>2, <2>3, <2>4
<1>2. ASSUME NEW r \in Requests, VerifyApproval(r) PROVE CapInv'
  <2> USE <1>2 DEF VerifyApproval, Live
  <2>1. DownMeansIdle'
    BY DEF DownMeansIdle
  <2>2. GrantedPastClaim'
    BY DEF GrantedPastClaim
  <2>3. RowCountsUses' /\ RowWithinCap' /\ CapRespected'
    BY DEF RowCountsUses, RowWithinCap, CapRespected
  <2>4. VerifiedSeesRow'
    <3> SUFFICES ASSUME NEW q \in Requests, NEW s \in Requests,
                        pc'[q] \in {"approved", "loaded", "present"},
                        Granted(s), approval[q] = approval[s]
                 PROVE  usage[approval[q]] > 0
      BY DEF VerifiedSeesRow
    <3>1. CASE q = r
      <4>1. now <= Expiry[approval[r]]
        BY <3>1 DEF ApprovalHolds
      <4>2. QED BY <3>1, <4>1 DEF RowCountsUses, GrantedPastClaim
    <3>2. CASE q # r
      BY <3>2 DEF VerifiedSeesRow
    <3>3. QED BY <3>1, <3>2
  <2>5. QED BY <2>1, <2>2, <2>3, <2>4
<1>3. ASSUME NEW r \in Requests, Claim(r) PROVE CapInv'
  <2> DEFINE a == approval[r]
  <2>1. /\ up /\ up' = up /\ pc[r] = "present" /\ a \in Approvals
        /\ UNCHANGED <<now, approval>>
    BY <1>3 DEF Claim, VerifiedIsGenuine
  <2>2. CASE /\ ClaimReplayed(Spends(r)) \/ ClaimRefused(a, Spends(r))
             /\ pc' = [pc EXCEPT ![r] = "refused"]
             /\ UNCHANGED <<use, at>>
    <3>1. Quiet(r)
      BY <2>1, <2>2 DEF Quiet, Live, ClaimReplayed, ClaimRefused, storeVars
    <3>2. QED BY <1>1, <3>1
  <2>3. CASE /\ ClaimGranted(a, Spends(r))
             /\ pc' = [pc EXCEPT ![r] = "claimed"]
             /\ use' = [use EXCEPT ![r] = usage[a] + 1]
    <3>1. /\ usage' = [usage EXCEPT ![a] = @ + 1]
          /\ ~AtCap(a) /\ ~RowExpired(a)
      BY <2>3 DEF ClaimGranted
    <3>2. ~Granted(r)
      BY <2>1 DEF GrantedPastClaim
    <3>3. \A s \in Requests : s # r =>
              use'[s] = use[s] /\ pc'[s] = pc[s]
      BY <2>3
    <3>4. use'[r] = usage[a] + 1 /\ pc'[r] = "claimed"
      BY <2>3
    <3>5. \A b \in Approvals : usage'[b] = IF b = a THEN usage[a] + 1 ELSE usage[b]
      BY <3>1
    <3>6. \A s \in Requests : Granted(s) /\ approval[s] = a =>
              usage[a] > 0 /\ use[s] <= usage[a]
      BY <2>1 DEF VerifiedSeesRow, RowCountsUses
    <3>7. DownMeansIdle'
      BY <2>1 DEF DownMeansIdle
    <3>8. GrantedPastClaim'
      BY <2>1, <3>3, <3>4 DEF GrantedPastClaim
    <3>9. RowCountsUses'
      <4> SUFFICES ASSUME NEW s \in Requests, use'[s] > 0
                   PROVE  \/ usage'[approval[s]] > 0 /\ use'[s] <= usage'[approval[s]]
                          \/ usage'[approval[s]] = 0 /\ now > Expiry[approval[s]]
        BY <2>1 DEF RowCountsUses
      <4>1. CASE s = r
        BY <2>1, <3>4, <3>5, <4>1
      <4>2. CASE s # r
        <5>1. Granted(s) /\ approval[s] \in Approvals
          BY <3>3, <4>2 DEF GrantedPastClaim
        <5>2. QED BY <2>1, <3>3, <3>5, <3>6, <4>2, <5>1 DEF RowCountsUses
      <4>3. QED BY <4>1, <4>2
    <3>10. VerifiedSeesRow'
      <4> SUFFICES ASSUME NEW q \in Requests, NEW s \in Requests,
                          pc'[q] \in {"approved", "loaded", "present"},
                          use'[s] > 0, approval[q] = approval[s]
                   PROVE  usage'[approval[q]] > 0
        BY <2>1 DEF VerifiedSeesRow
      <4>1. q # r /\ pc[q] = pc'[q] /\ approval[q] \in Approvals
        BY <3>3, <3>4 DEF VerifiedIsGenuine
      <4>2. CASE approval[q] = a
        BY <2>1, <3>5, <4>2
      <4>3. CASE approval[q] # a
        <5>1. s # r
          BY <4>3
        <5>2. Granted(s)
          BY <3>3, <5>1
        <5>3. QED BY <3>5, <4>1, <4>3, <5>2 DEF VerifiedSeesRow
      <4>4. QED BY <4>2, <4>3
    <3>11. RowWithinCap'
      BY <2>1, <3>1, <3>5 DEF RowWithinCap, AtCap
    <3>12. CapRespected'
      <4> SUFFICES ASSUME NEW s \in Requests, NEW t \in Requests,
                          use'[s] > 0, use'[t] > 0, approval[s] = approval[t]
                   PROVE  /\ Limit > 0 => use'[s] <= Limit
                          /\ s # t => use'[s] # use'[t]
        BY <2>1 DEF CapRespected
      <4>1. Limit > 0 => use'[r] <= Limit
        BY <2>1, <3>1, <3>4 DEF AtCap
      <4>2. \A x \in Requests : x # r /\ use'[x] > 0 /\ approval[x] = a =>
                use'[x] < use'[r]
        BY <2>1, <3>3, <3>4, <3>6
      <4>3. CASE s = r \/ t = r
        <5>1. s # t => use'[s] # use'[t]
          BY <4>2, <4>3
        <5>2. s # r => (Limit > 0 => use'[s] <= Limit)
          BY <3>3 DEF CapRespected
        <5>3. QED BY <4>1, <5>1, <5>2
      <4>4. CASE s # r /\ t # r
        BY <3>3, <4>4 DEF CapRespected
      <4>5. QED BY <4>3, <4>4
    <3>13. QED BY <3>7, <3>8, <3>9, <3>10, <3>11, <3>12
  <2>4. QED BY <1>3, <2>2, <2>3 DEF Claim
<1>4. CASE Tick
  <2> USE <1>4 DEF Tick, serviceVars
  <2>1. RowCountsUses'
    BY DEF RowCountsUses, GrantedPastClaim
  <2>2. QED
    BY <2>1 DEF DownMeansIdle, GrantedPastClaim, VerifiedSeesRow, RowWithinCap,
                CapRespected
<1>5. CASE Crash
  <2> USE <1>5 DEF Crash, Live
  <2>1. DownMeansIdle'
    BY DEF DownMeansIdle
  <2>2. GrantedPastClaim'
    BY DEF GrantedPastClaim
  <2>3. VerifiedSeesRow'
    BY DEF VerifiedSeesRow
  <2>4. RowCountsUses' /\ RowWithinCap' /\ CapRespected'
    BY DEF RowCountsUses, RowWithinCap, CapRespected
  <2>5. QED BY <2>1, <2>2, <2>3, <2>4
<1>6. CASE Start
  <2>1. /\ \A r \in Requests : pc[r] \notin Live
        /\ UNCHANGED <<now, pc, use, approval>> /\ up'
    BY <1>6 DEF Start, DownMeansIdle
  <2>2. \A b \in Approvals : usage'[b] = IF Expiry[b] < now THEN 0 ELSE usage[b]
    BY <1>6 DEF Start, PurgeExpired
  <2>3. DownMeansIdle' /\ GrantedPastClaim' /\ CapRespected'
    BY <2>1 DEF DownMeansIdle, GrantedPastClaim, CapRespected
  <2>4. RowCountsUses'
    BY <2>1, <2>2 DEF RowCountsUses, GrantedPastClaim
  <2>5. VerifiedSeesRow'
    BY <2>1 DEF VerifiedSeesRow, Live
  <2>6. RowWithinCap'
    BY <2>2 DEF RowWithinCap
  <2>7. QED BY <2>3, <2>4, <2>5, <2>6
<1>7. CASE UNCHANGED vars
  BY <1>7 DEF vars, serviceVars, DownMeansIdle, GrantedPastClaim, RowCountsUses,
              VerifiedSeesRow, RowWithinCap, CapRespected
<1>8. ASSUME NEW r \in Requests, Handle(r) \/ Lose(r) PROVE CapInv'
  BY <1>1, <1>2, <1>3, <1>8, QuietSteps DEF Handle
<1>9. QED BY <1>4, <1>5, <1>6, <1>7, <1>8 DEF Next

LEMMA CapInit == Init => CapInv
<1> SUFFICES ASSUME Init PROVE CapInv
  OBVIOUS
<1>1. TypeInv
  BY TypeInit
<1>2. QED
  BY <1>1, LimitAssumption
  DEF Init, StoreInit, CapInv, DownMeansIdle, GrantedPastClaim, RowCountsUses,
      VerifiedSeesRow, RowWithinCap, CapRespected, Granted, Live

LEMMA CapInvariant == Spec => []CapInv
BY CapInit, CapStep, PTL DEF Spec

\* Whatever the cap, however many requests race and however often the service
\* crashes, restarts and purges: no two uses of one approval are given the
\* same count, and no count exceeds the cap.
THEOREM CapHolds == Spec => []CapRespected
<1>1. CapInv => CapRespected
  BY DEF CapInv
<1>2. QED BY <1>1, CapInvariant, PTL

-------------------------------------------------------------------------------
(***************************************************************************)
(* The confirmation.  A proof that paid for a disclosure stays in          *)
(* presence_nonces until it has expired, and only a grant put it there.    *)
(***************************************************************************)

SpentUntilExpired ==
    \A r \in Requests :
        Granted(r) /\ Spends(r) # NoProof =>
            Spends(r) \in spent \/ now > ProofExpires[Spends(r)]

PresenceInv ==
    /\ CapInv
    /\ SpentUntilExpired
    /\ ProofSpentOnceWhileLive
    /\ SpentProofBoughtAGrant
    /\ UsedApprovalClosesAtExpiry

\* What the steps that do not claim leave alone.
NoClaim ==
    /\ now <= now'
    /\ UNCHANGED <<use, at, approval, proof>>
    /\ spent' \in {spent, Unexpired}

LEMMA NoClaimSteps ==
    ASSUME CapInv, [Next]_vars
    PROVE  NoClaim \/ \E r \in Requests : Claim(r) /\ ClaimGranted(approval[r], Spends(r))
                                          /\ use' = [use EXCEPT ![r] = usage[approval[r]] + 1]
                                          /\ at' = [at EXCEPT ![r] = now]
<1> USE DEF NoClaim, CapInv, TypeInv, TypeOK, StoreTypeOK
<1>1. CASE UNCHANGED vars
  BY <1>1 DEF vars, serviceVars
<1>2. CASE Tick \/ Crash \/ Start
  BY <1>2 DEF Tick, Crash, Start, PurgeExpired, serviceVars
<1>3. ASSUME NEW r \in Requests,
             \/ VerifyApproval(r) \/ SkipPresence(r) \/ LoadCredential(r)
             \/ CheckProof(r) \/ Open(r) \/ Record(r) \/ Respond(r) \/ Lose(r)
      PROVE  NoClaim
  BY <1>3 DEF VerifyApproval, SkipPresence, LoadCredential, CheckProof, Open,
              Record, Respond, Lose
<1>4. ASSUME NEW r \in Requests, Claim(r),
             ClaimReplayed(Spends(r)) \/ ClaimRefused(approval[r], Spends(r)),
             UNCHANGED <<use, at>>
      PROVE  NoClaim
  BY <1>4 DEF Claim, ClaimReplayed, ClaimRefused, storeVars
<1>5. ASSUME NEW r \in Requests, Claim(r)
      PROVE  NoClaim \/ (/\ ClaimGranted(approval[r], Spends(r))
                         /\ use' = [use EXCEPT ![r] = usage[approval[r]] + 1]
                         /\ at' = [at EXCEPT ![r] = now])
  BY <1>4, <1>5 DEF Claim
<1>6. QED BY <1>1, <1>2, <1>3, <1>5 DEF Next, Handle

LEMMA SpendsStable ==
    ASSUME UNCHANGED <<approval, proof>>, NEW r \in Requests
    PROVE  Spends(r)' = Spends(r)
BY DEF Spends, NeedsProof

LEMMA PresenceStep == PresenceInv /\ [Next]_vars => PresenceInv'
<1> SUFFICES ASSUME PresenceInv, [Next]_vars PROVE PresenceInv'
  OBVIOUS
<1>0. CapInv'
  BY CapStep DEF PresenceInv
<1> USE <1>0, ExpiryAssumption, NoProofAssumption
    DEF PresenceInv, CapInv, TypeInv, TypeOK, StoreTypeOK, Granted
<1>t. \A r \in Requests : Spends(r) # NoProof => Spends(r) \in Proofs
  BY DEF Spends
<1>1. CASE NoClaim
  <2> USE <1>1 DEF NoClaim
  <2>s. \A r \in Requests : Spends(r)' = Spends(r)
    BY SpendsStable
  <2>1. SpentUntilExpired'
    BY <1>t, <2>s DEF SpentUntilExpired, Unexpired
  <2>2. ProofSpentOnceWhileLive'
    BY <2>s DEF ProofSpentOnceWhileLive
  <2>3. SpentProofBoughtAGrant'
    BY <2>s DEF SpentProofBoughtAGrant, Unexpired
  <2>4. UsedApprovalClosesAtExpiry'
    BY DEF UsedApprovalClosesAtExpiry
  <2>5. QED BY <2>1, <2>2, <2>3, <2>4
<1>2. ASSUME NEW r \in Requests, Claim(r), ClaimGranted(approval[r], Spends(r)),
             use' = [use EXCEPT ![r] = usage[approval[r]] + 1],
             at' = [at EXCEPT ![r] = now]
      PROVE  PresenceInv'
  <2> DEFINE p == Spends(r)
  <2>1. /\ pc[r] = "present" /\ approval[r] \in Approvals
        /\ UNCHANGED <<now, approval, proof>>
    BY <1>2 DEF Claim, VerifiedIsGenuine
  <2>s. \A x \in Requests : Spends(x)' = Spends(x)
    BY <2>1, SpendsStable
  <2>2. /\ ~AlreadyUsed(p) /\ ~RowExpired(approval[r])
        /\ spent' = IF p = NoProof THEN spent ELSE Unexpired \cup {p}
    BY <1>2 DEF ClaimGranted
  <2>3. ~Granted(r) /\ use'[r] > 0 /\ at'[r] = now
    BY <1>2, <2>1 DEF GrantedPastClaim
  <2>4. \A x \in Requests : x # r => use'[x] = use[x] /\ at'[x] = at[x]
    BY <1>2
  <2>5. SpentUntilExpired'
    <3> SUFFICES ASSUME NEW x \in Requests, use'[x] > 0, Spends(x) # NoProof
                 PROVE  Spends(x) \in spent' \/ now > ProofExpires[Spends(x)]
      BY <2>1, <2>s DEF SpentUntilExpired
    <3>1. CASE x = r
      BY <2>2, <3>1
    <3>2. CASE x # r
      BY <1>t, <2>2, <2>4, <3>2 DEF SpentUntilExpired, Unexpired
    <3>3. QED BY <3>1, <3>2
  <2>6. \A x \in Requests : Granted(x) /\ p # NoProof /\ Spends(x) = p =>
            now > ProofExpires[p]
    BY <1>t, <2>2 DEF SpentUntilExpired, AlreadyUsed, Unexpired
  <2>7. ProofSpentOnceWhileLive'
    <3> SUFFICES ASSUME NEW x \in Requests, NEW y \in Requests,
                        use'[x] > 0, use'[y] > 0, x # y,
                        Spends(x) # NoProof, Spends(x) = Spends(y)
                 PROVE  \/ at'[x] > ProofExpires[Spends(x)]
                        \/ at'[y] > ProofExpires[Spends(y)]
      BY <2>s DEF ProofSpentOnceWhileLive
    <3>1. CASE x = r \/ y = r
      BY <2>3, <2>4, <2>6, <3>1
    <3>2. CASE x # r /\ y # r
      BY <2>4, <3>2 DEF ProofSpentOnceWhileLive
    <3>3. QED BY <3>1, <3>2
  <2>8. SpentProofBoughtAGrant'
    <3>1. \A q \in spent : \E x \in Requests : Granted(x) /\ x # r /\ Spends(x) = q
      BY <2>3 DEF SpentProofBoughtAGrant
    <3>2. QED BY <2>2, <2>3, <2>4, <2>s, <3>1 DEF SpentProofBoughtAGrant, Unexpired
  <2>9. UsedApprovalClosesAtExpiry'
    BY <1>2, <2>1, <2>2, <2>3, <2>4 DEF UsedApprovalClosesAtExpiry, RowExpired
  <2>10. QED BY <2>5, <2>7, <2>8, <2>9
<1>3. QED BY <1>1, <1>2, NoClaimSteps

LEMMA PresenceInit == Init => PresenceInv
BY CapInit DEF Init, StoreInit, PresenceInv, SpentUntilExpired,
   ProofSpentOnceWhileLive, SpentProofBoughtAGrant, UsedApprovalClosesAtExpiry, Granted

LEMMA PresenceInvariant == Spec => []PresenceInv
BY PresenceInit, PresenceStep, PTL DEF Spec

\* Two disclosures bought with one confirmation: the later came after the
\* confirmation had expired.  And a refused request costs nobody theirs.
THEOREM ConfirmationHolds == Spec => []ConfirmationsBuyDisclosures
<1>1. PresenceInv => ConfirmationsBuyDisclosures
  BY DEF PresenceInv, ConfirmationsBuyDisclosures
<1>2. QED BY <1>1, PresenceInvariant, PTL

\* An approval in use closes at its expiry and stays closed.
THEOREM ExpiryHolds == Spec => []UsedApprovalClosesAtExpiry
<1>1. PresenceInv => UsedApprovalClosesAtExpiry
  BY DEF PresenceInv
<1>2. QED BY <1>1, PresenceInvariant, PTL

\* Both of an approval's bounds, on how often and on how long it is used.
THEOREM ApprovalBoundHolds == Spec => []ApprovalBoundsUses
<1>1. CapRespected /\ UsedApprovalClosesAtExpiry => ApprovalBoundsUses
  BY DEF ApprovalBoundsUses
<1>2. QED BY <1>1, CapHolds, ExpiryHolds, PTL

-------------------------------------------------------------------------------
(***************************************************************************)
(* The ledger.  An entry that reports a disclosure carries the count its   *)
(* own thread was given, and is written before the answer.                 *)
(***************************************************************************)

GrantedEntries ==
    \A e \in ledger :
        e.event = "disclosure_granted" => Granted(e.req) /\ e.use = use[e.req]

PaidBeforeOpened ==
    \A r \in Requests :
        /\ pc[r] \in {"claimed", "opened", "granting", "disclosed"} => Granted(r)
        /\ pc[r] \in {"granting", "disclosed"} =>
             [req |-> r, event |-> "disclosure_granted", use |-> use[r]] \in ledger

LedgerInv == CapInv /\ GrantedEntries /\ PaidBeforeOpened

LEMMA LedgerStep == LedgerInv /\ [Next]_vars => LedgerInv'
<1> SUFFICES ASSUME LedgerInv, [Next]_vars PROVE LedgerInv'
  OBVIOUS
<1>0. CapInv'
  BY CapStep DEF LedgerInv
<1> USE <1>0 DEF LedgerInv, GrantedEntries, PaidBeforeOpened, CapInv, TypeInv,
                 TypeOK, StoreTypeOK, Granted, Entry
<1>1. ASSUME NEW r \in Requests,
             \/ VerifyApproval(r) \/ SkipPresence(r) \/ LoadCredential(r)
             \/ CheckProof(r) \/ Open(r) \/ Respond(r) \/ Lose(r)
      PROVE  LedgerInv'
  BY <1>1 DEF VerifyApproval, SkipPresence, LoadCredential, CheckProof, Open,
              Respond, Lose
<1>2. ASSUME NEW r \in Requests, Record(r) PROVE LedgerInv'
  BY <1>2 DEF Record
<1>3. ASSUME NEW r \in Requests, Claim(r) PROVE LedgerInv'
  <2>1. CASE UNCHANGED <<use, at>> /\ pc' = [pc EXCEPT ![r] = "refused"]
    BY <1>3, <2>1 DEF Claim
  <2>2. CASE /\ use' = [use EXCEPT ![r] = usage[approval[r]] + 1]
             /\ pc' = [pc EXCEPT ![r] = "claimed"]
    <3>1. ~Granted(r) /\ usage[approval[r]] + 1 > 0 /\ UNCHANGED ledger
      BY <1>3 DEF Claim, GrantedPastClaim, VerifiedIsGenuine
    <3>2. \A e \in ledger : e.event = "disclosure_granted" => e.req # r
      BY <3>1
    <3>3. QED BY <2>2, <3>1, <3>2
  <2>3. QED BY <1>3, <2>1, <2>2 DEF Claim
<1>4. CASE Tick \/ Crash \/ Start
  BY <1>4 DEF Tick, Crash, Start, serviceVars, Live
<1>5. CASE UNCHANGED vars
  BY <1>5 DEF vars, serviceVars
<1>6. QED BY <1>1, <1>2, <1>3, <1>4, <1>5 DEF Next, Handle

LEMMA LedgerInvariant == Spec => []LedgerInv
<1>1. Init => LedgerInv
  BY CapInit DEF Init, LedgerInv, GrantedEntries, PaidBeforeOpened
<1>2. QED BY <1>1, LedgerStep, PTL DEF Spec

\* An opening that reached the caller was paid for and is in the ledger.
THEOREM LedgerComesFirst == Spec => []DisclosedIsRecorded
<1>1. LedgerInv => DisclosedIsRecorded
  BY DEF LedgerInv, PaidBeforeOpened, DisclosedIsRecorded
<1>2. QED BY <1>1, LedgerInvariant, PTL

\* The use counts the ledger reports for one approval are all different.
THEOREM LedgerCountsHold == Spec => []LedgerCountsDistinct
<1>1. LedgerInv => LedgerCountsDistinct
  BY DEF LedgerInv, GrantedEntries, LedgerCountsDistinct, CapInv, CapRespected,
         TypeInv, TypeOK, Entry
<1>2. QED BY <1>1, LedgerInvariant, PTL

\* The ledger follows the claims, whatever dies between an opening, its entry
\* and its answer.
THEOREM LedgerHolds == Spec => []LedgerFollowsClaims
<1>1. DisclosedIsRecorded /\ LedgerCountsDistinct => LedgerFollowsClaims
  BY DEF LedgerFollowsClaims
<1>2. QED BY <1>1, LedgerComesFirst, LedgerCountsHold, PTL

-------------------------------------------------------------------------------
(***************************************************************************)
(* What backs a grant.  Whoever is past verify_presence showed a proof for *)
(* the approval, and the counter it carried is stored, or needed none; a   *)
(* stored counter never goes down.                                         *)
(***************************************************************************)

Backed(r) ==
    /\ proof[r] \in Proofs
    /\ ProofFor[proof[r]] = approval[r]
    /\ MadeWith[proof[r]] # Software => counters[MadeWith[proof[r]]] >= Counter[proof[r]]

BackedInv ==
    /\ TypeInv
    /\ \A r \in Requests :
          (pc[r] = "present" \/ Granted(r)) /\ NeedsProof(approval[r]) => Backed(r)

CountersGrow ==
    /\ \A c \in Authenticators : counters[c] <= counters'[c]
    /\ UNCHANGED <<approval, proof>>

LEMMA RecordedGrows ==
    ASSUME TypeInv, NEW p \in Proofs
    PROVE  /\ \A c \in Authenticators : counters[c] <= Recorded(p)[c]
           /\ MadeWith[p] # Software => Recorded(p)[MadeWith[p]] >= Counter[p]
<1>1. /\ counters \in [Authenticators -> Nat] /\ Counter[p] \in Nat
      /\ MadeWith[p] \in Authenticators \cup {Software}
  BY ServiceAssumption DEF TypeInv, TypeOK
<1>2. CASE MadeWith[p] = Software
  BY <1>1, <1>2 DEF Recorded
<1>3. CASE MadeWith[p] # Software
  BY <1>1, <1>3 DEF Recorded
<1>4. QED BY <1>2, <1>3

LEMMA BackedStays ==
    ASSUME TypeInv, TypeInv', CountersGrow, NEW r \in Requests, Backed(r)
    PROVE  Backed(r)'
<1>1. /\ proof'[r] = proof[r] /\ approval'[r] = approval[r] /\ proof[r] \in Proofs
      /\ Counter[proof[r]] \in Nat /\ MadeWith[proof[r]] \in Authenticators \cup {Software}
      /\ counters \in [Authenticators -> Nat] /\ counters' \in [Authenticators -> Nat]
  BY ServiceAssumption DEF Backed, CountersGrow, TypeInv, TypeOK
<1>2. CASE MadeWith[proof[r]] = Software
  BY <1>1, <1>2 DEF Backed
<1>3. CASE MadeWith[proof[r]] # Software
  <2>1. /\ counters[MadeWith[proof[r]]] <= counters'[MadeWith[proof[r]]]
        /\ counters[MadeWith[proof[r]]] \in Nat /\ counters'[MadeWith[proof[r]]] \in Nat
    BY <1>1, <1>3 DEF CountersGrow
  <2>2. QED BY <1>1, <1>3, <2>1 DEF Backed
<1>4. QED BY <1>2, <1>3

\* Only a proof that holds, or none being needed, makes a request present, and
\* only a present one is granted its claim.
LEMMA BackingSteps ==
    ASSUME TypeInv, [Next]_vars
    PROVE  /\ CountersGrow
           /\ \A r \in Requests :
                 (pc'[r] = "present" \/ Granted(r)') /\ NeedsProof(approval[r]) =>
                    \/ pc[r] = "present" \/ Granted(r)
                    \/ CheckProof(r) /\ ProofHolds(r)
<1> USE DEF TypeInv, TypeOK, CountersGrow, Granted
<1>1. CASE Tick \/ Crash \/ Start \/ UNCHANGED vars
  BY <1>1 DEF Tick, Crash, Start, vars, serviceVars
<1>2. ASSUME NEW r \in Requests, CheckProof(r)
      PROVE  /\ CountersGrow
             /\ UNCHANGED use /\ \A s \in Requests : s # r => pc'[s] = pc[s]
             /\ pc'[r] = "present" => ProofHolds(r)
  <2>1. proof[r] \in Proofs
    BY <1>2 DEF CheckProof, LoadedHasProof
  <2>2. counters' \in {counters, Recorded(proof[r])} /\ UNCHANGED <<approval, proof, use>>
    BY <1>2 DEF CheckProof
  <2>3. TypeInv
    OBVIOUS
  <2>4. \A c \in Authenticators : counters[c] <= counters'[c]
    BY <2>1, <2>2, <2>3, RecordedGrows
  <2>5. QED BY <1>2, <2>2, <2>4 DEF CheckProof
<1>3. ASSUME NEW r \in Requests, Claim(r)
      PROVE  /\ CountersGrow /\ pc[r] = "present"
             /\ \A s \in Requests : s # r => pc'[s] = pc[s] /\ use'[s] = use[s]
  BY <1>3 DEF Claim
<1>4. ASSUME NEW r \in Requests,
             \/ VerifyApproval(r) \/ LoadCredential(r) \/ Open(r) \/ Record(r)
             \/ Respond(r) \/ Lose(r)
      PROVE  /\ CountersGrow /\ UNCHANGED use /\ pc'[r] # "present"
             /\ \A s \in Requests : s # r => pc'[s] = pc[s]
  BY <1>4 DEF VerifyApproval, LoadCredential, Open, Record, Respond, Lose
<1>5. ASSUME NEW r \in Requests, SkipPresence(r)
      PROVE  /\ CountersGrow /\ UNCHANGED use /\ ~NeedsProof(approval[r])
             /\ \A s \in Requests : s # r => pc'[s] = pc[s]
  BY <1>5 DEF SkipPresence
<1> HIDE DEF TypeInv, TypeOK, CountersGrow
<1>6. QED BY <1>1, <1>2, <1>3, <1>4, <1>5 DEF Next, Handle

LEMMA BackedStep == BackedInv /\ [Next]_vars => BackedInv'
<1> SUFFICES ASSUME BackedInv, [Next]_vars PROVE BackedInv'
  OBVIOUS
<1>1. TypeInv /\ TypeInv' /\ CountersGrow
  BY TypeStep, BackingSteps DEF BackedInv
<1>2. ASSUME NEW r \in Requests, CheckProof(r), ProofHolds(r) PROVE Backed(r)'
  <2>1. proof[r] \in Proofs
    BY <1>1, <1>2 DEF CheckProof, TypeInv, LoadedHasProof
  <2>2. /\ counters' = Recorded(proof[r]) /\ UNCHANGED <<approval, proof>>
        /\ ProofFor[proof[r]] = approval[r]
    BY <1>2 DEF CheckProof, ProofHolds
  <2>3. QED BY <1>1, <2>1, <2>2, RecordedGrows DEF Backed
<1>3. ASSUME NEW r \in Requests, pc'[r] = "present" \/ Granted(r)',
             NeedsProof(approval[r])
      PROVE  Backed(r)'
  <2>1. CASE pc[r] = "present" \/ Granted(r)
    <3>1. Backed(r)
      BY <1>3, <2>1 DEF BackedInv
    <3>2. QED BY <1>1, <3>1, BackedStays
  <2>2. CASE CheckProof(r) /\ ProofHolds(r)
    BY <1>2, <2>2
  <2>3. QED BY <1>1, <1>3, <2>1, <2>2, BackingSteps
<1>4. UNCHANGED approval
  BY <1>1 DEF CountersGrow
<1>5. QED BY <1>1, <1>3, <1>4 DEF BackedInv, NeedsProof

\* Whatever races, dies or restarts, a disclosure that needed a confirmation
\* had one for its own approval, and the counter it carried is still stored.
THEOREM GrantsHold == Spec => []GrantsBacked
<1>1. Init => BackedInv
  BY TypeInit DEF Init, BackedInv, Granted
<1>2. BackedInv => GrantsBacked
  <2> SUFFICES ASSUME BackedInv PROVE GrantsBacked
    OBVIOUS
  <2>1. PresenceBoundToApproval
    BY NoProofAssumption DEF BackedInv, Backed, PresenceBoundToApproval
  <2>2. CounterPersistedBeforeUse
    BY DEF BackedInv, Backed, CounterPersistedBeforeUse, Spends
  <2>3. QED BY <2>1, <2>2 DEF GrantsBacked
<1>3. QED BY <1>1, <1>2, BackedStep, PTL DEF Spec

-------------------------------------------------------------------------------
(***************************************************************************)
(* The service implements the bounded-use capability, for every finite set *)
(* of requests.                                                            *)
(***************************************************************************)

\* A row counts exactly the uses granted, and a purged one has expired.
RowIsExact ==
    \A a \in Approvals : usage[a] > 0 => Cardinality(PaidBy(a)) = usage[a]

RefinementInv == PresenceInv /\ RowIsExact

LEMMA EmptyCardinality == Cardinality({}) = 0
BY FS_EmptySet

LEMMA PaidByFinite == ASSUME NEW a PROVE IsFiniteSet(PaidBy(a))
BY RequestsFinite, FS_Subset DEF PaidBy

LEMMA PaidByStable ==
    ASSUME UNCHANGED <<use, approval>>, NEW a
    PROVE  PaidBy(a)' = PaidBy(a)
BY DEF PaidBy, Granted

\* A granted claim adds one use to its own approval and none to another.
LEMMA ClaimAddsOne ==
    ASSUME CapInv, NEW r \in Requests, Claim(r),
           ClaimGranted(approval[r], Spends(r)),
           use' = [use EXCEPT ![r] = usage[approval[r]] + 1]
    PROVE  /\ approval[r] \in Approvals
           /\ r \notin PaidBy(approval[r])
           /\ PaidBy(approval[r])' = PaidBy(approval[r]) \cup {r}
           /\ Cardinality(PaidBy(approval[r]))' = Cardinality(PaidBy(approval[r])) + 1
           /\ \A b \in Approvals : b # approval[r] => PaidBy(b)' = PaidBy(b)
           /\ usage[approval[r]] = 0 => PaidBy(approval[r]) = {}
<1> USE DEF CapInv, TypeInv, TypeOK, StoreTypeOK, Granted
<1>1. /\ pc[r] = "present" /\ approval[r] \in Approvals
      /\ UNCHANGED approval
  BY DEF Claim, VerifiedIsGenuine
<1>2. ~Granted(r) /\ use'[r] > 0
  BY <1>1 DEF GrantedPastClaim
<1>3. \A s \in Requests : s # r => use'[s] = use[s]
  OBVIOUS
<1>4. /\ r \notin PaidBy(approval[r])
      /\ PaidBy(approval[r])' = PaidBy(approval[r]) \cup {r}
      /\ \A b \in Approvals : b # approval[r] => PaidBy(b)' = PaidBy(b)
  BY <1>1, <1>2, <1>3 DEF PaidBy
<1>5. ASSUME NEW S, IsFiniteSet(S), r \notin S
      PROVE  Cardinality(S \cup {r}) = Cardinality(S) + 1
  BY <1>5, FS_AddElement
<1>6. usage[approval[r]] = 0 => PaidBy(approval[r]) = {}
  BY <1>1 DEF VerifiedSeesRow, PaidBy
<1>7. Cardinality(PaidBy(approval[r]) \cup {r}) = Cardinality(PaidBy(approval[r])) + 1
  BY <1>4, <1>5, PaidByFinite
<1>8. QED BY <1>1, <1>4, <1>6, <1>7

LEMMA RefinementStep == RefinementInv /\ [Next]_vars => RefinementInv'
<1> SUFFICES ASSUME RefinementInv, [Next]_vars PROVE RefinementInv'
  OBVIOUS
<1>0. PresenceInv'
  BY PresenceStep DEF RefinementInv
<1>a. SUFFICES RowIsExact'
  BY <1>0 DEF RefinementInv
<1>1. ASSUME UNCHANGED <<use, approval>>,
             \A a \in Approvals : usage'[a] \in {usage[a], 0}
      PROVE  RowIsExact'
  <2>1. \A a \in Approvals : PaidBy(a)' = PaidBy(a)
    BY <1>1, PaidByStable
  <2>2. QED BY <1>1, <2>1 DEF RowIsExact, RefinementInv
<1>2. ASSUME NEW r \in Requests, Claim(r) PROVE RowIsExact'
  <2>1. CASE UNCHANGED <<use, usage>>
    BY <1>1, <1>2, <2>1 DEF Claim
  <2>2. CASE /\ ClaimGranted(approval[r], Spends(r))
             /\ use' = [use EXCEPT ![r] = usage[approval[r]] + 1]
    <3> DEFINE a == approval[r]
    <3>1. CapInv
      BY DEF RefinementInv, PresenceInv
    <3>2. /\ a \in Approvals
          /\ Cardinality(PaidBy(a))' = Cardinality(PaidBy(a)) + 1
          /\ \A b \in Approvals : b # a => PaidBy(b)' = PaidBy(b)
          /\ usage[a] = 0 => PaidBy(a) = {}
      BY <1>2, <2>2, <3>1, ClaimAddsOne
    <3>3. usage' = [usage EXCEPT ![a] = @ + 1]
      BY <2>2 DEF ClaimGranted
    <3>4. usage \in [Approvals -> Nat]
      BY <3>1 DEF CapInv, TypeInv, TypeOK, StoreTypeOK
    <3>5. Cardinality(PaidBy(a)) = usage[a]
      <4>1. CASE usage[a] > 0
        BY <3>2, <4>1 DEF RowIsExact, RefinementInv
      <4>2. CASE usage[a] = 0
        BY <3>2, <4>2, EmptyCardinality
      <4>3. QED BY <3>2, <3>4, <4>1, <4>2
    <3>6. Cardinality(PaidBy(a))' = usage'[a]
      BY <3>2, <3>3, <3>4, <3>5
    <3>7. ASSUME NEW b \in Approvals, b # a, usage'[b] > 0
          PROVE  Cardinality(PaidBy(b))' = usage'[b]
      <4>1. PaidBy(b)' = PaidBy(b) /\ usage'[b] = usage[b]
        BY <3>2, <3>3, <3>4, <3>7
      <4>2. QED BY <3>7, <4>1 DEF RowIsExact, RefinementInv
    <3>8. a' = a
      BY <1>2 DEF Claim
    <3>9. QED BY <3>6, <3>7, <3>8 DEF RowIsExact
  <2>3. QED
    BY <1>2, <2>1, <2>2 DEF Claim, ClaimReplayed, ClaimRefused, storeVars
<1>3. CASE Start
  <2>1. \A a \in Approvals : usage'[a] \in {usage[a], 0}
    BY <1>3 DEF Start, PurgeExpired
  <2>2. QED BY <1>1, <1>3, <2>1 DEF Start
<1>4. CASE UNCHANGED <<use, approval, usage>>
  BY <1>1, <1>4
<1>5. ASSUME NEW r \in Requests, Handle(r) \/ Lose(r) PROVE RowIsExact'
  BY <1>2, <1>4, <1>5 DEF Handle, VerifyApproval, SkipPresence, LoadCredential,
     CheckProof, Open, Record, Respond, Lose
<1>6. CASE Tick \/ Crash \/ UNCHANGED vars
  BY <1>4, <1>6 DEF Tick, Crash, vars, serviceVars
<1>7. QED BY <1>3, <1>5, <1>6 DEF Next

LEMMA RefinementInvariant == Spec => []RefinementInv
<1>1. Init => RefinementInv
  BY PresenceInit DEF Init, StoreInit, RefinementInv, RowIsExact
<1>2. QED BY <1>1, RefinementStep, PTL DEF Spec

LEMMA InitMaps == Init => Cap!Init
<1> SUFFICES ASSUME Init PROVE Cap!Init
  OBVIOUS
<1>1. \A r \in Requests : ~Granted(r)
  BY DEF Init, Granted
<1>2. \A a \in Approvals : PaidBy(a) = {}
  BY <1>1 DEF PaidBy
<1>3. usesBar = [a \in Approvals |-> 0] /\ boughtBar = {}
  BY <1>1, <1>2, EmptyCardinality DEF usesBar, boughtBar
<1>4. QED BY <1>3 DEF Cap!Init, Init, StoreInit

\* A step that grants nothing is a clock tick or invisible to the capability.
LEMMA QuietMaps ==
    ASSUME UNCHANGED <<use, approval, proof>>
    PROVE  usesBar' = usesBar /\ boughtBar' = boughtBar
<1>1. \A a \in Approvals : PaidBy(a)' = PaidBy(a)
  BY PaidByStable
<1>2. \A r \in Requests : Spends(r)' = Spends(r)
  BY SpendsStable
<1>3. QED BY <1>1, <1>2 DEF usesBar, boughtBar, Granted

LEMMA ClaimMaps ==
    ASSUME RefinementInv, NEW r \in Requests, Claim(r),
           ClaimGranted(approval[r], Spends(r)),
           use' = [use EXCEPT ![r] = usage[approval[r]] + 1]
    PROVE  Cap!Disclose(approval[r], Spends(r))
<1> DEFINE a == approval[r]
           p == Spends(r)
<1> USE DEF RefinementInv, PresenceInv, CapInv, TypeInv, TypeOK, StoreTypeOK
<1>1. /\ a \in Approvals
      /\ Cardinality(PaidBy(a))' = Cardinality(PaidBy(a)) + 1
      /\ PaidBy(a)' = PaidBy(a) \cup {r}
      /\ \A b \in Approvals : b # a => PaidBy(b)' = PaidBy(b)
      /\ usage[a] = 0 => PaidBy(a) = {}
  BY ClaimAddsOne
<1>2. Cardinality(PaidBy(a)) = usage[a] /\ usage[a] \in Nat
  <2>1. a \in Approvals /\ usage[a] \in Nat
    BY <1>1
  <2>2. CASE usage[a] > 0
    BY <2>1, <2>2 DEF RowIsExact
  <2>3. CASE usage[a] = 0
    BY <1>1, <2>1, <2>3, EmptyCardinality
  <2>4. QED BY <2>1, <2>2, <2>3
<1>3. usesBar[a] = usage[a]
  BY <1>1, <1>2 DEF usesBar
<1>4. UNCHANGED <<now, approval, proof>>
  BY DEF Claim
<1>5. Limit > 0 => usesBar[a] < Limit
  BY <1>2, <1>3, LimitAssumption DEF ClaimGranted, AtCap
<1>6. usesBar[a] > 0 => now <= Expiry[a]
  <2>1. a \in Approvals /\ Expiry[a] \in Nat /\ now \in Nat
    BY <1>1, ExpiryAssumption
  <2>2. ~(usage[a] > 0 /\ now > Expiry[a])
    BY DEF ClaimGranted, RowExpired
  <2>3. QED BY <1>3, <2>1, <2>2
<1>7. p \in boughtBar => now > ProofExpires[p]
  <2> SUFFICES ASSUME p \in boughtBar PROVE now > ProofExpires[p]
    OBVIOUS
  <2>1. PICK s \in Requests : Granted(s) /\ Spends(s) = p
    BY DEF boughtBar
  <2>2. p \in Proofs /\ p # NoProof
    BY NoProofAssumption DEF boughtBar
  <2>3. p \in spent \/ now > ProofExpires[p]
    BY <2>1, <2>2 DEF SpentUntilExpired
  <2>4. p \notin Unexpired
    BY <2>2 DEF ClaimGranted, AlreadyUsed
  <2>5. QED BY <2>2, <2>3, <2>4, ExpiryAssumption DEF Unexpired
<1>8. usesBar' = [usesBar EXCEPT ![a] = @ + 1]
  <2>1. usesBar' = [b \in Approvals |-> Cardinality(PaidBy(b))']
    BY DEF usesBar
  <2>2. \A b \in Approvals : b # a => Cardinality(PaidBy(b))' = Cardinality(PaidBy(b))
    BY <1>1
  <2>3. \A b \in Approvals :
            Cardinality(PaidBy(b))' = IF b = a THEN Cardinality(PaidBy(a)) + 1
                                               ELSE Cardinality(PaidBy(b))
    BY <1>1, <1>4, <2>2
  <2>4. QED BY <2>1, <2>3 DEF usesBar
<1>9. boughtBar' = boughtBar \cup ({p} \ {NoProof})
  <2>1. \A s \in Requests : Spends(s)' = Spends(s)
    BY <1>4, SpendsStable
  <2>2. \A s \in Requests : Granted(s)' <=> (Granted(s) \/ s = r)
    <3>1. use'[r] > 0
      BY <1>2
    <3>2. QED BY <3>1 DEF Granted
  <2>3. p # NoProof => p \in Proofs
    BY DEF Spends
  <2>4. QED BY <2>1, <2>2, <2>3, NoProofAssumption DEF boughtBar
<1>10. QED BY <1>4, <1>5, <1>6, <1>7, <1>8, <1>9 DEF Cap!Disclose

LEMMA StepMaps ==
    RefinementInv /\ [Next]_vars => [Cap!Next]_<<now, usesBar, boughtBar>>
<1> SUFFICES ASSUME RefinementInv, [Next]_vars
             PROVE  [Cap!Next]_<<now, usesBar, boughtBar>>
  OBVIOUS
<1>1. CASE UNCHANGED <<now, use, approval, proof>>
  BY <1>1, QuietMaps
<1>2. CASE Tick
  <2>1. UNCHANGED <<usesBar, boughtBar>>
    BY <1>2, QuietMaps DEF Tick, serviceVars
  <2>2. QED BY <1>2, <2>1 DEF Tick, Cap!Next, Cap!Tick
<1>3. ASSUME NEW r \in Requests, Claim(r)
      PROVE  [Cap!Next]_<<now, usesBar, boughtBar>>
  <2>1. CASE /\ ClaimGranted(approval[r], Spends(r))
             /\ use' = [use EXCEPT ![r] = usage[approval[r]] + 1]
    <3>1. Cap!Disclose(approval[r], Spends(r))
      BY <1>3, <2>1, ClaimMaps
    <3>2. approval[r] \in Approvals /\ Spends(r) \in Proofs \cup {NoProof}
      BY <1>3 DEF RefinementInv, PresenceInv, CapInv, TypeInv, TypeOK,
                  VerifiedIsGenuine, Spends, Claim
    <3>3. QED BY <3>1, <3>2 DEF Cap!Next
  <2>2. CASE UNCHANGED use
    BY <1>1, <1>3, <2>2 DEF Claim
  <2>3. QED BY <1>3, <2>1, <2>2 DEF Claim
<1>4. CASE Crash \/ Start \/ UNCHANGED vars
  BY <1>1, <1>4 DEF Crash, Start, vars, serviceVars
<1>5. ASSUME NEW r \in Requests, Handle(r) \/ Lose(r)
      PROVE  [Cap!Next]_<<now, usesBar, boughtBar>>
  BY <1>1, <1>3, <1>5 DEF Handle, VerifyApproval, SkipPresence, LoadCredential,
     CheckProof, Open, Record, Respond, Lose
<1>6. QED BY <1>2, <1>4, <1>5 DEF Next

\* The service, with its crashes, purges and races, is a bounded-use
\* capability: the uses granted never exceed the cap, end with the approval,
\* and no confirmation pays twice while it lives.
THEOREM ServiceImplementsCapability == Spec => ImplementsCapability
BY InitMaps, StepMaps, RefinementInvariant, PTL DEF Spec, ImplementsCapability, Cap!Spec
===============================================================================
