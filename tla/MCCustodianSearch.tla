--------------------------- MODULE MCCustodianSearch ---------------------------
(***************************************************************************)
(* Small instances of CustodianSearch, with its history.                   *)
(***************************************************************************)
EXTENDS SearchCapability, TLC

CONSTANTS a1, a2, s1, s2

\* The requester of a1 is enrolled and must show presence; the one of a2 is
\* not.  A registry that revokes the approver of a1 may come.
TwoApprovals == {a1, a2}
OnlyFirst == {a1}
ExpiresAt1 == (a1 :> 1) @@ (a2 :> 1)
TwoRowsEach == (a1 :> 2) @@ (a2 :> 2)
RevokedLater == (0 :> {}) @@ (1 :> {a1})

OneSearch == {s1}
TwoSearches == {s1, s2}
SearchProofs == Callers \X (0 .. MaxTime)
ProofExpiry == [p \in Proofs |-> p[2] + TTL]

\* The two searches are interchangeable: on two approvals, s1 is on the first.
OrderedInit == CountingInit /\ (approval[s1] = a2 => approval[s2] = a2)
OrderedFairSpec ==
    /\ OrderedInit /\ [][Next /\ Remember]_countingVars
    /\ \A s \in Searches : WF_vars(Step(s))
===============================================================================
