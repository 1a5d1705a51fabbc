------------------------- MODULE MCDisclosureService -------------------------
(***************************************************************************)
(* Small instances of DisclosureService.  Times are chosen so that an      *)
(* approval and a proof can both expire while a request is in flight.      *)
(***************************************************************************)
EXTENDS DisclosureRefinement, TLC

CONSTANTS a1, a2, p1, p2, p3, k1, r1, r2, r3

\* One approval, two confirmations made with a software key: p1 dies before
\* the approval, p2 after it.
OneApproval == {a1}
ExpiryOne == (a1 :> 2)
ApprovedOne == (a1 :> 0)
TwoProofs == {p1, p2}
ProofExpiresTwo == (p1 :> 1) @@ (p2 :> 3)
ProofForOne == (p1 :> a1) @@ (p2 :> a1)
ProofIssuedTwo == (p1 :> 0) @@ (p2 :> 0)
NoAuthenticators == {}
BySoftware == (p1 :> Software) @@ (p2 :> Software)
NoCounter == (p1 :> 0) @@ (p2 :> 0)
ThreeRequests == {r1, r2, r3}
Symmetric == Permutations(ThreeRequests)

\* Two approvals, the second valid later and of a requester who has no key
\* enrolled; two confirmations of the first with one authenticator, and a
\* third one made for the second approval.
TwoApprovals == {a1, a2}
ExpiryBoth == (a1 :> 2) @@ (a2 :> 1)
ApprovedBoth == (a1 :> 0) @@ (a2 :> 1)
ThreeProofs == {p1, p2, p3}
ProofForThree == (p1 :> a1) @@ (p2 :> a1) @@ (p3 :> a2)
ProofExpiresThree == (p1 :> 1) @@ (p2 :> 3) @@ (p3 :> 2)
ProofIssuedThree == (p1 :> 0) @@ (p2 :> 0) @@ (p3 :> 0)
OneAuthenticator == {k1}
HardwareAndSoftware == (p1 :> k1) @@ (p2 :> k1) @@ (p3 :> Software)
Counters == (p1 :> 1) @@ (p2 :> 2) @@ (p3 :> 0)
TwoRequests == {r1, r2}
===============================================================================
