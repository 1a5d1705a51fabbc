------------------------------- MODULE MCApproval -------------------------------
(***************************************************************************)
(* Small instances of Approval: two authorizations, two approvers and three *)
(* requests.  The second authorization was asked for by an approver: roles  *)
(* keep the pages apart, but models.py promises its guard without them.     *)
(***************************************************************************)
EXTENDS Approval, TLC

CONSTANTS a1, a2, u1, u2, officer, r1, r2, r3

TwoAuthorizations == {a1, a2}
TwoApprovers == {u1, u2}
OneApprover == {u1}
AskedBy == a1 :> officer @@ a2 :> u2
ThreeRequests == {r1, r2, r3}
SameRequests == Permutations(ThreeRequests)
===============================================================================
