-------------------------------- MODULE MCSignIn --------------------------------
(***************************************************************************)
(* Small instances of SignIn.                                               *)
(***************************************************************************)
EXTENDS SignIn, TLC

CONSTANTS u1, u2, r1, r2, r3, r4

OneUser == {u1}
TwoUsers == {u1, u2}
ThreeRequests == {r1, r2, r3}
FourRequests == {r1, r2, r3, r4}
SameRequests == Permutations(Requests)
===============================================================================
