-------------------------- MODULE MCRegistryAdmission --------------------------
(***************************************************************************)
(* Small instances of RegistryAdmission: the two roles of the code.      *)
(***************************************************************************)
EXTENDS RegistryAdmission, TLC

CONSTANTS k1, k2

BothRoles == <<"approver", "requester">>
TwoSets == {k1, k2}
OneChange == [r \in Role |-> IF r = "approver" THEN 2 ELSE 1]
SameSets == Permutations(TwoSets)

\* Where a mishap happened, or the loop is the disclosure service's, some
\* properties say nothing; no action reads what they alone are about, so such
\* states are told apart by the rest.
Distinguished ==
    <<out, IF mishaps = {} THEN latest ELSE <<>>, exported, file, meta,
      IF inLoop /\ "died" \notin mishaps THEN ledger ELSE <<>>, inLoop, process, serving,
      mishaps = {} /\ refused, mishaps>>
===============================================================================
