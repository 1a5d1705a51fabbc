------------------------------ MODULE Capability ------------------------------
(***************************************************************************)
(* What the key holder promises of an approval and of a confirmation,      *)
(* whatever process serves it and however often that process restarts: a   *)
(* bounded-use capability.  Nothing here is code; DisclosureRefinement     *)
(* shows that the disclosure service implements it.                        *)
(***************************************************************************)
EXTENDS Naturals

CONSTANTS Approvals, Proofs, NoProof, Expiry, ProofExpires, Limit, MaxTime

VARIABLES
    now,
    uses,   \* disclosures each approval has paid for, never reset
    bought  \* the proofs that have paid for one

Init ==
    /\ now = 0
    /\ uses = [a \in Approvals |-> 0]
    /\ bought = {}

\* A use is below the cap, within the life of an approval already in use, and
\* paid for with a confirmation that has not paid before while it was live.
Disclose(a, p) ==
    /\ Limit > 0 => uses[a] < Limit
    /\ uses[a] > 0 => now <= Expiry[a]
    /\ p \in bought => now > ProofExpires[p]
    /\ uses' = [uses EXCEPT ![a] = @ + 1]
    /\ bought' = bought \cup ({p} \ {NoProof})
    /\ UNCHANGED now

Tick ==
    /\ now < MaxTime
    /\ now' = now + 1
    /\ UNCHANGED <<uses, bought>>

Next == Tick \/ \E a \in Approvals, p \in Proofs \cup {NoProof} : Disclose(a, p)

Spec == Init /\ [][Next]_<<now, uses, bought>>
===============================================================================
