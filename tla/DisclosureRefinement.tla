------------------------- MODULE DisclosureRefinement -------------------------
(***************************************************************************)
(* The disclosure service implements the bounded-use capability.  The      *)
(* mapping counts what was really granted, not what the usage table        *)
(* remembers: purges and restarts forget rows, the promise does not.       *)
(***************************************************************************)
EXTENDS DisclosureService, FiniteSets

ASSUME RequestsFinite == IsFiniteSet(Requests)

\* The requests an approval has paid for.
PaidBy(a) == {r \in Requests : Granted(r) /\ approval[r] = a}

usesBar == [a \in Approvals |-> Cardinality(PaidBy(a))]
boughtBar == {p \in Proofs : \E r \in Requests : Granted(r) /\ Spends(r) = p}

Cap == INSTANCE Capability WITH uses <- usesBar, bought <- boughtBar

\* Every behaviour of the service, crashes and purges included, is one the
\* bounded-use capability allows (threat-model section "What bounds it").
ImplementsCapability == Cap!Spec
===============================================================================
