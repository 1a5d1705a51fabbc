------------------------------ MODULE UsageStore ------------------------------
(***************************************************************************)
(* The key holder's own store of what a disclosure consumes: the use count *)
(* of each approval and the presence proofs already spent (class           *)
(* UsageStore of justikey/disclosure.py, tables authorization_usage and    *)
(* presence_nonces).  The disclosure service and the custodian each own    *)
(* one; both modules EXTEND this one.                                      *)
(*                                                                         *)
(* A row of authorization_usage exists exactly when its count is positive, *)
(* so usage[a] = 0 is "no row".  The expiry a row or a nonce carries is    *)
(* the one its signed statement states, hence a constant of the approval   *)
(* or the proof.                                                           *)
(***************************************************************************)
EXTENDS Naturals

CONSTANTS
    Approvals,      \* approval nonces: one signed authorization each
    Proofs,         \* presence nonces: one human confirmation each
    NoProof,        \* claim() called with presence_nonce=None
    Expiry,         \* approval_expires_at of each approval
    ProofExpires,   \* expires_at of each proof of presence
    Limit           \* max_disclosures; 0 switches the cap off

ASSUME ExpiryAssumption ==
    /\ Expiry \in [Approvals -> Nat]
    /\ ProofExpires \in [Proofs -> Nat]
ASSUME LimitAssumption == Limit \in Nat
ASSUME NoProofAssumption == NoProof \notin Proofs

VARIABLES
    now,    \* the host's clock
    usage,  \* disclosure_count by approval, 0 when there is no row
    spent   \* the proofs presence_nonces holds

storeVars == <<usage, spent>>

StoreTypeOK ==
    /\ now \in Nat
    /\ usage \in [Approvals -> Nat]
    /\ spent \subseteq Proofs

StoreInit ==
    /\ now = 0
    /\ usage = [a \in Approvals |-> 0]
    /\ spent = {}

\* The presence nonces still stored after DELETE ... WHERE expires_at < now.
Unexpired == {p \in spent : ~(ProofExpires[p] < now)}

\* INSERT OR IGNORE finds the nonce already there.
AlreadyUsed(p) == p # NoProof /\ p \in Unexpired

\* The row of a previous use has outlived its approval.
RowExpired(a) == usage[a] > 0 /\ now > Expiry[a]

AtCapOffByOne(a) == Limit > 0 /\ usage[a] > Limit
AtCap(a) == Limit > 0 /\ usage[a] >= Limit

\* A replayed proof: the purge of expired nonces commits, nothing is spent.
ClaimReplayed(p) ==
    /\ AlreadyUsed(p)
    /\ spent' = Unexpired
    /\ UNCHANGED usage

\* An expired or exhausted approval: the transaction rolls back, so the
\* nonce inserted a moment earlier is not spent.
ClaimRefusedCommitting(a, p) ==
    /\ ~AlreadyUsed(p)
    /\ RowExpired(a) \/ AtCap(a)
    /\ spent' = IF p = NoProof THEN spent ELSE Unexpired \cup {p}
    /\ UNCHANGED usage
ClaimRefused(a, p) ==
    /\ ~AlreadyUsed(p)
    /\ RowExpired(a) \/ AtCap(a)
    /\ UNCHANGED storeVars

ClaimGrantedForgettingProof(a, p) ==
    /\ ~AlreadyUsed(p)
    /\ ~RowExpired(a)
    /\ ~AtCap(a)
    /\ usage' = [usage EXCEPT ![a] = @ + 1]
    /\ UNCHANGED spent
ClaimGrantedIgnoringExpiry(a, p) ==
    /\ ~AlreadyUsed(p)
    /\ ~AtCap(a)
    /\ usage' = [usage EXCEPT ![a] = @ + 1]
    /\ spent' = IF p = NoProof THEN spent ELSE Unexpired \cup {p}
\* Count and proof are spent in one transaction.
ClaimGranted(a, p) ==
    /\ ~AlreadyUsed(p)
    /\ ~RowExpired(a)
    /\ ~AtCap(a)
    /\ usage' = [usage EXCEPT ![a] = @ + 1]
    /\ spent' = IF p = NoProof THEN spent ELSE Unexpired \cup {p}

PurgeAtExpiry ==
    /\ usage' = [a \in Approvals |-> IF Expiry[a] <= now THEN 0 ELSE usage[a]]
    /\ spent' = Unexpired
\* Run once by the server's main(), before it answers anything.
PurgeExpired ==
    /\ usage' = [a \in Approvals |-> IF Expiry[a] < now THEN 0 ELSE usage[a]]
    /\ spent' = Unexpired
===============================================================================
