-------------------------- MODULE DisclosureService --------------------------
(***************************************************************************)
(* The disclosure service of justikey/disclosure.py as served by           *)
(* scripts/disclosure_server.py: one thread per /disclose request, every   *)
(* request verified against the service's own registries, the approval's   *)
(* count and the proof of presence spent in one transaction of the         *)
(* UsageStore, the records opened, the decision written to the service's   *)
(* ledger and only then answered.  The clock moves, threads die and the    *)
(* whole process crashes and restarts between any two of these steps.      *)
(***************************************************************************)
EXTENDS UsageStore

CONSTANTS
    Requests,       \* /disclose calls, each handled at most once
    Forged,         \* any statement no enrolled approver signed
    ApprovedAt,     \* approved_at of each approval
    Enrolled,       \* approvals whose requester has a key enrolled here
    PresenceMode,   \* "off", "enrolled" or "required"
    ProofFor,       \* the approval each proof is bound to
    ProofIssued,    \* issued_at of each proof
    MaxTTL,         \* PRESENCE_MAX_TTL_SECONDS
    Authenticators, \* hardware credentials (credential_id)
    Software,       \* the proof was made with a software key
    MadeWith,       \* the authenticator that made each proof, or Software
    Counter,        \* the signature counter a hardware proof carries
    MaxTime         \* bound on the clock

ASSUME ServiceAssumption ==
    /\ Forged \notin Approvals
    /\ ApprovedAt \in [Approvals -> Nat]
    /\ Enrolled \subseteq Approvals
    /\ PresenceMode \in {"off", "enrolled", "required"}
    /\ ProofFor \in [Proofs -> Approvals]
    /\ ProofIssued \in [Proofs -> Nat]
    /\ MaxTTL \in Nat
    /\ Software \notin Authenticators
    /\ MadeWith \in [Proofs -> Authenticators \cup {Software}]
    /\ Counter \in [Proofs -> Nat]
    /\ MaxTime \in Nat

VARIABLES
    up,         \* the process is serving
    counters,   \* webauthn_counters: highest counter seen per authenticator
    approval,   \* the approval each request presents
    proof,      \* the proof of presence each request presents
    pc,         \* where each request's handler thread is
    seen,       \* the counter _requester_credential read, local to the thread
    use,        \* _local.use_count: the count claim() returned to the thread
    at,         \* history: the clock when the thread's claim was granted
    ledger      \* the service's ledger: one entry per recorded decision

serviceVars == <<up, counters, pc, seen, use, at, ledger>>
vars == <<now, usage, spent, approval, proof, serviceVars>>

\* Inside disclose() or the handler around it.
Live == {"approved", "loaded", "present", "claimed", "opened", "failed",
         "refused", "granting", "denying"}
Ended == {"disclosed", "denied", "lost"}

Entry == [req : Requests, event : {"disclosure_granted", "disclosure_refused",
                                   "disclosure_failed"}, use : Nat]

TypeOK ==
    /\ StoreTypeOK
    /\ up \in BOOLEAN
    /\ counters \in [Authenticators -> Nat]
    /\ approval \in [Requests -> Approvals \cup {Forged}]
    /\ proof \in [Requests -> Proofs \cup {NoProof}]
    /\ pc \in [Requests -> Live \cup Ended \cup {"sent"}]
    /\ seen \in [Requests -> Nat]
    /\ use \in [Requests -> Nat]
    /\ at \in [Requests -> Nat]
    /\ ledger \subseteq Entry

\* Clients may present any approval with any proof, the same ones repeatedly.
Init ==
    /\ StoreInit
    /\ up = TRUE
    /\ counters = [c \in Authenticators |-> 0]
    /\ approval \in [Requests -> Approvals \cup {Forged}]
    /\ proof \in [Requests -> Proofs \cup {NoProof}]
    /\ pc = [r \in Requests |-> "sent"]
    /\ seen = [r \in Requests |-> 0]
    /\ use = [r \in Requests |-> 0]
    /\ at = [r \in Requests |-> 0]
    /\ ledger = {}

-------------------------------------------------------------------------------
(* verify_approval *)

ApprovalHolds(a) ==
    /\ a # Forged
    /\ now <= Expiry[a]
    /\ ApprovedAt[a] <= now

VerifyApproval(r) ==
    /\ up
    /\ pc[r] = "sent"
    /\ pc' = [pc EXCEPT ![r] = IF ApprovalHolds(approval[r]) THEN "approved"
                                                             ELSE "refused"]
    /\ UNCHANGED <<now, usage, spent, up, counters, approval, proof, seen, use,
                   at, ledger>>

-------------------------------------------------------------------------------
(* verify_presence *)

\* Whether this requester must show presence, given the mode and enrolment.
NeedsProof(a) == PresenceMode # "off" /\ a \in Enrolled

\* The presence nonce disclose() hands to claim().
Spends(r) == IF NeedsProof(approval[r]) THEN proof[r] ELSE NoProof

\* Nothing to check: presence is off, or the requester has not migrated.
\* In mode "required" a requester with no key is refused.
SkipPresence(r) ==
    /\ up
    /\ pc[r] = "approved"
    /\ ~NeedsProof(approval[r])
    /\ pc' = [pc EXCEPT ![r] = IF PresenceMode = "required" THEN "refused"
                                                            ELSE "present"]
    /\ UNCHANGED <<now, usage, spent, up, counters, approval, proof, seen, use,
                   at, ledger>>

\* The credential is read with the counter stored at that moment.
LoadCredential(r) ==
    /\ up
    /\ pc[r] = "approved"
    /\ NeedsProof(approval[r])
    /\ IF proof[r] = NoProof
         THEN /\ pc' = [pc EXCEPT ![r] = "refused"]
              /\ UNCHANGED seen
         ELSE /\ pc' = [pc EXCEPT ![r] = "loaded"]
              /\ seen' = [seen EXCEPT ![r] = IF MadeWith[proof[r]] = Software THEN 0
                                             ELSE counters[MadeWith[proof[r]]]]
    /\ UNCHANGED <<now, usage, spent, up, counters, approval, proof, use, at,
                   ledger>>

Fresh(p) ==
    /\ ProofIssued[p] <= now
    /\ now < ProofExpires[p]
    /\ ProofExpires[p] <= ProofIssued[p] + MaxTTL

\* Zero after zero is an authenticator without a counter.
CounterAdvanced(p, last) ==
    \/ MadeWith[p] = Software
    \/ Counter[p] = 0 /\ last = 0
    \/ Counter[p] > last

ProofHoldsUnbound(r) == Fresh(proof[r]) /\ CounterAdvanced(proof[r], seen[r])
ProofHolds(r) ==
    /\ ProofFor[proof[r]] = approval[r]
    /\ Fresh(proof[r])
    /\ CounterAdvanced(proof[r], seen[r])

\* record_sign_count: MAX, so a counter never goes down.
Recorded(p) ==
    IF MadeWith[p] = Software THEN counters
    ELSE [counters EXCEPT ![MadeWith[p]] = IF @ < Counter[p] THEN Counter[p] ELSE @]

\* presence.verify against the credential loaded above, and the counter saved.
CheckProof(r) ==
    /\ up
    /\ pc[r] = "loaded"
    /\ IF ProofHolds(r)
         THEN /\ pc' = [pc EXCEPT ![r] = "present"]
              /\ counters' = Recorded(proof[r])
         ELSE /\ pc' = [pc EXCEPT ![r] = "refused"]
              /\ UNCHANGED counters
    /\ UNCHANGED <<now, usage, spent, up, approval, proof, seen, use, at, ledger>>

-------------------------------------------------------------------------------
(* UsageStore.claim, the opening, the ledger and the answer *)

Claim(r) ==
    /\ up
    /\ pc[r] = "present"
    /\ \/ /\ ClaimGranted(approval[r], Spends(r))
          /\ pc' = [pc EXCEPT ![r] = "claimed"]
          /\ use' = [use EXCEPT ![r] = usage[approval[r]] + 1]
          /\ at' = [at EXCEPT ![r] = now]
       \/ /\ ClaimReplayed(Spends(r)) \/ ClaimRefused(approval[r], Spends(r))
          /\ pc' = [pc EXCEPT ![r] = "refused"]
          /\ UNCHANGED <<use, at>>
    /\ UNCHANGED <<now, up, counters, approval, proof, seen, ledger>>

\* Every in-scope row opens, or one raises SealingError and none is revealed.
Open(r) ==
    /\ up
    /\ pc[r] = "claimed"
    /\ \E outcome \in {"opened", "failed"} : pc' = [pc EXCEPT ![r] = outcome]
    /\ UNCHANGED <<now, usage, spent, up, counters, approval, proof, seen, use,
                   at, ledger>>

\* The decision enters the ledger with the count this thread was given.
Record(r) ==
    /\ up
    /\ \/ /\ pc[r] = "opened"
          /\ ledger' = ledger \cup {[req |-> r, event |-> "disclosure_granted",
                                     use |-> use[r]]}
          /\ pc' = [pc EXCEPT ![r] = "granting"]
       \/ /\ pc[r] \in {"refused", "failed"}
          /\ ledger' = ledger \cup
               {[req |-> r, use |-> 0,
                 event |-> IF pc[r] = "failed" THEN "disclosure_failed"
                                               ELSE "disclosure_refused"]}
          /\ pc' = [pc EXCEPT ![r] = "denying"]
    /\ UNCHANGED <<now, usage, spent, up, counters, approval, proof, seen, use, at>>

RespondToGrants(r) ==
    /\ up
    /\ pc[r] = "granting"
    /\ pc' = [pc EXCEPT ![r] = "disclosed"]
    /\ UNCHANGED <<now, usage, spent, up, counters, approval, proof, seen, use,
                   at, ledger>>
RespondEarly(r) ==
    /\ up
    /\ \/ /\ pc[r] \in {"opened", "granting"}
          /\ pc' = [pc EXCEPT ![r] = "disclosed"]
       \/ /\ pc[r] = "denying"
          /\ pc' = [pc EXCEPT ![r] = "denied"]
    /\ UNCHANGED <<now, usage, spent, up, counters, approval, proof, seen, use,
                   at, ledger>>
Respond(r) ==
    /\ up
    /\ \/ /\ pc[r] = "granting"
          /\ pc' = [pc EXCEPT ![r] = "disclosed"]
       \/ /\ pc[r] = "denying"
          /\ pc' = [pc EXCEPT ![r] = "denied"]
    /\ UNCHANGED <<now, usage, spent, up, counters, approval, proof, seen, use,
                   at, ledger>>

-------------------------------------------------------------------------------
(* The environment *)

Tick ==
    /\ now < MaxTime
    /\ now' = now + 1
    /\ UNCHANGED <<usage, spent, approval, proof, serviceVars>>

\* An unexpected exception, or a caller that hung up, ends one thread.
Lose(r) ==
    /\ up
    /\ pc[r] \in Live
    /\ pc' = [pc EXCEPT ![r] = "lost"]
    /\ UNCHANGED <<now, usage, spent, up, counters, approval, proof, seen, use,
                   at, ledger>>

\* The process dies: every thread with it.  What SQLite committed stays.
Crash ==
    /\ up
    /\ up' = FALSE
    /\ pc' = [r \in Requests |-> IF pc[r] \in Live THEN "lost" ELSE pc[r]]
    /\ UNCHANGED <<now, usage, spent, counters, approval, proof, seen, use, at,
                   ledger>>

\* main(): expired rows are purged before the socket is bound.
Start ==
    /\ ~up
    /\ up' = TRUE
    /\ PurgeExpired
    /\ UNCHANGED <<now, counters, approval, proof, pc, seen, use, at, ledger>>

Handle(r) ==
    \/ VerifyApproval(r)
    \/ SkipPresence(r)
    \/ LoadCredential(r)
    \/ CheckProof(r)
    \/ Claim(r)
    \/ Open(r)
    \/ Record(r)
    \/ Respond(r)

Next ==
    \/ \E r \in Requests : Handle(r) \/ Lose(r)
    \/ Tick
    \/ Crash
    \/ Start

Spec == Init /\ [][Next]_vars

\* Threads are scheduled while the process runs, and a supervisor restarts it.
Fairness ==
    /\ \A r \in Requests : WF_vars(Handle(r))
    /\ WF_vars(Start)

FairSpec == Spec /\ Fairness

-------------------------------------------------------------------------------
(* Properties *)

\* The claim of this request was granted.
Granted(r) == use[r] > 0

\* test_disclosure_limits: one approval stops at the cap, however many
\* requests race and however often the service restarts: no two granted claims
\* of an approval were given the same count, and no count exceeds the limit.
CapRespected ==
    \A r, s \in Requests :
        Granted(r) /\ Granted(s) /\ approval[r] = approval[s] =>
            /\ Limit > 0 => use[r] <= Limit
            /\ r # s => use[r] # use[s]

\* One proof of presence buys one disclosure for as long as it lives: of two
\* grants that spent the same proof the later came after the proof expired.
ProofSpentOnceWhileLive ==
    \A r, s \in Requests :
        Granted(r) /\ Granted(s) /\ r # s /\ Spends(r) # NoProof
            /\ Spends(r) = Spends(s)
        => at[r] > ProofExpires[Spends(r)] \/ at[s] > ProofExpires[Spends(s)]

\* A request refused by the cap or by expiry does not cost the requester the
\* confirmation: a stored presence nonce was spent by a granted claim.
SpentProofBoughtAGrant ==
    \A p \in spent : \E r \in Requests : Granted(r) /\ Spends(r) = p

\* One confirmation, one disclosure, in both directions: none is spent for
\* nothing, and while it lives it buys no second one.
ConfirmationsBuyDisclosures == ProofSpentOnceWhileLive /\ SpentProofBoughtAGrant

\* An approval that has been used is closed at its expiry, restarts and the
\* purge of its row included: only a first use can be granted late.
UsedApprovalClosesAtExpiry ==
    \A r \in Requests : use[r] > 1 => at[r] <= Expiry[approval[r]]

\* "counted by the trusted side, closed permanently at expiry" (disclosure.py:97),
\* as far as the code keeps it.
ApprovalBoundsUses == CapRespected /\ UsedApprovalClosesAtExpiry

\* An approval is only spent with a proof made for that approval.
PresenceBoundToApproval ==
    \A r \in Requests :
        Granted(r) /\ NeedsProof(approval[r]) =>
            /\ proof[r] # NoProof
            /\ ProofFor[proof[r]] = approval[r]

\* The counter a hardware proof carried is stored before its disclosure
\* proceeds and stays stored, so a copy used later is behind it.
CounterPersistedBeforeUse ==
    \A r \in Requests :
        LET p == Spends(r) IN
        Granted(r) /\ p # NoProof /\ MadeWith[p] # Software =>
            counters[MadeWith[p]] >= Counter[p]

\* Two disclosures in flight do not report each other's number: the granted
\* entries of the ledger carry distinct counts for one approval.
LedgerCountsDistinct ==
    \A e, f \in ledger :
        /\ e.event = "disclosure_granted"
        /\ f.event = "disclosure_granted"
        /\ e.req # f.req
        /\ approval[e.req] = approval[f.req]
        => e.use # f.use

\* An opening that reached the caller is in the ledger, and it was paid for.
DisclosedIsRecorded ==
    \A r \in Requests :
        pc[r] = "disclosed" =>
            /\ Granted(r)
            /\ [req |-> r, event |-> "disclosure_granted", use |-> use[r]] \in ledger

\* The ledger follows the claims: whatever reached a caller is recorded with
\* the count its own claim was given, and no two openings share a count.
LedgerFollowsClaims == DisclosedIsRecorded /\ LedgerCountsDistinct

\* Every grant was backed, by a proof for its own approval whose counter the
\* service had stored before it went on.
GrantsBacked == PresenceBoundToApproval /\ CounterPersistedBeforeUse

\* Every request a thread took up is answered or lost with its thread.
EveryRequestEnds == \A r \in Requests : pc[r] \in Live ~> pc[r] \in Ended

-------------------------------------------------------------------------------
(* What the text promises and the code does not keep *)

\* "the presence nonce makes one human confirmation buy exactly one
\* disclosure" (justikey/disclosure.py, disclose).
OneConfirmationOneDisclosure ==
    \A r, s \in Requests :
        Granted(r) /\ Granted(s) /\ Spends(r) # NoProof /\ Spends(r) = Spends(s)
        => r = s

\* "signCount strictly increases, which is how a cloned authenticator shows
\* up" (justikey/webauthn.py): of two proofs with one counter value only one
\* is accepted.
ClonedCounterRefused ==
    \A r, s \in Requests :
        LET p == Spends(r)
            q == Spends(s) IN
        /\ Granted(r) /\ p # NoProof /\ MadeWith[p] # Software
        /\ Granted(s) /\ q # NoProof /\ MadeWith[q] = MadeWith[p]
        /\ p # q /\ Counter[p] > 0
        => Counter[p] # Counter[q]

\* "counted by the trusted side, closed permanently at expiry" (docstring of
\* UsageStore).
ClosedAtExpiry ==
    \A r \in Requests : Granted(r) => at[r] <= Expiry[approval[r]]
===============================================================================
