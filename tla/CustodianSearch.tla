---------------------------- MODULE CustodianSearch ----------------------------
(***************************************************************************)
(* A requester's search (POST /search of justikey/webapp.py) from the      *)
(* policy checks of justikey/policy.py through the custodian-mode          *)
(* DisclosureService of justikey/disclosure.py to the application's count  *)
(* and audit entry, composed with the custodian it calls over HTTP or      *)
(* vsock.  The transport retries nothing: a call is answered, or times out *)
(* or is reset and its search fails.                                       *)
(***************************************************************************)
EXTENDS Custodian

CONSTANTS
    Rows,       \* how many records the scope of each approval covers
    TTL,        \* PRESENCE_TTL_SECONDS, the life of a built proof
    MaxTime     \* bound on the clock

Searches == Callers

ASSUME SearchAssumption ==
    /\ Rows \in [Approvals -> 0 .. MaxRows]
    /\ TTL \in Nat
    /\ MaxTime \in Nat
\* Every search builds a proof of its own, fresh when it is built.
ASSUME ProofsAssumption ==
    /\ Proofs = Searches \X (0 .. MaxTime)
    /\ ProofExpires = [p \in Proofs |-> p[2] + TTL]

VARIABLES
    pc,         \* where the request thread of each search is
    approval,   \* the authorization the search names
    stated,     \* registry_versions its custodian client was given
    proof,      \* the proof of presence it built
    row,        \* records revealed to it so far
    count,      \* authorizations.disclosure_count
    told,       \* the count record_disclosure returned to the thread
    audited     \* the application's audit ledger, one entry per search

searchVars == <<pc, approval, stated, proof, row, count, told, audited>>
vars == <<now, usage, spent, custodianVars, searchVars>>

Live == {"connecting", "tokening", "proving", "verifying", "retokening",
         "opening", "waiting", "counting", "reading", "auditing", "denying"}
Ended == {"shown", "denied", "error", "lost"}

TypeOK ==
    /\ StoreTypeOK
    /\ CustodianTypeOK
    /\ pc \in [Searches -> Live \cup Ended \cup {"idle"}]
    /\ approval \in [Searches -> Approvals]
    /\ stated \in [Searches -> 0 .. MaxVersion]
    /\ proof \in [Searches -> Proofs \cup {NoProof}]
    /\ row \in [Searches -> 0 .. MaxRows]
    /\ count \in [Approvals -> Nat]
    /\ told \in [Searches -> Nat]
    /\ audited \in [Searches -> {"none", "disclosure", "search_denied"}]

Init ==
    /\ StoreInit
    /\ CustodianInit
    /\ pc = [s \in Searches |-> "idle"]
    /\ approval \in [Searches -> Approvals]
    /\ stated = [s \in Searches |-> 0]
    /\ proof = [s \in Searches |-> NoProof]
    /\ row = [s \in Searches |-> 0]
    /\ count = [a \in Approvals |-> 0]
    /\ told = [s \in Searches |-> 0]
    /\ audited = [s \in Searches |-> "none"]

Goto(s, place) == pc' = [pc EXCEPT ![s] = place]

-------------------------------------------------------------------------------
(* policy.evaluate_disclosure *)

\* The authorization is unexpired and below the application's own count.
Evaluate(s) ==
    /\ pc[s] = "idle"
    /\ LET a == approval[s] IN
       IF Expiry[a] <= now \/ (Limit > 0 /\ count[a] >= Limit)
         THEN Goto(s, "denying")
         ELSE Goto(s, "connecting")
    /\ UNCHANGED <<now, usage, spent, custodianVars, approval, stated, proof, row,
                   count, told, audited>>

\* service_for asks the custodian for its key and registry versions.  No
\* handler catches AgreementUnavailable here.
Connect(s) ==
    /\ pc[s] = "connecting"
    /\ \/ /\ up
          /\ stated' = [stated EXCEPT ![s] = held]
          /\ Goto(s, "tokening")
       \/ /\ Goto(s, "error")
          /\ UNCHANGED stated
    /\ UNCHANGED <<now, usage, spent, custodianVars, approval, proof, row, count,
                   told, audited>>

\* The first search_token: refused or unreachable is a denial.
Token(s) ==
    /\ pc[s] = "tokening"
    /\ \/ /\ up
          /\ TokenGranted(approval[s], stated[s])
          /\ Goto(s, "proving")
       \/ Goto(s, "denying")
    /\ UNCHANGED <<now, usage, spent, custodianVars, approval, stated, proof, row,
                   count, told, audited>>

\* Where presence is shown the requester's device signs a proof fresh now; with
\* no device registered, none at hand or a signature that fails the search is
\* denied (presence_unavailable, presence_required, presence_invalid).
Prove(s) ==
    /\ pc[s] = "proving"
    /\ \/ /\ proof' = [proof EXCEPT ![s] = IF approval[s] \in Presence
                                             THEN <<s, now>> ELSE NoProof]
          /\ Goto(s, "verifying")
       \/ /\ Goto(s, "denying")
          /\ UNCHANGED proof
    /\ UNCHANGED <<now, usage, spent, custodianVars, approval, stated, row, count,
                   told, audited>>

-------------------------------------------------------------------------------
(* DisclosureService.disclose with a custodian *)

\* The service's own verify_approval and verify_presence.
Verify(s) ==
    /\ pc[s] = "verifying"
    /\ Goto(s, IF now <= Expiry[approval[s]] /\ PresenceShown(approval[s], proof[s])
               THEN "retokening" ELSE "denying")
    /\ UNCHANGED <<now, usage, spent, custodianVars, approval, stated, proof, row,
                   count, told, audited>>

\* The second search_token, inside disclose(): policy catches none of its
\* refusals.
Retoken(s) ==
    /\ pc[s] = "retokening"
    /\ \/ /\ up
          /\ TokenGranted(approval[s], stated[s])
          /\ Goto(s, "opening")
       \/ Goto(s, "error")
    /\ UNCHANGED <<now, usage, spent, custodianVars, approval, stated, proof, row,
                   count, told, audited>>

\* One record, one call; after the last one the search is allowed.
SendOpen(s) ==
    /\ pc[s] = "opening"
    /\ row[s] < Rows[approval[s]]
    /\ request' = [request EXCEPT ![s] =
                     [approval |-> approval[s], proof |-> proof[s],
                      stated |-> stated[s], row |-> row[s] + 1]]
    /\ \E fate \in IF up THEN {"sent", "reset"} ELSE {"reset"} :
         call' = [call EXCEPT ![s] = fate]
    /\ Goto(s, "waiting")
    /\ UNCHANGED <<now, usage, spent, up, held, use, opened, approval, stated,
                   proof, row, count, told, audited>>

AllOpened(s) ==
    /\ pc[s] = "opening"
    /\ row[s] = Rows[approval[s]]
    /\ Goto(s, "counting")
    /\ UNCHANGED <<now, usage, spent, custodianVars, approval, stated, proof, row,
                   count, told, audited>>

ReceiveDenying(s) ==
    /\ pc[s] = "waiting"
    /\ \/ /\ call[s] = "200"
          /\ row' = [row EXCEPT ![s] = @ + 1]
          /\ Goto(s, "opening")
       \/ /\ call[s] \in {"403", "503", "reset"}
          /\ Goto(s, "denying")
          /\ UNCHANGED row
    /\ call' = [call EXCEPT ![s] = "none"]
    /\ UNCHANGED <<now, usage, spent, up, held, request, use, opened, approval,
                   stated, proof, count, told, audited>>
\* A refused or failed call raises CustodianError, which neither disclose()
\* nor evaluate_disclosure catches: the request ends as an HTTP 500.
Receive(s) ==
    /\ pc[s] = "waiting"
    /\ \/ /\ call[s] = "200"
          /\ row' = [row EXCEPT ![s] = @ + 1]
          /\ Goto(s, "opening")
       \/ /\ call[s] \in {"403", "503", "reset"}
          /\ Goto(s, "error")
          /\ UNCHANGED row
    /\ call' = [call EXCEPT ![s] = "none"]
    /\ UNCHANGED <<now, usage, spent, up, held, request, use, opened, approval,
                   stated, proof, count, told, audited>>

TimeoutWhenDown(s) ==
    /\ ~up
    /\ pc[s] = "waiting"
    /\ Goto(s, "error")
    /\ UNCHANGED <<now, usage, spent, custodianVars, approval, stated, proof, row,
                   count, told, audited>>
\* The client's socket timeout: the handler, if any, goes on.
Timeout(s) ==
    /\ pc[s] = "waiting"
    /\ Goto(s, "error")
    /\ UNCHANGED <<now, usage, spent, custodianVars, approval, stated, proof, row,
                   count, told, audited>>

-------------------------------------------------------------------------------
(* The rest of the request: record_disclosure, the audit entry, the answer *)

CountUse(s) ==
    /\ pc[s] = "counting"
    /\ count' = [count EXCEPT ![approval[s]] = @ + 1]
    /\ Goto(s, "reading")
    /\ UNCHANGED <<now, usage, spent, custodianVars, approval, stated, proof, row,
                   told, audited>>

ReadCount(s) ==
    /\ pc[s] = "reading"
    /\ told' = [told EXCEPT ![s] = count[approval[s]]]
    /\ Goto(s, "auditing")
    /\ UNCHANGED <<now, usage, spent, custodianVars, approval, stated, proof, row,
                   count, audited>>

\* The entry is committed before the page is sent.
Audit(s) ==
    /\ \/ /\ pc[s] = "auditing"
          /\ audited' = [audited EXCEPT ![s] = "disclosure"]
          /\ Goto(s, "shown")
       \/ /\ pc[s] = "denying"
          /\ audited' = [audited EXCEPT ![s] = "search_denied"]
          /\ Goto(s, "denied")
    /\ UNCHANGED <<now, usage, spent, custodianVars, approval, stated, proof, row,
                   count, told>>

-------------------------------------------------------------------------------
(* The environment, and the whole *)

Tick ==
    /\ now < MaxTime
    /\ now' = now + 1
    /\ UNCHANGED <<usage, spent, custodianVars, searchVars>>

\* The application process dies; the calls it had sent go on.
ApplicationCrash ==
    /\ \E s \in Searches : pc[s] \in Live
    /\ pc' = [s \in Searches |-> IF pc[s] \in Live THEN "lost" ELSE pc[s]]
    /\ UNCHANGED <<now, usage, spent, custodianVars, approval, stated, proof, row,
                   count, told, audited>>

Step(s) ==
    \/ Connect(s) \/ Token(s) \/ Prove(s) \/ Verify(s) \/ Retoken(s)
    \/ SendOpen(s) \/ AllOpened(s) \/ Receive(s) \/ Timeout(s)
    \/ CountUse(s) \/ ReadCount(s) \/ Audit(s)

Next ==
    \/ \E s \in Searches : Evaluate(s) \/ Step(s)
    \/ \E s \in Searches : ServeOpen(s) /\ UNCHANGED searchVars
    \/ CustodianCrash /\ UNCHANGED searchVars
    \/ CustodianStart /\ UNCHANGED searchVars
    \/ Tick
    \/ ApplicationCrash

Spec == Init /\ [][Next]_vars

\* A thread that can go on does; a call that is never answered times out.
FairSpec == Spec /\ \A s \in Searches : WF_vars(Step(s))

-------------------------------------------------------------------------------
(* Properties *)

GrantedTo(s) == {d \in opened : d.event = "open_granted" /\ d.call = s}

\* Every record a search showed is accounted for twice: an open_granted entry
\* of its own in the custodian's ledger, written before the reply, and the
\* disclosure entry in the application's, written before the page.
ShownIsAccounted ==
    \A s \in Searches :
        /\ \A n \in 1 .. row[s] : \E d \in GrantedTo(s) : d.row = n
        /\ pc[s] = "shown" => audited[s] = "disclosure"

\* "Records stay sealed; no partial disclosure occurs" (policy.py): a search
\* answered with a denial, whatever the reason, opened no record.
DenialOpensNothing ==
    \A s \in Searches : pc[s] \in {"denying", "denied"} => GrantedTo(s) = {}

\* "Neither side opens a record while they disagree about whose keys count":
\* all the records of one search were opened under the one registry version
\* it was given, by an approver not revoked in it.
OnePolicyPerSearch ==
    \A s \in Searches : \A d \in GrantedTo(s) :
        d.held = stated[s] /\ approval[s] \notin Revoked[d.held]

\* Openings of one approval, from whatever searches and across restarts, are
\* paid with distinct uses within the limit.
OpeningsCounted ==
    \A s, t \in Searches : approval[s] = approval[t] =>
        \A d \in GrantedTo(s), e \in GrantedTo(t) :
            /\ d.use >= 1
            /\ Limit > 0 => d.use <= Limit
            /\ d # e => d.use # e.use

\* A search opens a second record with its proof only once it has expired.
ProofOpensOneRecord ==
    \A s \in Searches : \A d, e \in GrantedTo(s) :
        proof[s] # NoProof /\ d # e => now > ProofExpires[proof[s]]

\* "No way to open more than one record per verified approval-and-presence
\* pair" (custodian.py): each record opened was paid for with a use of the
\* approval of its own and, where presence is shown, with a live confirmation
\* that opens no other.
OpeningsArePaid == OpeningsCounted /\ ProofOpensOneRecord

\* The application never counts a disclosure the custodian did not make:
\* a search that reached the count had opened every record in scope.
CountFollowsOpening ==
    \A s \in Searches : pc[s] \in {"counting", "reading", "auditing", "shown"} =>
        {d.row : d \in GrantedTo(s)} = 1 .. Rows[approval[s]]

\* A well-typed search opens all the records in scope or none that matter: a
\* denial opened nothing, and only a complete opening is counted and shown.
AllOrNothing == TypeOK /\ DenialOpensNothing /\ CountFollowsOpening

\* A search that began is answered, fails or dies: no thread waits for ever
\* on a custodian that crashed or never answers.
EverySearchEnds == \A s \in Searches : pc[s] \in Live ~> pc[s] \in Ended

-------------------------------------------------------------------------------
(* What the text promises and the code does not keep *)

\* "The key holder being unreachable is an expected operating state ... Deny
\* cleanly and audibly rather than erroring out" (policy.py): a search that
\* had not yet asked for a record ends in a denial, not in an error.
UnreachableIsDenied ==
    \A s \in Searches : pc[s] = "error" => request[s] # NoRequest

\* "a search that finds nothing costs the requester nothing" (custodian.py).
EmptySearchIsFree ==
    \A a \in Approvals : Rows[a] = 0 => count[a] = 0 /\ usage[a] = 0

\* "after one disclosure ... the custodian's shows a count of 1"
\* (docs/stage-5-key-isolation.md): a search shown cost one use.
OneDisclosureOneUse ==
    \A s \in Searches : pc[s] = "shown" =>
        \A d, e \in GrantedTo(s) : d.use = e.use

\* "If any condition fails, disclosure is denied and the reason is returned
\* so the caller can audit it" (policy.py): a search that has ended and was
\* told of a refusal by the custodian ended in an audited denial.
RefusalIsAudited ==
    \A s \in Searches :
        /\ pc[s] \in Ended \ {"lost"}
        /\ call[s] = "none"
        /\ \E d \in opened : d.call = s /\ d.event = "open_refused"
        => audited[s] = "search_denied"
===============================================================================
