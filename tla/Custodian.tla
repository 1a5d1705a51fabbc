------------------------------- MODULE Custodian -------------------------------
(***************************************************************************)
(* The custodian: justikey/custodian.py served by                          *)
(* scripts/custodian_server.py.  A caller has one /open call at a time in  *)
(* flight; the handler thread serving it re-checks registries, approval    *)
(* and presence, spends one use of the approval and the proof, asks its    *)
(* key holder for the agreement, writes its ledger and only then answers.  *)
(* A caller may stop waiting at any moment; its handler goes on.  The      *)
(* custodian crashes and restarts, possibly with a newer registry.         *)
(***************************************************************************)
EXTENDS UsageStore

CONSTANTS
    Callers,        \* searches: each sends its calls one after the other
    MaxRows,        \* bound on the sealed records one approval covers
    Presence,       \* approvals whose requester is enrolled, unless the mode is "off"
    MaxVersion,     \* bound on the registry version
    Revoked         \* approvals whose approver is revoked, by version

ASSUME CustodianAssumption ==
    /\ MaxRows \in Nat
    /\ Presence \subseteq Approvals
    /\ MaxVersion \in Nat
    /\ Revoked \in [0 .. MaxVersion -> SUBSET Approvals]

VARIABLES
    up,         \* the custodian is serving
    held,       \* registry_versions of the running custodian
    request,    \* the /open call of each caller: what its message carries
    call,       \* where the handler of that call is
    use,        \* the count claim() returned to the handler
    opened      \* the custodian's ledger: its decisions on /open

custodianVars == <<up, held, request, call, use, opened>>

Request == [approval : Approvals, proof : Proofs \cup {NoProof},
            stated : 0 .. MaxVersion, row : 1 .. MaxRows]
NoRequest == [row |-> 0]

\* A handler is at work on the call.
Working == {"sent", "checked", "claimed", "agreed", "refused", "unavailable"}
\* The decision is in the ledger and the reply can be written; a reply the
\* caller no longer awaits goes nowhere.
Answers == {"200", "403", "503"}
Decision == [call : Callers, row : 1 .. MaxRows, use : Nat, held : 0 .. MaxVersion,
             event : {"open_granted", "open_refused", "agreement_unavailable"}]

CustodianTypeOK ==
    /\ up \in BOOLEAN
    /\ held \in 0 .. MaxVersion
    /\ request \in [Callers -> Request \cup {NoRequest}]
    /\ call \in [Callers -> Working \cup Answers \cup {"none", "reset"}]
    /\ use \in [Callers -> Nat]
    /\ opened \subseteq Decision

CustodianInit ==
    /\ up = TRUE
    /\ held = 0
    /\ request = [c \in Callers |-> NoRequest]
    /\ call = [c \in Callers |-> "none"]
    /\ use = [c \in Callers |-> 0]
    /\ opened = {}

-------------------------------------------------------------------------------
(* The checks, each its own refusal *)

SameRegistry(stated) == stated = held
AnyRegistry(stated) == stated \in 0 .. MaxVersion

\* _check_approval: the approver is enrolled, not revoked, and it is in time.
ApprovalStands(a) == a \notin Revoked[held] /\ now <= Expiry[a]

\* _check_presence: issued by now, since the proof was built before the call.
PresenceShown(a, p) ==
    a \in Presence => p # NoProof /\ now < ProofExpires[p]

\* search-token: the approval is verified and nothing is spent.
TokenGranted(a, stated) == SameRegistry(stated) /\ ApprovalStands(a)

CheckOpenAnyRegistry(c) ==
    /\ up
    /\ call[c] = "sent"
    /\ call' = [call EXCEPT ![c] =
                  IF /\ AnyRegistry(request[c].stated)
                     /\ ApprovalStands(request[c].approval)
                     /\ PresenceShown(request[c].approval, request[c].proof)
                  THEN "checked" ELSE "refused"]
    /\ UNCHANGED <<now, usage, spent, up, held, request, use, opened>>
\* Scope holds for what the search selected: see README.
CheckOpen(c) ==
    /\ up
    /\ call[c] = "sent"
    /\ call' = [call EXCEPT ![c] =
                  IF /\ SameRegistry(request[c].stated)
                     /\ ApprovalStands(request[c].approval)
                     /\ PresenceShown(request[c].approval, request[c].proof)
                  THEN "checked" ELSE "refused"]
    /\ UNCHANGED <<now, usage, spent, up, held, request, use, opened>>

\* The proof is spent only when it was asked for.
ProofSpent(c) ==
    IF request[c].approval \in Presence THEN request[c].proof ELSE NoProof

SpendOpen(c) ==
    /\ up
    /\ call[c] = "checked"
    /\ LET a == request[c].approval
           p == ProofSpent(c)
       IN  \/ /\ ClaimGranted(a, p)
              /\ call' = [call EXCEPT ![c] = "claimed"]
              /\ use' = [use EXCEPT ![c] = usage[a] + 1]
           \/ /\ ClaimReplayed(p) \/ ClaimRefused(a, p)
              /\ call' = [call EXCEPT ![c] = "refused"]
              /\ UNCHANGED use
    /\ UNCHANGED <<now, up, held, request, opened>>

\* The key holder answers, cannot be reached, or the record does not open.
\* The use and the proof stay spent in all three.
Agree(c) ==
    /\ up
    /\ call[c] = "claimed"
    /\ \E outcome \in {"agreed", "unavailable", "refused"} :
         call' = [call EXCEPT ![c] = outcome]
    /\ UNCHANGED <<now, usage, spent, up, held, request, use, opened>>

Decided(c, event, count) ==
    opened' = opened \cup {[call |-> c, row |-> request[c].row, use |-> count,
                            held |-> held, event |-> event]}

RecordRefusalsOnly(c) ==
    /\ up
    /\ \/ call[c] = "agreed" /\ UNCHANGED opened
          /\ call' = [call EXCEPT ![c] = "200"]
       \/ call[c] = "refused" /\ Decided(c, "open_refused", 0)
          /\ call' = [call EXCEPT ![c] = "403"]
       \/ call[c] = "unavailable" /\ Decided(c, "agreement_unavailable", 0)
          /\ call' = [call EXCEPT ![c] = "503"]
    /\ UNCHANGED <<now, usage, spent, up, held, request, use>>
\* Recorded before the response is written.
RecordOpen(c) ==
    /\ up
    /\ \/ call[c] = "agreed" /\ Decided(c, "open_granted", use[c])
          /\ call' = [call EXCEPT ![c] = "200"]
       \/ call[c] = "refused" /\ Decided(c, "open_refused", 0)
          /\ call' = [call EXCEPT ![c] = "403"]
       \/ call[c] = "unavailable" /\ Decided(c, "agreement_unavailable", 0)
          /\ call' = [call EXCEPT ![c] = "503"]
    /\ UNCHANGED <<now, usage, spent, up, held, request, use>>

ServeOpen(c) == CheckOpen(c) \/ SpendOpen(c) \/ Agree(c) \/ RecordOpen(c)

-------------------------------------------------------------------------------

\* Every handler dies with the process; a caller sees its connection reset.
\* A reply already written may still be read.
CustodianCrash ==
    /\ up
    /\ up' = FALSE
    /\ call' = [c \in Callers |-> IF call[c] \in Working THEN "reset" ELSE call[c]]
    /\ UNCHANGED <<now, usage, spent, held, request, use, opened>>

\* main(): the registries are admitted, the store purged, then it serves.
\* admit_registry lets a version stay or move forward, never back.
CustodianStart ==
    /\ ~up
    /\ up' = TRUE
    /\ \E v \in held .. MaxVersion : held' = v
    /\ PurgeExpired
    /\ UNCHANGED <<now, request, call, use, opened>>
===============================================================================
