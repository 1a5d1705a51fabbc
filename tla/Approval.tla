-------------------------------- MODULE Approval --------------------------------
(***************************************************************************)
(* Requests for authority and their review: the handlers of                *)
(* justikey/webapp.py that create, approve and deny an authorization, over  *)
(* the autocommitted statements of justikey/models.py and the signatures of *)
(* justikey/approvals.py.  The server is threaded: a handler is a request   *)
(* whose steps interleave with those of every other, and between any two of *)
(* them the process may die, taking all requests with it.                   *)
(*                                                                         *)
(* A signing key is named after what made it: the user, for a key enrolled  *)
(* before the behaviour starts, or the request that generated it.  An       *)
(* authenticator code is the time step it belongs to.  The fields of an     *)
(* authorization other than its review never change and are left out.       *)
(***************************************************************************)
EXTENDS Integers, FiniteSets

CONSTANTS
    Authorizations,
    Approvers,   \* users whose role is approver
    RequestedBy, \* who asks for each authorization
    Requests,    \* bound: the requests the server handles
    NoKey, NoOne,
    Enrolled,    \* approvers with a signing key from before
    MaxStep      \* bound on the authenticator's time steps

Keys == Approvers \cup Requests

ASSUME EnrolledAssumption == Enrolled \subseteq Approvers
ASSUME NamesAssumption == /\ NoKey \notin Keys /\ NoOne \notin Approvers \cup Requests
                          /\ Approvers \cap Requests = {}
ASSUME StepAssumption == MaxStep \in Nat

Codes == 0 .. MaxStep
Kinds == {"create", "approve", "deny"}
Events == {"none", "authorization_requested", "self_approval_denied",
           "approval_password_failed", "approval_totp_failed", "approver_key_created",
           "approval_denied", "authorization_approved", "authorization_denied"}
NoSignature == [key |-> NoKey, names |-> NoKey, approver |-> NoOne]
Signature == [key : Keys \cup {NoKey},     \* the private key that signed
              names : Keys \cup {NoKey},   \* approver_key_id in the statement
              approver : Approvers \cup {NoOne}]
Blank == [pc |-> "idle", kind |-> "none", user |-> NoOne, auth |-> NoOne,
          row |-> NoKey, key |-> NoKey, code |-> 0, signature |-> NoSignature,
          event |-> "none"]
Unwritten == [status |-> "none", by |-> NoOne, signature |-> NoSignature,
              request |-> NoOne]

VARIABLES
    authorization, \* the table: status, approved_by, approval_signature, and
                   \* the request that decided (history)
    signingKey,    \* users.signing_pub, with the private key wrapped beside it
    keysMade,      \* history: the keys requests generated, with their users
    spent,         \* used_totp, for the purpose "approval"
    log,           \* audit_log: the entries of each request
    req,           \* the handlers' local state
    step,          \* the authenticator's clock
    died           \* history: the process died

vars == <<authorization, signingKey, keysMade, spent, log, req, step, died>>

Row == [status : {"none", "pending", "approved", "denied"},
        by : Approvers \cup {NoOne},
        signature : Signature,
        request : Requests \cup {NoOne}]
Handler == [pc : {"idle", "totp", "key", "keycreated", "reread", "sign", "update",
                  "record", "done"},
            kind : Kinds \cup {"none"}, user : Approvers \cup {NoOne},
            auth : Authorizations \cup {NoOne}, row : Keys \cup {NoKey},
            key : Keys \cup {NoKey}, code : Codes, signature : Signature,
            event : Events]

TypeOK ==
    /\ authorization \in [Authorizations -> Row]
    /\ signingKey \in [Approvers -> Keys \cup {NoKey}]
    /\ keysMade \subseteq Approvers \X Requests
    /\ spent \subseteq Approvers \X Codes
    /\ log \subseteq Requests \X Events
    /\ req \in [Requests -> Handler]
    /\ step \in 0 .. MaxStep
    /\ died \in BOOLEAN

\* Some authorizations have been requested before.
Init ==
    /\ authorization \in [Authorizations -> {Unwritten, [Unwritten EXCEPT !.status = "pending"]}]
    /\ signingKey = [u \in Approvers |-> IF u \in Enrolled THEN u ELSE NoKey]
    /\ keysMade = {}
    /\ spent = {}
    /\ log = {}
    /\ req = [r \in Requests |-> Blank]
    /\ step = 0
    /\ died = FALSE

-------------------------------------------------------------------------------
(* create_authorization, deny_authorization and the start of approve_submit *)

\* The row is inserted; its audit entry is the request's next step.
Create(r, a) ==
    /\ req[r].pc = "idle"
    /\ authorization[a].status = "none"
    /\ authorization' = [authorization EXCEPT ![a].status = "pending"]
    /\ req' = [req EXCEPT ![r].kind = "create", ![r].auth = a, ![r].pc = "record",
                          ![r].event = "authorization_requested"]
    /\ UNCHANGED <<signingKey, keysMade, spent, log, step, died>>

ReviewableTwice(a, u) == RequestedBy[a] # u
\* The WHERE clause of both reviewing UPDATEs.
Reviewable(a, u) == authorization[a].status = "pending" /\ RequestedBy[a] # u

\* A denial is one guarded UPDATE; a refused one leaves no audit entry.
Deny(r, u, a) ==
    /\ req[r].pc = "idle"
    /\ authorization[a].status # "none"
    /\ IF Reviewable(a, u)
         THEN /\ authorization' = [authorization EXCEPT ![a].status = "denied",
                                     ![a].by = u, ![a].request = r]
              /\ req' = [req EXCEPT ![r].kind = "deny", ![r].user = u, ![r].auth = a,
                                    ![r].pc = "record",
                                    ![r].event = "authorization_denied"]
         ELSE /\ req' = [req EXCEPT ![r].kind = "deny", ![r].user = u, ![r].auth = a,
                                    ![r].pc = "done"]
              /\ UNCHANGED authorization
    /\ UNCHANGED <<signingKey, keysMade, spent, log, step, died>>

\* approve_submit reads the user's row once, before anything else; the
\* password is right or wrong.
Submit(r, u, a, code) ==
    /\ req[r].pc = "idle"
    /\ authorization[a].status # "none"
    /\ \E outcome \in {"self", "wrong", "right"} :
         /\ (outcome = "self") = (RequestedBy[a] = u)
         /\ req' = [req EXCEPT ![r] =
              [Blank EXCEPT !.kind = "approve", !.user = u, !.auth = a, !.code = code,
                 !.row = signingKey[u],
                 !.pc = IF outcome = "right" THEN "totp" ELSE "record",
                 !.event = CASE outcome = "self" -> "self_approval_denied"
                             [] outcome = "wrong" -> "approval_password_failed"
                             [] outcome = "right" -> "none"]]
    /\ UNCHANGED <<authorization, signingKey, keysMade, spent, log, step, died>>

-------------------------------------------------------------------------------
(* approve_submit, one step for each statement that touches the database *)

SpendCurrentStep(u, code) == spent' = spent \cup {<<u, step>>}
\* INSERT OR IGNORE of the step the code belongs to.
Spend(u, code) == spent' = spent \cup {<<u, code>>}

\* A code is good one step early or late, once for each purpose.
ConsumeTotp(r) ==
    LET u == req[r].user
        code == req[r].code IN
    /\ req[r].pc = "totp"
    /\ IF code \in step - 1 .. step + 1 /\ <<u, code>> \notin spent
         THEN Spend(u, code) /\ req' = [req EXCEPT ![r].pc = "key"]
         ELSE /\ req' = [req EXCEPT ![r].pc = "record",
                                    ![r].event = "approval_totp_failed"]
              /\ UNCHANGED spent
    /\ UNCHANGED <<authorization, signingKey, keysMade, log, step, died>>

AlwaysFirstUse(r) == TRUE
\* "not user['signing_pub']", in the row read when the request began.
FirstUse(r) == req[r].row = NoKey

\* An approver without a key gets one here; one with a key has it unwrapped
\* from the row the request holds.
UnlockKey(r) ==
    /\ req[r].pc = "key"
    /\ IF FirstUse(r)
         THEN /\ signingKey' = [signingKey EXCEPT ![req[r].user] = r]
              /\ keysMade' = keysMade \cup {<<req[r].user, r>>}
              /\ req' = [req EXCEPT ![r].pc = "keycreated"]
         ELSE /\ req' = [req EXCEPT ![r].pc = "sign", ![r].key = req[r].row]
              /\ UNCHANGED <<signingKey, keysMade>>
    /\ UNCHANGED <<authorization, spent, log, step, died>>

RecordKey(r) ==
    /\ req[r].pc = "keycreated"
    /\ log' = log \cup {<<r, "approver_key_created">>}
    /\ req' = [req EXCEPT ![r].pc = "reread"]
    /\ UNCHANGED <<authorization, signingKey, keysMade, spent, step, died>>

Reread(r) ==
    /\ req[r].pc = "reread"
    /\ req' = [req EXCEPT ![r].pc = "sign", ![r].key = signingKey[req[r].user]]
    /\ UNCHANGED <<authorization, signingKey, keysMade, spent, log, step, died>>

\* approve_authorization reads the approver's row again for the key id its
\* statement names, and signs with the key it was handed.
Sign(r) ==
    /\ req[r].pc = "sign"
    /\ req' = [req EXCEPT ![r].pc = "update",
         ![r].signature = [key |-> req[r].key, names |-> signingKey[req[r].user],
                           approver |-> req[r].user]]
    /\ UNCHANGED <<authorization, signingKey, keysMade, spent, log, step, died>>

OutcomeAlwaysApproved(r, updated) == "authorization_approved"
Outcome(r, updated) == IF updated THEN "authorization_approved" ELSE "approval_denied"

Update(r) ==
    LET a == req[r].auth
        u == req[r].user IN
    /\ req[r].pc = "update"
    /\ IF Reviewable(a, u)
         THEN authorization' = [authorization EXCEPT ![a] =
                [status |-> "approved", by |-> u, signature |-> req[r].signature,
                 request |-> r]]
         ELSE UNCHANGED authorization
    /\ req' = [req EXCEPT ![r].pc = "record",
                          ![r].event = Outcome(r, Reviewable(a, u))]
    /\ UNCHANGED <<signingKey, keysMade, spent, log, step, died>>

-------------------------------------------------------------------------------
(* What every handler ends with, and its surroundings *)

Record(r) ==
    /\ req[r].pc = "record"
    /\ log' = log \cup {<<r, req[r].event>>}
    /\ req' = [req EXCEPT ![r].pc = "done"]
    /\ UNCHANGED <<authorization, signingKey, keysMade, spent, step, died>>

Tick ==
    /\ step < MaxStep
    /\ step' = step + 1
    /\ UNCHANGED <<authorization, signingKey, keysMade, spent, log, req, died>>

\* The process dies, once, with every request it was handling.
Die ==
    /\ ~died
    /\ died' = TRUE
    /\ \E r \in Requests : req[r].pc \notin {"idle", "done"}
    /\ req' = [r \in Requests |->
                 IF req[r].pc = "idle" THEN req[r] ELSE [req[r] EXCEPT !.pc = "done"]]
    /\ UNCHANGED <<authorization, signingKey, keysMade, spent, log, step>>

Handle(r) ==
    \/ ConsumeTotp(r) \/ UnlockKey(r) \/ RecordKey(r) \/ Reread(r)
    \/ Sign(r) \/ Update(r) \/ Record(r)

Next ==
    \/ \E r \in Requests : Handle(r)
    \/ \E r \in Requests, a \in Authorizations : Create(r, a)
    \/ \E r \in Requests, a \in Authorizations, u \in Approvers :
         \/ Deny(r, u, a)
         \/ \E code \in Codes : Submit(r, u, a, code)
    \/ Tick \/ Die

Spec == Init /\ [][Next]_vars

-------------------------------------------------------------------------------
(* Properties *)

Decided(a) == authorization[a].status \in {"approved", "denied"}

\* verify_authorization of justikey/approvals.py: the statement rebuilt from
\* the row, checked with the key now on record.
Verifies(a) ==
    LET row == authorization[a] IN
    /\ row.status = "approved"
    /\ row.signature # NoSignature
    /\ signingKey[row.by] # NoKey
    /\ row.signature = [key |-> signingKey[row.by], names |-> signingKey[row.by],
                        approver |-> row.by]

\* An approval on record verifies, and goes on verifying whatever its approver
\* signs next and whoever gets a first key meanwhile.  Nothing breaks one of an
\* approver who was enrolled before; of one who was not, it takes two requests
\* that each generated a key.
ApprovalsVerify == \A a \in Authorizations :
    LET u == authorization[a].by IN
    /\ authorization[a].status = "approved"
    /\ u \in Enrolled \/ \A k, l \in keysMade : k[1] = u /\ l[1] = u => k = l
    => Verifies(a)

\* "two approvers acting at the same instant cannot both succeed": a decision
\* is never replaced, withdrawn or signed anew.
DecisionIsFinal ==
    [][\A a \in Authorizations : Decided(a) => authorization'[a] = authorization[a]]_vars

\* "the self-approval prohibition cannot be raced past": no order of
\* requests ends with a decision by the one who asked.
IndependentReview == \A a \in Authorizations :
    Decided(a) => authorization[a].by # RequestedBy[a]

\* The approvals on record stand, in well-typed states: they verify with the
\* key now on record, unless their approver, not enrolled before, was given two
\* first keys, and none was given by who asked for it.
ApprovalsStand == TypeOK /\ ApprovalsVerify /\ IndependentReview

\* A fresh code per approval: one code never approves two authorizations,
\* whichever time steps the two requests were handled in.
OneCodeOneApproval == \A a, b \in Authorizations :
    LET r == authorization[a].request
        s == authorization[b].request IN
    (/\ a # b
     /\ authorization[a].status = "approved" /\ authorization[b].status = "approved"
     /\ authorization[a].by = authorization[b].by)
    => req[r].code # req[s].code

\* The ledger tells what happened: an entry for a decision belongs to the
\* request that made it, and an entry for a refusal to one that did not.
LedgerMatchesDecisions == \A e \in log :
    LET made == authorization[req[e[1]].auth].request = e[1] IN
    /\ e[2] \in {"authorization_approved", "authorization_denied"} => made
    /\ e[2] \in {"approval_denied", "approval_totp_failed", "approval_password_failed",
                 "self_approval_denied"} => ~made

DecisionEvent(a) == IF authorization[a].status = "approved" THEN "authorization_approved"
                                                            ELSE "authorization_denied"
Recorded(a) == <<authorization[a].request, DecisionEvent(a)>> \in log

\* "Every sensitive action" is appended to the ledger (README.md): no request
\* that decided ends without its entry, unless the process died.
DecisionsAreRecorded == \A a \in Authorizations :
    Decided(a) /\ req[authorization[a].request].pc = "done" => Recorded(a) \/ died

\* The ledger tells the decisions: every one that was made and none that was
\* not.
LedgerTellsDecisions == LedgerMatchesDecisions /\ DecisionsAreRecorded

-------------------------------------------------------------------------------
(* What the text promises and the code does not keep *)

\* "an approval is never recorded without the evidence that backs it"
\* (justikey/models.py), also while its approver gets a first key.
EveryApprovalVerifies == \A a \in Authorizations :
    authorization[a].status = "approved" => Verifies(a)

\* "Every sensitive action" (README.md), also of a process that dies between
\* the UPDATE and the entry.
NoDecisionUnrecorded == \A a \in Authorizations :
    Decided(a) /\ req[authorization[a].request].pc = "done" => Recorded(a)
===============================================================================
