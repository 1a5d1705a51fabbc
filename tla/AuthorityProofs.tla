---------------------------- MODULE AuthorityProofs ----------------------------
(***************************************************************************)
(* Who may authorise: theorems about Approval, for every set of            *)
(* authorizations, approvers and requests, and every number of             *)
(* authenticator steps; and about RegistryAdmission, for every sequence of *)
(* distinct roles, every set of principals and any number of exports and   *)
(* starts.  The two share no variable, and each theorem is of its own      *)
(* specification, Spec or RegistrySpec.                                    *)
(***************************************************************************)
EXTENDS Approval, RegistryAdmission, TLAPS

Reviewing == {"totp", "key", "keycreated", "reread", "sign", "update"}
DecisionEvents == {"authorization_approved", "authorization_denied"}
Refusals == {"approval_denied", "approval_totp_failed", "approval_password_failed",
             "self_approval_denied"}

(***************************************************************************)
(* Decisions.  One who decided is a reviewer other than the one who asked, *)
(* and is done but for the entry; nobody else decides the same again.      *)
(***************************************************************************)

HandlerKnowsReview ==
    \A r \in Requests :
        /\ req[r].pc \in Reviewing => /\ req[r].user \in Approvers
                                      /\ req[r].auth \in Authorizations
        /\ req[r].pc = "record" => req[r].auth \in Authorizations

UndecidedIsUnsigned ==
    \A a \in Authorizations : ~Decided(a) => authorization[a].request = NoOne

UnfinishedDecidedNothing ==
    \A r \in Requests : req[r].pc \notin {"record", "done"} =>
        \A a \in Authorizations : authorization[a].request # r

DecidedByReviewer ==
    \A a \in Authorizations : Decided(a) =>
        /\ authorization[a].request \in Requests
        /\ authorization[a].by \in Approvers
        /\ authorization[a].by # RequestedBy[a]
        /\ req[authorization[a].request].auth = a
        /\ req[authorization[a].request].user = authorization[a].by

DecisionInv ==
    /\ TypeOK
    /\ HandlerKnowsReview
    /\ UndecidedIsUnsigned
    /\ UnfinishedDecidedNothing
    /\ DecidedByReviewer

LEMMA BlankIsTyped ==
    /\ NoSignature \in Signature
    /\ Blank \in Handler
    /\ Unwritten \in Row
    /\ [Unwritten EXCEPT !.status = "pending"] \in Row
<1>1. NoSignature \in Signature
  BY DEF NoSignature, Signature
<1>2. 0 \in Codes
  BY StepAssumption DEF Codes
<1>3. QED BY <1>1, <1>2 DEF Blank, Handler, Unwritten, Row, Events, Kinds

LEMMA TypeInit == Init => TypeOK
<1> SUFFICES ASSUME Init PROVE TypeOK
  OBVIOUS
<1>0. {Unwritten, [Unwritten EXCEPT !.status = "pending"]} \subseteq Row
  BY BlankIsTyped
<1>1. authorization \in [Authorizations -> Row]
  BY <1>0 DEF Init
<1>2. req \in [Requests -> Handler]
  BY BlankIsTyped DEF Init
<1>3. signingKey \in [Approvers -> Keys \cup {NoKey}]
  BY DEF Init, Keys
<1>4. step \in 0 .. MaxStep /\ died \in BOOLEAN
  <2>1. step = 0 /\ died = FALSE
    BY DEF Init
  <2>2. died \in BOOLEAN
    BY <2>1
  <2>3. step \in 0 .. MaxStep
    BY <2>1, StepAssumption
  <2>4. QED BY <2>2, <2>3
<1>5. /\ spent \subseteq Approvers \X Codes /\ log \subseteq Requests \X Events
      /\ keysMade \subseteq Approvers \X Requests
  BY DEF Init
<1>6. QED BY <1>1, <1>2, <1>3, <1>4, <1>5 DEF TypeOK

LEMMA HandlerStays ==
    ASSUME TypeOK, HandlerKnowsReview, NEW r \in Requests,
           \/ ConsumeTotp(r) \/ UnlockKey(r) \/ RecordKey(r) \/ Reread(r) \/ Sign(r)
           \/ Record(r)
    PROVE  req'[r] \in Handler /\ req' = [req EXCEPT ![r] = req'[r]]
<1>1. /\ req[r] \in Handler /\ req \in [Requests -> Handler]
      /\ signingKey \in [Approvers -> Keys \cup {NoKey}]
  BY DEF TypeOK
<1>2. req[r].pc \in Reviewing => req[r].user \in Approvers
  BY DEF HandlerKnowsReview
<1>3. CASE ConsumeTotp(r)
  <2>1. \/ req'[r] = [req[r] EXCEPT !.pc = "key"]
        \/ req'[r] = [req[r] EXCEPT !.pc = "record", !.event = "approval_totp_failed"]
    BY <1>1, <1>3 DEF ConsumeTotp
  <2>2. QED BY <1>1, <1>3, <2>1 DEF ConsumeTotp, Handler, Events
<1>4. CASE UnlockKey(r)
  <2>1. \/ req'[r] = [req[r] EXCEPT !.pc = "keycreated"]
        \/ req'[r] = [req[r] EXCEPT !.pc = "sign", !.key = req[r].row]
    BY <1>1, <1>4 DEF UnlockKey
  <2>2. QED BY <1>1, <1>4, <2>1 DEF UnlockKey, Handler
<1>5. CASE RecordKey(r)
  <2>1. req'[r] = [req[r] EXCEPT !.pc = "reread"]
    BY <1>1, <1>5 DEF RecordKey
  <2>2. QED BY <1>1, <1>5, <2>1 DEF RecordKey, Handler
<1>6. CASE Reread(r)
  <2>1. signingKey[req[r].user] \in Keys \cup {NoKey}
    BY <1>1, <1>2, <1>6 DEF Reread, Reviewing
  <2>2. req'[r] = [req[r] EXCEPT !.pc = "sign", !.key = signingKey[req[r].user]]
    BY <1>1, <1>6 DEF Reread
  <2>3. req'[r] \in Handler
    BY <1>1, <2>1, <2>2 DEF Handler
  <2>4. QED BY <1>1, <1>6, <2>3 DEF Reread
<1>7. CASE Sign(r)
  <2> DEFINE new == [key |-> req[r].key, names |-> signingKey[req[r].user],
                     approver |-> req[r].user]
  <2>1. req[r].user \in Approvers /\ req[r].key \in Keys \cup {NoKey}
    BY <1>1, <1>2, <1>7 DEF Sign, Reviewing, Handler
  <2>2. new \in Signature
    BY <1>1, <2>1 DEF Signature
  <2>3. req'[r] = [req[r] EXCEPT !.pc = "update", !.signature = new]
    BY <1>1, <1>7 DEF Sign
  <2> HIDE DEF new
  <2>4. req'[r] \in Handler
    BY <1>1, <2>2, <2>3 DEF Handler
  <2>5. QED BY <1>1, <1>7, <2>4 DEF Sign
<1>8. CASE Record(r)
  <2>1. req'[r] = [req[r] EXCEPT !.pc = "done"]
    BY <1>1, <1>8 DEF Record
  <2>2. QED BY <1>1, <1>8, <2>1 DEF Record, Handler
<1>9. QED BY <1>3, <1>4, <1>5, <1>6, <1>7, <1>8

LEMMA TypeStep == DecisionInv /\ [Next]_vars => TypeOK'
<1> SUFFICES ASSUME DecisionInv, [Next]_vars PROVE TypeOK'
  OBVIOUS
<1> USE DEF DecisionInv, TypeOK, HandlerKnowsReview, Reviewing
<1>1. ASSUME NEW r \in Requests, NEW a \in Authorizations, Create(r, a) PROVE TypeOK'
  <2>1. req'[r] \in Handler /\ authorization'[a] \in Row
    BY <1>1 DEF Create, Handler, Row, Kinds, Events
  <2>2. QED BY <1>1, <2>1 DEF Create
<1>2. ASSUME NEW r \in Requests, NEW a \in Authorizations, NEW u \in Approvers,
             Deny(r, u, a)
      PROVE  TypeOK'
  <2>1. req'[r] \in Handler
    BY <1>2 DEF Deny, Handler, Kinds, Events
  <2>2. authorization' \in [Authorizations -> Row]
    BY <1>2 DEF Deny, Row
  <2>3. QED BY <1>2, <2>1, <2>2 DEF Deny
<1>3. ASSUME NEW r \in Requests, NEW a \in Authorizations, NEW u \in Approvers,
             NEW code \in Codes, Submit(r, u, a, code)
      PROVE  TypeOK'
  <2>1. \A to \in {"totp", "record"}, event \in Events :
            [Blank EXCEPT !.kind = "approve", !.user = u, !.auth = a, !.code = code,
                          !.row = signingKey[u], !.pc = to, !.event = event] \in Handler
    BY BlankIsTyped DEF Blank, Handler, Kinds
  <2>2. req' \in [Requests -> Handler]
    BY <1>3, <2>1 DEF Submit, Events
  <2>3. QED BY <1>3, <2>2 DEF Submit
<1>4. ASSUME NEW r \in Requests,
             \/ ConsumeTotp(r) \/ UnlockKey(r) \/ RecordKey(r) \/ Reread(r) \/ Sign(r)
             \/ Record(r)
      PROVE  TypeOK'
  <2>1. req' \in [Requests -> Handler]
    BY <1>4, HandlerStays
  <2>2. /\ req[r].user \in Approvers \/ req[r].pc = "record"
        /\ req[r].code \in Codes /\ req[r].event \in Events
    BY <1>4 DEF ConsumeTotp, UnlockKey, RecordKey, Reread, Sign, Record, Handler
  <2>3. QED
    BY <1>4, <2>1, <2>2
    DEF ConsumeTotp, Spend, UnlockKey, RecordKey, Reread, Sign, Record, Keys, Events
<1>5. ASSUME NEW r \in Requests, Update(r) PROVE TypeOK'
  <2>1. /\ req[r].user \in Approvers /\ req[r].auth \in Authorizations
        /\ req[r].signature \in Signature
    BY <1>5 DEF Update, Handler
  <2>2. Outcome(r, Reviewable(req[r].auth, req[r].user)) \in Events
    BY DEF Outcome, Events
  <2>3. req'[r] \in Handler
    <3> DEFINE event == Outcome(r, Reviewable(req[r].auth, req[r].user))
    <3>1. req'[r] = [req[r] EXCEPT !.pc = "record", !.event = event]
      BY <1>5 DEF Update
    <3>2. event \in Events
      BY <2>2
    <3> HIDE DEF event
    <3>3. req[r] \in Handler
      OBVIOUS
    <3>4. [req[r] EXCEPT !.pc = "record", !.event = event] \in Handler
      BY <3>2, <3>3 DEF Handler
    <3>5. QED BY <3>1, <3>4
  <2>4. authorization' \in [Authorizations -> Row]
    BY <1>5, <2>1 DEF Update, Row
  <2>5. QED BY <1>5, <2>3, <2>4 DEF Update
<1>6. CASE Tick
  BY <1>6, StepAssumption DEF Tick
<1>7. CASE Die
  <2>1. \A r \in Requests : [req[r] EXCEPT !.pc = "done"] \in Handler
    BY DEF Handler
  <2>2. QED BY <1>7, <2>1 DEF Die
<1>8. CASE UNCHANGED vars
  BY <1>8 DEF vars
<1>9. QED
  BY <1>1, <1>2, <1>3, <1>4, <1>5, <1>6, <1>7, <1>8 DEF Next, Handle

\* What a handler does to its own state and to the authorizations: it begins,
\* it works, it reviews.
Others(r) == \A s \in Requests : s # r => req'[s] = req[s]

Works(r) ==
    /\ Others(r)
    /\ req[r].pc \in Reviewing \cup {"record"}
    /\ req'[r].user = req[r].user
    /\ req'[r].auth = req[r].auth
    /\ req'[r].code = req[r].code
    /\ req'[r].pc # "idle"
    /\ req[r].pc = "record" => req'[r].pc = "done"
    /\ UNCHANGED <<authorization, step, died>>

LEMMA WorkSteps ==
    ASSUME TypeOK, NEW r \in Requests,
           \/ ConsumeTotp(r) \/ UnlockKey(r) \/ RecordKey(r) \/ Reread(r) \/ Sign(r)
           \/ Record(r)
    PROVE  Works(r)
<1> USE DEF Works, Others, Reviewing, TypeOK, Handler
<1>1. CASE ConsumeTotp(r)
  BY <1>1 DEF ConsumeTotp
<1>2. CASE UnlockKey(r)
  BY <1>2 DEF UnlockKey
<1>3. CASE RecordKey(r)
  BY <1>3 DEF RecordKey
<1>4. CASE Reread(r)
  BY <1>4 DEF Reread
<1>5. CASE Sign(r)
  BY <1>5 DEF Sign
<1>6. CASE Record(r)
  BY <1>6 DEF Record
<1>7. QED BY <1>1, <1>2, <1>3, <1>4, <1>5, <1>6

\* The request r decides a as its user u.
Decides(r, a, u) ==
    /\ Others(r)
    /\ Reviewable(a, u)
    /\ u \in Approvers /\ a \in Authorizations
    /\ req[r].pc \in {"idle", "update"}
    /\ req'[r].pc = "record" /\ req'[r].user = u /\ req'[r].auth = a
    /\ \A b \in Authorizations : b # a => authorization'[b] = authorization[b]
    /\ authorization'[a].by = u /\ authorization'[a].request = r
    /\ \/ /\ authorization'[a].status = "denied"
          /\ req'[r].event = "authorization_denied"
       \/ /\ authorization'[a].status = "approved"
          /\ authorization'[a].signature = req[r].signature
          /\ req[r].pc = "update"
          /\ req[r].user = u /\ req'[r].code = req[r].code
          /\ req'[r].event = "authorization_approved"
    /\ UNCHANGED <<signingKey, keysMade, spent, log, step, died>>

\* It came too late, or was not its user's to decide.
Misses(r) ==
    /\ Works(r)
    /\ req[r].pc = "update"
    /\ req'[r].pc = "record"
    /\ req'[r].event = "approval_denied"
    /\ UNCHANGED <<signingKey, keysMade, spent, log>>

LEMMA UpdateSteps ==
    ASSUME DecisionInv, NEW r \in Requests, Update(r)
    PROVE  Decides(r, req[r].auth, req[r].user) \/ Misses(r)
<1> DEFINE a == req[r].auth
           u == req[r].user
<1>1. /\ u \in Approvers /\ a \in Authorizations /\ req[r] \in Handler
      /\ req \in [Requests -> Handler] /\ authorization \in [Authorizations -> Row]
      /\ req[r].pc = "update" /\ UNCHANGED <<signingKey, keysMade, spent, log, step, died>>
  BY DEF DecisionInv, TypeOK, HandlerKnowsReview, Reviewing, Update
<1>2. CASE Reviewable(a, u)
  <2>1. req' = [req EXCEPT ![r].pc = "record", ![r].event = "authorization_approved"]
    BY <1>2 DEF Update, Outcome
  <2>2. authorization' = [authorization EXCEPT ![a] =
          [status |-> "approved", by |-> u, signature |-> req[r].signature,
           request |-> r]]
    BY <1>2 DEF Update
  <2>3. /\ Others(r) /\ req'[r].pc = "record" /\ req'[r].user = u
        /\ req'[r].auth = a /\ req'[r].event = "authorization_approved"
        /\ req'[r].code = req[r].code
    BY <1>1, <2>1 DEF Handler, Others
  <2>4. /\ \A b \in Authorizations : b # a => authorization'[b] = authorization[b]
        /\ authorization'[a].by = u /\ authorization'[a].request = r
        /\ authorization'[a].status = "approved"
        /\ authorization'[a].signature = req[r].signature
    BY <1>1, <2>2
  <2>5. QED BY <1>1, <1>2, <2>3, <2>4 DEF Decides
<1>3. CASE ~Reviewable(a, u)
  <2>1. /\ req' = [req EXCEPT ![r].pc = "record", ![r].event = "approval_denied"]
        /\ UNCHANGED authorization
    BY <1>3 DEF Update, Outcome
  <2>2. QED BY <1>1, <2>1 DEF Misses, Works, Others, Handler, Reviewing
<1>4. QED BY <1>2, <1>3

LEMMA DenySteps ==
    ASSUME DecisionInv, NEW r \in Requests, NEW a \in Authorizations,
           NEW u \in Approvers, Deny(r, u, a)
    PROVE  \/ Decides(r, a, u)
           \/ /\ Others(r) /\ req[r].pc = "idle" /\ req'[r].pc = "done"
              /\ UNCHANGED <<authorization, signingKey, keysMade, spent, log, step, died>>
<1>1. /\ req[r] \in Handler /\ req[r].pc = "idle"
      /\ req \in [Requests -> Handler] /\ authorization \in [Authorizations -> Row]
      /\ UNCHANGED <<signingKey, keysMade, spent, log, step, died>>
  BY DEF DecisionInv, TypeOK, Deny
<1>2. CASE Reviewable(a, u)
  <2>1. /\ Others(r) /\ req'[r].pc = "record" /\ req'[r].user = u
        /\ req'[r].auth = a /\ req'[r].event = "authorization_denied"
    BY <1>1, <1>2 DEF Deny, Handler, Others
  <2>2. /\ \A b \in Authorizations : b # a => authorization'[b] = authorization[b]
        /\ authorization'[a].by = u /\ authorization'[a].request = r
        /\ authorization'[a].status = "denied"
    BY <1>1, <1>2 DEF Deny, Row
  <2>3. QED BY <1>1, <1>2, <2>1, <2>2 DEF Decides
<1>3. CASE ~Reviewable(a, u)
  BY <1>1, <1>3 DEF Deny, Others, Handler
<1>4. QED BY <1>2, <1>3

\* A request begins: with a new authorization, or with a review.
Begins(r) ==
    /\ Others(r)
    /\ req[r].pc = "idle"
    /\ req'[r].pc \in {"record", "totp"}
    /\ req'[r].auth \in Authorizations
    /\ req'[r].pc = "totp" =>
         /\ req'[r].user \in Approvers
         /\ req'[r].row = signingKey[req'[r].user]
    /\ req'[r].pc = "record" => req'[r].event \in Refusals \cup {"authorization_requested"}
    /\ \A a \in Authorizations :
          \/ authorization'[a] = authorization[a]
          \/ /\ authorization[a].status = "none"
             /\ authorization'[a].status = "pending"
             /\ authorization'[a].request = authorization[a].request
    /\ UNCHANGED <<signingKey, keysMade, spent, log, step, died>>

LEMMA BeginSteps ==
    ASSUME TypeOK, NEW r \in Requests, NEW a \in Authorizations,
           \/ Create(r, a)
           \/ \E u \in Approvers, code \in Codes : Submit(r, u, a, code)
    PROVE  Begins(r)
<1>1. CASE Create(r, a)
  BY <1>1 DEF Create, Begins, Others, TypeOK, Handler, Row
<1>2. ASSUME NEW u \in Approvers, NEW code \in Codes, Submit(r, u, a, code)
      PROVE  Begins(r)
  <2>1. PICK to \in {"totp", "record"}, event \in Refusals \cup {"none"} :
            /\ to = "record" => event \in Refusals
            /\ req' = [req EXCEPT ![r] =
                 [Blank EXCEPT !.kind = "approve", !.user = u, !.auth = a,
                    !.code = code, !.row = signingKey[u], !.pc = to, !.event = event]]
    BY <1>2 DEF Submit, Refusals
  <2>2. /\ req'[r].pc = to /\ req'[r].event = event /\ req'[r].auth = a
        /\ req'[r].user = u /\ req'[r].row = signingKey[u]
    BY <2>1 DEF Blank, TypeOK
  <2>3. Others(r) /\ req[r].pc = "idle"
    BY <1>2, <2>1 DEF Submit, Others, TypeOK
  <2>4. QED BY <1>2, <2>1, <2>2, <2>3 DEF Submit, Begins
<1>3. QED BY <1>1, <1>2

\* Every other step: time, death, a denial that came too late.
Rests ==
    /\ \A r \in Requests :
          \/ req'[r] = req[r]
          \/ /\ req'[r].pc = "done"
             /\ req[r].pc = "idle"
          \/ /\ req'[r].pc = "done"
             /\ req[r].pc \notin {"idle", "done"} => died'
             /\ req'[r].user = req[r].user
             /\ req'[r].auth = req[r].auth
             /\ req'[r].code = req[r].code
    /\ died => died'
    /\ UNCHANGED <<authorization, signingKey, keysMade, spent, log>>

LEMMA Steps ==
    ASSUME DecisionInv, [Next]_vars
    PROVE  \/ \E r \in Requests :
                 \/ Begins(r) \/ Misses(r)
                 \/ \E a \in Authorizations, u \in Approvers : Decides(r, a, u)
                 \/ /\ Works(r)
                    /\ \/ ConsumeTotp(r) \/ UnlockKey(r) \/ RecordKey(r) \/ Reread(r)
                       \/ Sign(r) \/ Record(r)
           \/ Rests
<1> USE DEF DecisionInv
<1>1. ASSUME NEW r \in Requests, NEW a \in Authorizations,
             \/ Create(r, a)
             \/ \E u \in Approvers, code \in Codes : Submit(r, u, a, code)
      PROVE  Begins(r)
  BY <1>1, BeginSteps
<1>2. ASSUME NEW r \in Requests, NEW a \in Authorizations, NEW u \in Approvers,
             Deny(r, u, a)
      PROVE  Decides(r, a, u) \/ Rests
  BY <1>2, DenySteps DEF Rests, Others
<1>3. ASSUME NEW r \in Requests, Update(r)
      PROVE  Misses(r) \/ \E a \in Authorizations, u \in Approvers : Decides(r, a, u)
  BY <1>3, UpdateSteps DEF Decides
<1>4. ASSUME NEW r \in Requests,
             \/ ConsumeTotp(r) \/ UnlockKey(r) \/ RecordKey(r) \/ Reread(r) \/ Sign(r)
             \/ Record(r)
      PROVE  Works(r)
  BY <1>4, WorkSteps
<1>5. CASE Tick \/ UNCHANGED vars
  BY <1>5 DEF Tick, vars, Rests
<1>6. CASE Die
  <2>1. \A r \in Requests : req[r].pc # "idle" => req'[r] = [req[r] EXCEPT !.pc = "done"]
    BY <1>6 DEF Die
  <2>2. \A r \in Requests : req[r].pc = "idle" => req'[r] = req[r]
    BY <1>6 DEF Die
  <2>3. ASSUME NEW r \in Requests, req[r].pc # "idle"
        PROVE  /\ req'[r].pc = "done"
               /\ req'[r].user = req[r].user
               /\ req'[r].auth = req[r].auth
               /\ req'[r].code = req[r].code
    <3>1. req[r] \in Handler /\ req'[r] = [req[r] EXCEPT !.pc = "done"]
      BY <2>1, <2>3 DEF TypeOK
    <3>2. QED BY <3>1 DEF Handler
  <2>4. UNCHANGED <<authorization, signingKey, keysMade, spent, log>>
    BY <1>6 DEF Die
  <2>5. died' = TRUE
    BY <1>6 DEF Die
  <2>6. QED BY <2>2, <2>3, <2>4, <2>5 DEF Rests
<1>7. QED BY <1>1, <1>2, <1>3, <1>4, <1>5, <1>6 DEF Next, Handle

LEMMA DecisionStep == DecisionInv /\ [Next]_vars => DecisionInv'
<1> SUFFICES ASSUME DecisionInv, [Next]_vars PROVE DecisionInv'
  OBVIOUS
<1>0. TypeOK'
  BY TypeStep
<1>t. NoOne \notin Requests
  BY NamesAssumption
<1> USE <1>0, <1>t
    DEF DecisionInv, HandlerKnowsReview, UndecidedIsUnsigned,
        UnfinishedDecidedNothing, DecidedByReviewer, Decided, Reviewing
<1>1. ASSUME NEW r \in Requests, Begins(r) PROVE DecisionInv'
  BY <1>1 DEF Begins, Others
<1>2. ASSUME NEW r \in Requests, Works(r) PROVE DecisionInv'
  BY <1>2 DEF Works, Others
<1>3. ASSUME NEW r \in Requests, NEW a \in Authorizations, NEW u \in Approvers,
             Decides(r, a, u)
      PROVE  DecisionInv'
  BY <1>3 DEF Decides, Others, Reviewable
<1>4. CASE Rests
  BY <1>4 DEF Rests
<1>5. QED BY <1>1, <1>2, <1>3, <1>4, Steps DEF Misses

LEMMA DecisionInit == Init => DecisionInv
<1> SUFFICES ASSUME Init PROVE DecisionInv
  OBVIOUS
<1>1. \A a \in Authorizations : /\ authorization[a].status \in {"none", "pending"}
                                /\ authorization[a].request = NoOne
  BY DEF Init, Unwritten
<1>2. \A r \in Requests : req[r].pc = "idle"
  BY DEF Init, Blank
<1>3. QED
  BY <1>1, <1>2, TypeInit, NamesAssumption
  DEF DecisionInv, HandlerKnowsReview, Reviewing, UndecidedIsUnsigned,
      UnfinishedDecidedNothing, DecidedByReviewer, Decided

LEMMA DecisionInvariant == Spec => []DecisionInv
BY DecisionInit, DecisionStep, PTL DEF Spec

\* Whatever two reviewers do at the same instant, a decision stays as it was
\* made: by whom, with what signature, in which request.
THEOREM DecisionsAreFinal == Spec => DecisionIsFinal
<1>1. ASSUME DecisionInv, [Next]_vars
      PROVE  \A a \in Authorizations : Decided(a) => authorization'[a] = authorization[a]
  <2>1. ASSUME NEW r \in Requests, NEW a \in Authorizations, NEW u \in Approvers,
               Decides(r, a, u), NEW b \in Authorizations, Decided(b)
        PROVE  authorization'[b] = authorization[b]
    BY <2>1 DEF Decides, Reviewable, Decided
  <2>2. ASSUME NEW r \in Requests, Begins(r), NEW b \in Authorizations, Decided(b)
        PROVE  authorization'[b] = authorization[b]
    BY <2>2 DEF Begins, Decided
  <2>3. QED BY <1>1, <2>1, <2>2, Steps DEF Works, Misses, Rests
<1>2. QED BY <1>1, DecisionInvariant, PTL DEF Spec, DecisionIsFinal

-------------------------------------------------------------------------------
(***************************************************************************)
(* Signatures.  An approver signs with keys generated for that approver, or *)
(* with the one enrolled before, and once there is one there always is.    *)
(***************************************************************************)

KeysOf(u) == {r \in Requests : <<u, r>> \in keysMade}
               \cup (IF u \in Enrolled THEN {u} ELSE {})

EnrolledKeepKey ==
    \A u \in Approvers : u \in Enrolled => signingKey[u] = u /\ KeysOf(u) = {u}

OwnKeyOnRecord ==
    \A u \in Approvers :
        /\ signingKey[u] \in KeysOf(u) \cup {NoKey}
        /\ KeysOf(u) # {} => signingKey[u] # NoKey

SignedBy(signature, u) ==
    \E k, n \in KeysOf(u) : signature = [key |-> k, names |-> n, approver |-> u]

RequestsSignWithKey ==
    \A r \in Requests :
        LET u == req[r].user IN
        /\ req[r].pc \in Reviewing => req[r].row \in KeysOf(u) \cup {NoKey}
        /\ req[r].pc \in Reviewing /\ u \in Enrolled => req[r].row = u
        /\ req[r].pc \in {"keycreated", "reread"} => KeysOf(u) # {} /\ u \notin Enrolled
        /\ req[r].pc \in {"sign", "update"} => req[r].key \in KeysOf(u)
        /\ req[r].pc = "update" => SignedBy(req[r].signature, u)

SignedWithKey ==
    \A a \in Authorizations : authorization[a].status = "approved" =>
        SignedBy(authorization[a].signature, authorization[a].by)

SignatureInv ==
    /\ DecisionInv
    /\ EnrolledKeepKey
    /\ OwnKeyOnRecord
    /\ RequestsSignWithKey
    /\ SignedWithKey

\* A signature stays one by its signer whoever gets a key.
LEMMA SignaturesStay ==
    ASSUME keysMade \subseteq keysMade'
    PROVE  \A u : /\ KeysOf(u) \subseteq KeysOf(u)'
                  /\ \A signature : SignedBy(signature, u) => SignedBy(signature, u)'
<1>1. \A u : KeysOf(u) \subseteq KeysOf(u)'
  BY DEF KeysOf
<1>2. QED BY <1>1 DEF SignedBy

\* Steps that generate no key.
LEMMA NoKeyMade ==
    ASSUME EnrolledKeepKey, OwnKeyOnRecord, UNCHANGED <<signingKey, keysMade>>
    PROVE  /\ EnrolledKeepKey' /\ OwnKeyOnRecord'
           /\ \A u : KeysOf(u)' = KeysOf(u)
           /\ \A signature, u : SignedBy(signature, u)' <=> SignedBy(signature, u)
<1>1. \A u : KeysOf(u)' = KeysOf(u)
  BY DEF KeysOf
<1>2. QED BY <1>1 DEF EnrolledKeepKey, OwnKeyOnRecord, SignedBy

\* The first use of a key: a request whose row had none generates one.
LEMMA KeyMade ==
    ASSUME SignatureInv, NEW r \in Requests, Works(r), UnlockKey(r), FirstUse(r)
    PROVE  EnrolledKeepKey' /\ OwnKeyOnRecord' /\ RequestsSignWithKey' /\ SignedWithKey'
<1>0. req[r].pc = "key" /\ req[r].row = NoKey /\ req[r].user \in Approvers
  BY DEF UnlockKey, FirstUse, SignatureInv, DecisionInv, HandlerKnowsReview, Reviewing
<1>u. PICK u \in Approvers : u = req[r].user
  BY <1>0
<1>1. /\ TypeOK /\ u \notin Enrolled /\ r \in Keys /\ r # NoKey
  <2>1. u \notin Enrolled
    BY <1>0, <1>u, NamesAssumption DEF SignatureInv, RequestsSignWithKey, Reviewing, Keys
  <2>2. QED BY <2>1, NamesAssumption DEF SignatureInv, DecisionInv, Keys
<1>2. /\ signingKey' = [signingKey EXCEPT ![u] = r]
      /\ keysMade' = keysMade \cup {<<u, r>>}
      /\ req' = [req EXCEPT ![r].pc = "keycreated"]
      /\ UNCHANGED authorization
  BY <1>u DEF UnlockKey
<1>3. /\ \A v : KeysOf(v) \subseteq KeysOf(v)'
      /\ \A signature, v : SignedBy(signature, v) => SignedBy(signature, v)'
  BY <1>2, SignaturesStay
<1>4. r \in KeysOf(u)'
  BY <1>2 DEF KeysOf
<1>5. \A v \in Approvers : v # u => KeysOf(v)' = KeysOf(v) /\ signingKey'[v] = signingKey[v]
  BY <1>1, <1>2 DEF KeysOf, TypeOK
<1>6. signingKey'[u] = r
  BY <1>1, <1>2 DEF TypeOK
<1>7. EnrolledKeepKey'
  BY <1>1, <1>5 DEF SignatureInv, EnrolledKeepKey
<1>8. OwnKeyOnRecord'
  BY <1>1, <1>4, <1>5, <1>6 DEF SignatureInv, OwnKeyOnRecord
<1>9. /\ req'[r].pc = "keycreated" /\ req'[r].user = u /\ req'[r].row = req[r].row
      /\ \A s \in Requests : s # r => req'[s] = req[s]
  BY <1>1, <1>2, <1>u DEF TypeOK, Handler
<1>10. RequestsSignWithKey'
  <2> SUFFICES ASSUME NEW s \in Requests, NEW v, v = req'[s].user
               PROVE
          /\ req'[s].pc \in Reviewing => req'[s].row \in KeysOf(v)' \cup {NoKey}
          /\ req'[s].pc \in Reviewing /\ v \in Enrolled => req'[s].row = v
          /\ req'[s].pc \in {"keycreated", "reread"} => KeysOf(v)' # {} /\ v \notin Enrolled
          /\ req'[s].pc \in {"sign", "update"} => req'[s].key \in KeysOf(v)'
          /\ req'[s].pc = "update" => \E k, n \in KeysOf(v)' :
                req'[s].signature = [key |-> k, names |-> n, approver |-> v]
    BY DEF RequestsSignWithKey, SignedBy
  <2>1. CASE s = r
    BY <1>0, <1>1, <1>4, <1>9, <2>1
  <2>2. CASE s # r
    <3>1. req'[s] = req[s] /\ v = req[s].user
      BY <1>9, <2>2
    <3>2. KeysOf(v) \subseteq KeysOf(v)'
      BY <1>3
    <3>3. /\ req[s].pc \in Reviewing => req[s].row \in KeysOf(v) \cup {NoKey}
          /\ req[s].pc \in Reviewing /\ v \in Enrolled => req[s].row = v
          /\ req[s].pc \in {"keycreated", "reread"} => KeysOf(v) # {} /\ v \notin Enrolled
          /\ req[s].pc \in {"sign", "update"} => req[s].key \in KeysOf(v)
          /\ req[s].pc = "update" => \E k, n \in KeysOf(v) :
                req[s].signature = [key |-> k, names |-> n, approver |-> v]
      BY <3>1 DEF SignatureInv, RequestsSignWithKey, SignedBy
    <3>4. QED BY <3>1, <3>2, <3>3
  <2>3. QED BY <2>1, <2>2
<1>11. SignedWithKey'
  BY <1>2, <1>3 DEF SignatureInv, SignedWithKey
<1>12. QED BY <1>7, <1>8, <1>10, <1>11

LEMMA SignatureStep == SignatureInv /\ [Next]_vars => SignatureInv'
<1> SUFFICES ASSUME SignatureInv, [Next]_vars PROVE SignatureInv'
  OBVIOUS
<1>0. DecisionInv /\ DecisionInv' /\ TypeOK
  BY DecisionStep DEF SignatureInv, DecisionInv
<1>k. /\ EnrolledKeepKey /\ OwnKeyOnRecord /\ RequestsSignWithKey /\ SignedWithKey
      /\ NoKey \notin Approvers
  BY NamesAssumption DEF SignatureInv, Keys
<1> USE DEF RequestsSignWithKey, SignedWithKey
<1>1. ASSUME NEW r \in Requests, Begins(r) PROVE SignatureInv'
  <2>1. UNCHANGED <<signingKey, keysMade>>
    BY <1>1 DEF Begins
  <2>2. RequestsSignWithKey'
    BY <1>1, <1>k, <2>1, NoKeyMade
    DEF Begins, Others, Reviewing, EnrolledKeepKey, OwnKeyOnRecord
  <2>3. SignedWithKey'
    BY <1>1, <1>k, <2>1, NoKeyMade DEF Begins
  <2>4. QED BY <1>0, <1>k, <2>1, <2>2, <2>3, NoKeyMade DEF SignatureInv
<1>2. ASSUME NEW r \in Requests, Misses(r) PROVE SignatureInv'
  <2>1. UNCHANGED <<signingKey, keysMade, authorization>>
    BY <1>2 DEF Misses, Works
  <2>2. RequestsSignWithKey' /\ SignedWithKey'
    BY <1>2, <1>k, <2>1, NoKeyMade DEF Misses, Works, Others, Reviewing
  <2>3. QED BY <1>0, <1>k, <2>1, <2>2, NoKeyMade DEF SignatureInv
<1>3. ASSUME NEW r \in Requests, NEW a \in Authorizations, NEW u \in Approvers,
             Decides(r, a, u)
      PROVE  SignatureInv'
  <2>1. UNCHANGED <<signingKey, keysMade>>
    BY <1>3 DEF Decides
  <2>2. RequestsSignWithKey'
    BY <1>3, <1>k, <2>1, NoKeyMade DEF Decides, Others, Reviewing
  <2>3. SignedWithKey'
    BY <1>3, <1>k, <2>1, NoKeyMade DEF Decides
  <2>4. QED BY <1>0, <1>k, <2>1, <2>2, <2>3, NoKeyMade DEF SignatureInv
<1>4. ASSUME NEW r \in Requests, Works(r), ConsumeTotp(r) \/ Record(r) PROVE SignatureInv'
  <2>1. /\ UNCHANGED <<signingKey, keysMade, authorization>> /\ req'[r].row = req[r].row
        /\ req'[r].pc \in {"key", "record", "done"}
        /\ req'[r].pc = "key" => req[r].pc = "totp"
    BY <1>0, <1>4 DEF ConsumeTotp, Record, TypeOK, Handler
  <2>2. RequestsSignWithKey' /\ SignedWithKey'
    BY <1>4, <1>k, <2>1, NoKeyMade DEF Works, Others, Reviewing
  <2>3. QED BY <1>0, <1>k, <2>1, <2>2, NoKeyMade DEF SignatureInv
<1>5. ASSUME NEW r \in Requests, Works(r), UnlockKey(r) PROVE SignatureInv'
  <2>1. CASE FirstUse(r)
    BY <1>0, <1>5, <2>1, KeyMade DEF SignatureInv
  <2>2. CASE ~FirstUse(r)
    <3>1. /\ UNCHANGED <<signingKey, keysMade, authorization>> /\ req[r].pc = "key"
          /\ req'[r].row = req[r].row /\ req'[r].key = req[r].row
          /\ req'[r].pc = "sign" /\ req[r].row # NoKey
      BY <1>0, <1>5, <2>2 DEF UnlockKey, FirstUse, TypeOK, Handler
    <3>2. RequestsSignWithKey' /\ SignedWithKey'
      BY <1>5, <1>k, <3>1, NoKeyMade DEF Works, Others, Reviewing
    <3>3. QED BY <1>0, <1>k, <3>1, <3>2, NoKeyMade DEF SignatureInv
  <2>3. QED BY <2>1, <2>2
<1>6. ASSUME NEW r \in Requests, Works(r), RecordKey(r) \/ Reread(r) PROVE SignatureInv'
  <2>1. /\ UNCHANGED <<signingKey, keysMade, authorization>>
        /\ req[r].pc \in {"keycreated", "reread"} /\ req'[r].row = req[r].row
        /\ \/ req'[r].pc = "reread"
           \/ req'[r].pc = "sign" /\ req'[r].key = signingKey[req[r].user]
    BY <1>0, <1>6 DEF RecordKey, Reread, TypeOK, Handler
  <2>2. req[r].user \in Approvers
    BY <1>0, <2>1 DEF DecisionInv, HandlerKnowsReview, Reviewing
  <2>3. signingKey[req[r].user] \in KeysOf(req[r].user)
    BY <1>k, <2>1, <2>2 DEF OwnKeyOnRecord
  <2>4. RequestsSignWithKey' /\ SignedWithKey'
    BY <1>6, <1>k, <2>1, <2>3, NoKeyMade DEF Works, Others, Reviewing
  <2>5. QED BY <1>0, <1>k, <2>1, <2>4, NoKeyMade DEF SignatureInv
<1>7. ASSUME NEW r \in Requests, Works(r), Sign(r) PROVE SignatureInv'
  <2>1. /\ UNCHANGED <<signingKey, keysMade, authorization>> /\ req[r].pc = "sign"
        /\ req'[r].row = req[r].row /\ req'[r].key = req[r].key
        /\ req'[r].pc = "update"
        /\ req'[r].signature = [key |-> req[r].key, names |-> signingKey[req[r].user],
                                approver |-> req[r].user]
    BY <1>0, <1>7 DEF Sign, TypeOK, Handler
  <2>2. req[r].user \in Approvers
    BY <1>0, <2>1 DEF DecisionInv, HandlerKnowsReview, Reviewing
  <2>3. req[r].key \in KeysOf(req[r].user)
    BY <1>k, <2>1
  <2>4. signingKey[req[r].user] \in KeysOf(req[r].user)
    BY <1>k, <2>2, <2>3 DEF OwnKeyOnRecord
  <2>5. SignedBy(req'[r].signature, req[r].user)
    BY <2>1, <2>3, <2>4 DEF SignedBy
  <2>6. RequestsSignWithKey' /\ SignedWithKey'
    BY <1>7, <1>k, <2>1, <2>3, <2>5, NoKeyMade DEF Works, Others, Reviewing
  <2>7. QED BY <1>0, <1>k, <2>1, <2>6, NoKeyMade DEF SignatureInv
<1>8. CASE Rests
  <2>1. UNCHANGED <<signingKey, keysMade, authorization>>
    BY <1>8 DEF Rests
  <2>2. RequestsSignWithKey' /\ SignedWithKey'
    BY <1>8, <1>k, <2>1, NoKeyMade DEF Rests, Reviewing
  <2>3. QED BY <1>0, <1>k, <2>1, <2>2, NoKeyMade DEF SignatureInv
<1>9. QED BY <1>0, <1>1, <1>2, <1>3, <1>4, <1>5, <1>6, <1>7, <1>8, Steps

LEMMA SignatureInvariant == Spec => []SignatureInv
<1>1. ASSUME Init PROVE SignatureInv
  <2>1. \A r \in Requests : req[r].pc = "idle" /\ req[r].user = NoOne
    BY <1>1 DEF Init, Blank
  <2>2. \A a \in Authorizations : authorization[a].status # "approved"
    BY <1>1 DEF Init, Unwritten
  <2>3. \A u \in Approvers : /\ KeysOf(u) = IF u \in Enrolled THEN {u} ELSE {}
                             /\ signingKey[u] = IF u \in Enrolled THEN u ELSE NoKey
    BY <1>1 DEF Init, KeysOf
  <2>4. EnrolledKeepKey /\ OwnKeyOnRecord
    BY <2>3, NamesAssumption DEF EnrolledKeepKey, OwnKeyOnRecord, Keys
  <2>5. QED
    BY <1>1, <2>1, <2>2, <2>4, DecisionInit
    DEF SignatureInv, RequestsSignWithKey, SignedWithKey, Reviewing
<1>2. QED BY <1>1, SignatureStep, PTL DEF Spec

\* An approval verifies with the key on record, whoever else is getting a
\* first key meanwhile, unless two requests each generated one for its
\* approver, and is never one's own request.
THEOREM ApprovalsOnRecordStand == Spec => []ApprovalsStand
<1>1. ASSUME SignatureInv PROVE ApprovalsVerify
  <2> SUFFICES ASSUME NEW a \in Authorizations, authorization[a].status = "approved",
                      \/ authorization[a].by \in Enrolled
                      \/ \A k, l \in keysMade :
                            k[1] = authorization[a].by /\ l[1] = authorization[a].by => k = l
               PROVE  Verifies(a)
    BY DEF ApprovalsVerify
  <2> DEFINE u == authorization[a].by
  <2>1. u \in Approvers
    BY <1>1 DEF SignatureInv, DecisionInv, DecidedByReviewer, Decided
  <2>2. PICK k, n \in KeysOf(u) :
           authorization[a].signature = [key |-> k, names |-> n, approver |-> u]
    BY <1>1 DEF SignatureInv, SignedWithKey, SignedBy
  <2>3. \A x, y \in KeysOf(u) : x = y
    <3>1. CASE u \in Enrolled
      BY <1>1, <2>1, <3>1 DEF SignatureInv, EnrolledKeepKey
    <3>2. CASE u \notin Enrolled
      <4>1. ASSUME NEW x \in KeysOf(u), NEW y \in KeysOf(u) PROVE x = y
        <5>1. <<u, x>> \in keysMade /\ <<u, y>> \in keysMade
          BY <3>2 DEF KeysOf
        <5>2. <<u, x>> = <<u, y>>
          BY <3>2, <5>1
        <5>3. QED BY <5>2
      <4>2. QED BY <4>1
    <3>3. QED BY <3>1, <3>2
  <2>4. signingKey[u] \in KeysOf(u) /\ signingKey[u] # NoKey
    BY <1>1, <2>1, <2>2 DEF SignatureInv, OwnKeyOnRecord
  <2>5. k = signingKey[u] /\ n = signingKey[u]
    BY <2>2, <2>3, <2>4
  <2>6. authorization[a].signature # NoSignature
    BY <2>2, <2>4, <2>5 DEF NoSignature
  <2>7. QED BY <2>2, <2>4, <2>5, <2>6 DEF Verifies
<1>2. ASSUME SignatureInv PROVE IndependentReview
  BY <1>2 DEF SignatureInv, DecisionInv, DecidedByReviewer, IndependentReview
<1>3. SignatureInv => ApprovalsStand
  BY <1>1, <1>2 DEF ApprovalsStand, SignatureInv, DecisionInv
<1>4. QED BY <1>3, SignatureInvariant, PTL

-------------------------------------------------------------------------------
(***************************************************************************)
(* Codes.  A request that consumed one either is still at work with it or  *)
(* approved, and no other consumed the same.                               *)
(***************************************************************************)

Consumed(r) ==
    \/ req[r].pc \in Reviewing \ {"totp"}
    \/ \E a \in Authorizations :
          authorization[a].status = "approved" /\ authorization[a].request = r

ConsumedIsSpent == \A r \in Requests : Consumed(r) => <<req[r].user, req[r].code>> \in spent

CodesDistinct ==
    \A r, s \in Requests :
        Consumed(r) /\ Consumed(s) /\ r # s /\ req[r].user = req[s].user
            => req[r].code # req[s].code

CodeInv == DecisionInv /\ ConsumedIsSpent /\ CodesDistinct

LEMMA CodeStep == CodeInv /\ [Next]_vars => CodeInv'
<1> SUFFICES ASSUME CodeInv, [Next]_vars PROVE CodeInv'
  OBVIOUS
<1>0. DecisionInv /\ DecisionInv' /\ TypeOK
  BY DecisionStep DEF CodeInv, DecisionInv
<1>1. ASSUME spent \subseteq spent',
             \A r \in Requests :
                 Consumed(r)' => /\ Consumed(r)
                                 /\ req'[r].user = req[r].user
                                 /\ req'[r].code = req[r].code
      PROVE  CodeInv'
  BY <1>0, <1>1 DEF CodeInv, ConsumedIsSpent, CodesDistinct
<1>2. ASSUME NEW r \in Requests, Begins(r) PROVE CodeInv'
  <2>1. spent' = spent /\ ~Consumed(r)'
    BY <1>0, <1>2 DEF Begins, Consumed, Reviewing, DecisionInv, UnfinishedDecidedNothing
  <2>2. \A s \in Requests : s # r /\ Consumed(s)' => Consumed(s)
    BY <1>2 DEF Begins, Others, Consumed
  <2>3. QED BY <1>1, <1>2, <2>1, <2>2 DEF Begins, Others
<1>3. ASSUME NEW r \in Requests, NEW a \in Authorizations, NEW u \in Approvers,
             Decides(r, a, u)
      PROVE  CodeInv'
  <2>1. Consumed(r)' => /\ Consumed(r)
                        /\ req'[r].user = req[r].user
                        /\ req'[r].code = req[r].code
    BY <1>0, <1>3
    DEF Decides, Consumed, Reviewing, DecisionInv, UnfinishedDecidedNothing
  <2>2. \A s \in Requests : s # r /\ Consumed(s)' => Consumed(s)
    BY <1>3 DEF Decides, Others, Consumed
  <2>3. QED BY <1>1, <1>3, <2>1, <2>2 DEF Decides, Others
<1>4. ASSUME NEW r \in Requests, Works(r),
             Consumed(r)' => Consumed(r), spent \subseteq spent'
      PROVE  CodeInv'
  <2>1. \A s \in Requests : s # r /\ Consumed(s)' => Consumed(s)
    BY <1>4 DEF Works, Others, Consumed
  <2>2. QED BY <1>1, <1>4, <2>1 DEF Works, Others
<1>5. ASSUME NEW r \in Requests, Misses(r) PROVE CodeInv'
  BY <1>4, <1>5 DEF Misses, Works, Consumed, Reviewing
<1>6. ASSUME NEW r \in Requests, Works(r),
             \/ UnlockKey(r) \/ RecordKey(r) \/ Reread(r) \/ Sign(r) \/ Record(r)
      PROVE  CodeInv'
  <2>1. Consumed(r)' => Consumed(r)
    BY <1>6
    DEF UnlockKey, RecordKey, Reread, Sign, Record, Works, Consumed, Reviewing
  <2>2. spent' = spent
    BY <1>6 DEF UnlockKey, RecordKey, Reread, Sign, Record
  <2>3. QED BY <1>4, <1>6, <2>1, <2>2
<1>7. ASSUME NEW r \in Requests, Works(r), ConsumeTotp(r) PROVE CodeInv'
  <2> DEFINE mine == <<req[r].user, req[r].code>>
  <2>1. CASE mine \notin spent /\ spent' = spent \cup {mine}
    <3>1. \A s \in Requests : s # r =>
              /\ req'[s] = req[s]
              /\ Consumed(s)' = Consumed(s)
      BY <1>7 DEF Works, Others, Consumed
    <3>2. req'[r].user = req[r].user /\ req'[r].code = req[r].code
      BY <1>7 DEF Works
    <3>3. \A s \in Requests : s # r /\ Consumed(s) =>
              <<req[s].user, req[s].code>> \in spent
                /\ <<req[s].user, req[s].code>> # mine
      BY <2>1 DEF CodeInv, ConsumedIsSpent
    <3>4. ConsumedIsSpent'
      BY <2>1, <3>1, <3>2, <3>3 DEF ConsumedIsSpent
    <3>5. CodesDistinct'
      <4> SUFFICES ASSUME NEW q \in Requests, NEW s \in Requests, q # s,
                          Consumed(q)', Consumed(s)', req'[q].user = req'[s].user
                   PROVE  req'[q].code # req'[s].code
        BY DEF CodesDistinct
      <4>1. CASE q # r /\ s # r
        BY <3>1, <4>1 DEF CodeInv, CodesDistinct
      <4>2. CASE q = r
        BY <3>1, <3>2, <3>3, <4>2
      <4>3. CASE s = r
        BY <3>1, <3>2, <3>3, <4>3
      <4>4. QED BY <4>1, <4>2, <4>3
    <3>6. QED BY <1>0, <3>4, <3>5 DEF CodeInv
  <2>2. CASE spent' = spent /\ req'[r].pc = "record"
    <3>1. ~Consumed(r)'
      BY <1>0, <1>7, <2>2
      DEF ConsumeTotp, Works, Consumed, Reviewing, DecisionInv, UnfinishedDecidedNothing
    <3>2. QED BY <1>4, <1>7, <2>2, <3>1
  <2>3. QED
    BY <1>0, <1>7, <2>1, <2>2 DEF ConsumeTotp, Spend, TypeOK, Handler
<1>8. CASE Rests
  <2>1. \A r \in Requests : Consumed(r)' => /\ Consumed(r)
                                            /\ req'[r].user = req[r].user
                                            /\ req'[r].code = req[r].code
    BY <1>0, <1>8
    DEF Rests, Consumed, Reviewing, DecisionInv, UnfinishedDecidedNothing
  <2>2. QED BY <1>1, <1>8, <2>1 DEF Rests
<1>9. QED BY <1>0, <1>2, <1>3, <1>5, <1>6, <1>7, <1>8, Steps

LEMMA CodeInvariant == Spec => []CodeInv
<1>1. ASSUME Init PROVE CodeInv
  <2>1. \A r \in Requests : req[r].pc = "idle"
    BY <1>1 DEF Init, Blank
  <2>2. \A a \in Authorizations : authorization[a].status # "approved"
    BY <1>1 DEF Init, Unwritten
  <2>3. \A r \in Requests : ~Consumed(r)
    BY <2>1, <2>2 DEF Consumed, Reviewing
  <2>4. QED BY <1>1, <2>3, DecisionInit DEF CodeInv, ConsumedIsSpent, CodesDistinct
<1>2. QED BY <1>1, CodeStep, PTL DEF Spec

\* One authenticator code backs one approval of its approver, however many
\* requests bring it and in whichever steps they are handled.
THEOREM OneCodeHolds == Spec => []OneCodeOneApproval
<1>1. ASSUME CodeInv PROVE OneCodeOneApproval
  <2> SUFFICES ASSUME NEW a \in Authorizations, NEW b \in Authorizations, a # b,
                      authorization[a].status = "approved",
                      authorization[b].status = "approved",
                      authorization[a].by = authorization[b].by
               PROVE  req[authorization[a].request].code # req[authorization[b].request].code
    BY DEF OneCodeOneApproval
  <2> DEFINE r == authorization[a].request
             s == authorization[b].request
  <2>1. /\ r \in Requests /\ req[r].auth = a /\ req[r].user = authorization[a].by
        /\ s \in Requests /\ req[s].auth = b /\ req[s].user = authorization[b].by
    BY <1>1 DEF CodeInv, DecisionInv, DecidedByReviewer, Decided
  <2>2. Consumed(r) /\ Consumed(s)
    BY DEF Consumed
  <2>3. QED BY <1>1, <2>1, <2>2 DEF CodeInv, CodesDistinct
<1>2. QED BY <1>1, CodeInvariant, PTL

-------------------------------------------------------------------------------
(***************************************************************************)
(* The ledger.                                                             *)
(***************************************************************************)

\* A request that has come to its entry: the entry says what it made.
EntryIsTrue(r, event) ==
    /\ event \in DecisionEvents =>
         /\ req[r].auth \in Authorizations
         /\ authorization[req[r].auth].request = r
    /\ event \in Refusals =>
         /\ req[r].auth \in Authorizations
         /\ \A a \in Authorizations : authorization[a].request # r

EntriesAreTrue ==
    /\ \A r \in Requests : req[r].pc = "record" => EntryIsTrue(r, req[r].event)
    /\ \A r \in Requests, event \in DecisionEvents \cup Refusals :
          <<r, event>> \in log => req[r].pc = "done" /\ EntryIsTrue(r, event)

DecisionIsOnItsWay ==
    \A a \in Authorizations : Decided(a) =>
        LET r == authorization[a].request IN
        \/ req[r].pc = "record" /\ req[r].event = DecisionEvent(a)
        \/ req[r].pc = "done" /\ (Recorded(a) \/ died)

LedgerInv ==
    /\ DecisionInv
    /\ EntriesAreTrue
    /\ DecisionIsOnItsWay
LEMMA LedgerStep == LedgerInv /\ [Next]_vars => LedgerInv'
<1> SUFFICES ASSUME LedgerInv, [Next]_vars PROVE LedgerInv'
  OBVIOUS
<1>0. DecisionInv /\ DecisionInv' /\ TypeOK
  BY DecisionStep DEF LedgerInv, DecisionInv
<1>n. NoOne \notin Requests
  BY NamesAssumption
<1>s. DecisionEvents \cap Refusals = {}
  BY DEF DecisionEvents, Refusals
<1> USE <1>0, <1>n, <1>s DEF LedgerInv
<1>1. ASSUME NEW r \in Requests, Begins(r) PROVE LedgerInv'
  <2>1. \A a \in Authorizations : authorization'[a].request = authorization[a].request
                               /\ authorization[a].request # r
    BY <1>1 DEF Begins, DecisionInv, UnfinishedDecidedNothing
  <2>2. EntriesAreTrue'
    <3>1. /\ Others(r) /\ log' = log /\ req[r].pc = "idle"
          /\ req'[r].pc = "record" => /\ req'[r].event \notin DecisionEvents
                                     /\ req'[r].auth \in Authorizations
      BY <1>1 DEF Begins, DecisionEvents, Refusals
    <3>2. \A s \in Requests, event \in DecisionEvents \cup Refusals :
              <<s, event>> \in log => s # r
      BY <3>1 DEF EntriesAreTrue
    <3>3. \A s \in Requests : \A event : s # r /\ EntryIsTrue(s, event) => EntryIsTrue(s, event)'
      BY <2>1, <3>1 DEF Others, EntryIsTrue
    <3>4. req'[r].pc = "record" => EntryIsTrue(r, req[r].event)'
      BY <2>1, <3>1 DEF EntryIsTrue
    <3>5. \A s \in Requests \ {r} : req'[s] = req[s]
      BY <3>1 DEF Others
    <3>6. \A s \in Requests : req'[s].pc = "record" => EntryIsTrue(s, req[s].event)'
      BY <3>3, <3>4, <3>5 DEF EntriesAreTrue
    <3>7. QED BY <3>1, <3>2, <3>3, <3>5, <3>6 DEF EntriesAreTrue
  <2>3. DecisionIsOnItsWay'
    BY <1>1, <2>1
    DEF Begins, Others, DecisionIsOnItsWay, Decided, Recorded, DecisionEvent,
        DecisionInv, DecidedByReviewer
  <2>4. QED BY <2>2, <2>3
<1>2. ASSUME NEW r \in Requests, NEW a \in Authorizations, NEW u \in Approvers,
             Decides(r, a, u)
      PROVE  LedgerInv'
  <2>1. /\ authorization[a].request = NoOne /\ authorization'[a].request = r
        /\ \A b \in Authorizations :
              /\ b # a => authorization'[b] = authorization[b]
              /\ authorization[b].request # r
        /\ Others(r) /\ req'[r].pc = "record" /\ req'[r].auth = a /\ log' = log
        /\ req[r].pc # "done"
    BY <1>2
    DEF Decides, Reviewable, DecisionInv, UndecidedIsUnsigned, Decided,
        UnfinishedDecidedNothing
  <2>2. req'[r].event \in DecisionEvents
    BY <1>2 DEF Decides, DecisionEvents
  <2>3. EntriesAreTrue'
    BY <2>1, <2>2 DEF Others, EntriesAreTrue, EntryIsTrue
  <2>4. DecisionIsOnItsWay'
    <3> SUFFICES ASSUME NEW b \in Authorizations, Decided(b)'
                 PROVE  LET q == authorization'[b].request IN
                        \/ req'[q].pc = "record" /\ req'[q].event = DecisionEvent(b)'
                        \/ req'[q].pc = "done" /\ (Recorded(b)' \/ died')
      BY DEF DecisionIsOnItsWay
    <3>1. CASE b = a
      BY <1>2, <2>1, <3>1 DEF Decides, DecisionEvent
    <3>2. CASE b # a
      <4>1. Decided(b) /\ authorization[b].request \in Requests \ {r}
        BY <2>1, <3>2 DEF Decided, DecisionInv, DecidedByReviewer
      <4>2. req'[authorization[b].request] = req[authorization[b].request] /\ died' = died
        BY <1>2, <2>1, <4>1 DEF Others, Decides
      <4>3. QED
        BY <2>1, <3>2, <4>1, <4>2 DEF DecisionIsOnItsWay, Recorded, DecisionEvent
    <3>3. QED BY <3>1, <3>2
  <2>5. QED BY <2>3, <2>4
<1>3. ASSUME NEW r \in Requests, Works(r), req[r].pc # "record", log' = log,
             req'[r].pc = "record" => req'[r].event \in Refusals
      PROVE  LedgerInv'
  <2>1. \A a \in Authorizations : authorization[a].request # r
    BY <1>3 DEF Works, DecisionInv, UnfinishedDecidedNothing, Reviewing
  <2>2. /\ Others(r) /\ UNCHANGED <<authorization, died>> /\ req'[r].auth = req[r].auth
        /\ req[r].pc # "done" /\ req[r].auth \in Authorizations
    BY <1>3 DEF Works, Reviewing, DecisionInv, HandlerKnowsReview
  <2>3. EntriesAreTrue'
    BY <1>3, <2>1, <2>2 DEF Others, EntriesAreTrue, EntryIsTrue
  <2>4. DecisionIsOnItsWay'
    BY <1>3, <2>1, <2>2
    DEF Others, DecisionIsOnItsWay, Decided, Recorded, DecisionEvent, DecisionInv,
        DecidedByReviewer
  <2>5. QED BY <2>3, <2>4
<1>4. ASSUME NEW r \in Requests, Misses(r) PROVE LedgerInv'
  BY <1>3, <1>4 DEF Misses, Refusals
<1>5. ASSUME NEW r \in Requests, Works(r), ConsumeTotp(r) PROVE LedgerInv'
  <2>1. /\ req[r].pc = "totp" /\ log' = log
        /\ req'[r].pc = "record" => req'[r].event = "approval_totp_failed"
    BY <1>5 DEF ConsumeTotp, TypeOK, Handler
  <2>2. QED BY <1>3, <1>5, <2>1 DEF Refusals
<1>6. ASSUME NEW r \in Requests, Works(r), UnlockKey(r) \/ Reread(r) \/ Sign(r)
      PROVE  LedgerInv'
  <2>1. /\ req[r].pc # "record" /\ log' = log
        /\ req'[r].pc \in {"keycreated", "sign", "update"}
    BY <1>6 DEF UnlockKey, Reread, Sign, TypeOK, Handler
  <2>2. QED BY <1>3, <1>6, <2>1
<1>7. ASSUME NEW r \in Requests, Works(r), RecordKey(r) PROVE LedgerInv'
  <2>1. /\ log' = log \cup {<<r, "approver_key_created">>}
        /\ req[r].pc = "keycreated" /\ req'[r].pc = "reread"
        /\ Others(r) /\ UNCHANGED <<authorization, died>> /\ req'[r].auth = req[r].auth
    BY <1>7 DEF RecordKey, Works, TypeOK, Handler
  <2>2. \A q, event : event \in DecisionEvents \cup Refusals /\ <<q, event>> \in log'
                          => <<q, event>> \in log
    BY <2>1 DEF DecisionEvents, Refusals
  <2>3. EntriesAreTrue'
    BY <2>1, <2>2 DEF Others, EntriesAreTrue, EntryIsTrue
  <2>4. \A a \in Authorizations : authorization[a].request # r
    BY <2>1 DEF DecisionInv, UnfinishedDecidedNothing
  <2>5. DecisionIsOnItsWay'
    BY <2>1, <2>4
    DEF Others, DecisionIsOnItsWay, Decided, Recorded, DecisionEvent, DecisionInv,
        DecidedByReviewer
  <2>6. QED BY <2>3, <2>5
<1>8. ASSUME NEW r \in Requests, Works(r), Record(r) PROVE LedgerInv'
  <2>1. /\ log' = log \cup {<<r, req[r].event>>}
        /\ req[r].pc = "record" /\ req'[r].pc = "done"
        /\ Others(r) /\ UNCHANGED <<authorization, died>> /\ req'[r].auth = req[r].auth
    BY <1>8 DEF Record, Works, TypeOK, Handler
  <2>2. EntriesAreTrue'
    BY <2>1 DEF Others, EntriesAreTrue, EntryIsTrue
  <2>3. DecisionIsOnItsWay'
    BY <2>1
    DEF Others, DecisionIsOnItsWay, Decided, Recorded, DecisionEvent, DecisionInv,
        DecidedByReviewer
  <2>4. QED BY <2>2, <2>3
<1>9. CASE Rests
  <2>1. EntriesAreTrue'
    BY <1>9 DEF Rests, EntriesAreTrue, EntryIsTrue
  <2>2. DecisionIsOnItsWay'
    BY <1>9
    DEF Rests, DecisionIsOnItsWay, Decided, Recorded, DecisionEvent, DecisionInv,
        DecidedByReviewer
  <2>3. QED BY <2>1, <2>2
<1>10. QED
  BY <1>1, <1>2, <1>4, <1>5, <1>6, <1>7, <1>8, <1>9, Steps

LEMMA LedgerInvariant == Spec => []LedgerInv
<1>1. ASSUME Init PROVE LedgerInv
  <2>1. log = {} /\ \A r \in Requests : req[r].pc = "idle"
    BY <1>1 DEF Init, Blank
  <2>2. \A a \in Authorizations : ~Decided(a)
    BY <1>1 DEF Init, Unwritten, Decided
  <2>3. QED
    BY <1>1, <2>1, <2>2, DecisionInit DEF LedgerInv, EntriesAreTrue, DecisionIsOnItsWay
<1>2. QED BY <1>1, LedgerStep, PTL DEF Spec

\* The ledger and the table agree: an entry never claims a decision somebody
\* else made, and only a death between the two leaves a decision without one.
THEOREM LedgerTellsWhatHappened == Spec => []LedgerTellsDecisions
<1>1. ASSUME LedgerInv PROVE LedgerMatchesDecisions
  <2> SUFFICES ASSUME NEW e \in log
               PROVE  LET made == authorization[req[e[1]].auth].request = e[1] IN
                      /\ e[2] \in DecisionEvents => made
                      /\ e[2] \in Refusals => ~made
    BY DEF LedgerMatchesDecisions, DecisionEvents, Refusals
  <2>1. e = <<e[1], e[2]>> /\ e[1] \in Requests
    BY <1>1 DEF LedgerInv, DecisionInv, TypeOK
  <2>2. e[2] \in DecisionEvents \cup Refusals => EntryIsTrue(e[1], e[2])
    BY <1>1, <2>1 DEF LedgerInv, EntriesAreTrue
  <2>3. QED BY <2>2 DEF EntryIsTrue
<1>2. ASSUME LedgerInv PROVE DecisionsAreRecorded
  BY <1>2 DEF LedgerInv, DecisionIsOnItsWay, DecisionsAreRecorded
<1>3. LedgerInv => LedgerTellsDecisions
  BY <1>1, <1>2 DEF LedgerTellsDecisions
<1>4. QED BY <1>3, LedgerInvariant, PTL

----------------------------------------------------------------------------
(***************************************************************************)
(* RegistryAdmission.                                                      *)
(***************************************************************************)

Admitting == {"check", "version", "digest", "record"}
Committing == {"version", "digest", "record"}

\* The role main() is at, and those this start has admitted before it.
Current == Roles[turn]
Admitted == {Roles[i] : i \in 1 .. turn - 1}

(***************************************************************************)
(* Types, and where main() is.                                             *)
(***************************************************************************)

TurnFollowsPc ==
    /\ pc = "down" => turn = 1
    /\ pc \in Admitting => turn <= Len(Roles)
    /\ pc \in {"recordall", "serving"} => turn = Len(Roles) + 1
    /\ pc = "record" => inLoop
    /\ pc = "recordall" => ~inLoop

FilesStay == pc # "down" => \A r \in Role : file[r] # NoFile

\* What is in use was read from a file.
LoadedIsRegistry ==
    /\ \A r \in Admitted \cup changed : loaded[r] \in Registry
    /\ pc \in Committing => loaded[Current] \in Registry

RegistryTypeInv == RegistryTypeOK /\ TurnFollowsPc /\ FilesStay /\ LoadedIsRegistry

(***************************************************************************)
(* What is admitted is committed, and only moves forward.                  *)
(***************************************************************************)

Committed(r, f) == version[r] = f.version /\ digest[r] = f.principals

AdmittedIsCommitted == \A r \in Admitted : Committed(r, loaded[r])

CurrentAdvances ==
    /\ pc = "version" => version[Current] < loaded[Current].version
    /\ pc = "digest" =>
          /\ version[Current] = loaded[Current].version
          /\ \A s \in serving[Current] : s.version < version[Current]
    /\ pc = "record" => Committed(Current, loaded[Current])

ServedWithinCommitted ==
    \A r \in Role : \A s \in serving[r] :
        /\ s.version <= version[r]
        /\ s.version = version[r] => s.principals = digest[r]

CommitInv ==
    /\ RegistryTypeInv
    /\ AdmittedIsCommitted
    /\ CurrentAdvances
    /\ ServedWithinCommitted
    /\ OneContentsPerVersion

(***************************************************************************)
(* Where no start died, what is committed was recorded (the custodian), and*)
(* where no export was moved either, it was exported and nothing exported  *)
(* is newer than the file the application holds.                           *)
(***************************************************************************)

OnRecord(r, registries) ==
    version[r] > 0 =>
        \E f \in registries : f.version = version[r] /\ f.principals = digest[r]

\* The role whose commits are under way excepted.
CommitsOnRecord ==
    \A r \in Role : OnRecord(r, ledger[r]) \/ (pc \in {"digest", "record"} /\ r = Current)

ServedOnRecord == \A r \in Role : serving[r] \subseteq ledger[r]

CommittedIsLedgered == inLoop /\ "died" \notin mishaps => CommitsOnRecord /\ ServedOnRecord

RegistryLedgerInv == CommitInv /\ CommittedIsLedgered

LatestIsNewest ==
    /\ out = latest
    /\ \A r \in Role : \A f \in exported[r] :
          /\ out[r] # NoFile
          /\ f.version <= out[r].version
          /\ f.version = out[r].version => f = out[r]
    /\ \A r \in Role : {out[r], file[r]} \subseteq exported[r] \cup {NoFile}

CommittedWasExported ==
    /\ \A r \in Role : OnRecord(r, exported[r]) \/ (pc = "digest" /\ r = Current)
    /\ pc \in {"version", "digest"} => loaded[Current] \in exported[Current]

ExportInv == CommitInv /\ (mishaps = {} => LatestIsNewest /\ CommittedWasExported /\ ~refused)


(***************************************************************************)
(* The roles this start has admitted.                                      *)
(***************************************************************************)

LEMMA CurrentIsNext ==
    ASSUME RegistryTypeOK, turn <= Len(Roles)
    PROVE  /\ Current \in Role /\ Current \notin Admitted /\ Admitted \subseteq Role
           /\ turn \in 1 .. Len(Roles) /\ turn + 1 \in 1 .. Len(Roles) + 1
BY RolesAssumption DEF RegistryTypeOK, Current, Admitted, Role

LEMMA AdmittedAll ==
    ASSUME turn = Len(Roles) + 1
    PROVE  Admitted = Role
<1>1. turn - 1 = Len(Roles)
  BY RolesAssumption
<1>2. QED BY <1>1 DEF Admitted, Role

LEMMA AdmittedNone == ASSUME turn = 1 PROVE Admitted = {}
BY DEF Admitted

LEMMA AdmittedOneMore ==
    ASSUME RegistryTypeOK, turn <= Len(Roles), turn' = turn + 1
    PROVE  /\ Admitted' = Admitted \cup {Current}
           /\ turn' \in 1 .. Len(Roles) + 1 /\ (turn = Len(Roles) \/ turn' <= Len(Roles))
<1>1. turn \in 1 .. Len(Roles) /\ Len(Roles) \in Nat
  BY RolesAssumption DEF RegistryTypeOK
<1>2. \A i : i \in 1 .. turn' - 1 <=> i \in 1 .. turn - 1 \/ i = turn
  BY <1>1
<1>3. Admitted' = {Roles[i] : i \in 1 .. turn' - 1}
  BY DEF Admitted
<1>4. Admitted' = Admitted \cup {Current}
  BY <1>2, <1>3 DEF Admitted, Current
<1>5. QED BY <1>1, <1>4

LEMMA AfterTurn ==
    ASSUME RegistryTypeOK, turn <= Len(Roles)
    PROVE  /\ turn < Len(Roles) => After(turn) = "check"
           /\ turn = Len(Roles) => After(turn) = IF inLoop THEN "serving" ELSE "recordall"
           /\ turn < Len(Roles) \/ turn = Len(Roles)
BY RolesAssumption DEF After, RegistryTypeOK


(***************************************************************************)
(* What the steps of a start do to what it read.                           *)
(***************************************************************************)

Elsewhere(r) == \A q \in Role : q # r => loaded'[q] = loaded[q]

LEMMA ExportType ==
    ASSUME RegistryTypeOK, NEW r \in Role, NEW p \in Principals
    PROVE  [version |-> NextVersion(r, p), principals |-> p] \in Registry
<1>1. out[r] \in Registry \cup {NoFile}
  BY DEF RegistryTypeOK
<1>2. NextVersion(r, p) \in Nat \ {0}
  BY <1>1 DEF NextVersion, Registry
<1>3. QED BY <1>2 DEF Registry

LEMMA OperatorType ==
    ASSUME RegistryTypeInv, NEW r \in Role,
           (\E p \in Principals : Export(r, p)) \/ Carry(r) \/ Restore(r)
    PROVE  /\ RegistryTypeOK' /\ FilesStay'
           /\ UNCHANGED <<version, digest, ledger, inLoop, pc, turn, loaded, changed,
                          serving, refused>>
<1> USE DEF RegistryTypeInv, FilesStay
<1>1. ASSUME NEW p \in Principals, Export(r, p)
      PROVE  /\ RegistryTypeOK' /\ FilesStay'
             /\ UNCHANGED <<version, digest, ledger, inLoop, pc, turn, loaded, changed,
                            serving, refused>>
  <2> DEFINE new == [version |-> NextVersion(r, p), principals |-> p]
  <2>1. new \in Registry
    BY ExportType
  <2>2. /\ out' = [out EXCEPT ![r] = new] /\ latest' = [latest EXCEPT ![r] = new]
        /\ exported' = [exported EXCEPT ![r] = @ \cup {new}]
        /\ UNCHANGED <<version, digest, ledger, inLoop, pc, turn, loaded, changed,
                       serving, refused, file, mishaps>>
    BY <1>1 DEF Export, meta, process
  <2> HIDE DEF new
  <2>3. QED BY <2>1, <2>2 DEF RegistryTypeOK
<1>2. CASE Carry(r)
  <2>1. out[r] \in Registry /\ file' = [file EXCEPT ![r] = out[r]]
    BY <1>2 DEF Carry, RegistryTypeOK
  <2>2. UNCHANGED <<version, digest, ledger, inLoop, pc, turn, loaded, changed,
                    serving, refused, latest, exported>>
    BY <1>2 DEF Carry, meta, process
  <2>3. /\ out' \in [Role -> Registry \cup {NoFile}]
        /\ mishaps' \subseteq {"moved", "died"}
    BY <1>2 DEF Carry, RegistryTypeOK
  <2>4. QED BY <2>1, <2>2, <2>3, NothingAssumption DEF RegistryTypeOK
<1>3. CASE Restore(r)
  <2>1. PICK old \in exported[r] : file' = [file EXCEPT ![r] = old]
    BY <1>3 DEF Restore
  <2>2. old \in Registry
    BY DEF RegistryTypeOK
  <2>3. UNCHANGED <<version, digest, ledger, inLoop, pc, turn, loaded, changed,
                    serving, refused, out, latest, exported, mishaps>>
    BY <1>3 DEF Restore, meta, process, application
  <2>4. QED BY <2>1, <2>2, <2>3, NothingAssumption DEF RegistryTypeOK
<1>4. QED BY <1>1, <1>2, <1>3

\* registry.check raised, or the process stopped: only history is left of it.
Ends ==
    /\ Ended
    /\ UNCHANGED <<out, latest, exported, file, version, digest, ledger, inLoop, serving>>

\* The file of the current role is read; it is what is committed already, ...
Admits(f) ==
    /\ loaded' = [loaded EXCEPT ![Current] = f]
    /\ Committed(Current, f)
    /\ pc' = After(turn) /\ turn' = turn + 1
    /\ UNCHANGED <<changed, refused>>

\* ... or newer.
Changes(f) ==
    /\ loaded' = [loaded EXCEPT ![Current] = f]
    /\ version[Current] < f.version
    /\ pc' = "version"
    /\ changed' = changed \cup {Current}
    /\ UNCHANGED <<turn, refused>>

LEMMA CheckSteps ==
    ASSUME RegistryTypeInv, CheckRole
    PROVE  /\ turn <= Len(Roles) /\ pc = "check" /\ file[Current] \in Registry
           /\ \/ Ends /\ Unacceptable(Current, file[Current]) /\ UNCHANGED mishaps
                      /\ refused' = (refused \/ file[Current] = latest[Current])
              \/ /\ Admits(file[Current]) \/ Changes(file[Current])
                 /\ serving' = IF pc' = "serving"
                               THEN [r \in Role |-> serving[r] \cup {loaded'[r]}] ELSE serving
                 /\ UNCHANGED <<out, latest, exported, file, version, digest, ledger, inLoop,
                                mishaps>>
<1>1. turn <= Len(Roles) /\ pc = "check" /\ RegistryTypeOK
  BY DEF RegistryTypeInv, TurnFollowsPc, Admitting, CheckRole
<1>2. Current \in Role
  BY <1>1, CurrentIsNext
<1>3. file[Current] \in Registry
  BY <1>1, <1>2 DEF RegistryTypeInv, FilesStay, RegistryTypeOK
<1>4. version[Current] \in Nat /\ file[Current].version \in Nat
  BY <1>1, <1>2, <1>3 DEF RegistryTypeOK, Registry
<1>5. UNCHANGED <<out, latest, exported, file, version, digest, ledger, inLoop, mishaps>>
  BY DEF CheckRole, application, meta
<1>6. CASE Unacceptable(Current, file[Current])
  <2>1. Ended /\ refused' = (refused \/ file[Current] = latest[Current])
    BY <1>6 DEF CheckRole, Current
  <2>2. pc' # "serving"
    BY <2>1 DEF Ended
  <2>3. serving' = serving
    BY <2>2 DEF CheckRole
  <2>4. QED BY <1>1, <1>3, <1>5, <1>6, <2>1, <2>3 DEF Ends
<1>7. CASE ~Unacceptable(Current, file[Current])
  <2>1. serving' = IF pc' = "serving"
                   THEN [r \in Role |-> serving[r] \cup {loaded'[r]}] ELSE serving
    BY DEF CheckRole
  <2>2. Unchanged(Current, file[Current]) => Admits(file[Current])
    BY <1>7 DEF CheckRole, Current, Admits, Unchanged, Committed
  <2>3. ~Unchanged(Current, file[Current]) => Changes(file[Current])
    <3>1. ~Unchanged(Current, file[Current]) => version[Current] < file[Current].version
      BY <1>4, <1>7 DEF Unacceptable, Unchanged
    <3>2. QED BY <1>7, <3>1 DEF CheckRole, Current, Changes
  <2>4. QED BY <1>1, <1>3, <1>5, <2>1, <2>2, <2>3
<1>8. QED BY <1>6, <1>7


(***************************************************************************)
(* Types, and where main() is.                                             *)
(***************************************************************************)

LEMMA RegistryTypeInit == RegistryInit => RegistryTypeInv
<1> SUFFICES ASSUME RegistryInit PROVE RegistryTypeInv
  OBVIOUS
<1>1. RegistryTypeOK
  <2>1. turn \in 1 .. Len(Roles) + 1
    BY RolesAssumption DEF RegistryInit
  <2>2. version \in [Role -> Nat] /\ changed \subseteq Role /\ mishaps \subseteq {"moved", "died"}
    BY DEF RegistryInit
  <2>3. inLoop \in BOOLEAN /\ refused \in BOOLEAN
    BY DEF RegistryInit
  <2>4. /\ out \in [Role -> Registry \cup {NoFile}]
        /\ latest \in [Role -> Registry \cup {NoFile}]
        /\ file \in [Role -> Registry \cup {NoFile}]
        /\ loaded \in [Role -> Registry \cup {NoFile}]
        /\ digest \in [Role -> Principals \cup {NoDigest}]
    BY DEF RegistryInit
  <2>5. /\ exported \in [Role -> SUBSET Registry]
        /\ ledger \in [Role -> SUBSET Registry]
        /\ serving \in [Role -> SUBSET Registry]
    BY DEF RegistryInit
  <2>6. pc \in {"down", "check", "version", "digest", "record", "recordall", "serving"}
    BY DEF RegistryInit
  <2>7. QED BY <2>1, <2>2, <2>3, <2>4, <2>5, <2>6 DEF RegistryTypeOK
<1>2. Admitted = {}
  BY AdmittedNone DEF RegistryInit
<1>3. TurnFollowsPc /\ FilesStay /\ LoadedIsRegistry
  BY <1>2 DEF RegistryInit, TurnFollowsPc, FilesStay, LoadedIsRegistry, Admitting, Committing
<1>4. QED BY <1>1, <1>3 DEF RegistryTypeInv

\* All roles are admitted when main() leaves the loop.
LEMMA LastOfLoop ==
    ASSUME RegistryTypeOK, turn <= Len(Roles), After(turn) # "check"
    PROVE  Admitted \cup {Current} = Role
<1>1. turn = Len(Roles)
  BY AfterTurn
<1>2. turn \in Nat
  BY DEF RegistryTypeOK
<1>3. \A i : i \in 1 .. Len(Roles) <=> i \in 1 .. turn - 1 \/ i = turn
  BY <1>1, <1>2, RolesAssumption
<1>4. QED BY <1>3 DEF Admitted, Current, Role

LEMMA EndsType ==
    ASSUME RegistryTypeInv, Ends, refused' \in BOOLEAN, mishaps' \subseteq {"moved", "died"}
    PROVE  RegistryTypeInv'
<1>1. pc' = "down" /\ turn' = 1 /\ changed' = {}
  BY DEF Ends, Ended
<1>2. loaded' \in [Role -> Registry \cup {NoFile}]
  BY DEF Ends, Ended
<1>3. RegistryTypeOK'
  BY <1>1, <1>2, RolesAssumption DEF RegistryTypeInv, RegistryTypeOK, Ends
<1>4. Admitted' = {}
  BY <1>1 DEF Admitted
<1>5. (TurnFollowsPc /\ FilesStay /\ LoadedIsRegistry)'
  BY <1>1, <1>4 DEF TurnFollowsPc, FilesStay, LoadedIsRegistry, Admitting, Committing
<1>6. QED BY <1>3, <1>5 DEF RegistryTypeInv

\* The role is done: the loop goes on, or what follows it.
LEMMA DoneType ==
    ASSUME RegistryTypeInv, pc \in Admitting, pc' = After(turn), turn' = turn + 1,
           loaded' \in [Role -> Registry \cup {NoFile}],
           \A r \in Admitted \cup changed \cup {Current} : loaded'[r] \in Registry,
           serving' = IF pc' = "serving"
                      THEN [r \in Role |-> serving[r] \cup {loaded'[r]}] ELSE serving,
           digest' \in [Role -> Principals \cup {NoDigest}],
           ledger' \in [Role -> SUBSET Registry],
           UNCHANGED <<out, latest, exported, file, version, inLoop, changed, refused, mishaps>>
    PROVE  RegistryTypeInv'
<1>1. RegistryTypeOK /\ turn <= Len(Roles)
  BY DEF RegistryTypeInv, TurnFollowsPc
<1>2. Admitted' = Admitted \cup {Current} /\ turn' \in 1 .. Len(Roles) + 1
  BY <1>1, AdmittedOneMore
<1>3. \/ pc' = "check" /\ turn < Len(Roles)
      \/ pc' = (IF inLoop THEN "serving" ELSE "recordall") /\ turn = Len(Roles)
  BY <1>1, AfterTurn
<1>4. serving' \in [Role -> SUBSET Registry]
  <2>1. CASE pc' = "serving"
    <3>1. Admitted \cup {Current} = Role
      BY <1>1, <2>1, LastOfLoop
    <3>2. \A r \in Role : loaded'[r] \in Registry
      BY <3>1
    <3>3. QED BY <1>1, <2>1, <3>2 DEF RegistryTypeOK
  <2>2. CASE pc' # "serving"
    BY <1>1, <2>2 DEF RegistryTypeOK
  <2>3. QED BY <2>1, <2>2
<1>5. RegistryTypeOK'
  <2>1. pc' \in {"check", "recordall", "serving"}
    BY <1>3
  <2>2. QED BY <1>1, <1>2, <1>4, <2>1 DEF RegistryTypeOK
<1>6. TurnFollowsPc'
  <2>1. turn \in Nat /\ Len(Roles) \in Nat
    BY <1>1, RolesAssumption DEF RegistryTypeOK
  <2>2. QED BY <1>3, <2>1 DEF TurnFollowsPc, Admitting
<1>7. FilesStay'
  BY DEF RegistryTypeInv, FilesStay, Admitting
<1>8. LoadedIsRegistry'
  BY <1>2, <1>3 DEF LoadedIsRegistry, Committing
<1>9. QED BY <1>5, <1>6, <1>7, <1>8 DEF RegistryTypeInv

LEMMA CheckType == ASSUME RegistryTypeInv, CheckRole PROVE RegistryTypeInv'
<1>1. RegistryTypeOK /\ turn <= Len(Roles) /\ pc = "check" /\ file[Current] \in Registry
  BY CheckSteps DEF RegistryTypeInv
<1>2. Current \in Role
  BY <1>1, CurrentIsNext
<1>3. CASE Ends /\ refused' = (refused \/ file[Current] = latest[Current]) /\ UNCHANGED mishaps
  <2>1. refused' \in BOOLEAN
    BY <1>1, <1>3 DEF RegistryTypeOK
  <2>2. QED BY <1>1, <1>3, <2>1, EndsType DEF RegistryTypeOK
<1>4. CASE /\ Admits(file[Current]) \/ Changes(file[Current])
           /\ serving' = IF pc' = "serving"
                         THEN [r \in Role |-> serving[r] \cup {loaded'[r]}] ELSE serving
           /\ UNCHANGED <<out, latest, exported, file, version, digest, ledger, inLoop, mishaps>>
  <2>1. loaded' = [loaded EXCEPT ![Current] = file[Current]]
    BY <1>4 DEF Admits, Changes
  <2>2. /\ loaded' \in [Role -> Registry \cup {NoFile}]
        /\ \A r \in Admitted \cup changed \cup {Current} : loaded'[r] \in Registry
    <3>1. Admitted \subseteq Role /\ changed \subseteq Role
      BY <1>1, CurrentIsNext DEF RegistryTypeOK
    <3>2. \A r \in Admitted \cup changed : loaded[r] \in Registry
      BY DEF RegistryTypeInv, LoadedIsRegistry
    <3>3. QED BY <1>1, <1>2, <2>1, <3>1, <3>2 DEF RegistryTypeOK
  <2>3. CASE Admits(file[Current])
    <3>1. pc' = After(turn) /\ turn' = turn + 1 /\ UNCHANGED <<changed, refused>>
      BY <2>3 DEF Admits
    <3>2. pc \in Admitting
      BY <1>1 DEF Admitting
    <3>3. QED BY <1>1, <1>4, <2>2, <3>1, <3>2, DoneType DEF RegistryTypeOK
  <2>4. CASE Changes(file[Current])
    <3>1. /\ pc' = "version" /\ changed' = changed \cup {Current}
          /\ UNCHANGED <<turn, refused, serving>>
      BY <1>4, <2>4 DEF Changes
    <3>2. RegistryTypeOK'
      BY <1>1, <1>2, <1>4, <2>2, <3>1 DEF RegistryTypeOK
    <3>3. Admitted' = Admitted /\ Current' = Current
      BY <3>1 DEF Admitted, Current
    <3>4. LoadedIsRegistry'
      BY <2>2, <3>1, <3>3 DEF LoadedIsRegistry
    <3>5. (TurnFollowsPc /\ FilesStay)'
      BY <1>1, <1>4, <3>1 DEF RegistryTypeInv, TurnFollowsPc, FilesStay, Admitting
    <3>6. QED BY <3>2, <3>4, <3>5 DEF RegistryTypeInv
  <2>5. QED BY <1>4, <2>3, <2>4
<1>5. QED BY <1>3, <1>4, CheckSteps

LEMMA OtherStepsType ==
    ASSUME RegistryTypeInv, Begin \/ Stop \/ RecordAll
    PROVE  RegistryTypeInv'
<1> USE DEF application, meta
<1>1. CASE Begin
  <2>1. /\ pc = "down" /\ pc' = "check" /\ \A r \in Role : file[r] # NoFile
        /\ UNCHANGED <<out, latest, exported, file, version, digest, ledger, inLoop, turn, loaded,
                       changed, serving, refused, mishaps>>
    BY <1>1 DEF Begin
  <2>2. RegistryTypeOK'
    BY <2>1 DEF RegistryTypeInv, RegistryTypeOK
  <2>3. Admitted' = Admitted
    BY <2>1 DEF Admitted
  <2>4. turn = 1
    BY <2>1 DEF RegistryTypeInv, TurnFollowsPc
  <2>5. (TurnFollowsPc /\ FilesStay)'
    BY <2>1, <2>4, RolesAssumption DEF TurnFollowsPc, FilesStay, Admitting
  <2>6. LoadedIsRegistry'
    BY <2>1, <2>3 DEF RegistryTypeInv, LoadedIsRegistry, Committing
  <2>7. QED BY <2>2, <2>5, <2>6 DEF RegistryTypeInv
<1>2. CASE Stop
  <2>1. Ends /\ UNCHANGED refused
    BY <1>2 DEF Stop, Ends
  <2>2. mishaps' \subseteq {"moved", "died"} /\ refused \in BOOLEAN
    BY <1>2 DEF Stop, RegistryTypeInv, RegistryTypeOK
  <2>3. QED BY <2>1, <2>2, EndsType
<1>3. CASE RecordAll
  <2>1. /\ pc = "recordall"
        /\ UNCHANGED <<out, latest, exported, file, version, digest, inLoop, turn, loaded,
                       refused, mishaps>>
    BY <1>3 DEF RecordAll
  <2>2. turn = Len(Roles) + 1 /\ Admitted = Role /\ Admitted' = Role
    <3>1. turn = Len(Roles) + 1
      BY <2>1 DEF RegistryTypeInv, TurnFollowsPc
    <3>2. Admitted' = Admitted
      BY <2>1 DEF Admitted
    <3>3. QED BY <3>1, <3>2, AdmittedAll
  <2>3. /\ \A r \in Role : loaded[r] \in Registry
        /\ LoadedIsRegistry'
    <3>1. \A r \in Role : loaded[r] \in Registry
      BY <2>2 DEF RegistryTypeInv, LoadedIsRegistry
    <3>2. pc' \in {"recordall", "serving"} /\ changed' \subseteq Role
      BY <1>3, <2>1 DEF RecordAll, RegistryTypeInv, RegistryTypeOK
    <3>3. QED BY <2>1, <2>2, <3>1, <3>2 DEF LoadedIsRegistry, Committing
  <2>4. CASE \E r \in changed : /\ ledger' = [ledger EXCEPT ![r] = @ \cup {loaded[r]}]
                                /\ changed' = changed \ {r}
                                /\ UNCHANGED <<pc, serving>>
    <3>1. PICK r \in changed : /\ ledger' = [ledger EXCEPT ![r] = @ \cup {loaded[r]}]
                               /\ changed' = changed \ {r}
                               /\ UNCHANGED <<pc, serving>>
      BY <2>4
    <3>2. loaded[r] \in Registry
      BY <2>3 DEF RegistryTypeInv, RegistryTypeOK
    <3>3. RegistryTypeOK'
      BY <2>1, <3>1, <3>2 DEF RegistryTypeInv, RegistryTypeOK
    <3>4. (TurnFollowsPc /\ FilesStay)'
      BY <2>1, <3>1 DEF RegistryTypeInv, TurnFollowsPc, FilesStay
    <3>5. QED BY <2>3, <3>3, <3>4 DEF RegistryTypeInv
  <2>5. CASE /\ changed = {} /\ pc' = "serving" /\ UNCHANGED <<ledger, changed>>
             /\ serving' = [r \in Role |-> serving[r] \cup {loaded[r]}]
    <3>1. serving' \in [Role -> SUBSET Registry]
      BY <2>3, <2>5 DEF RegistryTypeInv, RegistryTypeOK
    <3>2. RegistryTypeOK'
      BY <2>1, <2>5, <3>1 DEF RegistryTypeInv, RegistryTypeOK
    <3>3. (TurnFollowsPc /\ FilesStay)'
      BY <2>1, <2>2, <2>5 DEF RegistryTypeInv, TurnFollowsPc, FilesStay, Admitting
    <3>4. QED BY <2>3, <3>2, <3>3 DEF RegistryTypeInv
  <2>6. QED BY <1>3, <2>4, <2>5 DEF RecordAll
<1>4. QED BY <1>1, <1>2, <1>3

\* The three commits of a role, and nothing else of the service.
LEMMA CommitType ==
    ASSUME RegistryTypeInv, SetVersion \/ SetDigest \/ RecordRole
    PROVE  RegistryTypeInv' /\ pc \in Committing /\ Current \in Role /\ loaded[Current] \in Registry
<1>1. /\ pc \in Committing /\ pc \in Admitting /\ RegistryTypeOK /\ turn <= Len(Roles)
      /\ UNCHANGED <<out, latest, exported, file, inLoop, loaded, changed, refused, mishaps>>
  BY DEF SetVersion, SetDigest, RecordRole, application, meta, Committing, Admitting, RegistryTypeInv,
         TurnFollowsPc
<1>2. Current \in Role /\ loaded[Current] \in Registry
  BY <1>1, CurrentIsNext DEF RegistryTypeInv, LoadedIsRegistry
<1>3. loaded[Current].version \in Nat /\ loaded[Current].principals \in Principals
  BY <1>2 DEF Registry
<1>4. \A r \in Admitted \cup changed \cup {Current} : loaded'[r] \in Registry
  BY <1>1, <1>2 DEF RegistryTypeInv, LoadedIsRegistry
<1>5. loaded' \in [Role -> Registry \cup {NoFile}]
  BY <1>1 DEF RegistryTypeOK
<1>6. CASE SetVersion
  <2>1. /\ version' = [version EXCEPT ![Current] = loaded[Current].version] /\ pc' = "digest"
        /\ UNCHANGED <<digest, ledger, turn, serving>>
    BY <1>6 DEF SetVersion, Current
  <2>2. RegistryTypeOK'
    BY <1>1, <1>2, <1>3, <2>1 DEF RegistryTypeOK
  <2>3. Admitted' = Admitted /\ Current' = Current
    BY <2>1 DEF Admitted, Current
  <2>4. LoadedIsRegistry'
    BY <1>1, <1>4, <2>3 DEF LoadedIsRegistry
  <2>5. (TurnFollowsPc /\ FilesStay)'
    BY <1>1, <2>1 DEF RegistryTypeInv, TurnFollowsPc, FilesStay, Admitting
  <2>6. QED BY <1>1, <1>2, <2>2, <2>4, <2>5 DEF RegistryTypeInv
<1>7. CASE SetDigest
  <2>1. /\ digest' = [digest EXCEPT ![Current] = loaded[Current].principals] /\ pc = "digest"
        /\ UNCHANGED <<version, ledger, serving>>
    BY <1>7 DEF SetDigest, Current
  <2>2. digest' \in [Role -> Principals \cup {NoDigest}]
    BY <1>1, <1>3, <2>1 DEF RegistryTypeOK
  <2>3. CASE inLoop
    <3>1. pc' = "record" /\ UNCHANGED turn
      BY <1>7, <2>3 DEF SetDigest
    <3>2. RegistryTypeOK'
      BY <1>1, <2>1, <2>2, <3>1 DEF RegistryTypeOK
    <3>3. Admitted' = Admitted /\ Current' = Current
      BY <3>1 DEF Admitted, Current
    <3>4. LoadedIsRegistry'
      BY <1>1, <1>4, <3>3 DEF LoadedIsRegistry
    <3>5. (TurnFollowsPc /\ FilesStay)'
      BY <1>1, <2>1, <2>3, <3>1 DEF RegistryTypeInv, TurnFollowsPc, FilesStay, Admitting
    <3>6. QED BY <1>1, <1>2, <3>2, <3>4, <3>5 DEF RegistryTypeInv
  <2>4. CASE ~inLoop
    <3>1. pc' = After(turn) /\ turn' = turn + 1
      BY <1>7, <2>4 DEF SetDigest
    <3>2. pc' # "serving"
      BY <2>4, <3>1 DEF After
    <3>3. ledger' \in [Role -> SUBSET Registry]
      BY <1>1, <2>1 DEF RegistryTypeOK
    <3>4. QED BY <1>1, <1>2, <1>4, <1>5, <2>1, <2>2, <3>1, <3>2, <3>3, DoneType
  <2>5. QED BY <2>3, <2>4
<1>8. CASE RecordRole
  <2>1. /\ ledger' = [ledger EXCEPT ![Current] = @ \cup {loaded[Current]}]
        /\ pc' = After(turn) /\ turn' = turn + 1
        /\ serving' = IF pc' = "serving"
                      THEN [r \in Role |-> serving[r] \cup {loaded'[r]}] ELSE serving
        /\ UNCHANGED <<version, digest>>
    BY <1>1, <1>8 DEF RecordRole, Current, meta
  <2>2. digest' \in [Role -> Principals \cup {NoDigest}]
    BY <1>1, <2>1 DEF RegistryTypeOK
  <2>3. ledger' \in [Role -> SUBSET Registry]
    BY <1>1, <1>2, <2>1 DEF RegistryTypeOK
  <2>4. QED BY <1>1, <1>2, <1>4, <1>5, <2>1, <2>2, <2>3, DoneType
<1>9. QED BY <1>6, <1>7, <1>8

LEMMA RegistryTypeStep == RegistryTypeInv /\ [RegistryNext]_registryVars => RegistryTypeInv'
<1> SUFFICES ASSUME RegistryTypeInv, [RegistryNext]_registryVars PROVE RegistryTypeInv'
  OBVIOUS
<1>1. ASSUME NEW r \in Role, (\E p \in Principals : Export(r, p)) \/ Carry(r) \/ Restore(r)
      PROVE  RegistryTypeInv'
  <2>1. /\ RegistryTypeOK' /\ FilesStay'
        /\ UNCHANGED <<version, digest, ledger, inLoop, pc, turn, loaded, changed, serving,
                       refused>>
    BY <1>1, OperatorType
  <2>2. Admitted' = Admitted /\ Current' = Current
    BY <2>1 DEF Admitted, Current
  <2>3. (TurnFollowsPc /\ LoadedIsRegistry)'
    BY <2>1, <2>2 DEF RegistryTypeInv, TurnFollowsPc, LoadedIsRegistry
  <2>4. QED BY <2>1, <2>3 DEF RegistryTypeInv
<1>2. CASE UNCHANGED registryVars
  <2>1. UNCHANGED <<out, latest, exported, file, version, digest, ledger, inLoop, pc, turn,
                    loaded, changed, serving, refused, mishaps>>
    BY <1>2 DEF registryVars, application, meta, process
  <2>2. Admitted' = Admitted /\ Current' = Current
    BY <2>1 DEF Admitted, Current
  <2>3. RegistryTypeOK'
    BY <2>1 DEF RegistryTypeInv, RegistryTypeOK
  <2>4. (TurnFollowsPc /\ FilesStay /\ LoadedIsRegistry)'
    BY <2>1, <2>2 DEF RegistryTypeInv, TurnFollowsPc, FilesStay, LoadedIsRegistry
  <2>5. QED BY <2>3, <2>4 DEF RegistryTypeInv
<1>3. QED BY <1>1, <1>2, CheckType, CommitType, OtherStepsType DEF RegistryNext

\* In every reachable state the variables are well typed, main() is where its
\* variables say, and whatever is in use was read from a file.
THEOREM RegistryTypeInvariant == RegistrySpec => []RegistryTypeInv
<1>1. QED BY RegistryTypeInit, RegistryTypeStep, PTL DEF RegistrySpec


(***************************************************************************)
(* What is admitted is committed, and only moves forward.                  *)
(***************************************************************************)

LEMMA SameRegistry ==
    ASSUME NEW f \in Registry, NEW g \in Registry,
           f.version = g.version, f.principals = g.principals
    PROVE  f = g
BY DEF Registry

\* Serving what is committed keeps what is served within what is committed.
LEMMA ServeCommitted ==
    ASSUME RegistryTypeOK', serving \in [Role -> SUBSET Registry],
           \A r \in Role : \A s \in serving[r] :
               /\ s.version <= version'[r]
               /\ s.version = version'[r] => s.principals = digest'[r],
           OneContentsPerVersion,
           pc' = "serving" =>
               \A r \in Role : Committed(r, loaded[r])' /\ loaded'[r] \in Registry,
           serving' = IF pc' = "serving"
                      THEN [r \in Role |-> serving[r] \cup {loaded'[r]}] ELSE serving
    PROVE  ServedWithinCommitted' /\ OneContentsPerVersion'
<1>1. CASE pc' # "serving"
  BY <1>1 DEF ServedWithinCommitted, OneContentsPerVersion
<1>2. CASE pc' = "serving"
  <2>1. ASSUME NEW r \in Role
        PROVE  /\ serving'[r] = serving[r] \cup {loaded'[r]} /\ loaded'[r] \in Registry
               /\ loaded'[r].version = version'[r] /\ loaded'[r].principals = digest'[r]
               /\ version'[r] \in Nat
    BY <1>2, <2>1 DEF Committed, RegistryTypeOK
  <2>2. ServedWithinCommitted'
    BY <2>1 DEF ServedWithinCommitted
  <2>3. ASSUME NEW r \in Role, NEW s \in serving'[r], NEW t \in serving'[r],
               s.version = t.version
        PROVE  s = t
    <3>1. s \in Registry /\ t \in Registry
      BY <2>1, <2>3
    <3>2. CASE s \in serving[r] /\ t \in serving[r]
      BY <2>3, <3>2 DEF OneContentsPerVersion
    <3>3. CASE s = loaded'[r] \/ t = loaded'[r]
      <4>1. s.version = version'[r] /\ t.version = version'[r]
        BY <2>1, <2>3, <3>3
      <4>2. s.principals = digest'[r] /\ t.principals = digest'[r]
        BY <2>1, <4>1
      <4>3. QED BY <2>3, <3>1, <4>2, SameRegistry
    <3>4. QED BY <2>1, <2>3, <3>2, <3>3
  <2>4. QED BY <2>2, <2>3 DEF OneContentsPerVersion
<1>3. QED BY <1>1, <1>2

LEMMA QuietCommit ==
    ASSUME CommitInv, RegistryTypeInv', pc' = pc \/ pc' \notin Committing,
           UNCHANGED <<version, digest, turn, loaded, serving>>
    PROVE  CommitInv'
<1>1. Admitted' = Admitted /\ Current' = Current
  BY DEF Admitted, Current
<1>2. AdmittedIsCommitted'
  BY <1>1 DEF CommitInv, AdmittedIsCommitted, Committed
<1>3. CurrentAdvances'
  BY <1>1 DEF CommitInv, CurrentAdvances, Committed, Committing
<1>4. (ServedWithinCommitted /\ OneContentsPerVersion)'
  BY DEF CommitInv, ServedWithinCommitted, OneContentsPerVersion
<1>5. QED BY <1>2, <1>3, <1>4 DEF CommitInv

LEMMA EndsCommit == ASSUME CommitInv, RegistryTypeInv', Ends PROVE CommitInv'
<1>1. pc' = "down" /\ turn' = 1 /\ UNCHANGED <<version, digest, serving>>
  BY DEF Ends, Ended
<1>2. Admitted' = {}
  BY <1>1 DEF Admitted
<1>3. (AdmittedIsCommitted /\ CurrentAdvances)'
  BY <1>1, <1>2 DEF AdmittedIsCommitted, CurrentAdvances
<1>4. (ServedWithinCommitted /\ OneContentsPerVersion)'
  BY <1>1 DEF CommitInv, ServedWithinCommitted, OneContentsPerVersion
<1>5. QED BY <1>3, <1>4 DEF CommitInv

\* The current role is done: what was read of it is what is committed of it.
LEMMA DoneCommit ==
    ASSUME CommitInv, RegistryTypeInv', pc \in Admitting, pc' = After(turn), turn' = turn + 1,
           \A r \in Admitted : loaded'[r] = loaded[r],
           version' = version, \A r \in Role : r # Current => digest'[r] = digest[r],
           version[Current] = loaded'[Current].version,
           digest'[Current] = loaded'[Current].principals,
           pc # "digest" => digest' = digest,
           serving' = IF pc' = "serving"
                      THEN [r \in Role |-> serving[r] \cup {loaded'[r]}] ELSE serving
    PROVE  CommitInv'
<1>1. RegistryTypeOK /\ turn <= Len(Roles) /\ RegistryTypeOK'
  BY DEF CommitInv, RegistryTypeInv, TurnFollowsPc
<1>2. Current \in Role /\ Current \notin Admitted /\ Admitted \subseteq Role
  BY <1>1, CurrentIsNext
<1>3. Admitted' = Admitted \cup {Current}
  BY <1>1, AdmittedOneMore
<1>4. \A r \in Admitted \cup {Current} : Committed(r, loaded[r])'
  <2>1. \A r \in Admitted : Committed(r, loaded[r])
    BY DEF CommitInv, AdmittedIsCommitted
  <2>2. \A r \in Admitted : r \in Role /\ r # Current
    BY <1>2
  <2>3. QED BY <2>1, <2>2 DEF Committed
<1>5. AdmittedIsCommitted'
  BY <1>3, <1>4 DEF AdmittedIsCommitted
<1>6. CurrentAdvances'
  <2>1. pc' \in {"check", "serving", "recordall"}
    BY DEF After
  <2>2. QED BY <2>1 DEF CurrentAdvances
<1>7. ASSUME NEW r \in Role, NEW s \in serving[r]
      PROVE  /\ s.version <= version'[r]
             /\ s.version = version'[r] => s.principals = digest'[r]
  <2>1. s.version <= version[r] /\ (s.version = version[r] => s.principals = digest[r])
    BY <1>7 DEF CommitInv, ServedWithinCommitted
  <2>2. CASE pc = "digest" /\ r = Current
    <3>1. s.version < version[r]
      BY <1>7, <2>2 DEF CommitInv, CurrentAdvances
    <3>2. s.version \in Nat /\ version[r] \in Nat
      BY <1>1, <1>7 DEF RegistryTypeOK, Registry
    <3>3. QED BY <3>1, <3>2
  <2>3. CASE ~(pc = "digest" /\ r = Current)
    BY <1>7, <2>1, <2>3
  <2>4. QED BY <2>2, <2>3
<1>8. pc' = "serving" => \A r \in Role : Committed(r, loaded[r])' /\ loaded'[r] \in Registry
  <2>1. HAVE pc' = "serving"
  <2>2. Admitted' = Role
    BY <1>1, <1>3, <2>1, LastOfLoop
  <2>3. \A r \in Role : loaded'[r] \in Registry
    BY <2>2 DEF RegistryTypeInv, LoadedIsRegistry
  <2>4. QED BY <1>3, <1>4, <2>2, <2>3
<1>9. (ServedWithinCommitted /\ OneContentsPerVersion)'
  <2>1. serving \in [Role -> SUBSET Registry] /\ OneContentsPerVersion
    BY <1>1 DEF RegistryTypeOK, CommitInv
  <2>2. QED BY <1>1, <1>7, <1>8, <2>1, ServeCommitted
<1>10. QED BY <1>5, <1>6, <1>9 DEF CommitInv

LEMMA CheckCommit == ASSUME CommitInv, RegistryTypeInv', CheckRole PROVE CommitInv'
<1>1. RegistryTypeInv /\ RegistryTypeOK /\ turn <= Len(Roles) /\ pc = "check" /\ file[Current] \in Registry
  BY CheckSteps DEF CommitInv, RegistryTypeInv
<1>2. Current \in Role /\ Current \notin Admitted /\ Admitted \subseteq Role
  BY <1>1, CurrentIsNext
<1>3. CASE Ends
  BY <1>3, EndsCommit
<1>4. CASE /\ Admits(file[Current]) \/ Changes(file[Current])
           /\ serving' = IF pc' = "serving"
                         THEN [r \in Role |-> serving[r] \cup {loaded'[r]}] ELSE serving
           /\ UNCHANGED <<out, latest, exported, file, version, digest, ledger, inLoop, mishaps>>
  <2>1. loaded' = [loaded EXCEPT ![Current] = file[Current]]
    BY <1>4 DEF Admits, Changes
  <2>2. loaded'[Current] = file[Current] /\ \A r \in Admitted : loaded'[r] = loaded[r]
    BY <1>1, <1>2, <2>1 DEF RegistryTypeOK
  <2>3. CASE Admits(file[Current])
    <3>1. /\ pc' = After(turn) /\ turn' = turn + 1
          /\ version[Current] = loaded'[Current].version
          /\ digest[Current] = loaded'[Current].principals
      BY <2>2, <2>3 DEF Admits, Committed
    <3>2. pc \in Admitting /\ digest' = digest
      BY <1>1, <1>4 DEF Admitting
    <3>3. QED BY <1>4, <2>2, <3>1, <3>2, DoneCommit
  <2>4. CASE Changes(file[Current])
    <3>1. /\ pc' = "version" /\ UNCHANGED <<turn, serving, version, digest>>
          /\ version[Current] < loaded'[Current].version
      BY <1>4, <2>2, <2>4 DEF Changes
    <3>2. Admitted' = Admitted /\ Current' = Current
      BY <3>1 DEF Admitted, Current
    <3>3. AdmittedIsCommitted'
      BY <2>2, <3>1, <3>2 DEF CommitInv, AdmittedIsCommitted, Committed
    <3>4. CurrentAdvances'
      BY <3>1, <3>2 DEF CurrentAdvances
    <3>5. (ServedWithinCommitted /\ OneContentsPerVersion)'
      BY <3>1 DEF CommitInv, ServedWithinCommitted, OneContentsPerVersion
    <3>6. QED BY <3>3, <3>4, <3>5 DEF CommitInv
  <2>5. QED BY <1>4, <2>3, <2>4
<1>5. QED BY <1>1, <1>3, <1>4, CheckSteps

LEMMA SetVersionCommit == ASSUME CommitInv, RegistryTypeInv', SetVersion PROVE CommitInv'
<1>1. /\ version' = [version EXCEPT ![Current] = loaded[Current].version]
      /\ pc = "version" /\ pc' = "digest"
      /\ UNCHANGED <<digest, turn, loaded, serving>>
  BY DEF SetVersion, Current
<1>2. RegistryTypeInv /\ RegistryTypeOK /\ RegistryTypeOK' /\ turn <= Len(Roles)
  BY <1>1 DEF CommitInv, RegistryTypeInv, TurnFollowsPc, Admitting
<1>3. Current \in Role /\ Current \notin Admitted /\ Admitted \subseteq Role
  BY <1>2, CurrentIsNext
<1>4. /\ version'[Current] = loaded[Current].version
      /\ \A r \in Role : r # Current => version'[r] = version[r]
  BY <1>1, <1>2, <1>3 DEF RegistryTypeOK
<1>5. version[Current] < version'[Current]
  BY <1>1, <1>4 DEF CommitInv, CurrentAdvances
<1>6. version[Current] \in Nat /\ version'[Current] \in Nat
  BY <1>2, <1>3 DEF RegistryTypeOK
<1>7. ASSUME NEW r \in Role, NEW s \in serving[r]
      PROVE  s.version \in Nat /\ s.version <= version[r]
             /\ (s.version = version[r] => s.principals = digest[r])
  BY <1>2 DEF CommitInv, ServedWithinCommitted, RegistryTypeOK, Registry
<1>8. Admitted' = Admitted /\ Current' = Current
  BY <1>1 DEF Admitted, Current
<1>9. AdmittedIsCommitted'
  BY <1>1, <1>3, <1>4, <1>8 DEF CommitInv, AdmittedIsCommitted, Committed
<1>10. \A s \in serving[Current] : s.version < version'[Current]
  BY <1>3, <1>5, <1>6, <1>7
<1>11. CurrentAdvances'
  BY <1>1, <1>4, <1>8, <1>10 DEF CurrentAdvances
<1>12. ServedWithinCommitted'
  <2>1. ASSUME NEW r \in Role, NEW s \in serving[r]
        PROVE  s.version <= version'[r] /\ (s.version = version'[r] => s.principals = digest[r])
    <3>1. CASE r = Current
      <4>1. s.version < version'[r] /\ s.version \in Nat /\ version'[r] \in Nat
        BY <1>6, <1>7, <1>10, <2>1, <3>1
      <4>2. QED BY <4>1
    <3>2. CASE r # Current
      BY <1>4, <1>7, <2>1, <3>2
    <3>3. QED BY <3>1, <3>2
  <2>2. QED BY <1>1, <2>1 DEF ServedWithinCommitted
<1>13. OneContentsPerVersion'
  BY <1>1 DEF CommitInv, OneContentsPerVersion
<1>14. QED BY <1>9, <1>11, <1>12, <1>13 DEF CommitInv

LEMMA SetDigestCommit == ASSUME CommitInv, RegistryTypeInv', SetDigest PROVE CommitInv'
<1>1. /\ digest' = [digest EXCEPT ![Current] = loaded[Current].principals] /\ pc = "digest"
      /\ UNCHANGED <<version, loaded, serving, inLoop>>
  BY DEF SetDigest, Current
<1>2. RegistryTypeInv /\ RegistryTypeOK /\ RegistryTypeOK' /\ turn <= Len(Roles) /\ pc \in Admitting
  BY <1>1 DEF CommitInv, RegistryTypeInv, TurnFollowsPc, Admitting
<1>3. Current \in Role /\ Current \notin Admitted /\ Admitted \subseteq Role
  BY <1>2, CurrentIsNext
<1>4. /\ digest'[Current] = loaded[Current].principals
      /\ \A r \in Role : r # Current => digest'[r] = digest[r]
  BY <1>1, <1>2, <1>3 DEF RegistryTypeOK
<1>5. /\ version[Current] = loaded[Current].version
      /\ \A s \in serving[Current] : s.version < version[Current]
  BY <1>1 DEF CommitInv, CurrentAdvances
<1>6. CASE ~inLoop
  <2>1. pc' = After(turn) /\ turn' = turn + 1
    BY <1>6 DEF SetDigest
  <2>2. pc' # "serving"
    BY <1>6, <2>1 DEF After
  <2>3. QED BY <1>1, <1>2, <1>4, <1>5, <2>1, <2>2, DoneCommit
<1>7. CASE inLoop
  <2>1. pc' = "record" /\ UNCHANGED turn
    BY <1>7 DEF SetDigest
  <2>2. Admitted' = Admitted /\ Current' = Current
    BY <2>1 DEF Admitted, Current
  <2>3. AdmittedIsCommitted'
    BY <1>1, <1>3, <1>4, <2>2 DEF CommitInv, AdmittedIsCommitted, Committed
  <2>4. CurrentAdvances'
    BY <1>1, <1>4, <1>5, <2>1, <2>2 DEF CurrentAdvances, Committed
  <2>5. ServedWithinCommitted'
    <3>1. ASSUME NEW r \in Role, NEW s \in serving[r]
          PROVE  s.version <= version[r] /\ (s.version = version[r] => s.principals = digest'[r])
      <4>1. CASE r = Current
        <5>1. s.version < version[r] /\ s.version \in Nat /\ version[r] \in Nat
          BY <1>2, <1>5, <3>1, <4>1 DEF RegistryTypeOK, Registry
        <5>2. QED BY <5>1
      <4>2. CASE r # Current
        BY <1>4, <3>1, <4>2 DEF CommitInv, ServedWithinCommitted
      <4>3. QED BY <4>1, <4>2
    <3>2. QED BY <1>1, <3>1 DEF ServedWithinCommitted
  <2>6. OneContentsPerVersion'
    BY <1>1 DEF CommitInv, OneContentsPerVersion
  <2>7. QED BY <2>3, <2>4, <2>5, <2>6 DEF CommitInv
<1>8. QED BY <1>6, <1>7

LEMMA RecordCommit == ASSUME CommitInv, RegistryTypeInv', RecordRole \/ RecordAll PROVE CommitInv'
<1>1. CASE RecordRole
  <2>1. /\ pc = "record" /\ pc' = After(turn) /\ turn' = turn + 1
        /\ serving' = IF pc' = "serving"
                      THEN [r \in Role |-> serving[r] \cup {loaded'[r]}] ELSE serving
        /\ UNCHANGED <<version, digest, loaded>>
    BY <1>1 DEF RecordRole, meta
  <2>2. /\ version[Current] = loaded'[Current].version
        /\ digest'[Current] = loaded'[Current].principals
    BY <2>1 DEF CommitInv, CurrentAdvances, Committed
  <2>3. pc \in Admitting
    BY <2>1 DEF Admitting
  <2>4. QED BY <2>1, <2>2, <2>3, DoneCommit
<1>2. CASE RecordAll
  <2>1. pc = "recordall" /\ UNCHANGED <<version, digest, turn, loaded>>
    BY <1>2 DEF RecordAll, meta
  <2>2. CASE UNCHANGED <<pc, serving>>
    BY <2>1, <2>2, QuietCommit
  <2>3. CASE pc' = "serving" /\ serving' = [r \in Role |-> serving[r] \cup {loaded[r]}]
    <3>1. turn = Len(Roles) + 1 /\ Admitted' = Admitted
      BY <2>1 DEF CommitInv, RegistryTypeInv, TurnFollowsPc, Admitted
    <3>2. Admitted = Role
      BY <3>1, AdmittedAll
    <3>3. AdmittedIsCommitted'
      BY <2>1, <3>1 DEF CommitInv, AdmittedIsCommitted, Committed
    <3>4. CurrentAdvances'
      BY <2>3 DEF CurrentAdvances
    <3>5. \A r \in Role : Committed(r, loaded[r])' /\ loaded'[r] \in Registry
      BY <2>1, <3>1, <3>2, <3>3 DEF CommitInv, RegistryTypeInv, AdmittedIsCommitted, LoadedIsRegistry
    <3>6. \A r \in Role : \A s \in serving[r] :
              /\ s.version <= version'[r]
              /\ s.version = version'[r] => s.principals = digest'[r]
      BY <2>1 DEF CommitInv, ServedWithinCommitted
    <3>7. RegistryTypeOK' /\ serving \in [Role -> SUBSET Registry] /\ OneContentsPerVersion
      BY DEF CommitInv, RegistryTypeInv, RegistryTypeOK
    <3>8. (ServedWithinCommitted /\ OneContentsPerVersion)'
      BY <2>1, <2>3, <3>5, <3>6, <3>7, ServeCommitted
    <3>9. QED BY <3>3, <3>4, <3>8 DEF CommitInv
  <2>4. QED BY <1>2, <2>2, <2>3 DEF RecordAll
<1>3. QED BY <1>1, <1>2

LEMMA CommitStep == CommitInv /\ [RegistryNext]_registryVars => CommitInv'
<1> SUFFICES ASSUME CommitInv, [RegistryNext]_registryVars PROVE CommitInv'
  OBVIOUS
<1>1. RegistryTypeInv /\ RegistryTypeInv'
  BY RegistryTypeStep DEF CommitInv
<1>2. ASSUME NEW r \in Role, (\E p \in Principals : Export(r, p)) \/ Carry(r) \/ Restore(r)
      PROVE  CommitInv'
  <2>1. UNCHANGED <<version, digest, pc, turn, loaded, serving>>
    BY <1>1, <1>2, OperatorType
  <2>2. QED BY <1>1, <2>1, QuietCommit
<1>3. CASE Begin \/ UNCHANGED registryVars
  <2>1. /\ pc' = pc \/ pc' \notin Committing
        /\ UNCHANGED <<version, digest, turn, loaded, serving>>
    BY <1>3 DEF Begin, registryVars, meta, process, Committing
  <2>2. QED BY <1>1, <2>1, QuietCommit
<1>4. CASE Stop
  <2>1. Ends
    BY <1>4 DEF Stop, Ends, application, meta
  <2>2. QED BY <1>1, <2>1, EndsCommit
<1>5. QED BY <1>1, <1>2, <1>3, <1>4, CheckCommit, SetVersionCommit, SetDigestCommit, RecordCommit
           DEF RegistryNext

LEMMA CommitInit == RegistryInit => CommitInv
<1> SUFFICES ASSUME RegistryInit PROVE CommitInv
  OBVIOUS
<1>1. RegistryTypeInv /\ pc = "down" /\ \A r \in Role : serving[r] = {}
  BY RegistryTypeInit DEF RegistryInit
<1>2. Admitted = {}
  BY AdmittedNone DEF RegistryInit
<1>3. QED BY <1>1, <1>2 DEF CommitInv, AdmittedIsCommitted, CurrentAdvances,
                            ServedWithinCommitted, OneContentsPerVersion

\* What a start has admitted is committed with its number and contents, the
\* number it is about to commit is above every number served, and nothing
\* served before is above what is committed.
THEOREM CommitInvariant == RegistrySpec => []CommitInv
<1>1. QED BY CommitInit, CommitStep, PTL DEF RegistrySpec

\* What a role is served only moves forward: no older registry than one
\* served before, no second contents under one number, and what is served is
\* what the next file is compared with, wherever earlier starts died.
THEOREM OnlyAdvances == RegistrySpec => []ServedOnlyAdvances
<1>1. ASSUME CommitInv PROVE ServedOnlyAdvances
  <2>1. RegistryTypeOK /\ OneContentsPerVersion
    BY <1>1 DEF CommitInv, RegistryTypeInv
  <2>2. ServedIsCommitted
    <3>1. SUFFICES ASSUME pc = "serving"
                   PROVE  \A r \in Role : Committed(r, loaded[r])
      BY DEF ServedIsCommitted, Committed
    <3>2. Admitted = Role
      BY <1>1, <3>1, AdmittedAll DEF CommitInv, RegistryTypeInv, TurnFollowsPc
    <3>3. QED BY <1>1, <3>2 DEF CommitInv, AdmittedIsCommitted
  <2>3. NeverServesOlder
    BY <1>1, <2>2 DEF CommitInv, ServedWithinCommitted, ServedIsCommitted, NeverServesOlder
  <2>4. QED BY <2>1, <2>2, <2>3 DEF ServedOnlyAdvances
<1>2. QED BY <1>1, CommitInvariant, PTL


(***************************************************************************)
(* The custodian's ledger tells what it served.                            *)
(***************************************************************************)

LEMMA ServedAreCommitted ==
    ASSUME CommitInv', pc' = "serving"
    PROVE  \A r \in Role : Committed(r, loaded[r])' /\ loaded'[r] \in Registry
<1>1. turn' = Len(Roles) + 1
  BY DEF CommitInv, RegistryTypeInv, TurnFollowsPc
<1>2. turn' - 1 = Len(Roles)
  BY <1>1, RolesAssumption
<1>3. Admitted' = Role
  BY <1>2 DEF Admitted, Role
<1>4. QED BY <1>3 DEF CommitInv, RegistryTypeInv, AdmittedIsCommitted, LoadedIsRegistry

\* What is committed of a role being on record, so is what is served of it.
LEMMA ServeRecorded ==
    ASSUME CommitInv', \A r \in Role : OnRecord(r, ledger[r])',
           \A r \in Role : serving[r] \subseteq ledger'[r],
           serving \in [Role -> SUBSET Registry],
           serving' = IF pc' = "serving"
                      THEN [r \in Role |-> serving[r] \cup {loaded'[r]}] ELSE serving
    PROVE  ServedOnRecord'
<1>1. CASE pc' # "serving"
  BY <1>1 DEF ServedOnRecord
<1>2. CASE pc' = "serving"
  <2>1. ASSUME NEW r \in Role PROVE loaded'[r] \in ledger'[r]
    <3>1. /\ loaded'[r] \in Registry /\ version'[r] = loaded'[r].version
          /\ digest'[r] = loaded'[r].principals
      BY <1>2, <2>1, ServedAreCommitted DEF Committed
    <3>2. version'[r] > 0
      BY <3>1 DEF Registry
    <3>3. PICK f \in ledger'[r] : f.version = version'[r] /\ f.principals = digest'[r]
      BY <2>1, <3>2 DEF OnRecord
    <3>4. f \in Registry
      BY <2>1 DEF CommitInv, RegistryTypeInv, RegistryTypeOK
    <3>5. QED BY <3>1, <3>3, <3>4, SameRegistry
  <2>2. QED BY <1>2, <2>1 DEF ServedOnRecord
<1>3. QED BY <1>1, <1>2

\* A step that commits nothing and appends nothing keeps the account.
LEMMA QuietLedger ==
    ASSUME CommitsOnRecord, pc' \in {"digest", "record"} \/ pc \notin {"digest", "record"},
           pc \in {"digest", "record"} => turn' = turn,
           UNCHANGED <<version, digest, ledger>>
    PROVE  CommitsOnRecord'
<1>1. pc \in {"digest", "record"} => Current' = Current
  BY DEF Current
<1>2. QED BY <1>1 DEF CommitsOnRecord, OnRecord

LEMMA RegistryLedgerStep == RegistryLedgerInv /\ [RegistryNext]_registryVars => RegistryLedgerInv'
<1> SUFFICES ASSUME RegistryLedgerInv, [RegistryNext]_registryVars PROVE RegistryLedgerInv'
  OBVIOUS
<1>1. CommitInv /\ CommitInv' /\ RegistryTypeInv /\ RegistryTypeOK
  BY CommitStep DEF RegistryLedgerInv, CommitInv, RegistryTypeInv
<1>2. SUFFICES ASSUME inLoop', "died" \notin mishaps'
               PROVE  CommitsOnRecord' /\ ServedOnRecord'
  BY <1>1 DEF RegistryLedgerInv, CommittedIsLedgered
<1>3. inLoop' = inLoop /\ "died" \notin mishaps
  <2>1. inLoop' = inLoop
    BY DEF RegistryNext, Export, Carry, Restore, Begin, CheckRole, SetVersion, SetDigest, RecordRole, RecordAll,
           Stop, registryVars
  <2>2. mishaps \subseteq mishaps'
    BY DEF RegistryNext, Export, Carry, Restore, Begin, CheckRole, SetVersion, SetDigest, RecordRole, RecordAll,
           Stop, registryVars
  <2>3. QED BY <1>2, <2>1, <2>2
<1>4. CommitsOnRecord /\ ServedOnRecord /\ serving \in [Role -> SUBSET Registry]
  BY <1>1, <1>2, <1>3 DEF RegistryLedgerInv, CommittedIsLedgered, RegistryTypeOK
<1>5. ASSUME NEW r \in Role, (\E p \in Principals : Export(r, p)) \/ Carry(r) \/ Restore(r)
      PROVE  CommitsOnRecord' /\ ServedOnRecord'
  <2>1. UNCHANGED <<version, digest, ledger, pc, turn, serving>>
    BY <1>1, <1>5, OperatorType
  <2>2. QED BY <1>4, <2>1, QuietLedger DEF ServedOnRecord
<1>6. CASE Begin \/ UNCHANGED registryVars \/ Stop
  <2>1. UNCHANGED <<version, digest, ledger, serving>>
    BY <1>6 DEF Begin, registryVars, Stop, meta
  <2>2. /\ pc' \in {"digest", "record"} \/ pc \notin {"digest", "record"}
        /\ pc \in {"digest", "record"} => turn' = turn
    BY <1>2, <1>6 DEF Begin, registryVars, process, Stop
  <2>3. QED BY <1>4, <2>1, <2>2, QuietLedger DEF ServedOnRecord
<1>7. CASE CheckRole
  <2>1. /\ pc = "check" /\ UNCHANGED <<version, digest, ledger>>
        /\ serving' = IF pc' = "serving"
                      THEN [r \in Role |-> serving[r] \cup {loaded'[r]}] ELSE serving
    BY <1>7 DEF CheckRole, meta
  <2>2. \A r \in Role : OnRecord(r, ledger[r])'
    BY <1>4, <2>1 DEF CommitsOnRecord, OnRecord
  <2>3. CommitsOnRecord'
    BY <2>2 DEF CommitsOnRecord
  <2>4. ServedOnRecord'
    BY <1>1, <1>4, <2>1, <2>2, ServeRecorded DEF ServedOnRecord
  <2>5. QED BY <2>3, <2>4
<1>8. CASE SetVersion
  <2>1. /\ version' = [version EXCEPT ![Current] = loaded[Current].version]
        /\ pc' = "digest" /\ pc = "version" /\ UNCHANGED <<digest, ledger, turn, serving>>
    BY <1>8 DEF SetVersion, Current
  <2>2. Current' = Current /\ \A r \in Role : r # Current => version'[r] = version[r]
    BY <1>1, <2>1 DEF Current, RegistryTypeOK
  <2>3. CommitsOnRecord'
    BY <1>4, <2>1, <2>2 DEF CommitsOnRecord, OnRecord
  <2>4. QED BY <1>4, <2>1, <2>3 DEF ServedOnRecord
<1>9. CASE SetDigest
  <2>1. /\ digest' = [digest EXCEPT ![Current] = loaded[Current].principals]
        /\ pc' = "record" /\ pc = "digest" /\ UNCHANGED <<version, ledger, turn, serving>>
    BY <1>2, <1>3, <1>9 DEF SetDigest, Current
  <2>2. Current' = Current /\ \A r \in Role : r # Current => digest'[r] = digest[r]
    BY <1>1, <2>1 DEF Current, RegistryTypeOK
  <2>3. CommitsOnRecord'
    BY <1>4, <2>1, <2>2 DEF CommitsOnRecord, OnRecord
  <2>4. QED BY <1>4, <2>1, <2>3 DEF ServedOnRecord
<1>10. CASE RecordRole
  <2>1. /\ ledger' = [ledger EXCEPT ![Current] = @ \cup {loaded[Current]}]
        /\ pc = "record" /\ UNCHANGED <<version, digest, loaded>>
        /\ serving' = IF pc' = "serving"
                      THEN [r \in Role |-> serving[r] \cup {loaded'[r]}] ELSE serving
    BY <1>10 DEF RecordRole, meta, Current
  <2>2. Current \in Role /\ Committed(Current, loaded[Current])
    BY <1>1, <1>10, <2>1, CommitType DEF CommitInv, CurrentAdvances
  <2>3. /\ ledger'[Current] = ledger[Current] \cup {loaded[Current]}
        /\ \A r \in Role : r # Current => ledger'[r] = ledger[r]
    BY <1>1, <2>1, <2>2 DEF RegistryTypeOK
  <2>4. \A r \in Role : OnRecord(r, ledger[r])'
    <3>1. ASSUME NEW r \in Role PROVE OnRecord(r, ledger[r])'
      <4>1. CASE r = Current
        BY <2>1, <2>2, <2>3, <4>1 DEF OnRecord, Committed
      <4>2. CASE r # Current
        BY <1>4, <2>1, <2>3, <3>1, <4>2 DEF CommitsOnRecord, OnRecord
      <4>3. QED BY <4>1, <4>2
    <3>2. QED BY <3>1
  <2>5. \A r \in Role : serving[r] \subseteq ledger'[r]
    BY <1>4, <2>3 DEF ServedOnRecord
  <2>6. ServedOnRecord'
    BY <1>1, <1>4, <2>1, <2>4, <2>5, ServeRecorded
  <2>7. QED BY <2>4, <2>6 DEF CommitsOnRecord
<1>11. CASE RecordAll
  BY <1>1, <1>2, <1>3, <1>11 DEF RecordAll, RegistryTypeInv, TurnFollowsPc
<1>12. QED BY <1>5, <1>6, <1>7, <1>8, <1>9, <1>10, <1>11 DEF RegistryNext

LEMMA RegistryLedgerInit == RegistryInit => RegistryLedgerInv
<1> SUFFICES ASSUME RegistryInit PROVE RegistryLedgerInv
  OBVIOUS
<1>1. \A r \in Role : version[r] = 0 /\ serving[r] = {}
  BY DEF RegistryInit
<1>2. QED BY <1>1, CommitInit DEF RegistryLedgerInv, CommittedIsLedgered, CommitsOnRecord, ServedOnRecord,
                            OnRecord

\* Whatever the custodian ever served is in its ledger, where no start died
\* between a commit and its entry.
THEOREM LedgerTellsWhatWasServed == RegistrySpec => []ServedIsLedgered
<1>1. RegistryLedgerInv => ServedIsLedgered
  BY DEF RegistryLedgerInv, CommittedIsLedgered, ServedOnRecord, ServedIsLedgered
<1>2. QED BY <1>1, RegistryLedgerInit, RegistryLedgerStep, PTL DEF RegistrySpec


(***************************************************************************)
(* The registry exported last is admitted.                                 *)
(***************************************************************************)

\* The next number is above every number exported, unless the contents stay.
LEMMA ExportNewest ==
    ASSUME RegistryTypeInv, LatestIsNewest, NEW r \in Role, NEW p \in Principals, Export(r, p)
    PROVE  LatestIsNewest' /\ \A q \in Role : exported[q] \subseteq exported'[q]
<1> DEFINE new == [version |-> NextVersion(r, p), principals |-> p]
<1>1. new \in Registry /\ new.version = NextVersion(r, p) /\ new.principals = p
  BY ExportType DEF RegistryTypeInv
<1>2. /\ out' = [out EXCEPT ![r] = new] /\ latest' = [latest EXCEPT ![r] = new]
      /\ exported' = [exported EXCEPT ![r] = @ \cup {new}] /\ file' = file
  BY DEF Export
<1>3. \A f \in exported[r] : f.version <= new.version /\ (f.version = new.version => f = new)
  <2>1. SUFFICES ASSUME NEW f \in exported[r]
                 PROVE  f.version <= new.version /\ (f.version = new.version => f = new)
    OBVIOUS
  <2>2. /\ out[r] # NoFile /\ f.version <= out[r].version
        /\ f.version = out[r].version => f = out[r]
    BY DEF LatestIsNewest
  <2>3. out[r] \in Registry /\ f \in Registry
    BY <2>2 DEF RegistryTypeInv, RegistryTypeOK
  <2>4. out[r].version \in Nat /\ f.version \in Nat
    BY <2>3 DEF Registry
  <2>5. CASE out[r].principals = p
    <3>1. new.version = out[r].version
      BY <1>1, <2>2, <2>5 DEF NextVersion
    <3>2. out[r] = new
      BY <1>1, <2>3, <2>5, <3>1, SameRegistry
    <3>3. QED BY <2>2, <3>2
  <2>6. CASE out[r].principals # p
    <3>1. new.version = out[r].version + 1
      BY <1>1, <2>2, <2>6 DEF NextVersion
    <3>2. QED BY <2>2, <2>4, <3>1
  <2>7. QED BY <2>5, <2>6
<1>4. new # NoFile /\ new.version <= new.version
  BY <1>1, NothingAssumption DEF Registry
<1> HIDE DEF new
<1>5. /\ out'[r] = new /\ latest'[r] = new /\ exported'[r] = exported[r] \cup {new}
      /\ \A q \in Role : q # r => out'[q] = out[q] /\ exported'[q] = exported[q]
      /\ out' = latest'
  BY <1>2 DEF RegistryTypeInv, RegistryTypeOK, LatestIsNewest
<1>6. \A q \in Role : \A f \in exported'[q] :
          /\ out'[q] # NoFile
          /\ f.version <= out'[q].version
          /\ f.version = out'[q].version => f = out'[q]
  <2>1. \A f \in exported'[r] :
            /\ out'[r] # NoFile
            /\ f.version <= out'[r].version
            /\ f.version = out'[r].version => f = out'[r]
    BY <1>3, <1>4, <1>5
  <2>2. QED BY <1>5, <2>1 DEF LatestIsNewest
<1>7. \A q \in Role : {out'[q], file'[q]} \subseteq exported'[q] \cup {NoFile}
  BY <1>2, <1>5 DEF LatestIsNewest
<1>8. QED BY <1>5, <1>6, <1>7 DEF LatestIsNewest

\* What the application exported last is what registry.check admits.
LEMMA LatestIsAcceptable ==
    ASSUME RegistryTypeInv, LatestIsNewest, NEW r \in Role, OnRecord(r, exported[r]),
           file[r] \in Registry, file[r] = latest[r]
    PROVE  ~Unacceptable(r, file[r])
<1>1. file[r] = out[r] /\ file[r].version \in Nat \ {0} /\ version[r] \in Nat
  BY DEF LatestIsNewest, Registry, RegistryTypeInv, RegistryTypeOK
<1>2. CASE version[r] = 0
  BY <1>1, <1>2 DEF Unacceptable
<1>3. CASE version[r] # 0
  <2>1. PICK f \in exported[r] : f.version = version[r] /\ f.principals = digest[r]
    BY <1>1, <1>3 DEF OnRecord
  <2>2. f.version <= file[r].version /\ (f.version = file[r].version => f = file[r])
    BY <1>1 DEF LatestIsNewest
  <2>3. QED BY <1>1, <2>1, <2>2 DEF Unacceptable
<1>4. QED BY <1>2, <1>3

\* A step that touches neither the exports nor the files the service compares.
LEMMA QuietExports ==
    ASSUME LatestIsNewest, CommittedWasExported, ~refused,
           UNCHANGED <<out, latest, exported, file, version, digest, refused>>,
           pc # "digest", pc' \notin {"version", "digest"}
    PROVE  LatestIsNewest' /\ CommittedWasExported' /\ ~refused'
BY DEF LatestIsNewest, CommittedWasExported, OnRecord

LEMMA ExportStep == ExportInv /\ [RegistryNext]_registryVars => ExportInv'
<1> SUFFICES ASSUME ExportInv, [RegistryNext]_registryVars PROVE ExportInv'
  OBVIOUS
<1>1. CommitInv /\ CommitInv' /\ RegistryTypeInv /\ RegistryTypeOK
  BY CommitStep DEF ExportInv, CommitInv, RegistryTypeInv
<1>2. SUFFICES ASSUME mishaps' = {}
               PROVE  LatestIsNewest' /\ CommittedWasExported' /\ ~refused'
  BY <1>1 DEF ExportInv
<1>3. mishaps = {}
  BY <1>2 DEF RegistryNext, Export, Carry, Restore, Begin, CheckRole, SetVersion, SetDigest, RecordRole,
              RecordAll, Stop, registryVars
<1>4. LatestIsNewest /\ CommittedWasExported /\ ~refused
  BY <1>3 DEF ExportInv
<1>5. ASSUME NEW r \in Role, (\E p \in Principals : Export(r, p)) \/ Carry(r) \/ Restore(r)
      PROVE  LatestIsNewest' /\ CommittedWasExported' /\ ~refused'
  <2>1. UNCHANGED <<version, digest, pc, turn, loaded, refused>>
    BY <1>1, <1>5, OperatorType
  <2>2. LatestIsNewest' /\ \A q \in Role : exported[q] \subseteq exported'[q]
    <3>1. ASSUME NEW p \in Principals, Export(r, p)
          PROVE  LatestIsNewest' /\ \A q \in Role : exported[q] \subseteq exported'[q]
      BY <1>1, <1>4, <3>1, ExportNewest
    <3>2. CASE Carry(r)
      <4>1. file' = [file EXCEPT ![r] = out[r]] /\ UNCHANGED <<out, latest, exported>>
        BY <1>2, <3>2 DEF Carry
      <4>2. QED BY <1>1, <1>4, <4>1 DEF LatestIsNewest, RegistryTypeOK
    <3>3. CASE Restore(r)
      <4>1. /\ \E old \in exported[r] : file' = [file EXCEPT ![r] = old]
            /\ UNCHANGED <<out, latest, exported>>
        BY <3>3 DEF Restore, application
      <4>2. QED BY <1>1, <1>4, <4>1 DEF LatestIsNewest, RegistryTypeOK
    <3>4. QED BY <1>5, <3>1, <3>2, <3>3
  <2>3. Current' = Current
    BY <2>1 DEF Current
  <2>4. \A q \in Role : OnRecord(q, exported[q])' \/ (pc' = "digest" /\ q = Current')
    <3>1. SUFFICES ASSUME NEW q \in Role, OnRecord(q, exported[q]) PROVE OnRecord(q, exported[q])'
      BY <1>4, <2>1, <2>3 DEF CommittedWasExported
    <3>2. QED BY <2>1, <2>2, <3>1 DEF OnRecord
  <2>5. pc' \in {"version", "digest"} => loaded'[Current'] \in exported'[Current']
    <3>1. HAVE pc' \in {"version", "digest"}
    <3>2. Current \in Role
      BY <1>1, <2>1, <3>1, CurrentIsNext DEF RegistryTypeInv, TurnFollowsPc, Admitting
    <3>3. QED BY <1>4, <2>1, <2>2, <2>3, <3>1, <3>2 DEF CommittedWasExported
  <2>6. QED BY <1>4, <2>1, <2>2, <2>4, <2>5 DEF CommittedWasExported
<1>6. CASE Begin \/ RecordRole \/ RecordAll \/ Stop
  <2>1. UNCHANGED <<out, latest, exported, file, version, digest, refused>>
    BY <1>6 DEF Begin, RecordRole, RecordAll, Stop, application, meta
  <2>2. pc # "digest" /\ pc' \notin {"version", "digest"}
    BY <1>2, <1>6 DEF Begin, RecordRole, RecordAll, Stop, Ended, After
  <2>3. QED BY <1>4, <2>1, <2>2, QuietExports
<1>7. CASE UNCHANGED registryVars
  <2>1. UNCHANGED <<out, latest, exported, file, version, digest, pc, turn, loaded, refused>>
    BY <1>7 DEF registryVars, application, meta, process
  <2>2. Current' = Current
    BY <2>1 DEF Current
  <2>3. QED BY <1>4, <2>1, <2>2 DEF LatestIsNewest, CommittedWasExported, OnRecord
<1>8. CASE CheckRole
  <2>1. /\ turn <= Len(Roles) /\ pc = "check" /\ file[Current] \in Registry
        /\ UNCHANGED <<out, latest, exported, file, version, digest>>
    BY <1>1, <1>8, CheckSteps DEF Ends
  <2>2. Current \in Role /\ OnRecord(Current, exported[Current])
    BY <1>1, <1>4, <2>1, CurrentIsNext DEF CommittedWasExported
  <2>3. CASE Ends /\ Unacceptable(Current, file[Current])
             /\ refused' = (refused \/ file[Current] = latest[Current])
    <3>1. file[Current] # latest[Current]
      BY <1>1, <1>4, <2>1, <2>2, <2>3, LatestIsAcceptable
    <3>2. pc' = "down"
      BY <2>3 DEF Ends, Ended
    <3>3. refused \in BOOLEAN /\ refused' = refused
      BY <1>1, <2>3, <3>1 DEF RegistryTypeOK
    <3>4. QED BY <1>4, <2>1, <3>2, <3>3, QuietExports
  <2>4. CASE Admits(file[Current])
    <3>1. UNCHANGED refused /\ pc' \notin {"version", "digest"}
      BY <2>4 DEF Admits, After
    <3>2. QED BY <1>4, <2>1, <3>1, QuietExports
  <2>5. CASE Changes(file[Current])
    <3>1. /\ loaded' = [loaded EXCEPT ![Current] = file[Current]] /\ pc' = "version"
          /\ UNCHANGED <<turn, refused>>
      BY <2>5 DEF Changes
    <3>2. Current' = Current /\ loaded'[Current] = file[Current]
      BY <1>1, <2>2, <3>1 DEF Current, RegistryTypeOK
    <3>3. file[Current] \in exported[Current]
      BY <1>4, <2>1, <2>2, NothingAssumption DEF LatestIsNewest
    <3>4. LatestIsNewest'
      BY <1>4, <2>1 DEF LatestIsNewest
    <3>5. \A r \in Role : OnRecord(r, exported[r])'
      BY <1>4, <2>1 DEF CommittedWasExported, OnRecord
    <3>6. QED BY <1>4, <2>1, <3>1, <3>2, <3>3, <3>4, <3>5 DEF CommittedWasExported
  <2>6. QED BY <1>1, <1>8, <2>3, <2>4, <2>5, CheckSteps
<1>9. CASE SetVersion
  <2>1. /\ version' = [version EXCEPT ![Current] = loaded[Current].version]
        /\ pc = "version" /\ pc' = "digest"
        /\ UNCHANGED <<out, latest, exported, file, digest, turn, loaded, refused>>
    BY <1>9 DEF SetVersion, Current, application
  <2>2. Current' = Current /\ \A r \in Role : r # Current => version'[r] = version[r]
    BY <1>1, <2>1 DEF Current, RegistryTypeOK
  <2>3. LatestIsNewest'
    BY <1>4, <2>1 DEF LatestIsNewest
  <2>4. CommittedWasExported'
    BY <1>4, <2>1, <2>2 DEF CommittedWasExported, OnRecord
  <2>5. QED BY <1>4, <2>1, <2>3, <2>4
<1>10. CASE SetDigest
  <2>1. /\ digest' = [digest EXCEPT ![Current] = loaded[Current].principals]
        /\ pc = "digest" /\ pc' \notin {"version", "digest"}
        /\ UNCHANGED <<out, latest, exported, file, version, loaded, refused>>
    BY <1>10 DEF SetDigest, Current, application, After
  <2>2. Current \in Role
    BY <1>1, <1>10, CommitType
  <2>3. /\ digest'[Current] = loaded[Current].principals
        /\ \A r \in Role : r # Current => digest'[r] = digest[r]
    BY <1>1, <2>1, <2>2 DEF RegistryTypeOK
  <2>4. loaded[Current] \in exported[Current] /\ version[Current] = loaded[Current].version
    BY <1>1, <1>4, <2>1 DEF CommittedWasExported, CommitInv, CurrentAdvances
  <2>5. \A r \in Role : OnRecord(r, exported[r])'
    <3>1. ASSUME NEW r \in Role PROVE OnRecord(r, exported[r])'
      <4>1. CASE r = Current
        BY <2>1, <2>3, <2>4, <4>1 DEF OnRecord
      <4>2. CASE r # Current
        BY <1>4, <2>1, <2>3, <3>1, <4>2 DEF CommittedWasExported, OnRecord
      <4>3. QED BY <4>1, <4>2
    <3>2. QED BY <3>1
  <2>6. LatestIsNewest'
    BY <1>4, <2>1 DEF LatestIsNewest
  <2>7. QED BY <1>4, <2>1, <2>5, <2>6 DEF CommittedWasExported
<1>11. QED BY <1>5, <1>6, <1>7, <1>8, <1>9, <1>10 DEF RegistryNext

LEMMA ExportInit == RegistryInit => ExportInv
<1> SUFFICES ASSUME RegistryInit PROVE ExportInv
  OBVIOUS
<1>1. LatestIsNewest
  BY DEF RegistryInit, LatestIsNewest
<1>2. CommittedWasExported
  BY DEF RegistryInit, CommittedWasExported, OnRecord
<1>3. CommitInv /\ ~refused
  BY CommitInit DEF RegistryInit
<1>4. QED BY <1>1, <1>2, <1>3 DEF ExportInv

\* The registry exported last is never refused, as long as the exports are
\* copied and no start dies.
THEOREM LatestAdmitted == RegistrySpec => []LatestIsAdmitted
<1>1. ExportInv => LatestIsAdmitted
  BY DEF ExportInv, LatestIsAdmitted
<1>2. QED BY <1>1, ExportInit, ExportStep, PTL DEF RegistrySpec
================================================================================
