------------------------------ MODULE SignedIngest ------------------------------
(***************************************************************************)
(* Requests that are signed, dated and carry a nonce, and the receiver that *)
(* remembers nonces for a while: authenticate_signed_source for a sensor's  *)
(* observations (justikey/models.py), _authenticated_body for what the      *)
(* application asks of the disclosure service (justikey/servicekit.py).     *)
(* The signature covers date, nonce and body, so a request that differs     *)
(* from one that was sent is none; a message below is one signed request,   *)
(* and the link may bring it any number of times.                           *)
(*                                                                         *)
(* A receiver first compares the date with its clock, and spends the nonce  *)
(* some time later; ingestion reads the status and then the keys of the     *)
(* source in between, which commands change (Sources).  Both receivers      *)
(* forget nonces older than twice the window; one does so before it spends, *)
(* the other after.                                                         *)
(*                                                                         *)
(* Two bounds say what is asked of the surroundings: no sender's clock is   *)
(* more than Ahead before the receiver's, and no handler takes longer than  *)
(* Delay.  Nothing is asked of the link.                                    *)
(***************************************************************************)
EXTENDS Sources

CONSTANTS
    Messages,
    Handlers,    \* bound: requests in the receiver
    Window,      \* INGEST_SIGNATURE_WINDOW_SECONDS, CLOCK_SKEW_SECONDS
    Ahead,       \* how far a sender's clock may be before the receiver's
    Behind,      \* bound: how far after it
    Delay,       \* the longest a handler takes
    MaxTime,     \* bound on the receiver's clock
    NoMessage

ASSUME TimesAssumption == {Window, Ahead, Behind, Delay, MaxTime} \subseteq Nat
ASSUME NamesAssumption == NoMessage \notin Messages

VARIABLES
    purgesFirst, \* which of the two receivers it is
    now,      \* the receiver's clock
    sent,     \* messages signed so far
    date,     \* the timestamp in each
    nonces,   \* the table of spent nonces, one for each message
    seenAt,   \* seen_at of those rows
    handler,  \* the handlers' local state
    signedBy, \* the key that signed each
    accepted  \* history: how often each message was accepted

ingestVars == <<purgesFirst, now, sent, date, nonces, seenAt, handler, signedBy, accepted>>
vars == <<ingestVars, sourceVars>>

ServiceKey == 0  \* the secret the application shares with the service

Idle == [pc |-> "idle", message |-> NoMessage, at |-> 0]

ReceiverTypeOK ==
    /\ purgesFirst \in BOOLEAN
    /\ now \in Nat
    /\ sent \subseteq Messages /\ nonces \subseteq sent
    /\ date \in [Messages -> Int]
    /\ seenAt \in [Messages -> Nat]
    /\ handler \in [Handlers -> [pc : {"idle", "before", "secrets", "spend", "after"},
                                 message : Messages \cup {NoMessage}, at : Nat]]
    /\ signedBy \in [Messages -> Nat]
    /\ accepted \in [Messages -> Nat]

TypeOK == ReceiverTypeOK /\ SourcesTypeOK

Init ==
    /\ purgesFirst \in BOOLEAN
    /\ now = 0
    /\ sent = {} /\ date = [m \in Messages |-> 0]
    /\ nonces = {} /\ seenAt = [m \in Messages |-> 0]
    /\ handler = [h \in Handlers |-> Idle]
    /\ signedBy = [m \in Messages |-> ServiceKey]
    /\ accepted = [m \in Messages |-> 0]
    /\ SourcesInit

\* The environment's bound: time does not pass a handler that is due.
Tick ==
    /\ now < MaxTime
    /\ \A h \in Handlers : handler[h].pc # "idle" => now < handler[h].at + Delay
    /\ now' = now + 1
    /\ UNCHANGED <<purgesFirst, sent, date, nonces, seenAt, handler, signedBy, accepted, sourceVars>>

\* A sensor has been given one of the keys an operator was shown.
SigningKeys == IF purgesFirst THEN {ServiceKey} ELSE shown

Sign(m) ==
    /\ m \notin sent
    /\ sent' = sent \cup {m}
    /\ \E d \in now - Behind .. now + Ahead : date' = [date EXCEPT ![m] = d]
    /\ \E k \in SigningKeys : signedBy' = [signedBy EXCEPT ![m] = k]
    /\ UNCHANGED <<purgesFirst, now, nonces, seenAt, handler, accepted, sourceVars>>

Fresh(m) == now - Window <= date[m] /\ date[m] <= now + Window

\* Status and date.  A refusal writes a ledger entry and changes nothing here.
Check(h, m) ==
    /\ handler[h].pc = "idle"
    /\ m \in sent /\ Fresh(m)
    /\ purgesFirst \/ status = "active"
    /\ handler' = [handler EXCEPT ![h] =
         [pc |-> IF purgesFirst THEN "before" ELSE "secrets", message |-> m, at |-> now]]
    /\ UNCHANGED <<purgesFirst, now, sent, date, nonces, seenAt, signedBy, accepted, sourceVars>>

\* The secrets of the source are read after its status.
Verify(h) ==
    /\ handler[h].pc = "secrets"
    /\ handler' = [handler EXCEPT ![h] =
         IF signedBy[handler[h].message] \in live THEN [handler[h] EXCEPT !.pc = "spend"] ELSE Idle]
    /\ UNCHANGED <<purgesFirst, now, sent, date, nonces, seenAt, signedBy, accepted, sourceVars>>

RecentAtHalf(cutoff) == {n \in nonces : seenAt[n] >= cutoff - Window}
Recent(cutoff) == {n \in nonces : seenAt[n] >= cutoff - 2 * Window}

\* The cutoff is computed some time before the rows are deleted.
Purge(h) ==
    /\ handler[h].pc \in {"before", "after"}
    /\ \E t \in handler[h].at .. now : nonces' = Recent(t)
    /\ handler' = [handler EXCEPT ![h] =
         IF purgesFirst THEN [handler[h] EXCEPT !.pc = "spend"] ELSE Idle]
    /\ UNCHANGED <<purgesFirst, now, sent, date, seenAt, signedBy, accepted, sourceVars>>

AlwaysUnspent(m) == TRUE
Unspent(m) == m \notin nonces

\* INSERT OR IGNORE with a seen_at taken before the row is written.
Spend(h) ==
    LET m == handler[h].message IN
    /\ handler[h].pc = "spend"
    /\ Unspent(m)
    /\ nonces' = nonces \cup {m}
    /\ \E t \in handler[h].at .. now : seenAt' = [seenAt EXCEPT ![m] = t]
    /\ accepted' = [accepted EXCEPT ![m] = @ + 1]
    /\ handler' = [handler EXCEPT ![h] =
         IF purgesFirst THEN Idle ELSE [handler[h] EXCEPT !.pc = "after"]]
    /\ UNCHANGED <<purgesFirst, now, sent, date, signedBy, sourceVars>>

\* The nonce was used already; the receiver stops before it would purge.
Refuse(h) ==
    /\ handler[h].pc = "spend"
    /\ ~Unspent(handler[h].message)
    /\ handler' = [handler EXCEPT ![h] = Idle]
    /\ UNCHANGED <<purgesFirst, now, sent, date, nonces, seenAt, signedBy, accepted, sourceVars>>

\* The receiver dies between two steps, and is started again.
Die ==
    /\ handler' = [h \in Handlers |-> Idle]
    /\ UNCHANGED <<purgesFirst, now, sent, date, nonces, seenAt, signedBy, accepted, sourceVars>>

Receive(h) == (\E m \in Messages : Check(h, m)) \/ Verify(h) \/ Purge(h) \/ Spend(h) \/ Refuse(h)

\* What is done to a source concerns the receiver of observations.
ManageSource == ~purgesFirst /\ (\E o \in Operators : Manage(o)) /\ UNCHANGED ingestVars

Next ==
    \/ Tick \/ Die \/ ManageSource
    \/ \E m \in Messages : Sign(m)
    \/ \E h \in Handlers : Receive(h)

Spec == Init /\ [][Next]_vars

----------------------------------------------------------------------------
(***************************************************************************)
(* "the nonce plus timestamp make a captured request unreplayable"          *)
(* (webapp.py:985-986), and "Each nonce is spendable once"                  *)
(* (servicekit.py:240): however often the link brings a message, and        *)
(* whatever was forgotten in between, it is accepted once.                  *)
(***************************************************************************)
AcceptedOnce == \A m \in Messages : accepted[m] <= 1

(***************************************************************************)
(* "Forget nonces older than the freshness window; they can no longer be    *)
(* replayed anyway" (models.py:684-685): a message whose nonce is forgotten *)
(* can be accepted by nobody, and no handler has already passed its date.   *)
(***************************************************************************)
ForgottenIsStale ==
    \A m \in Messages : accepted[m] > 0 /\ m \notin nonces =>
        /\ ~Fresh(m)
        /\ \A h \in Handlers : handler[h].message = m => handler[h].pc # "spend"
===============================================================================
