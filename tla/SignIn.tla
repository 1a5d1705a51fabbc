--------------------------------- MODULE SignIn ---------------------------------
(***************************************************************************)
(* Signing in and out: the /login, /login/totp and /logout handlers of      *)
(* justikey/webapp.py over the sessions, failure counters and spent codes   *)
(* of justikey/models.py.  Handlers run in threads over autocommitted       *)
(* statements, and the process may die between two of them.                 *)
(*                                                                         *)
(* A session is named after the request that made it.  The clock counts     *)
(* authenticator steps; a code is the step it belongs to, and the form      *)
(* tokens bound to a session are taken to be right.                         *)
(***************************************************************************)
EXTENDS Integers, FiniteSets

CONSTANTS
    Users,
    Requests,        \* bound: the requests the server handles
    NoOne, NoRequest,
    MaxFailed,       \* MAX_FAILED_LOGINS; 0 never locks
    Lockout,         \* LOCKOUT_SECONDS
    PendingLifetime, \* PENDING_LOGIN_LIFETIME_SECONDS
    FullLifetime,    \* SESSION_LIFETIME_SECONDS
    MaxTime,         \* bound on the clock
    Dies             \* the process may die

ASSUME NumbersAssumption == {MaxFailed, Lockout, PendingLifetime, FullLifetime, MaxTime} \subseteq Nat
ASSUME NamesAssumption == NoOne \notin Users /\ NoRequest \notin Requests /\ Dies \in BOOLEAN

Codes == -1 .. MaxTime + 1
NoSession == [kind |-> "none", user |-> NoOne, expires |-> 0]
Blank == [pc |-> "idle", user |-> NoOne, clock |-> 0, failures |-> 0,
          locks |-> FALSE, pending |-> NoRequest, code |-> 0]

VARIABLES
    now,
    session,   \* sessions, by the request that made each
    failures,  \* login_failures.failures, 0 without a row
    lockedUntil, \* login_failures.locked_until, 0 for null
    spent,     \* used_totp, for the purpose "login"
    req,       \* the handlers' local state
    wrong,     \* history: wrong passwords of each user
    cleared,   \* history: users whose counter was cleared
    opened     \* history: the pending session and the code of each full one

vars == <<now, session, failures, lockedUntil, spent, req, wrong, cleared, opened>>

Session == [kind : {"none", "pending", "full"}, user : Users \cup {NoOne}, expires : Nat]
Handler == [pc : {"idle", "password", "count", "write", "clear", "consume", "close",
                  "purge", "open", "delete", "done"},
            user : Users \cup {NoOne}, clock : 0 .. MaxTime, failures : Nat, locks : BOOLEAN,
            pending : Requests \cup {NoRequest}, code : Codes]
Opened == [session : Requests, user : Users, code : Codes, pending : Requests]

TypeOK ==
    /\ now \in 0 .. MaxTime
    /\ session \in [Requests -> Session]
    /\ \A r \in Requests : (session[r].kind = "none") = (session[r].user = NoOne)
    /\ req \in [Requests -> Handler]
    /\ failures \in [Users -> Nat] /\ wrong \in [Users -> Nat]
    /\ lockedUntil \in [Users -> 0 .. MaxTime + Lockout]
    /\ spent \subseteq Users \X Codes
    /\ cleared \subseteq Users
    /\ opened \subseteq Opened

Init ==
    /\ now = 0
    /\ session = [r \in Requests |-> NoSession]
    /\ failures = [u \in Users |-> 0] /\ lockedUntil = failures /\ wrong = failures
    /\ spent = {}
    /\ req = [r \in Requests |-> Blank]
    /\ opened = {} /\ cleared = {}

Tick == /\ now < MaxTime
        /\ now' = now + 1
        /\ UNCHANGED <<session, failures, lockedUntil, spent, req, wrong, cleared, opened>>

Goes(r, pc) == req' = [req EXCEPT ![r].pc = pc]

----------------------------------------------------------------------------
(***************************************************************************)
(* POST /login.                                                             *)
(***************************************************************************)
\* A lock with less than a second to go counts as none; the unit hides that.
Login(r, u) ==
    /\ req[r].pc = "idle"
    /\ req' = [req EXCEPT ![r].user = u,
                          ![r].pc = IF lockedUntil[u] > now THEN "done" ELSE "password"]
    /\ UNCHANGED <<now, session, failures, lockedUntil, spent, wrong, cleared, opened>>

WrongPassword(r) ==
    /\ req[r].pc = "password"
    /\ wrong' = [wrong EXCEPT ![req[r].user] = @ + 1]
    /\ req' = [req EXCEPT ![r].pc = "count", ![r].clock = now]
    /\ UNCHANGED <<now, session, failures, lockedUntil, spent, cleared, opened>>

OneMoreTwice(u) == failures[u] + 2
OneMore(u) == failures[u] + 1

\* record_login_failure has read the clock; it reads the row, ...
CountFailure(r) ==
    LET more == OneMore(req[r].user) IN
    /\ req[r].pc = "count"
    /\ req' = [req EXCEPT ![r].pc = "write", ![r].failures = more,
                          ![r].locks = MaxFailed > 0 /\ more >= MaxFailed]
    /\ UNCHANGED <<now, session, failures, lockedUntil, spent, wrong, cleared, opened>>

\* ... and later writes it, and its lock with it.
WriteFailure(r) ==
    /\ req[r].pc = "write"
    /\ failures' = [failures EXCEPT ![req[r].user] = req[r].failures]
    /\ lockedUntil' = [lockedUntil EXCEPT ![req[r].user] =
                          IF req[r].locks THEN req[r].clock + Lockout ELSE 0]
    /\ Goes(r, "done")
    /\ UNCHANGED <<now, session, spent, wrong, cleared, opened>>

RightPassword(r) ==
    /\ req[r].pc = "password"
    /\ failures' = [failures EXCEPT ![req[r].user] = 0]
    /\ lockedUntil' = [lockedUntil EXCEPT ![req[r].user] = 0]
    /\ cleared' = cleared \cup {req[r].user}
    /\ Goes(r, "clear")
    /\ UNCHANGED <<now, session, spent, wrong, opened>>

OpenPending(r) ==
    /\ req[r].pc = "clear"
    /\ session' = [session EXCEPT ![r] = [kind |-> "pending", user |-> req[r].user,
                                          expires |-> now + PendingLifetime]]
    /\ Goes(r, "done")
    /\ UNCHANGED <<now, failures, lockedUntil, spent, wrong, cleared, opened>>

----------------------------------------------------------------------------
(***************************************************************************)
(* POST /login/totp.                                                        *)
(***************************************************************************)
\* get_session: a session past its expiry is deleted and not returned.
Expired(p) == session[p].kind # "none" /\ session[p].expires <= now

FindExpired(r, p) ==
    /\ req[r].pc = "idle" /\ Expired(p)
    /\ session' = [session EXCEPT ![p] = NoSession]
    /\ Goes(r, "done")
    /\ UNCHANGED <<now, failures, lockedUntil, spent, wrong, cleared, opened>>

Totp(r, p, code) ==
    /\ req[r].pc = "idle"
    /\ session[p].kind = "pending" /\ ~Expired(p)
    /\ req' = [req EXCEPT ![r].pc = "consume", ![r].pending = p, ![r].code = code,
                          ![r].user = session[p].user]
    /\ UNCHANGED <<now, session, failures, lockedUntil, spent, wrong, cleared, opened>>

InWindow(code) == code \in now - 1 .. now + 1
InWindowOnly(u, code) == InWindow(code)
Consumable(u, code) == InWindow(code) /\ <<u, code>> \notin spent

Consume(r) ==
    /\ req[r].pc = "consume" /\ Consumable(req[r].user, req[r].code)
    /\ spent' = spent \cup {<<req[r].user, req[r].code>>}
    /\ Goes(r, "close")
    /\ UNCHANGED <<now, session, failures, lockedUntil, wrong, cleared, opened>>

BadCode(r) ==
    /\ req[r].pc = "consume" /\ ~Consumable(req[r].user, req[r].code)
    /\ Goes(r, "done")
    /\ UNCHANGED <<now, session, failures, lockedUntil, spent, wrong, cleared, opened>>

Closed(p) == NoSession

ClosePending(r) ==
    /\ req[r].pc = "close"
    /\ session' = [session EXCEPT ![req[r].pending] = Closed(req[r].pending)]
    /\ Goes(r, "purge")
    /\ UNCHANGED <<now, failures, lockedUntil, spent, wrong, cleared, opened>>

StillLive(r) == session[r].expires > now

Purge(r) ==
    /\ req[r].pc = "purge"
    /\ session' = [s \in Requests |-> IF StillLive(s) THEN session[s] ELSE NoSession]
    /\ Goes(r, "open")
    /\ UNCHANGED <<now, failures, lockedUntil, spent, wrong, cleared, opened>>

OwnUser(r) == req[r].user

OpenFull(r) ==
    /\ req[r].pc = "open"
    /\ session' = [session EXCEPT ![r] = [kind |-> "full", user |-> OwnUser(r),
                                          expires |-> now + FullLifetime]]
    /\ opened' = opened \cup {[session |-> r, user |-> req[r].user, code |-> req[r].code,
                               pending |-> req[r].pending]}
    /\ Goes(r, "done")
    /\ UNCHANGED <<now, failures, lockedUntil, spent, wrong, cleared>>

----------------------------------------------------------------------------
(***************************************************************************)
(* POST /logout, whose entry precedes the deletion.                         *)
(***************************************************************************)
Logout(r, s) ==
    /\ req[r].pc = "idle" /\ session[s].kind = "full" /\ ~Expired(s)
    /\ req' = [req EXCEPT ![r].pc = "delete", ![r].pending = s, ![r].user = session[s].user]
    /\ UNCHANGED <<now, session, failures, lockedUntil, spent, wrong, cleared, opened>>

Delete(r) ==
    /\ req[r].pc = "delete"
    /\ session' = [session EXCEPT ![req[r].pending] = NoSession]
    /\ Goes(r, "done")
    /\ UNCHANGED <<now, failures, lockedUntil, spent, wrong, cleared, opened>>

Die ==
    /\ Dies
    /\ \E r \in Requests : req[r].pc \notin {"idle", "done"}
    /\ req' = [r \in Requests |-> IF req[r].pc = "idle" THEN req[r] ELSE [req[r] EXCEPT !.pc = "done"]]
    /\ UNCHANGED <<now, session, failures, lockedUntil, spent, wrong, cleared, opened>>

Step(r) ==
    \/ WrongPassword(r) \/ CountFailure(r) \/ WriteFailure(r) \/ RightPassword(r) \/ OpenPending(r)
    \/ Consume(r) \/ BadCode(r) \/ ClosePending(r) \/ Purge(r) \/ OpenFull(r) \/ Delete(r)

Next ==
    \/ Tick \/ Die
    \/ \E r \in Requests :
         \/ Step(r)
         \/ \E u \in Users : Login(r, u)
         \/ \E p \in Requests : FindExpired(r, p) \/ Logout(r, p)
         \/ \E p \in Requests, code \in Codes : Totp(r, p, code)

Spec == Init /\ [][Next]_vars

----------------------------------------------------------------------------
(***************************************************************************)
(* "RFC 6238 calls for single-use codes" (models.py:64): no two sign-ins    *)
(* of a user rest on one code, however many requests bring it at once.      *)
(***************************************************************************)
OneCodeOneSession ==
    \A a, b \in opened : a.user = b.user /\ a.code = b.code => a.session = b.session

(***************************************************************************)
(* Every sign-in went through both factors of one user: the pending session *)
(* it closed was of that user, and its code was spent by no one else, also  *)
(* when the session it rests on expires or is closed by another meanwhile.  *)
(***************************************************************************)
SignedInAsOneself ==
    \A r \in Requests : session[r].kind = "full" =>
        \E o \in opened : /\ o.session = r /\ o.user = session[r].user
                          /\ <<o.user, o.code>> \in spent
                          /\ req[o.pending].user = o.user

(***************************************************************************)
(* A session is earned, in well-typed states: with a code of its own, and by*)
(* the user whose password opened the pending session.                      *)
(***************************************************************************)
SessionsAreEarned == TypeOK /\ OneCodeOneSession /\ SignedInAsOneself

(***************************************************************************)
(* A wrong password counts at most once, so nobody is locked out before     *)
(* MaxFailed of them ("locked too early", test_enforcement.py:126).         *)
(***************************************************************************)
NeverLockedEarly ==
    \A u \in Users : /\ failures[u] <= wrong[u]
                     /\ lockedUntil[u] > 0 => wrong[u] >= MaxFailed

----------------------------------------------------------------------------
(***************************************************************************)
(* What the text promises and the code does not keep.                       *)
(***************************************************************************)

(***************************************************************************)
(* "accounts now lock after repeated failures" (README.md:798): once        *)
(* MaxFailed wrong passwords were answered and nothing cleared them, the    *)
(* counter says so.                                                         *)
(***************************************************************************)
LockedAfterFailures ==
    (\A r \in Requests : req[r].pc \in {"idle", "done"}) =>
        \A u \in Users \ cleared : wrong[u] >= MaxFailed => failures[u] >= MaxFailed
===============================================================================
