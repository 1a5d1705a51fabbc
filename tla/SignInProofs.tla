----------------------------- MODULE SignInProofs -----------------------------
(***************************************************************************)
(* Theorems about SignIn, for every set of users and requests, every       *)
(* threshold and every choice of lifetimes.                                *)
(***************************************************************************)
EXTENDS SignIn, TLAPS, FiniteSetTheorems

(***************************************************************************)
(* Both factors.  Who made a session is done and does not change users, and *)
(* a request that consumed a code is of the user of the session it closes. *)
(***************************************************************************)

Counting == {"password", "count", "write", "clear"}
Confirming == {"consume", "close", "purge", "open"}
Consumed == {"close", "purge", "open"}

HandlerHasUser ==
    \A r \in Requests :
        /\ req[r].pc \in Counting \cup Confirming => req[r].user \in Users
        /\ req[r].pc = "delete" => req[r].pending \in Requests

MakerIsDone ==
    \A r \in Requests : session[r].kind # "none" =>
        req[r].pc = "done" /\ req[r].user = session[r].user

ConfirmsOwnPending ==
    \A r \in Requests : req[r].pc \in Confirming =>
        /\ req[r].pending \in Requests
        /\ req[req[r].pending].pc = "done"
        /\ req[req[r].pending].user = req[r].user

OpenedByPending ==
    \A o \in opened : req[o.pending].pc = "done" /\ req[o.pending].user = o.user

FullWasOpened ==
    \A r \in Requests : session[r].kind = "full" =>
        \E o \in opened : o.session = r /\ o.user = session[r].user

FactorsInv ==
    /\ TypeOK
    /\ HandlerHasUser
    /\ MakerIsDone
    /\ ConfirmsOwnPending
    /\ OpenedByPending
    /\ FullWasOpened

(***************************************************************************)
(* One code.  A consumed code is spent for good, by one request.           *)
(***************************************************************************)

ConsumedIsSpent ==
    /\ \A r \in Requests : req[r].pc \in Consumed => <<req[r].user, req[r].code>> \in spent
    /\ \A o \in opened : <<o.user, o.code>> \in spent

CodesDistinct ==
    /\ \A r, s \in Requests :
          req[r].pc \in Consumed /\ req[s].pc \in Consumed /\ r # s
            => <<req[r].user, req[r].code>> # <<req[s].user, req[s].code>>
    /\ \A r \in Requests, o \in opened :
          req[r].pc \in Consumed => <<req[r].user, req[r].code>> # <<o.user, o.code>>

CodeInv == FactorsInv /\ ConsumedIsSpent /\ CodesDistinct /\ OneCodeOneSession

(***************************************************************************)
(* The counter.  A wrong password counts once: what stands in the counter,  *)
(* or is about to, leaves room for the answers not counted yet.            *)
(***************************************************************************)

Uncounted(u) == {r \in Requests : req[r].pc = "count" /\ req[r].user = u}

RoomForUncounted ==
    \A u \in Users :
        /\ IsFiniteSet(Uncounted(u))
        /\ failures[u] + Cardinality(Uncounted(u)) <= wrong[u]
        /\ \A r \in Requests :
              req[r].pc = "write" /\ req[r].user = u =>
                  req[r].failures + Cardinality(Uncounted(u)) <= wrong[u]

LocksAtThreshold ==
    /\ \A r \in Requests :
          req[r].pc = "write" /\ req[r].locks => req[r].failures >= MaxFailed
    /\ \A u \in Users : lockedUntil[u] > 0 => wrong[u] >= MaxFailed

CounterInv == FactorsInv /\ RoomForUncounted /\ LocksAtThreshold

----------------------------------------------------------------------------
(***************************************************************************)
(* What a step does to the handlers and the sessions.                      *)
(***************************************************************************)

Pcs == {"idle", "password", "count", "write", "clear", "consume", "close",
        "purge", "open", "delete", "done"}

Others(r) == \A s \in Requests : s # r => req'[s] = req[s]
Same(r) == /\ req'[r].user = req[r].user
           /\ req'[r].pending = req[r].pending
           /\ req'[r].code = req[r].code
Shrinks == \A s \in Requests : session'[s] = session[s] \/ session'[s] = NoSession

Begins(r) ==
    /\ req[r].pc = "idle" /\ Others(r)
    /\ req'[r].pc \in {"done", "password", "consume", "delete"}
    /\ req'[r].pc = "password" => req'[r].user \in Users
    /\ req'[r].pc = "delete" => req'[r].pending \in Requests
    /\ req'[r].pc = "consume" =>
          /\ req'[r].user \in Users
          /\ req'[r].pending \in Requests
          /\ session[req'[r].pending].kind = "pending"
          /\ session[req'[r].pending].user = req'[r].user
    /\ Shrinks /\ UNCHANGED <<spent, opened>>

Works(r) ==
    /\ req[r].pc \notin {"idle", "done"} /\ Others(r) /\ Same(r)
    /\ req'[r].pc \in Counting => req[r].pc \in Counting
    /\ req'[r].pc \in Confirming => req[r].pc \in Confirming
    /\ req'[r].pc \in Consumed => req[r].pc \in Consumed
    /\ req'[r].pc # "delete"
    /\ Shrinks /\ UNCHANGED <<spent, opened>>

Consumes(r) ==
    /\ req[r].pc = "consume" /\ Others(r) /\ Same(r)
    /\ req'[r].pc = "close"
    /\ <<req[r].user, req[r].code>> \notin spent
    /\ spent' = spent \cup {<<req[r].user, req[r].code>>}
    /\ UNCHANGED <<session, opened>>

MakesSession(r, kind) ==
    /\ session'[r].kind = kind /\ session'[r].user = req[r].user
    /\ \A s \in Requests : s # r => session'[s] = session[s]

Pends(r) ==
    /\ req[r].pc = "clear" /\ Others(r) /\ Same(r)
    /\ req'[r].pc = "done"
    /\ MakesSession(r, "pending")
    /\ UNCHANGED <<spent, opened>>

Opens(r) ==
    /\ req[r].pc = "open" /\ Others(r) /\ Same(r)
    /\ req'[r].pc = "done"
    /\ MakesSession(r, "full")
    /\ opened' = opened \cup {[session |-> r, user |-> req[r].user, code |-> req[r].code,
                               pending |-> req[r].pending]}
    /\ UNCHANGED spent

Stops ==
    /\ \A r \in Requests : Same(r) /\ req'[r].pc \in {req[r].pc, "done"}
    /\ UNCHANGED <<session, spent, opened>>

LEMMA GoesMoves ==
    ASSUME req \in [Requests -> Handler], NEW r \in Requests, NEW pc \in Pcs, Goes(r, pc)
    PROVE  /\ req' \in [Requests -> Handler]
           /\ req'[r].pc = pc /\ Same(r) /\ Others(r)
           /\ req'[r].failures = req[r].failures /\ req'[r].locks = req[r].locks
<1>1. req[r] \in Handler /\ req'[r] = [req[r] EXCEPT !.pc = pc]
  BY DEF Goes
<1>2. req'[r] \in Handler
  BY <1>1 DEF Handler, Pcs
<1>3. Others(r)
  BY DEF Others, Goes
<1>4. /\ req'[r].pc = pc /\ Same(r)
      /\ req'[r].failures = req[r].failures /\ req'[r].locks = req[r].locks
  BY <1>1 DEF Handler, Same
<1>5. req' \in [Requests -> Handler]
  BY <1>2 DEF Goes
<1>6. QED BY <1>3, <1>4, <1>5

LEMMA LoginBegins ==
    ASSUME TypeOK, NEW r \in Requests, NEW u \in Users, Login(r, u)
    PROVE  req' \in [Requests -> Handler] /\ Begins(r)
<1>1. req[r] \in Handler /\ req \in [Requests -> Handler]
  BY DEF TypeOK
<1>2. PICK to \in {"done", "password"} : req'[r] = [req[r] EXCEPT !.user = u, !.pc = to]
  BY <1>1 DEF Login
<1>3. req'[r] \in Handler /\ req'[r].pc = to /\ req'[r].user = u
  BY <1>1, <1>2 DEF Handler
<1>4. req' \in [Requests -> Handler] /\ Others(r)
  BY <1>1, <1>3 DEF Login, Others
<1>5. QED BY <1>3, <1>4 DEF Login, Begins, Shrinks

LEMMA FindExpiredBegins ==
    ASSUME TypeOK, NEW r \in Requests, NEW p \in Requests, FindExpired(r, p)
    PROVE  req' \in [Requests -> Handler] /\ Begins(r)
<1>1. req \in [Requests -> Handler] /\ Goes(r, "done") /\ "done" \in Pcs
  BY DEF TypeOK, FindExpired, Pcs
<1>2. req' \in [Requests -> Handler] /\ Others(r) /\ req'[r].pc = "done"
  BY <1>1, GoesMoves
<1>3. Shrinks
  BY DEF FindExpired, Shrinks, TypeOK
<1>4. QED BY <1>2, <1>3 DEF FindExpired, Begins

LEMMA TotpBegins ==
    ASSUME TypeOK, NEW r \in Requests, NEW p \in Requests, NEW code \in Codes,
           Totp(r, p, code)
    PROVE  req' \in [Requests -> Handler] /\ Begins(r)
<1>1. req[r] \in Handler /\ req \in [Requests -> Handler]
  BY DEF TypeOK
<1>2. session[p].user \in Users
  BY DEF TypeOK, Totp, Session
<1>3. req'[r] = [req[r] EXCEPT !.pc = "consume", !.pending = p, !.code = code,
                               !.user = session[p].user]
  BY <1>1 DEF Totp
<1>4. /\ req'[r] \in Handler /\ req'[r].pc = "consume"
      /\ req'[r].pending = p /\ req'[r].user = session[p].user
  BY <1>1, <1>2, <1>3 DEF Handler
<1>5. req' \in [Requests -> Handler] /\ Others(r)
  BY <1>1, <1>4 DEF Totp, Others
<1>6. QED BY <1>2, <1>4, <1>5 DEF Totp, Begins, Shrinks

LEMMA LogoutBegins ==
    ASSUME TypeOK, NEW r \in Requests, NEW p \in Requests, Logout(r, p)
    PROVE  req' \in [Requests -> Handler] /\ Begins(r)
<1>1. req[r] \in Handler /\ req \in [Requests -> Handler]
  BY DEF TypeOK
<1>2. session[p].user \in Users
  BY DEF TypeOK, Logout, Session
<1>3. req'[r] = [req[r] EXCEPT !.pc = "delete", !.pending = p, !.user = session[p].user]
  BY <1>1 DEF Logout
<1>4. req'[r] \in Handler /\ req'[r].pc = "delete" /\ req'[r].pending = p
  BY <1>1, <1>2, <1>3 DEF Handler
<1>5. req' \in [Requests -> Handler] /\ Others(r)
  BY <1>1, <1>4 DEF Logout, Others
<1>6. QED BY <1>4, <1>5 DEF Logout, Begins, Shrinks

LEMMA CountFailureWorks ==
    ASSUME TypeOK, HandlerHasUser, NEW r \in Requests, CountFailure(r)
    PROVE  /\ req' \in [Requests -> Handler] /\ Works(r)
           /\ req'[r].pc = "write" /\ req'[r].failures = failures[req[r].user] + 1
           /\ req'[r].locks => req'[r].failures >= MaxFailed
<1>1. req[r] \in Handler /\ req \in [Requests -> Handler] /\ req[r].user \in Users
  BY DEF TypeOK, HandlerHasUser, CountFailure, Counting
<1> DEFINE more == failures[req[r].user] + 1
           locks == MaxFailed > 0 /\ more >= MaxFailed
<1>2. more \in Nat
  BY <1>1 DEF TypeOK
<1>3. locks \in BOOLEAN
  OBVIOUS
<1>4. req' = [req EXCEPT ![r].pc = "write", ![r].failures = more, ![r].locks = locks]
  BY DEF CountFailure, OneMore
<1>5. locks => more >= MaxFailed
  OBVIOUS
<1> HIDE DEF more, locks
<1>6. req'[r] = [req[r] EXCEPT !.pc = "write", !.failures = more, !.locks = locks]
  BY <1>1, <1>4
<1>7. /\ req'[r] \in Handler /\ req'[r].pc = "write" /\ Same(r)
      /\ req'[r].failures = more
  BY <1>1, <1>2, <1>3, <1>6 DEF Handler, Same
<1>8. req'[r].locks = locks
  BY <1>1, <1>6 DEF Handler
<1>9. req' \in [Requests -> Handler] /\ Others(r)
  BY <1>1, <1>4, <1>7 DEF Others
<1>10. req[r].pc = "count" /\ UNCHANGED <<session, spent, opened>>
  BY DEF CountFailure
<1>11. Works(r)
  BY <1>7, <1>9, <1>10 DEF Works, Shrinks, Counting, Confirming, Consumed
<1>12. more = failures[req[r].user] + 1
  BY DEF more
<1>13. QED BY <1>5, <1>7, <1>8, <1>9, <1>11, <1>12

LEMMA AnswerWorks ==
    ASSUME TypeOK, NEW r \in Requests,
           WrongPassword(r) \/ WriteFailure(r) \/ RightPassword(r) \/ BadCode(r)
    PROVE  /\ req' \in [Requests -> Handler] /\ Works(r)
           /\ WrongPassword(r) => req'[r].pc = "count"
           /\ ~WrongPassword(r) => req'[r].pc \notin {"count", "write"}
<1>1. req \in [Requests -> Handler]
  BY DEF TypeOK
<1>2. CASE WrongPassword(r)
  <2>1. now \in 0 .. MaxTime /\ req[r] \in Handler
    BY DEF TypeOK
  <2>2. req'[r] = [req[r] EXCEPT !.pc = "count", !.clock = now]
    BY <1>1, <1>2 DEF WrongPassword
  <2>3. req'[r] \in Handler /\ req'[r].pc = "count" /\ Same(r)
    BY <2>1, <2>2 DEF Handler, Same
  <2>4. req' \in [Requests -> Handler] /\ Others(r)
    BY <1>1, <1>2, <2>3 DEF WrongPassword, Others
  <2>5. req[r].pc = "password" /\ UNCHANGED <<session, spent, opened>>
    BY <1>2 DEF WrongPassword
  <2>6. QED
    BY <1>2, <2>3, <2>4, <2>5 DEF Works, Shrinks, Counting, Confirming, Consumed
<1>3. CASE ~WrongPassword(r)
  <2>1. PICK to \in {"clear", "done"} :
            /\ Goes(r, to) /\ to \in Pcs
            /\ to # "done" => req[r].pc = "password"
    BY <1>3 DEF WriteFailure, RightPassword, BadCode, Pcs
  <2>2. req' \in [Requests -> Handler] /\ req'[r].pc = to /\ Same(r) /\ Others(r)
    BY <1>1, <2>1, GoesMoves
  <2>3. /\ req[r].pc \in {"password", "write", "consume"}
        /\ UNCHANGED <<session, spent, opened>>
    BY <1>3 DEF WriteFailure, RightPassword, BadCode
  <2>4. QED
    BY <1>3, <2>1, <2>2, <2>3 DEF Works, Shrinks, Counting, Confirming, Consumed
<1>4. QED BY <1>2, <1>3

LEMMA ClosingWorks ==
    ASSUME TypeOK, HandlerHasUser, ConfirmsOwnPending, NEW r \in Requests,
           ClosePending(r) \/ Purge(r) \/ Delete(r)
    PROVE  req' \in [Requests -> Handler] /\ Works(r)
<1>1. req \in [Requests -> Handler] /\ session \in [Requests -> Session]
  BY DEF TypeOK
<1>2. PICK to \in {"purge", "open", "done"} :
          /\ Goes(r, to) /\ to \in Pcs
          /\ to # "done" => req[r].pc \in {"close", "purge"}
  BY DEF ClosePending, Purge, Delete, Pcs
<1>3. req' \in [Requests -> Handler] /\ req'[r].pc = to /\ Same(r) /\ Others(r)
  BY <1>1, <1>2, GoesMoves
<1>4. /\ req[r].pc \in {"close", "purge", "delete"}
      /\ UNCHANGED <<spent, opened>>
  BY DEF ClosePending, Purge, Delete
<1>5. Shrinks
  BY <1>1 DEF ClosePending, Closed, Purge, Delete, Shrinks
<1>6. QED
  BY <1>2, <1>3, <1>4, <1>5 DEF Works, Counting, Confirming, Consumed

LEMMA ConsumeConsumes ==
    ASSUME TypeOK, NEW r \in Requests, Consume(r)
    PROVE  req' \in [Requests -> Handler] /\ Consumes(r)
<1>1. req \in [Requests -> Handler] /\ Goes(r, "close") /\ "close" \in Pcs
  BY DEF TypeOK, Consume, Pcs
<1>2. req' \in [Requests -> Handler] /\ req'[r].pc = "close" /\ Same(r) /\ Others(r)
  BY <1>1, GoesMoves
<1>3. QED BY <1>2 DEF Consume, Consumable, Consumes

LEMMA OpenPendingPends ==
    ASSUME TypeOK, NEW r \in Requests, OpenPending(r)
    PROVE  req' \in [Requests -> Handler] /\ Pends(r)
<1>1. /\ req \in [Requests -> Handler] /\ session \in [Requests -> Session]
      /\ Goes(r, "done") /\ "done" \in Pcs
  BY DEF TypeOK, OpenPending, Pcs
<1>2. req' \in [Requests -> Handler] /\ req'[r].pc = "done" /\ Same(r) /\ Others(r)
  BY <1>1, GoesMoves
<1>3. MakesSession(r, "pending")
  BY <1>1 DEF OpenPending, MakesSession
<1>4. QED BY <1>2, <1>3 DEF OpenPending, Pends

LEMMA OpenFullOpens ==
    ASSUME TypeOK, NEW r \in Requests, OpenFull(r)
    PROVE  req' \in [Requests -> Handler] /\ Opens(r)
<1>1. /\ req \in [Requests -> Handler] /\ session \in [Requests -> Session]
      /\ Goes(r, "done") /\ "done" \in Pcs
  BY DEF TypeOK, OpenFull, Pcs
<1>2. req' \in [Requests -> Handler] /\ req'[r].pc = "done" /\ Same(r) /\ Others(r)
  BY <1>1, GoesMoves
<1>3. MakesSession(r, "full")
  BY <1>1 DEF OpenFull, OwnUser, MakesSession
<1>4. QED BY <1>2, <1>3 DEF OpenFull, Opens

LEMMA DieStops ==
    ASSUME TypeOK, Die
    PROVE  req' \in [Requests -> Handler] /\ Stops
<1>1. ASSUME NEW r \in Requests
      PROVE  req'[r] \in Handler /\ Same(r) /\ req'[r].pc \in {req[r].pc, "done"}
  <2>1. req[r] \in Handler
    BY DEF TypeOK
  <2>2. req'[r] = req[r] \/ req'[r] = [req[r] EXCEPT !.pc = "done"]
    BY DEF Die
  <2>3. QED BY <2>1, <2>2 DEF Handler, Same
<1>2. req' \in [Requests -> Handler]
  BY <1>1 DEF Die
<1>3. QED BY <1>1, <1>2 DEF Die, Stops

LEMMA TypeInit == Init => TypeOK
<1> SUFFICES ASSUME Init PROVE TypeOK
  OBVIOUS
<1>1. Blank \in Handler /\ NoSession \in Session
  <2>1. 0 \in Codes /\ 0 \in 0 .. MaxTime
    BY NumbersAssumption DEF Codes
  <2>2. QED BY <2>1 DEF Blank, Handler, NoSession, Session
<1>2. \A r \in Requests : session[r].kind = "none" /\ session[r].user = NoOne
  BY DEF Init, NoSession
<1>3. 0 \in 0 .. MaxTime /\ 0 \in 0 .. MaxTime + Lockout
  BY NumbersAssumption
<1>4. QED BY <1>1, <1>2, <1>3 DEF Init, TypeOK

\* Which steps touch a session, and which another part of the state.
LEMMA Touched ==
    ASSUME [Next]_vars
    PROVE  /\ \/ UNCHANGED session
              \/ \E r \in Requests :
                    \/ OpenPending(r) \/ OpenFull(r)
                    \/ ClosePending(r) \/ Delete(r) \/ Purge(r)
                    \/ \E p \in Requests : FindExpired(r, p)
           /\ \/ Tick \/ UNCHANGED <<now, failures, lockedUntil, spent, wrong, cleared, opened>>
              \/ \E r \in Requests :
                    \/ WrongPassword(r) \/ RightPassword(r) \/ WriteFailure(r)
                    \/ Consume(r) \/ OpenFull(r)
<1> DEFINE Rest == <<now, failures, lockedUntil, spent, wrong, cleared, opened>>
<1>1. CASE Tick \/ Die \/ UNCHANGED vars
  BY <1>1 DEF Tick, Die, vars
<1>2. ASSUME NEW r \in Requests, CountFailure(r) \/ BadCode(r)
      PROVE  UNCHANGED session /\ UNCHANGED Rest
  BY <1>2 DEF CountFailure, BadCode
<1>3. ASSUME NEW r \in Requests, OpenPending(r) \/ ClosePending(r) \/ Purge(r) \/ Delete(r)
      PROVE  UNCHANGED Rest
  BY <1>3 DEF OpenPending, ClosePending, Purge, Delete
<1>4. ASSUME NEW r \in Requests,
             WrongPassword(r) \/ RightPassword(r) \/ WriteFailure(r) \/ Consume(r)
      PROVE  UNCHANGED session
  BY <1>4 DEF WrongPassword, RightPassword, WriteFailure, Consume
<1>5. ASSUME NEW r \in Requests, NEW u \in Users, Login(r, u)
      PROVE  UNCHANGED session /\ UNCHANGED Rest
  BY <1>5 DEF Login
<1>6. ASSUME NEW r \in Requests, NEW p \in Requests, Logout(r, p)
      PROVE  UNCHANGED session /\ UNCHANGED Rest
  BY <1>6 DEF Logout
<1>7. ASSUME NEW r \in Requests, NEW p \in Requests, FindExpired(r, p)
      PROVE  UNCHANGED Rest
  BY <1>7 DEF FindExpired
<1>8. ASSUME NEW r \in Requests, NEW p \in Requests, NEW code \in Codes, Totp(r, p, code)
      PROVE  UNCHANGED session /\ UNCHANGED Rest
  BY <1>8 DEF Totp
<1> HIDE DEF Rest
<1>9. ASSUME NEW r \in Requests, Step(r)
      PROVE  /\ \/ UNCHANGED session \/ OpenPending(r) \/ OpenFull(r)
                \/ ClosePending(r) \/ Delete(r) \/ Purge(r)
             /\ \/ UNCHANGED Rest \/ WrongPassword(r) \/ RightPassword(r) \/ WriteFailure(r)
                \/ Consume(r) \/ OpenFull(r)
  BY <1>2, <1>3, <1>4, <1>9 DEF Step
<1>10. UNCHANGED Rest <=> UNCHANGED <<now, failures, lockedUntil, spent, wrong, cleared, opened>>
  BY DEF Rest
<1>11. QED BY <1>1, <1>5, <1>6, <1>7, <1>8, <1>9, <1>10 DEF Next

\* The parts of the state no handler's local state is about.
LEMMA TypeStep ==
    ASSUME TypeOK, HandlerHasUser, ConfirmsOwnPending, [Next]_vars, req' \in [Requests -> Handler]
    PROVE  TypeOK'
<1> USE NumbersAssumption, NamesAssumption
<1> DEFINE SessionTyped == /\ session \in [Requests -> Session]
                           /\ \A r \in Requests :
                                 (session[r].kind = "none") = (session[r].user = NoOne)
           RestTyped == /\ now \in 0 .. MaxTime
                        /\ failures \in [Users -> Nat] /\ wrong \in [Users -> Nat]
                        /\ lockedUntil \in [Users -> 0 .. MaxTime + Lockout]
                        /\ spent \subseteq Users \X Codes
                        /\ cleared \subseteq Users
                        /\ opened \subseteq Opened
<1>1. SessionTyped /\ RestTyped /\ req \in [Requests -> Handler]
  BY DEF TypeOK
<1>2. NoSession \in Session /\ NoSession.kind = "none" /\ NoSession.user = NoOne
  BY DEF NoSession, Session
<1>3. \A u \in Users, n \in Nat, kind \in {"pending", "full"} :
         [kind |-> kind, user |-> u, expires |-> n] \in Session /\ u # NoOne
  BY DEF Session
<1>4. \A r \in Requests : req[r].pc \in Counting \cup Confirming => req[r].user \in Users
  BY DEF HandlerHasUser
<1>5. SessionTyped'
  <2>1. ASSUME NEW r \in Requests, OpenPending(r) PROVE SessionTyped'
    <3>1. req[r].user \in Users
      BY <1>4, <2>1 DEF OpenPending, Counting
    <3>2. now + PendingLifetime \in Nat
      BY <1>1
    <3>3. QED BY <1>1, <1>3, <2>1, <3>1, <3>2 DEF OpenPending
  <2>2. ASSUME NEW r \in Requests, OpenFull(r) PROVE SessionTyped'
    <3>1. req[r].user \in Users
      BY <1>4, <2>2 DEF OpenFull, Confirming
    <3>2. now + FullLifetime \in Nat
      BY <1>1
    <3>3. QED BY <1>1, <1>3, <2>2, <3>1, <3>2 DEF OpenFull, OwnUser
  <2>3. ASSUME NEW r \in Requests,
               ClosePending(r) \/ Delete(r) \/ Purge(r)
                 \/ \E p \in Requests : FindExpired(r, p)
        PROVE  SessionTyped'
    BY <1>1, <1>2, <2>3 DEF ClosePending, Closed, Delete, Purge, FindExpired
  <2>4. CASE UNCHANGED session
    BY <1>1, <2>4
  <2> HIDE DEF SessionTyped, RestTyped
  <2>5. QED BY <2>1, <2>2, <2>3, <2>4, Touched
<1>6. RestTyped'
  <2>1. ASSUME NEW r \in Requests,
               WrongPassword(r) \/ RightPassword(r) \/ WriteFailure(r)
        PROVE  RestTyped'
    <3>1. req[r].user \in Users /\ req[r].failures \in Nat /\ req[r].clock \in 0 .. MaxTime
      BY <1>1, <1>4, <2>1 DEF WrongPassword, RightPassword, WriteFailure, Counting, Handler
    <3>2. req[r].clock + Lockout \in 0 .. MaxTime + Lockout /\ 0 \in 0 .. MaxTime + Lockout
      BY <3>1
    <3>3. QED
      BY <1>1, <2>1, <3>1, <3>2 DEF WrongPassword, RightPassword, WriteFailure
  <2>2. ASSUME NEW r \in Requests, Consume(r) PROVE RestTyped'
    <3>1. req[r].user \in Users /\ req[r].code \in Codes
      BY <1>1, <1>4, <2>2 DEF Consume, Confirming, Handler
    <3>2. QED BY <1>1, <2>2, <3>1 DEF Consume
  <2>3. ASSUME NEW r \in Requests, OpenFull(r) PROVE RestTyped'
    <3>1. /\ req[r].user \in Users /\ req[r].code \in Codes
          /\ req[r].pending \in Requests
      BY <1>1, <1>4, <2>3 DEF OpenFull, Confirming, Handler, ConfirmsOwnPending
    <3>2. QED BY <1>1, <2>3, <3>1 DEF OpenFull, Opened
  <2>4. CASE Tick
    BY <1>1, <2>4 DEF Tick
  <2>5. CASE UNCHANGED <<now, failures, lockedUntil, spent, wrong, cleared, opened>>
    BY <1>1, <2>5
  <2> HIDE DEF SessionTyped, RestTyped
  <2>6. QED BY <2>1, <2>2, <2>3, <2>4, <2>5, Touched
<1>7. QED BY <1>5, <1>6 DEF TypeOK

LEMMA Steps ==
    ASSUME FactorsInv, [Next]_vars
    PROVE  /\ req' \in [Requests -> Handler]
           /\ \/ \E r \in Requests :
                   \/ Begins(r) \/ Works(r) \/ Consumes(r) \/ Pends(r) \/ Opens(r)
              \/ Stops
<1>1. TypeOK /\ HandlerHasUser /\ ConfirmsOwnPending /\ req \in [Requests -> Handler]
  BY DEF FactorsInv, TypeOK
<1>2. CASE Tick \/ UNCHANGED vars
  BY <1>1, <1>2 DEF Tick, vars, Stops, Same
<1>3. CASE Die
  BY <1>1, <1>3, DieStops
<1>4. ASSUME NEW r \in Requests, Step(r)
      PROVE  /\ req' \in [Requests -> Handler]
             /\ Works(r) \/ Consumes(r) \/ Pends(r) \/ Opens(r)
  BY <1>1, <1>4, AnswerWorks, CountFailureWorks, ClosingWorks, ConsumeConsumes,
     OpenPendingPends, OpenFullOpens
  DEF Step
<1>5. ASSUME NEW r \in Requests, NEW u \in Users, Login(r, u)
      PROVE  req' \in [Requests -> Handler] /\ Begins(r)
  BY <1>1, <1>5, LoginBegins
<1>6. ASSUME NEW r \in Requests, NEW p \in Requests, FindExpired(r, p) \/ Logout(r, p)
      PROVE  req' \in [Requests -> Handler] /\ Begins(r)
  BY <1>1, <1>6, FindExpiredBegins, LogoutBegins
<1>7. ASSUME NEW r \in Requests, NEW p \in Requests, NEW code \in Codes, Totp(r, p, code)
      PROVE  req' \in [Requests -> Handler] /\ Begins(r)
  BY <1>1, <1>7, TotpBegins
<1>8. QED BY <1>2, <1>3, <1>4, <1>5, <1>6, <1>7 DEF Next

LEMMA FactorsInit == Init => FactorsInv
<1> SUFFICES ASSUME Init PROVE FactorsInv
  OBVIOUS
<1>1. TypeOK
  BY TypeInit
<1>2. /\ \A r \in Requests : req[r].pc = "idle" /\ session[r].kind = "none"
      /\ opened = {}
  BY DEF Init, Blank, NoSession
<1>3. QED
  BY <1>1, <1>2
  DEF FactorsInv, HandlerHasUser, MakerIsDone, ConfirmsOwnPending, OpenedByPending,
      FullWasOpened, Counting, Confirming

\* Nothing changes a request that is done.
LEMMA DoneStays ==
    ASSUME FactorsInv, [Next]_vars, NEW r \in Requests, req[r].pc = "done"
    PROVE  req'[r].pc = "done" /\ req'[r].user = req[r].user
BY Steps DEF Begins, Works, Consumes, Pends, Opens, Stops, Same, Others

LEMMA FactorsStep == FactorsInv /\ [Next]_vars => FactorsInv'
<1> SUFFICES ASSUME FactorsInv, [Next]_vars PROVE FactorsInv'
  OBVIOUS
<1>1. /\ HandlerHasUser /\ MakerIsDone /\ ConfirmsOwnPending /\ OpenedByPending
      /\ FullWasOpened /\ TypeOK /\ session \in [Requests -> Session]
      /\ opened \subseteq Opened
  BY DEF FactorsInv, TypeOK
<1>2. \/ \E r \in Requests : Begins(r) \/ Works(r) \/ Consumes(r) \/ Pends(r) \/ Opens(r)
      \/ Stops
  BY Steps
<1>3. TypeOK'
  BY <1>1, Steps, TypeStep
<1>4. HandlerHasUser'
  <2> SUFFICES ASSUME NEW s \in Requests
               PROVE  /\ req'[s].pc \in Counting \cup Confirming => req'[s].user \in Users
                      /\ req'[s].pc = "delete" => req'[s].pending \in Requests
    BY DEF HandlerHasUser
  <2>1. \/ Same(s) /\ req'[s].pc \in {req[s].pc, "done"}
        \/ req'[s] = req[s]
        \/ Begins(s) \/ Works(s) \/ Consumes(s) \/ Pends(s) \/ Opens(s)
    <3>1. CASE Stops
      BY <3>1 DEF Stops
    <3>2. ASSUME NEW r \in Requests,
                 Begins(r) \/ Works(r) \/ Consumes(r) \/ Pends(r) \/ Opens(r)
          PROVE  s = r \/ req'[s] = req[s]
      BY <3>2 DEF Begins, Works, Consumes, Pends, Opens, Others
    <3>3. QED BY <1>2, <3>1, <3>2
  <2>2. CASE Begins(s)
    BY <2>2 DEF Begins, Counting, Confirming
  <2>3. CASE Works(s) \/ Consumes(s) \/ Pends(s) \/ Opens(s)
    <3>1. /\ req'[s].user = req[s].user /\ req'[s].pc # "delete"
          /\ req'[s].pc \in Counting \cup Confirming
                => req[s].pc \in Counting \cup Confirming
      BY <2>3 DEF Works, Consumes, Pends, Opens, Same, Counting, Confirming
    <3>2. QED BY <1>1, <3>1 DEF HandlerHasUser
  <2>4. CASE req'[s] = req[s]
    BY <1>1, <2>4 DEF HandlerHasUser
  <2>5. CASE Same(s) /\ req'[s].pc \in {req[s].pc, "done"}
    <3>1. req'[s].pc = req[s].pc \/ req'[s].pc \notin Counting \cup Confirming \cup {"delete"}
      BY <2>5 DEF Counting, Confirming
    <3>2. req'[s].user = req[s].user /\ req'[s].pending = req[s].pending
      BY <2>5 DEF Same
    <3>3. QED BY <1>1, <3>1, <3>2 DEF HandlerHasUser
  <2>6. QED BY <2>1, <2>2, <2>3, <2>4, <2>5
<1>5. \A r \in Requests : req[r].pc = "done" =>
          req'[r].pc = "done" /\ req'[r].user = req[r].user
  BY DoneStays
<1>6. MakerIsDone'
  <2> SUFFICES ASSUME NEW s \in Requests, session'[s].kind # "none"
               PROVE  req'[s].pc = "done" /\ req'[s].user = session'[s].user
    BY DEF MakerIsDone
  <2>1. CASE session'[s] = session[s]
    BY <1>1, <1>5, <2>1 DEF MakerIsDone
  <2>2. CASE session'[s] # session[s]
    <3>1. session'[s] # NoSession
      BY DEF NoSession
    <3>2. PICK r \in Requests : Pends(r) \/ Opens(r)
      BY <1>2, <2>2, <3>1 DEF Begins, Works, Consumes, Stops, Shrinks
    <3>3. s = r
      BY <2>2, <3>2 DEF Pends, Opens, MakesSession
    <3>4. QED BY <3>2, <3>3 DEF Pends, Opens, MakesSession, Same
  <2>3. QED BY <2>1, <2>2
<1>7. ConfirmsOwnPending'
  <2> SUFFICES ASSUME NEW s \in Requests, req'[s].pc \in Confirming
               PROVE  /\ req'[s].pending \in Requests
                      /\ req'[req'[s].pending].pc = "done"
                      /\ req'[req'[s].pending].user = req'[s].user
    BY DEF ConfirmsOwnPending
  <2>1. CASE req[s].pc \in Confirming
    <3>1. req'[s].pending = req[s].pending /\ req'[s].user = req[s].user
      BY <1>2, <2>1
      DEF Begins, Works, Consumes, Pends, Opens, Stops, Same, Others, Confirming
    <3>2. QED BY <1>1, <1>5, <2>1, <3>1 DEF ConfirmsOwnPending
  <2>2. CASE req[s].pc \notin Confirming
    <3>1. Begins(s) /\ req'[s].pc = "consume"
      BY <1>2, <2>2
      DEF Begins, Works, Consumes, Pends, Opens, Stops, Same, Others, Confirming
    <3>2. /\ req'[s].pending \in Requests
          /\ session[req'[s].pending].kind # "none"
          /\ session[req'[s].pending].user = req'[s].user
      BY <3>1 DEF Begins
    <3>3. QED BY <1>1, <1>5, <3>2 DEF MakerIsDone
  <2>3. QED BY <2>1, <2>2
<1>8. \A o \in opened' :
          \/ o \in opened
          \/ \E r \in Requests :
                /\ Opens(r)
                /\ o = [session |-> r, user |-> req[r].user, code |-> req[r].code,
                        pending |-> req[r].pending]
  BY <1>2 DEF Begins, Works, Consumes, Pends, Opens, Stops
<1>9. OpenedByPending'
  <2> SUFFICES ASSUME NEW o \in opened'
               PROVE  req'[o.pending].pc = "done" /\ req'[o.pending].user = o.user
    BY DEF OpenedByPending
  <2>1. CASE o \in opened
    <3>1. o.pending \in Requests
      BY <1>1, <2>1 DEF Opened
    <3>2. QED BY <1>1, <1>5, <2>1, <3>1 DEF OpenedByPending
  <2>2. ASSUME NEW r \in Requests, Opens(r), o.pending = req[r].pending, o.user = req[r].user
        PROVE  req'[o.pending].pc = "done" /\ req'[o.pending].user = o.user
    BY <1>1, <1>5, <2>2 DEF ConfirmsOwnPending, Opens, Confirming
  <2>3. QED BY <1>8, <2>1, <2>2
<1>10. FullWasOpened'
  <2> SUFFICES ASSUME NEW s \in Requests, session'[s].kind = "full"
               PROVE  \E o \in opened' : o.session = s /\ o.user = session'[s].user
    BY DEF FullWasOpened
  <2>1. opened \subseteq opened'
    BY <1>2 DEF Begins, Works, Consumes, Pends, Opens, Stops
  <2>2. CASE session'[s] = session[s]
    BY <1>1, <2>1, <2>2 DEF FullWasOpened
  <2>3. CASE session'[s] # session[s]
    <3>1. session'[s] # NoSession
      BY DEF NoSession
    <3>2. PICK r \in Requests : Pends(r) \/ Opens(r)
      BY <1>2, <2>3, <3>1 DEF Begins, Works, Consumes, Stops, Shrinks
    <3>3. s = r
      BY <2>3, <3>2 DEF Pends, Opens, MakesSession
    <3>4. Opens(s) /\ session'[s].user = req[s].user
      BY <3>2, <3>3 DEF Pends, Opens, MakesSession
    <3> DEFINE o == [session |-> s, user |-> req[s].user, code |-> req[s].code,
                     pending |-> req[s].pending]
    <3>5. o \in opened' /\ o.session = s /\ o.user = req[s].user
      BY <3>4 DEF Opens
    <3>6. QED BY <3>4, <3>5
  <2>4. QED BY <2>2, <2>3
<1>11. QED BY <1>3, <1>4, <1>6, <1>7, <1>9, <1>10 DEF FactorsInv

LEMMA FactorsInvariant == Spec => []FactorsInv
BY FactorsInit, FactorsStep, PTL DEF Spec

----------------------------------------------------------------------------
(***************************************************************************)
(* A session is earned: no code opens two, and a full one was opened by the *)
(* user whose password opened the pending one it closed.                   *)
(***************************************************************************)

LEMMA CodeInit == Init => CodeInv
<1> SUFFICES ASSUME Init PROVE CodeInv
  OBVIOUS
<1>1. (\A r \in Requests : req[r].pc = "idle") /\ opened = {}
  BY DEF Init, Blank
<1>2. QED
  BY <1>1, FactorsInit DEF CodeInv, ConsumedIsSpent, CodesDistinct, OneCodeOneSession, Consumed

LEMMA CodeStep == CodeInv /\ [Next]_vars => CodeInv'
<1> SUFFICES ASSUME CodeInv, [Next]_vars PROVE CodeInv'
  OBVIOUS
<1>1. FactorsInv /\ ConsumedIsSpent /\ CodesDistinct /\ OneCodeOneSession
  BY DEF CodeInv
<1>2. \/ \E r \in Requests : Begins(r) \/ Works(r) \/ Consumes(r) \/ Pends(r) \/ Opens(r)
      \/ Stops
  BY <1>1, Steps
<1>3. FactorsInv'
  BY <1>1, FactorsStep
<1> DEFINE Code(r) == <<req[r].user, req[r].code>>
           CodeOf(o) == <<o.user, o.code>>
\* Either one request consumes a code nobody spent, ...
<1>4. ASSUME NEW c \in Requests, Consumes(c) PROVE CodeInv'
  <2>1. /\ opened' = opened /\ spent' = spent \cup {Code(c)} /\ Code(c) \notin spent
        /\ \A s \in Requests : s # c => req'[s] = req[s]
        /\ <<req'[c].user, req'[c].code>> = Code(c)
    BY <1>4 DEF Consumes, Same, Others
  <2>2. \A s \in Requests : req'[s].pc \in Consumed /\ s # c => Code(s) \in spent
    BY <1>1, <2>1 DEF ConsumedIsSpent
  <2>3. \A o \in opened : CodeOf(o) \in spent
    BY <1>1 DEF ConsumedIsSpent
  <2>4. ConsumedIsSpent'
    BY <2>1, <2>2, <2>3 DEF ConsumedIsSpent
  <2>5. CodesDistinct'
    BY <1>1, <2>1, <2>2, <2>3 DEF CodesDistinct
  <2>6. OneCodeOneSession'
    BY <1>1, <2>1 DEF OneCodeOneSession
  <2>7. QED BY <1>3, <2>4, <2>5, <2>6 DEF CodeInv
\* ... or one that did opens its session, and is done, ...
<1>5. ASSUME NEW c \in Requests, Opens(c) PROVE CodeInv'
  <2> DEFINE new == [session |-> c, user |-> req[c].user, code |-> req[c].code,
                     pending |-> req[c].pending]
  <2>1. /\ opened' = opened \cup {new} /\ spent' = spent
        /\ \A s \in Requests : s # c => req'[s] = req[s]
        /\ req'[c].pc \notin Consumed /\ req[c].pc \in Consumed
    BY <1>5 DEF Opens, Others, Consumed
  <2>2. CodeOf(new) = Code(c) /\ new.user = req[c].user /\ new.code = req[c].code
    OBVIOUS
  <2> HIDE DEF new
  <2>3. ConsumedIsSpent'
    BY <1>1, <2>1, <2>2 DEF ConsumedIsSpent
  <2>4. CodesDistinct'
    BY <1>1, <2>1, <2>2 DEF CodesDistinct
  <2>5. \A o \in opened : o.user # new.user \/ o.code # new.code
    BY <1>1, <2>1, <2>2 DEF CodesDistinct
  <2>6. OneCodeOneSession'
    BY <1>1, <2>1, <2>5 DEF OneCodeOneSession
  <2>7. QED BY <1>3, <2>3, <2>4, <2>6 DEF CodeInv
\* ... or nothing changes for those who consumed one.
<1>6. ASSUME Stops \/ \E r \in Requests : Begins(r) \/ Works(r) \/ Pends(r)
      PROVE  CodeInv'
  <2>1. opened' = opened /\ spent' = spent
    BY <1>6 DEF Stops, Begins, Works, Pends
  <2>2. ASSUME NEW s \in Requests, req'[s].pc \in Consumed
        PROVE  /\ req[s].pc \in Consumed
               /\ req'[s].user = req[s].user /\ req'[s].code = req[s].code
    <3>1. CASE Stops
      BY <2>2, <3>1 DEF Stops, Same, Consumed
    <3>2. ASSUME NEW r \in Requests, Begins(r)
          PROVE  r # s /\ req'[s] = req[s]
      BY <2>2, <3>2 DEF Begins, Others, Consumed
    <3>3. ASSUME NEW r \in Requests, Works(r)
          PROVE  req'[s] = req[s] \/ (Same(s) /\ req[s].pc \in Consumed)
      BY <2>2, <3>3 DEF Works, Others
    <3>4. ASSUME NEW r \in Requests, Pends(r)
          PROVE  r # s /\ req'[s] = req[s]
      BY <2>2, <3>4 DEF Pends, Others, Consumed
    <3>5. QED BY <1>6, <2>2, <3>1, <3>2, <3>3, <3>4 DEF Same
  <2>3. ConsumedIsSpent'
    BY <1>1, <2>1, <2>2 DEF ConsumedIsSpent
  <2>4. CodesDistinct'
    BY <1>1, <2>1, <2>2 DEF CodesDistinct
  <2>5. OneCodeOneSession'
    BY <1>1, <2>1 DEF OneCodeOneSession
  <2>6. QED BY <1>3, <2>3, <2>4, <2>5 DEF CodeInv
<1>7. QED BY <1>2, <1>4, <1>5, <1>6

LEMMA CodeEarns == CodeInv => SessionsAreEarned
<1> SUFFICES ASSUME CodeInv PROVE SessionsAreEarned
  OBVIOUS
<1>1. /\ TypeOK /\ OneCodeOneSession /\ ConsumedIsSpent
      /\ FullWasOpened /\ OpenedByPending
  BY DEF CodeInv, FactorsInv
<1>2. SignedInAsOneself
  BY <1>1 DEF SignedInAsOneself, FullWasOpened, OpenedByPending, ConsumedIsSpent
<1>3. QED BY <1>1, <1>2 DEF SessionsAreEarned

(***************************************************************************)
(* The type invariant and the earned sessions: however many requests bring  *)
(* one code at once, and wherever the process dies, a full session rests on *)
(* a code of its own and on a pending session of the same user.            *)
(***************************************************************************)
THEOREM EarnedSessionsHold == Spec => []SessionsAreEarned
BY CodeInit, CodeStep, CodeEarns, PTL DEF Spec

----------------------------------------------------------------------------
(***************************************************************************)
(* Nobody is locked early.                                                 *)
(***************************************************************************)

\* What the counter rests on survives every step but the three that count.
Carries ==
    /\ \A s \in Requests : req'[s].pc \in {"count", "write"} => req'[s] = req[s]
    /\ UNCHANGED wrong
    /\ \A u \in Users : /\ failures'[u] \in {failures[u], 0}
                        /\ lockedUntil'[u] \in {lockedUntil[u], 0}

LEMMA OthersCarry ==
    ASSUME FactorsInv, [Next]_vars,
           \A r \in Requests : ~WrongPassword(r) /\ ~CountFailure(r) /\ ~WriteFailure(r)
    PROVE  Carries
<1> DEFINE Still == /\ UNCHANGED wrong
                    /\ \A u \in Users : /\ failures'[u] \in {failures[u], 0}
                                        /\ lockedUntil'[u] \in {lockedUntil[u], 0}
           Leaves(r) == Others(r) /\ req'[r].pc \notin {"count", "write"}
<1>1. /\ TypeOK /\ HandlerHasUser /\ ConfirmsOwnPending /\ req \in [Requests -> Handler]
      /\ failures \in [Users -> Nat] /\ lockedUntil \in [Users -> 0 .. MaxTime + Lockout]
  BY DEF FactorsInv, TypeOK
<1>2. CASE Tick \/ UNCHANGED vars
  BY <1>2 DEF Tick, vars, Carries
<1>3. CASE Die
  <2>1. \A s \in Requests : req'[s] = req[s] \/ req'[s] = [req[s] EXCEPT !.pc = "done"]
    BY <1>3 DEF Die
  <2>2. \A s \in Requests : req'[s] = req[s] \/ req'[s].pc = "done"
    BY <1>1, <2>1 DEF Handler
  <2>3. Still
    BY <1>3 DEF Die
  <2>4. QED BY <2>2, <2>3 DEF Carries
<1>4. ASSUME NEW r \in Requests, Leaves(r), Still PROVE Carries
  BY <1>4 DEF Carries, Others
<1>5. ASSUME NEW r \in Requests, Step(r) PROVE Leaves(r) /\ Still
  <2>1. CASE RightPassword(r)
    <3>1. Leaves(r)
      BY <1>1, <2>1, AnswerWorks DEF Works
    <3>2. req[r].user \in Users
      BY <1>1, <2>1 DEF RightPassword, HandlerHasUser, Counting
    <3>3. QED BY <1>1, <2>1, <3>1, <3>2 DEF RightPassword
  <2>2. CASE BadCode(r)
    <3>1. Leaves(r)
      BY <1>1, <2>2, AnswerWorks DEF Works
    <3>2. QED BY <2>2, <3>1 DEF BadCode
  <2>3. CASE ClosePending(r) \/ Purge(r) \/ Delete(r)
    <3>1. Works(r) /\ req[r].pc \in {"close", "purge", "delete"}
      BY <1>1, <2>3, ClosingWorks DEF ClosePending, Purge, Delete
    <3>2. Leaves(r)
      BY <3>1 DEF Works, Counting
    <3>3. QED BY <2>3, <3>2 DEF ClosePending, Purge, Delete
  <2>4. CASE Consume(r)
    BY <1>1, <2>4, ConsumeConsumes DEF Consumes, Consume
  <2>5. CASE OpenPending(r)
    BY <1>1, <2>5, OpenPendingPends DEF Pends, OpenPending
  <2>6. CASE OpenFull(r)
    BY <1>1, <2>6, OpenFullOpens DEF Opens, OpenFull
  <2>7. QED BY <1>5, <2>1, <2>2, <2>3, <2>4, <2>5, <2>6 DEF Step
<1>6. ASSUME NEW r \in Requests, NEW u \in Users, Login(r, u)
      PROVE  Leaves(r) /\ Still
  BY <1>1, <1>6, LoginBegins DEF Begins, Login
<1>7. ASSUME NEW r \in Requests, NEW p \in Requests, FindExpired(r, p) \/ Logout(r, p)
      PROVE  Leaves(r) /\ Still
  BY <1>1, <1>7, FindExpiredBegins, LogoutBegins DEF Begins, FindExpired, Logout
<1>8. ASSUME NEW r \in Requests, NEW p \in Requests, NEW code \in Codes, Totp(r, p, code)
      PROVE  Leaves(r) /\ Still
  BY <1>1, <1>8, TotpBegins DEF Begins, Totp
<1> HIDE DEF Leaves, Still
<1>9. QED BY <1>2, <1>3, <1>4, <1>5, <1>6, <1>7, <1>8 DEF Next

LEMMA CounterInit == Init => CounterInv
<1> SUFFICES ASSUME Init PROVE CounterInv
  OBVIOUS
<1>1. \A r \in Requests : req[r].pc = "idle"
  BY DEF Init, Blank
<1>2. \A u \in Users : failures[u] = 0 /\ wrong[u] = 0 /\ lockedUntil[u] = 0
  BY DEF Init
<1>3. \A u \in Users : Uncounted(u) = {}
  BY <1>1 DEF Uncounted
<1>4. IsFiniteSet({}) /\ Cardinality({}) = 0
  BY FS_EmptySet
<1>5. QED
  BY <1>1, <1>2, <1>3, <1>4, FactorsInit DEF CounterInv, RoomForUncounted, LocksAtThreshold

LEMMA CounterStep == CounterInv /\ [Next]_vars => CounterInv'
<1> SUFFICES ASSUME CounterInv, [Next]_vars PROVE CounterInv'
  OBVIOUS
<1>1. /\ FactorsInv /\ RoomForUncounted /\ LocksAtThreshold
      /\ TypeOK /\ HandlerHasUser /\ req \in [Requests -> Handler]
      /\ failures \in [Users -> Nat] /\ wrong \in [Users -> Nat]
      /\ lockedUntil \in [Users -> 0 .. MaxTime + Lockout]
  BY DEF CounterInv, FactorsInv, TypeOK
<1>2. FactorsInv' /\ req' \in [Requests -> Handler]
  BY <1>1, FactorsStep DEF FactorsInv, TypeOK
<1>3. /\ \A u \in Users :
          /\ IsFiniteSet(Uncounted(u)) /\ Cardinality(Uncounted(u)) \in Nat
          /\ failures[u] + Cardinality(Uncounted(u)) <= wrong[u]
          /\ \A r \in Requests :
                req[r].pc = "write" /\ req[r].user = u =>
                    req[r].failures + Cardinality(Uncounted(u)) <= wrong[u]
      /\ \A r \in Requests :
          req[r].pc = "write" /\ req[r].locks => req[r].failures >= MaxFailed
      /\ \A u \in Users : lockedUntil[u] > 0 => wrong[u] >= MaxFailed
      /\ \A r \in Requests : req[r].failures \in Nat
  BY <1>1, FS_CardinalityType DEF RoomForUncounted, LocksAtThreshold, Handler
<1>4. MaxFailed \in Nat /\ 0 \notin {n \in Nat : n > 0}
  BY NumbersAssumption
<1> DEFINE Room(u) == /\ IsFiniteSet(Uncounted(u))
                      /\ failures[u] + Cardinality(Uncounted(u)) <= wrong[u]
                      /\ \A r \in Requests :
                            req[r].pc = "write" /\ req[r].user = u =>
                                req[r].failures + Cardinality(Uncounted(u)) <= wrong[u]
\* An answer adds to both sides, ...
<1>5. ASSUME NEW r \in Requests, WrongPassword(r) PROVE CounterInv'
  <2>1. /\ req[r].user \in Users /\ req[r].pc = "password"
        /\ req'[r].pc = "count" /\ req'[r].user = req[r].user
        /\ \A s \in Requests : s # r => req'[s] = req[s]
        /\ failures' = failures /\ lockedUntil' = lockedUntil
    BY <1>1, <1>5, AnswerWorks
    DEF WrongPassword, HandlerHasUser, Counting, Works, Same, Others
  <2>2. /\ wrong'[req[r].user] = wrong[req[r].user] + 1
        /\ \A u \in Users : u # req[r].user => wrong'[u] = wrong[u]
    BY <1>1, <1>5, <2>1 DEF WrongPassword
  <2>3. r \notin Uncounted(req[r].user)
    BY <2>1 DEF Uncounted
  <2>4. Uncounted(req[r].user)' = Uncounted(req[r].user) \cup {r}
    BY <2>1 DEF Uncounted
  <2>5. \A u \in Users : u # req[r].user => Uncounted(u)' = Uncounted(u)
    BY <2>1 DEF Uncounted
  <2>6. /\ IsFiniteSet(Uncounted(req[r].user)')
        /\ Cardinality(Uncounted(req[r].user)') = Cardinality(Uncounted(req[r].user)) + 1
    BY <1>3, <2>1, <2>3, <2>4, FS_AddElement
  <2>7. ASSUME NEW u \in Users PROVE Room(u)'
    <3>1. CASE u = req[r].user
      BY <1>1, <1>3, <2>1, <2>2, <2>6, <3>1
    <3>2. CASE u # req[r].user
      BY <1>1, <1>3, <2>1, <2>2, <2>5, <3>2
    <3>3. QED BY <3>1, <3>2
  <2>8. LocksAtThreshold'
    BY <1>1, <1>3, <1>4, <2>1, <2>2 DEF LocksAtThreshold
  <2>9. QED BY <1>2, <2>7, <2>8 DEF CounterInv, RoomForUncounted
\* ... one that is read moves from the uncounted to what will be written, ...
<1>6. ASSUME NEW r \in Requests, CountFailure(r) PROVE CounterInv'
  <2>1. /\ req[r].user \in Users /\ req[r].pc = "count"
        /\ req'[r].pc = "write" /\ req'[r].user = req[r].user
        /\ req'[r].failures = failures[req[r].user] + 1
        /\ req'[r].locks => req'[r].failures >= MaxFailed
        /\ \A s \in Requests : s # r => req'[s] = req[s]
        /\ failures' = failures /\ lockedUntil' = lockedUntil /\ wrong' = wrong
    BY <1>1, <1>6, CountFailureWorks
    DEF CountFailure, HandlerHasUser, Counting, Works, Same, Others
  <2>2. r \in Uncounted(req[r].user)
    BY <2>1 DEF Uncounted
  <2>3. Uncounted(req[r].user)' = Uncounted(req[r].user) \ {r}
    BY <2>1 DEF Uncounted
  <2>4. \A u \in Users : u # req[r].user => Uncounted(u)' = Uncounted(u)
    BY <2>1 DEF Uncounted
  <2>5. /\ IsFiniteSet(Uncounted(req[r].user)')
        /\ Cardinality(Uncounted(req[r].user)') = Cardinality(Uncounted(req[r].user)) - 1
    BY <1>3, <2>1, <2>2, <2>3, FS_RemoveElement
  <2>6. ASSUME NEW u \in Users PROVE Room(u)'
    <3>1. CASE u = req[r].user
      BY <1>1, <1>3, <2>1, <2>5, <3>1
    <3>2. CASE u # req[r].user
      BY <1>1, <1>3, <2>1, <2>4, <3>2
    <3>3. QED BY <3>1, <3>2
  <2>7. LocksAtThreshold'
    BY <1>3, <2>1 DEF LocksAtThreshold
  <2>8. QED BY <1>2, <2>6, <2>7 DEF CounterInv, RoomForUncounted
\* ... one that is written left room for the rest, ...
<1>7. ASSUME NEW r \in Requests, WriteFailure(r) PROVE CounterInv'
  <2>1. /\ req[r].user \in Users /\ req[r].pc = "write"
        /\ req'[r].pc \notin {"count", "write"}
        /\ \A s \in Requests : s # r => req'[s] = req[s]
        /\ wrong' = wrong
    <3>1. ~WrongPassword(r)
      BY <1>7 DEF WrongPassword, WriteFailure
    <3>2. QED
      BY <1>1, <1>7, <3>1, AnswerWorks
      DEF WriteFailure, HandlerHasUser, Counting, Works, Others
  <2>2. \A u \in Users : Uncounted(u)' = Uncounted(u)
    BY <2>1 DEF Uncounted
  <2>3. /\ failures'[req[r].user] = req[r].failures
        /\ \A u \in Users : u # req[r].user => failures'[u] = failures[u]
    BY <1>1, <1>7, <2>1 DEF WriteFailure
  <2>4. /\ lockedUntil'[req[r].user] = 0 \/ req[r].locks
        /\ \A u \in Users : u # req[r].user => lockedUntil'[u] = lockedUntil[u]
    BY <1>1, <1>7, <2>1 DEF WriteFailure
  <2>5. ASSUME NEW u \in Users PROVE Room(u)'
    <3>1. CASE u = req[r].user
      BY <1>3, <2>1, <2>2, <2>3, <3>1
    <3>2. CASE u # req[r].user
      BY <1>3, <2>1, <2>2, <2>3, <3>2
    <3>3. QED BY <3>1, <3>2
  <2>6. req[r].locks => wrong[req[r].user] >= MaxFailed
    BY <1>1, <1>3, <1>4, <2>1
  <2>7. LocksAtThreshold'
    BY <1>3, <2>1, <2>4, <2>6 DEF LocksAtThreshold
  <2>8. QED BY <1>2, <2>5, <2>7 DEF CounterInv, RoomForUncounted
\* ... and no other step takes any.
<1>8. ASSUME Carries PROVE CounterInv'
  <2>1. /\ \A s \in Requests : req'[s].pc \in {"count", "write"} => req'[s] = req[s]
        /\ wrong' = wrong
        /\ \A u \in Users : failures'[u] \in {failures[u], 0}
        /\ \A u \in Users : lockedUntil'[u] \in {lockedUntil[u], 0}
    BY <1>8 DEF Carries
  <2>2. ASSUME NEW u \in Users PROVE Room(u)'
    <3>1. Uncounted(u)' \subseteq Uncounted(u)
      BY <2>1 DEF Uncounted
    <3>2. /\ IsFiniteSet(Uncounted(u)')
          /\ Cardinality(Uncounted(u)') <= Cardinality(Uncounted(u))
          /\ Cardinality(Uncounted(u)') \in Nat
      BY <1>3, <3>1, FS_Subset, FS_CardinalityType
    <3>3. QED BY <1>1, <1>3, <2>1, <3>2
  <2>3. LocksAtThreshold'
    BY <1>3, <2>1 DEF LocksAtThreshold
  <2>4. QED BY <1>2, <2>2, <2>3 DEF CounterInv, RoomForUncounted
<1>9. QED BY <1>1, <1>5, <1>6, <1>7, <1>8, OthersCarry

(***************************************************************************)
(* A wrong password is counted at most once, by any number of requests at   *)
(* once and whatever dies with one, so no lock comes before the threshold.  *)
(***************************************************************************)
THEOREM NoEarlyLock == Spec => []NeverLockedEarly
<1>1. CounterInv => NeverLockedEarly
  <2> SUFFICES ASSUME CounterInv, NEW u \in Users
               PROVE  failures[u] <= wrong[u] /\ (lockedUntil[u] > 0 => wrong[u] >= MaxFailed)
    BY DEF NeverLockedEarly
  <2>1. /\ failures[u] \in Nat /\ wrong[u] \in Nat /\ IsFiniteSet(Uncounted(u))
        /\ failures[u] + Cardinality(Uncounted(u)) <= wrong[u]
    BY DEF CounterInv, FactorsInv, TypeOK, RoomForUncounted
  <2>2. Cardinality(Uncounted(u)) \in Nat
    BY <2>1, FS_CardinalityType
  <2>3. failures[u] <= wrong[u]
    BY <2>1, <2>2
  <2>4. QED BY <2>3 DEF CounterInv, LocksAtThreshold
<1>2. QED BY <1>1, CounterInit, CounterStep, PTL DEF Spec
===============================================================================
