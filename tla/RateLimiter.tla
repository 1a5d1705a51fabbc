------------------------------ MODULE RateLimiter ------------------------------
(***************************************************************************)
(* The sliding window that bounds scope tokens: _rate_ok of                *)
(* scripts/custodian_server.py, one list of times per bucket, and          *)
(* index_rate_ok of scripts/disclosure_server.py, the same code with one   *)
(* bucket.  A handler reads the clock BEFORE it takes the lock, so a time  *)
(* can be old when it is counted, and the list need not be sorted.         *)
(***************************************************************************)
EXTENDS Integers, Sequences

CONSTANTS
    Requests,   \* handlers, one per connection
    Buckets,    \* "search_calls" and "index_calls"
    Limits,     \* the values --index-limit may have; 0 switches it off
    Window,     \* 60.0 seconds, in ticks
    MaxTime     \* bound on the clock

ASSUME LimiterAssumption ==
    /\ Limits \subseteq Nat
    /\ Window \in Nat
    /\ MaxTime \in Nat

VARIABLES
    now,        \* time.monotonic()
    limit,      \* STATE["index_limit"]
    life,       \* how often the process was started
    stamp,      \* the time each handler in the limiter read; 0 outside it
    calls,      \* STATE[bucket]: the times still in the window
    counted     \* history: every call a bucket admitted

limiterVars == <<now, limit, life, stamp, calls, counted>>

\* One admitted call: whose, the time it read, when it was counted, and in
\* which life of the process.
Admission == [by : Requests, read : Nat, at : Nat, life : Nat]

LimiterTypeOK ==
    /\ now \in Nat
    /\ limit \in Limits
    /\ life \in Nat
    /\ stamp \in [Requests -> Nat]
    /\ calls \in [Buckets -> Seq(Nat)]
    /\ counted \in [Buckets -> Seq(Admission)]

LimiterInit ==
    /\ now = 0
    /\ limit \in Limits
    /\ life = 1
    /\ stamp = [r \in Requests |-> 0]
    /\ calls = [b \in Buckets |-> <<>>]
    /\ counted = [b \in Buckets |-> <<>>]

Advance ==
    /\ now < MaxTime
    /\ now' = now + 1
    /\ UNCHANGED <<limit, life, stamp, calls, counted>>

ReadClock(r) ==
    /\ limit > 0
    /\ stamp' = [stamp EXCEPT ![r] = now]
    /\ UNCHANGED <<now, limit, life, calls, counted>>

\* (Mutant: a time exactly a window old is popped.)
ExpiredAtWindow(r, b, n) ==
    /\ \A i \in 1 .. n : stamp[r] - calls[b][i] >= Window
    /\ n < Len(calls[b]) => stamp[r] - calls[b][n + 1] < Window

\* The loop pops from the head, and stops at the first time in the window.
Expired(r, b, n) ==
    /\ \A i \in 1 .. n : stamp[r] - calls[b][i] > Window
    /\ n < Len(calls[b]) => stamp[r] - calls[b][n + 1] <= Window

Kept(b, n) == SubSeq(calls[b], n + 1, Len(calls[b]))

\* Under the lock, the handler is counted ...
Admit(r, b) ==
    \E n \in 0 .. Len(calls[b]) :
        /\ Expired(r, b, n)
        /\ Len(calls[b]) - n < limit
        /\ calls' = [calls EXCEPT ![b] = Append(Kept(b, n), stamp[r])]
        /\ counted' = [counted EXCEPT ![b] =
               Append(@, [by |-> r, read |-> stamp[r], at |-> now, life |-> life])]
        /\ stamp' = [stamp EXCEPT ![r] = 0]
        /\ UNCHANGED <<now, limit, life>>

\* ... or refused, and the expired times are gone all the same.
Deny(r, b) ==
    \E n \in 0 .. Len(calls[b]) :
        /\ Expired(r, b, n)
        /\ Len(calls[b]) - n >= limit
        /\ calls' = [calls EXCEPT ![b] = Kept(b, n)]
        /\ stamp' = [stamp EXCEPT ![r] = 0]
        /\ UNCHANGED <<now, limit, life, counted>>

\* The window is in memory: a restart forgets it.
Forget ==
    /\ life' = life + 1
    /\ stamp' = [r \in Requests |-> 0]
    /\ calls' = [b \in Buckets |-> <<>>]
    /\ UNCHANGED <<now, limit, counted>>

-------------------------------------------------------------------------------
(***************************************************************************)
(* What --index-limit bounds (custodian_server.py:297-311): in one life of *)
(* the process, of any limit + 1 calls a bucket admits in a row, the last  *)
(* is counted more than a window after the first READ its clock.           *)
(***************************************************************************)
TokenRateBounded ==
    limit > 0 =>
        \A b \in Buckets : \A i \in 1 .. Len(counted[b]) - limit :
            LET first == counted[b][i]
                last == counted[b][i + limit]
            IN first.life = last.life => last.at > first.read + Window

\* "`--index-limit` tokens per minute" (docs/threat-model.md:37), taken at its
\* word: more than a window passes between the first and the last admission.
TokensPerMinute ==
    limit > 0 =>
        \A b \in Buckets : \A i \in 1 .. Len(counted[b]) - limit :
            counted[b][i + limit].at > counted[b][i].at + Window
===============================================================================
