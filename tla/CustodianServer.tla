---------------------------- MODULE CustodianServer ----------------------------
(***************************************************************************)
(* The custodian's process (scripts/custodian_server.py) around the opening *)
(* that Custodian models: its listener, one connection and one thread per   *)
(* request, the dispatch with its roles, and the scope tokens it mints.     *)
(* On vsock (VsockServer of justikey/transport.py) a semaphore bounds the   *)
(* connections and a time limit every recv; on HTTP, for development,       *)
(* ThreadingHTTPServer does neither.                                        *)
(***************************************************************************)
EXTENDS RateLimiter, FiniteSets

CONSTANTS
    Mixes,          \* what the connections may ask: each [op, role, approved]
    MaxConnections, \* --max-connections
    MaxPieces,      \* bound on the recv calls that bring one frame
    MaxLives        \* bound on the starts of the process

Operations == {"search-token", "index", "open"}
Roles == {"disclosure", "ingest"}

ASSUME ServerAssumption ==
    /\ Mixes \subseteq [Requests -> [op : Operations, role : Roles, approved : BOOLEAN]]
    /\ Buckets = {"search_calls", "index_calls"}
    /\ MaxConnections \in Nat
    /\ MaxPieces \in Nat
    /\ MaxLives \in Nat
    /\ IsFiniteSet(Requests)

VARIABLES
    ask,        \* the operation, role and approval each connection brings
    transport,  \* "vsock" or "http", for the life of the deployment
    up,         \* whether the process runs
    slots,      \* VsockServer._slots
    pc,         \* where each connection is
    pieces,     \* how many parts of the frame it is reading have come
    reply,      \* what its handler is about to answer
    got,        \* what its peer has received
    ledger      \* the tokens' entries of the custodian's ledger

vars == <<limiterVars, ask, transport, up, slots, pc, pieces, reply, got, ledger>>

Held == {"accepted", "reading", "dispatching", "clocking", "counting",
         "recording", "answering", "closing"}
Open == Held \cup {"waiting"}
\* "other" is any answer that is about no token: 400, 500, a role refused, and
\* whatever "open" answers.
Replies == {"none", "token", "limited", "unapproved", "other"}

TypeOK ==
    /\ LimiterTypeOK
    /\ ask \in Mixes
    /\ transport \in {"vsock", "http"}
    /\ up \in BOOLEAN
    /\ slots \in Nat
    /\ pc \in [Requests -> Open \cup {"idle", "ended"}]
    /\ pieces \in [Requests -> 0 .. MaxPieces]
    /\ reply \in [Requests -> Replies]
    /\ got \in [Requests -> Replies \cup {"refused"}]
    /\ ledger \subseteq (Requests \X {"token", "limited", "unapproved"})

Init ==
    /\ LimiterInit
    /\ ask \in Mixes
    /\ transport \in {"vsock", "http"}
    /\ up = TRUE
    /\ slots = MaxConnections
    /\ pc = [c \in Requests |-> "idle"]
    /\ pieces = [c \in Requests |-> 0]
    /\ reply = [c \in Requests |-> "none"]
    /\ got = [c \in Requests |-> "none"]
    /\ ledger = {}

Goto(c, place) == pc' = [pc EXCEPT ![c] = place]

Prepare(c, answer) == reply' = [reply EXCEPT ![c] = answer]

-------------------------------------------------------------------------------
(* The listener: serve_forever *)

Connect(c) ==
    /\ up
    /\ pc[c] = "idle"
    /\ Goto(c, "waiting")
    /\ UNCHANGED <<limiterVars, ask, transport, up, slots, pieces, reply, got, ledger>>

\* One loop accepts; it comes back once the thread of the last is started.
\* On vsock a connection that finds no slot is closed at once.
Accept(c) ==
    /\ pc[c] = "waiting"
    /\ \A d \in Requests : pc[d] # "accepted"
    /\ \/ /\ transport = "vsock"
          /\ slots > 0
          /\ slots' = slots - 1
          /\ Goto(c, "accepted")
          /\ UNCHANGED got
       \/ /\ transport = "vsock"
          /\ slots = 0
          /\ got' = [got EXCEPT ![c] = "refused"]
          /\ Goto(c, "ended")
          /\ UNCHANGED slots
       \/ /\ transport = "http"
          /\ Goto(c, "accepted")
          /\ UNCHANGED <<slots, got>>
    /\ UNCHANGED <<limiterVars, ask, transport, up, pieces, reply, ledger>>

BeginThread(c) ==
    /\ pc[c] = "accepted"
    /\ Goto(c, "reading")
    /\ UNCHANGED <<limiterVars, ask, transport, up, slots, pieces, reply, got, ledger>>

\* Every thread is a daemon: it dies with the process, as does the backlog.
Exit ==
    /\ up' = FALSE
    /\ pc' = [c \in Requests |-> IF pc[c] \in Open THEN "ended" ELSE pc[c]]
    /\ pieces' = [c \in Requests |-> 0]
    /\ reply' = [c \in Requests |-> "none"]
    /\ UNCHANGED <<limiterVars, ask, transport, slots, got, ledger>>

\* No more threads: socketserver drops the connection, while VsockServer's
\* loop raises, main shuts the listener and the process ends.
NoThread(c) ==
    /\ pc[c] = "accepted"
    /\ \/ transport = "vsock" /\ life < MaxLives /\ Exit
       \/ /\ transport = "http"
          /\ Goto(c, "closing")
          /\ UNCHANGED <<limiterVars, ask, transport, up, slots, pieces, reply, got, ledger>>

-------------------------------------------------------------------------------
(* One connection: serve_connection *)

ReadPiece(c) ==
    /\ pc[c] = "reading"
    /\ pieces[c] < MaxPieces
    /\ pieces' = [pieces EXCEPT ![c] = @ + 1]
    /\ UNCHANGED <<limiterVars, ask, transport, up, slots, pc, reply, got, ledger>>

ReadFrame(c) ==
    /\ pc[c] = "reading"
    /\ pieces' = [pieces EXCEPT ![c] = 0]
    /\ \/ Goto(c, "dispatching") /\ UNCHANGED reply
       \/ Prepare(c, "other") /\ Goto(c, "answering")
    /\ UNCHANGED <<limiterVars, ask, transport, up, slots, got, ledger>>

PeerGone(c) ==
    /\ pc[c] = "reading"
    /\ Goto(c, "closing")
    /\ pieces' = [pieces EXCEPT ![c] = 0]
    /\ UNCHANGED <<limiterVars, ask, transport, up, slots, reply, got, ledger>>

\* (Mutants: a timed-out thread keeps its slot; the limit is set only once
\* the header has come.)
ReadTimeoutKeepsSlot(c) ==
    /\ transport = "vsock"
    /\ pc[c] = "reading"
    /\ Goto(c, "ended")
    /\ pieces' = [pieces EXCEPT ![c] = 0]
    /\ UNCHANGED <<limiterVars, ask, transport, up, slots, reply, got, ledger>>
ReadTimeoutAfterHeader(c) ==
    /\ transport = "vsock"
    /\ pc[c] = "reading"
    /\ pieces[c] > 0
    /\ Goto(c, "closing")
    /\ pieces' = [pieces EXCEPT ![c] = 0]
    /\ UNCHANGED <<limiterVars, ask, transport, up, slots, reply, got, ledger>>
\* The limit is on one recv, so a peer that sends a little now and then is
\* waited for as long as its frame has parts.
ReadTimeout(c) ==
    /\ transport = "vsock"
    /\ pc[c] = "reading"
    /\ Goto(c, "closing")
    /\ pieces' = [pieces EXCEPT ![c] = 0]
    /\ UNCHANGED <<limiterVars, ask, transport, up, slots, reply, got, ledger>>

\* vsock has no credentials: every caller is a "disclosure" caller.
Role(c) == IF transport = "vsock" THEN "disclosure" ELSE ask[c].role

Permitted(c) ==
    \/ ask[c].op = "index" /\ Role(c) = "ingest"
    \/ ask[c].op \in {"search-token", "open"} /\ Role(c) = "disclosure"

\* The role first, then the approval in full, and only then the limiter.
\* What "open" does is Custodian's; here it holds its slot.
Dispatch(c) ==
    /\ pc[c] = "dispatching"
    /\ \/ /\ Permitted(c) => ask[c].op = "open"
          /\ Prepare(c, "other")
          /\ Goto(c, "answering")
       \/ /\ Permitted(c)
          /\ ask[c].op = "search-token"
          /\ ~ask[c].approved
          /\ Prepare(c, "unapproved")
          /\ Goto(c, "recording")
       \/ /\ Permitted(c)
          /\ ask[c].op = "index" \/ (ask[c].op = "search-token" /\ ask[c].approved)
          /\ Goto(c, "clocking")
          /\ UNCHANGED reply
    /\ UNCHANGED <<limiterVars, ask, transport, up, slots, pieces, got, ledger>>

Bucket(c) == IF ask[c].op = "index" THEN "index_calls" ELSE "search_calls"

EnterLimiter(c) ==
    /\ pc[c] = "clocking"
    /\ \/ /\ limit = 0
          /\ Prepare(c, "token")
          /\ Goto(c, "recording")
          /\ UNCHANGED limiterVars
       \/ /\ ReadClock(c)
          /\ Goto(c, "counting")
          /\ UNCHANGED reply
    /\ UNCHANGED <<ask, transport, up, slots, pieces, got, ledger>>

Count(c) ==
    /\ pc[c] = "counting"
    /\ \/ Admit(c, Bucket(c)) /\ Prepare(c, "token")
       \/ Deny(c, Bucket(c)) /\ Prepare(c, "limited")
    /\ Goto(c, "recording")
    /\ UNCHANGED <<ask, transport, up, slots, pieces, got, ledger>>

\* The entry comes before the answer.  When the ledger cannot be written the
\* exception is a 500 on vsock and no answer at all on HTTP.
Record(c) ==
    /\ pc[c] = "recording"
    /\ \/ /\ ledger' = ledger \cup {<<c, reply[c]>>}
          /\ Goto(c, "answering")
          /\ UNCHANGED reply
       \/ /\ transport = "vsock"
          /\ Prepare(c, "other")
          /\ Goto(c, "answering")
          /\ UNCHANGED ledger
       \/ /\ transport = "http"
          /\ Prepare(c, "none")
          /\ Goto(c, "closing")
          /\ UNCHANGED ledger
    /\ UNCHANGED <<limiterVars, ask, transport, up, slots, pieces, got>>

\* The peer may be gone, or not read: the OSError ends the thread.
Answer(c) ==
    /\ pc[c] = "answering"
    /\ \E lost \in BOOLEAN :
         got' = IF lost THEN got ELSE [got EXCEPT ![c] = reply[c]]
    /\ Prepare(c, "none")
    /\ Goto(c, "closing")
    /\ UNCHANGED <<limiterVars, ask, transport, up, slots, pieces, ledger>>

\* The finally blocks of _serve_one, reached from every way out.
Close(c) ==
    /\ pc[c] = "closing"
    /\ slots' = IF transport = "vsock" THEN slots + 1 ELSE slots
    /\ Goto(c, "ended")
    /\ UNCHANGED <<limiterVars, ask, transport, up, pieces, reply, got, ledger>>

-------------------------------------------------------------------------------
(* The process and the clock *)

Crash == up /\ life < MaxLives /\ Exit

Start ==
    /\ ~up
    /\ up' = TRUE
    /\ slots' = MaxConnections
    /\ Forget
    /\ UNCHANGED <<ask, transport, pc, pieces, reply, got, ledger>>

Tick == Advance /\ UNCHANGED <<ask, transport, up, slots, pc, pieces, reply, got, ledger>>

Serve(c) ==
    \/ Accept(c) \/ BeginThread(c) \/ NoThread(c)
    \/ ReadPiece(c) \/ ReadFrame(c) \/ PeerGone(c) \/ ReadTimeout(c)
    \/ Dispatch(c) \/ EnterLimiter(c) \/ Count(c) \/ Record(c) \/ Answer(c) \/ Close(c)

Next == Tick \/ Crash \/ Start \/ \E c \in Requests : Connect(c) \/ Serve(c)

Spec == Init /\ [][Next]_vars

\* Threads run and the loop accepts.  No peer is obliged to send: of a recv
\* only the time limit is sure to come, and HTTP has none.
Work(c) ==
    \/ Accept(c) \/ BeginThread(c) \/ ReadTimeout(c)
    \/ Dispatch(c) \/ EnterLimiter(c) \/ Count(c) \/ Record(c) \/ Answer(c) \/ Close(c)

FairSpec == Spec /\ \A c \in Requests : WF_vars(Work(c))

-------------------------------------------------------------------------------
(* Properties *)

Holders == {c \in Requests : pc[c] \in Held}

(***************************************************************************)
(* "a parent that opens ten thousand half-finished connections should be   *)
(* refused rather than absorbed" (transport.py:240-242): however a         *)
(* connection ends - answered, garbled, timed out, reset, its handler      *)
(* raising - its slot comes back, once.  So at most MaxConnections are     *)
(* held, and one is refused only while that many are.                      *)
(***************************************************************************)
SlotsConserved ==
    transport = "vsock" /\ up => slots + Cardinality(Holders) = MaxConnections

(***************************************************************************)
(* A token that reached a caller is in the ledger (op_search_token and     *)
(* op_index record before they answer) and, when a limit is set, was       *)
(* counted by the limiter, whatever happened to the process since.         *)
(***************************************************************************)
TokensArePaidFor ==
    \A c \in Requests : got[c] = "token" =>
        /\ <<c, "token">> \in ledger
        /\ limit > 0 => \E i \in 1 .. Len(counted[Bucket(c)]) : counted[Bucket(c)][i].by = c
        /\ ask[c].op = "search-token" => ask[c].approved

(***************************************************************************)
(* On vsock no connection hangs for ever, whatever its peer sends or does  *)
(* not send: it is refused, answered, or dropped.                          *)
(***************************************************************************)
EveryConnectionEnds ==
    \A c \in Requests : transport = "vsock" /\ pc[c] \in Open ~> pc[c] = "ended"
===============================================================================
