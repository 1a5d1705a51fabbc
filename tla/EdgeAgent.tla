-------------------------------- MODULE EdgeAgent --------------------------------
(***************************************************************************)
(* An observation's way from a frame at the camera to a row of the store:   *)
(* the scan, the spool and the flush of scripts/edge_agent.py, and the      *)
(* /ingest handler of justikey/webapp.py that answers them.                 *)
(*                                                                         *)
(* A frame is a file name and a version: a camera that writes a file again  *)
(* makes the next version, with another key (edge_agent.py:155).  A read is *)
(* a frame and a position among what the recognizer finds in it.            *)
(*                                                                         *)
(* Either side may die between any two steps: the agent keeps its two files *)
(* and comes back, the server keeps its committed rows.  The agent may give *)
(* up on a request the server is still working on.  Faults are counted and  *)
(* bounded; everything else repeats for ever.                               *)
(***************************************************************************)
EXTENDS Integers, Sequences, FiniteSets

CONSTANTS
    Names,       \* of the files the camera writes
    MaxVersion,  \* bound: how often it writes each
    ReadsIn,     \* how many reads each file holds
    Malformed,   \* reads the source's adapter rejects
    BatchSize,   \* --batch-size
    MaxBatch,    \* config.MAX_BATCH_OBSERVATIONS
    Calls,       \* bound: requests in the server at once
    MaxCrashes,  \* bound: the agent's restarts
    MaxFaults,   \* bound: everything else that fails
    MaxSuspensions, \* bound: how often the source is suspended
    NoFrame, NoCall

Frames == Names \X (1 .. MaxVersion)
ReadsOf(f) == {<<f[1], f[2], i>> : i \in 1 .. ReadsIn[f[1]]}
Reads == UNION {ReadsOf(f) : f \in Frames}

ASSUME ReadsAssumption == ReadsIn \in [Names -> Nat] /\ Malformed \subseteq Reads
ASSUME BoundsAssumption ==
    /\ {MaxVersion, MaxCrashes, MaxFaults, MaxSuspensions} \subseteq Nat
    /\ {BatchSize, MaxBatch} \subseteq Nat \ {0}
ASSUME EdgeNamesAssumption == NoFrame \notin Frames /\ NoCall \notin Calls

VARIABLES
    deleteAfter, \* --delete-after, given once when the agent is set up
    shot,      \* the last version the camera wrote of each file
    watch,     \* the watch directory: the version of each file, 0 for none
    saved,     \* the --state file: frames already recognized
    processed, \* ProcessedFrames._keys, in memory
    spool,     \* the --buffer file
    agent,     \* the agent's local state
    call,      \* the /ingest handlers' local state
    active,    \* the source's status is active
    stored,    \* lpr_events: rows of each read
    audited,   \* rows of each read that a sensor_ingest entry counts
    refused,   \* reads an ingest_rejected entry counts
    givenUp,   \* history: reads the agent dropped on a refusal
    readings,  \* history: how often each frame went to the recognizer
    count      \* crashes, faults and suspensions so far

files == <<saved, spool>>
tables == <<stored, audited, refused>>
history == <<givenUp, readings>>
edgeVars == <<deleteAfter, shot, watch, files, processed, agent, call, active, tables, history, count>>

Free == [pc |-> "free", batch |-> <<>>, next |-> 0, accepted |-> <<>>,
         rejected |-> {}, answer |-> "none"]
Started == [pc |-> "scan", todo |-> {}, frame |-> NoFrame, unread |-> <<>>,
            new |-> FALSE, pending |-> <<>>, rest |-> <<>>, call |-> NoCall]

Elements(s) == {s[i] : i \in DOMAIN s}
Occurrences(r, s) == Cardinality({i \in DOMAIN s : s[i] = r})

EdgeTypeOK ==
    /\ deleteAfter \in BOOLEAN
    /\ shot \in [Names -> 0 .. MaxVersion]
    /\ \A n \in Names : watch[n] \in {0, shot[n]}
    /\ saved \subseteq Frames /\ processed \subseteq Frames
    /\ \A s \in {spool, agent.unread, agent.pending, agent.rest} : Elements(s) \subseteq Reads
    /\ agent.pc \in {"scan", "frame", "spool", "save", "flush", "send", "wait", "keep"}
    /\ agent.todo \subseteq Names /\ agent.frame \in Frames \cup {NoFrame}
    /\ agent.call \in Calls \cup {NoCall}
    /\ (agent.pc = "wait") = (agent.call # NoCall)
    /\ \A c \in Calls :
         /\ call[c].pc \in {"free", "authenticate", "items", "report", "answered"}
         /\ call[c].next \in 0 .. Len(call[c].batch)
         /\ Elements(call[c].accepted) \subseteq Elements(call[c].batch)
         /\ call[c].rejected \subseteq Elements(call[c].batch) \cap Malformed
    /\ active \in BOOLEAN
    /\ \A r \in Reads : stored[r] \in Nat /\ audited[r] \in Nat
    /\ refused \subseteq Malformed /\ givenUp \subseteq Reads
    /\ \A f \in Frames : readings[f] \in Nat
    /\ count.crash \in 0 .. MaxCrashes /\ count.fault \in 0 .. MaxFaults

EdgeInit ==
    /\ deleteAfter \in BOOLEAN
    /\ shot = [n \in Names |-> 0] /\ watch = shot
    /\ saved = {} /\ processed = {} /\ spool = <<>>
    /\ agent = Started
    /\ call = [c \in Calls |-> Free]
    /\ active = TRUE
    /\ stored = [r \in Reads |-> 0] /\ audited = stored
    /\ refused = {} /\ givenUp = {}
    /\ readings = [f \in Frames |-> 0]
    /\ count = [crash |-> 0, fault |-> 0, suspension |-> 0]

Fault == /\ count.fault < MaxFaults
         /\ count' = [count EXCEPT !.fault = @ + 1]

----------------------------------------------------------------------------
(***************************************************************************)
(* The camera and the operator.                                             *)
(***************************************************************************)
Shoot(n) ==
    /\ shot[n] < MaxVersion
    /\ shot' = [shot EXCEPT ![n] = @ + 1]
    /\ watch' = [watch EXCEPT ![n] = shot[n] + 1]
    /\ UNCHANGED <<deleteAfter, files, processed, agent, call, active, tables, history, count>>

\* manage_sources.py suspend, and reactivate.
SuspendFeed ==
    /\ active /\ count.suspension < MaxSuspensions
    /\ active' = FALSE
    /\ count' = [count EXCEPT !.suspension = @ + 1]
    /\ UNCHANGED <<deleteAfter, shot, watch, files, processed, agent, call, tables, history>>

ReactivateFeed ==
    /\ ~active /\ active' = TRUE
    /\ UNCHANGED <<deleteAfter, shot, watch, files, processed, agent, call, tables, history, count>>

----------------------------------------------------------------------------
(***************************************************************************)
(* The agent's loop: the scan.                                              *)
(***************************************************************************)
Present == {<<n, watch[n]>> : n \in {m \in Names : watch[m] > 0}}

Scan ==
    /\ agent.pc = "scan"
    /\ agent' = [Started EXCEPT !.pc = "frame", !.todo = {n \in Names : watch[n] > 0}]
    /\ UNCHANGED <<deleteAfter, shot, watch, files, processed, call, active, tables, history, count>>

\* The files are taken in the order of their names, which means nothing here.
Skip(n) ==
    /\ agent.pc = "frame" /\ n \in agent.todo
    /\ <<n, watch[n]>> \in processed
    /\ agent' = [agent EXCEPT !.todo = @ \ {n}]
    /\ UNCHANGED <<deleteAfter, shot, watch, files, processed, call, active, tables, history, count>>

Recognize(n) ==
    LET frame == <<n, watch[n]>> IN
    /\ agent.pc = "frame" /\ n \in agent.todo
    /\ frame \notin processed
    /\ agent' = [agent EXCEPT !.pc = "spool", !.frame = frame, !.new = TRUE,
                   !.unread = [i \in 1 .. ReadsIn[n] |-> <<n, watch[n], i>>]]
    /\ readings' = [readings EXCEPT ![frame] = @ + 1]
    /\ UNCHANGED <<deleteAfter, shot, watch, files, processed, call, active, tables, givenUp, count>>

Appended(r) == Append(spool, r)

Spool ==
    /\ agent.pc = "spool" /\ agent.unread # <<>>
    /\ spool' = Appended(Head(agent.unread))
    /\ agent' = [agent EXCEPT !.unread = Tail(@)]
    /\ UNCHANGED <<deleteAfter, shot, watch, saved, processed, call, active, tables, history, count>>

Removed(name) == IF deleteAfter THEN 0 ELSE watch[name]

\* The key is taken from the file as it is now, which is also what is removed.
Mark ==
    LET name == agent.frame[1] IN
    /\ agent.pc = "spool" /\ agent.unread = <<>>
    /\ processed' = processed \cup {<<name, watch[name]>>}
    /\ \/ /\ watch' = [watch EXCEPT ![name] = Removed(name)]
          /\ UNCHANGED count
       \/ deleteAfter /\ Fault /\ UNCHANGED watch
    /\ agent' = [agent EXCEPT !.pc = "frame", !.frame = NoFrame, !.todo = @ \ {name}]
    /\ UNCHANGED <<deleteAfter, shot, files, call, active, tables, history>>

AfterScanIdle == IF agent.new THEN "save" ELSE "scan"
AfterScan == IF agent.new THEN "save" ELSE "flush"

ScanDone ==
    /\ agent.pc = "frame" /\ agent.todo = {}
    /\ agent' = [agent EXCEPT !.pc = AfterScan]
    /\ UNCHANGED <<deleteAfter, shot, watch, files, processed, call, active, tables, history, count>>

Save ==
    /\ agent.pc = "save"
    /\ processed' = processed \cap Present
    /\ saved' = processed'
    /\ agent' = [agent EXCEPT !.pc = "flush"]
    /\ UNCHANGED <<deleteAfter, shot, watch, spool, call, active, tables, history, count>>

SaveFails ==
    /\ agent.pc = "save" /\ Fault
    /\ processed' = processed \cap Present
    /\ agent' = [agent EXCEPT !.pc = "flush"]
    /\ UNCHANGED <<deleteAfter, shot, watch, files, call, active, tables, history>>

----------------------------------------------------------------------------
(***************************************************************************)
(* The agent's loop: the flush.                                             *)
(***************************************************************************)
Batch == SubSeq(agent.pending, 1, IF Len(agent.pending) < BatchSize THEN Len(agent.pending)
                                  ELSE BatchSize)
Rest == SubSeq(agent.pending, BatchSize + 1, Len(agent.pending))

Flush ==
    /\ agent.pc = "flush"
    /\ agent' = [agent EXCEPT !.pc = IF spool = <<>> THEN "scan" ELSE "send", !.pending = spool]
    /\ UNCHANGED <<deleteAfter, shot, watch, files, processed, call, active, tables, history, count>>

Send(c) ==
    /\ agent.pc = "send" /\ agent.pending # <<>> /\ call[c].pc = "free"
    /\ call' = [call EXCEPT ![c] = [Free EXCEPT !.pc = "authenticate", !.batch = Batch]]
    /\ agent' = [agent EXCEPT !.pc = "wait", !.call = c, !.rest = Rest]
    /\ UNCHANGED <<deleteAfter, shot, watch, files, processed, active, tables, history, count>>

Answered(answers) == /\ agent.pc = "wait"
                     /\ call[agent.call].pc = "answered" /\ call[agent.call].answer \in answers
                     /\ call' = [call EXCEPT ![agent.call] = Free]

Delivered ==
    /\ Answered({"201"})
    /\ agent' = [agent EXCEPT !.pc = "send", !.call = NoCall, !.pending = agent.rest]
    /\ UNCHANGED <<deleteAfter, shot, watch, files, processed, active, tables, history, count>>

GiveUp ==
    /\ Answered({"400", "401", "413"})
    /\ agent' = [agent EXCEPT !.pc = "send", !.call = NoCall, !.pending = agent.rest]
    /\ givenUp' = givenUp \cup Elements(Batch)
    /\ UNCHANGED <<deleteAfter, shot, watch, files, processed, active, tables, readings, count>>

HeldRest == agent.rest
Held == agent.pending

\* Another answer, or the server closed the connection: what is pending is held.
Hold ==
    /\ \/ Answered({"500"})
       \/ agent.pc = "wait" /\ call[agent.call].pc = "free" /\ UNCHANGED call
    /\ agent' = [agent EXCEPT !.pc = "keep", !.call = NoCall, !.pending = Held]
    /\ UNCHANGED <<deleteAfter, shot, watch, files, processed, active, tables, history, count>>

\* No connection, or no answer in time: the handler may be anywhere.
LinkDown ==
    /\ Fault
    /\ \/ agent.pc = "send" /\ agent.pending # <<>> /\ UNCHANGED call
       \/ /\ agent.pc = "wait"
          /\ call' = IF call[agent.call].pc = "answered"
                       THEN [call EXCEPT ![agent.call] = Free] ELSE call
    /\ agent' = [agent EXCEPT !.pc = "keep", !.call = NoCall, !.pending = Held]
    /\ UNCHANGED <<deleteAfter, shot, watch, files, processed, active, tables, history>>

Everything == spool
Remaining == agent.pending

KeepOnly ==
    /\ agent.pc = "keep" \/ (agent.pc = "send" /\ agent.pending = <<>>)
    /\ spool' = Remaining
    /\ agent' = Started
    /\ UNCHANGED <<deleteAfter, shot, watch, saved, processed, call, active, tables, history, count>>

\* The agent dies and is started again.
Crash ==
    /\ count.crash < MaxCrashes
    /\ count' = [count EXCEPT !.crash = @ + 1]
    /\ processed' = saved
    /\ agent' = Started
    /\ call' = IF agent.pc = "wait" /\ call[agent.call].pc = "answered"
                 THEN [call EXCEPT ![agent.call] = Free] ELSE call
    /\ UNCHANGED <<deleteAfter, shot, watch, files, active, tables, history>>

----------------------------------------------------------------------------
(***************************************************************************)
(* The server: POST /ingest.  Every insert and every ledger entry commits   *)
(* on its own.                                                              *)
(***************************************************************************)
Listening(c) == agent.pc = "wait" /\ agent.call = c
Reply(c, answer) == IF Listening(c) THEN [call[c] EXCEPT !.pc = "answered", !.answer = answer]
                    ELSE Free

\* An ingest_denied entry, which nothing below speaks of, comes with a 401.
Authenticate(c) ==
    /\ call[c].pc = "authenticate"
    /\ call' = [call EXCEPT ![c] = CASE ~active -> Reply(c, "401")
                                     [] active /\ Len(@.batch) > MaxBatch -> Reply(c, "413")
                                     [] OTHER -> [@ EXCEPT !.pc = "items"]]
    /\ UNCHANGED <<deleteAfter, shot, watch, files, processed, agent, active, tables, history, count>>

Item(c) == call[c].batch[call[c].next + 1]
MoreItems(c) == call[c].pc = "items" /\ call[c].next < Len(call[c].batch)

Accept(c) ==
    /\ MoreItems(c) /\ Item(c) \notin Malformed
    /\ stored' = [stored EXCEPT ![Item(c)] = @ + 1]
    /\ call' = [call EXCEPT ![c].next = @ + 1, ![c].accepted = Append(@, Item(c))]
    /\ UNCHANGED <<deleteAfter, shot, watch, files, processed, agent, active, audited, refused, history, count>>

Reject(c) ==
    /\ MoreItems(c) /\ Item(c) \in Malformed
    /\ call' = [call EXCEPT ![c].next = @ + 1, ![c].rejected = @ \cup {Item(c)}]
    /\ UNCHANGED <<deleteAfter, shot, watch, files, processed, agent, active, tables, history, count>>

Audit(c) ==
    /\ call[c].pc = "items" /\ ~MoreItems(c)
    /\ audited' = [r \in Reads |-> audited[r] + Occurrences(r, call[c].accepted)]
    /\ call' = [call EXCEPT ![c].pc = "report"]
    /\ UNCHANGED <<deleteAfter, shot, watch, files, processed, agent, active, stored, refused, history, count>>

RejectedItems(c) == call[c].rejected

Report(c) ==
    /\ call[c].pc = "report"
    /\ refused' = refused \cup RejectedItems(c)
    /\ call' = [call EXCEPT ![c] = Reply(c, IF @.accepted # <<>> THEN "201" ELSE "400")]
    /\ UNCHANGED <<deleteAfter, shot, watch, files, processed, agent, active, stored, audited, history, count>>

\* An insert that cannot be sealed, a token service that does not answer.
Fail(c) ==
    /\ call[c].pc = "items" /\ Fault
    /\ call' = [call EXCEPT ![c] = Reply(c, "500")]
    /\ UNCHANGED <<deleteAfter, shot, watch, files, processed, agent, active, tables, history>>

ServerDies ==
    /\ Fault
    /\ \E c \in Calls : call[c].pc # "free"
    /\ call' = [c \in Calls |-> Free]
    /\ UNCHANGED <<deleteAfter, shot, watch, files, processed, agent, active, tables, history>>

Serve(c) == Authenticate(c) \/ Accept(c) \/ Reject(c) \/ Audit(c) \/ Report(c)

AgentStep ==
    \/ \E n \in Names : Skip(n) \/ Recognize(n)
    \/ \E c \in Calls : Send(c)
    \/ Scan \/ Spool \/ Mark \/ ScanDone \/ Save \/ Flush \/ Delivered \/ GiveUp \/ Hold \/ KeepOnly

EdgeNext ==
    \/ AgentStep
    \/ \E c \in Calls : Serve(c) \/ Fail(c)
    \/ \E n \in Names : Shoot(n)
    \/ SuspendFeed \/ ReactivateFeed \/ SaveFails \/ LinkDown \/ Crash \/ ServerDies

EdgeSpec == EdgeInit /\ [][EdgeNext]_edgeVars

\* The agent goes on scanning and sending, and a handler runs to its end.
FairSpec == EdgeSpec /\ WF_edgeVars(AgentStep) /\ \A c \in Calls : WF_edgeVars(Serve(c))

----------------------------------------------------------------------------
(***************************************************************************)
(* Properties.                                                              *)
(***************************************************************************)

\* A frame that will not be looked at again: the agent has its key, or it is gone.
Handled(f) == \/ f \in processed \cup saved
              \/ f[2] <= shot[f[1]] /\ watch[f[1]] # f[2]

(***************************************************************************)
(* "A camera on a flaky rural connection must not lose observations"        *)
(* (edge_agent.py:31): from the moment its frame is handled on, a read is   *)
(* in the spool, in the store, or refused by the server, whoever dies.      *)
(***************************************************************************)
NothingLost ==
    \A f \in Frames : Handled(f) =>
        \A r \in ReadsOf(f) : \/ r \in Elements(spool) \cup refused \cup givenUp
                              \/ stored[r] > 0

(***************************************************************************)
(* As long as the agent is not restarted, the store holds a read once, and  *)
(* once more for each failure of the link, the server or the disk: a batch  *)
(* that was answered is never sent again.                                   *)
(***************************************************************************)
StoredOnceUnlessFaulty ==
    count.crash = 0 => \A r \in Reads : stored[r] <= 1 + count.fault

(***************************************************************************)
(* "so a crash between the two re-reads at most one frame rather than       *)
(* losing track" (edge_agent.py:332-333), for frames that are removed: each *)
(* restart sends one of them to the recognizer again, and each file that    *)
(* could not be removed one more.                                           *)
(***************************************************************************)
RereadsAtMostOne ==
    deleteAfter => Cardinality({f \in Frames : readings[f] > 1}) <= count.crash + count.fault

(***************************************************************************)
(* What is done twice is bounded by what went wrong, in well-typed states:  *)
(* reads stored again by the faults, frames read again by the restarts.     *)
(***************************************************************************)
RepeatsAreBounded == EdgeTypeOK /\ StoredOnceUnlessFaulty /\ RereadsAtMostOne

(***************************************************************************)
(* Every read of every frame the camera wrote is stored or refused in the   *)
(* end: the scan finds it, the flush retries it, and no fault stops either. *)
(***************************************************************************)
EveryReadArrives ==
    \A r \in Reads : (r[2] <= shot[r[1]]) ~> (stored[r] > 0 \/ r \in refused \cup givenUp)

----------------------------------------------------------------------------
(***************************************************************************)
(* What the text promises and the code does not keep.                       *)
(***************************************************************************)

(***************************************************************************)
(* The same sentence for frames that stay where they are.                   *)
(***************************************************************************)
RereadsAtMostOneInPlace ==
    Cardinality({f \in Frames : readings[f] > 1}) <= count.crash + count.fault

(***************************************************************************)
(* "a genuinely re-written file is treated as new" (edge_agent.py:137-138): a   *)
(* key the agent has is that of a frame the recognizer saw.                 *)
(***************************************************************************)
RewrittenIsNew == \A f \in processed : readings[f] > 0

(***************************************************************************)
(* "The server will never accept these: a revoked credential or a malformed *)
(* batch" (edge_agent.py:241): what the agent dropped, an active source     *)
(* could not deliver either.                                                *)
(***************************************************************************)
GivenUpForGood == active => givenUp \subseteq Malformed

(***************************************************************************)
(* "sensor ingestion -- is appended to audit_log" (README.md:1026): with no *)
(* request running, every row is counted by an entry.                       *)
(***************************************************************************)
EveryRowIsAudited ==
    (\A c \in Calls : call[c].pc \notin {"items", "report"}) => stored = audited

(***************************************************************************)
(* "Duplicated reads would inflate the protected record with observations   *)
(* that never happened" (edge_agent.py:132): a frame that went to the       *)
(* recognizer once is in the store once.                                    *)
(***************************************************************************)
NoDuplicates == \A r \in Reads : stored[r] <= readings[<<r[1], r[2]>>]
===============================================================================
