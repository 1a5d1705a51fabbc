---------------------------- MODULE MCAuditAnchor ----------------------------
(***************************************************************************)
(* Small instances of AuditAnchor: threads of one server, and a server     *)
(* with a maintenance script beside it.                                    *)
(***************************************************************************)
EXTENDS AuditAnchor, TLC

CONSTANTS t1, t2, web, cron, nobody

OneServer == (t1 :> web) @@ (t2 :> web)
ServerAndScript == (t1 :> web) @@ (t2 :> cron)

\* The threads of one process are interchangeable.
ServerThreads == Permutations({t1, t2})

\* Where a thread goes after anchoring is read only on its way there.  While the
\* power holds a good verdict says no more to a property than none, and once it
\* failed none asks whose an entry was.
Distinguished ==
    <<ledger, durable, written, anchors, sent, witness, lock, pc,
      [t \in Threads |-> IF t \in InFlight THEN then[t] ELSE "idle"], head, last,
      [t \in InFlight |-> IF losses = 0 THEN own[t] ELSE 0],
      IF losses = 0 THEN abandoned \ {0} ELSE {},
      IF losses = 0 /\ verdict \in {"ok", "no_anchors"} THEN "none" ELSE verdict,
      crashes, losses, removed>>
===============================================================================
