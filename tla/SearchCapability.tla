--------------------------- MODULE SearchCapability ---------------------------
(***************************************************************************)
(* The search implements the bounded-use capability too: the application,  *)
(* the transport and a custodian that crashes and restarts, with one use   *)
(* for each record and not for each search.                                *)
(*                                                                         *)
(* The custodian remembers a use in its row, which start-up purges, and in *)
(* its ledger, where only an opening is counted; a use whose handler died  *)
(* with the process is in neither.  So what was spent is remembered here,  *)
(* in two history variables which no step of the search reads.             *)
(***************************************************************************)
EXTENDS CustodianSearch

VARIABLES
    uses,   \* history: the uses claim() granted of each approval
    bought  \* history: the proofs of presence they were paid with

countingVars == <<vars, uses, bought>>

\* The step by which the handler of a call spends.
Spending(s) == call[s] = "checked" /\ call'[s] = "claimed"

Remember ==
    \/ \E s \in Searches :
          /\ Spending(s)
          /\ uses' = [uses EXCEPT ![request[s].approval] = @ + 1]
          /\ bought' = bought \cup ({ProofSpent(s)} \ {NoProof})
    \/ /\ \A s \in Searches : ~Spending(s)
       /\ UNCHANGED <<uses, bought>>

CountingInit ==
    /\ Init
    /\ uses = [a \in Approvals |-> 0]
    /\ bought = {}

CountingSpec == CountingInit /\ [][Next /\ Remember]_countingVars
CountingFairSpec == CountingSpec /\ \A s \in Searches : WF_vars(Step(s))

Cap == INSTANCE Capability

\* "No way to open more than one record per verified approval-and-presence
\* pair" (custodian.py), seen from the outside: whatever searches, timeouts,
\* crashes, purges and new registries there are, what is spent is spent as the
\* capability allows.
SearchImplementsCapability == Cap!Spec

\* And records are opened by what was spent: each opening in the ledger has the
\* number of one of its approval's uses, and with presence its proof has paid.
OpeningsAreUses ==
    \A s \in Searches : \A d \in GrantedTo(s) :
        /\ d.use \in 1 .. uses[approval[s]]
        /\ approval[s] \in Presence => proof[s] \in bought
===============================================================================
