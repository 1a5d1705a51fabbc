-------------------------------- MODULE Sources --------------------------------
(***************************************************************************)
(* One sensor feed and its keys, as the commands of manage_sources.py       *)
(* change them.  A command is a process of its own: each of its statements  *)
(* commits by itself, other commands and the server run in between, and it  *)
(* may die after any of them (a signal, a busy database, a signing source   *)
(* whose store has no cipher: issue_source_credential raises).              *)
(*                                                                         *)
(* A key is a number, in the order of minting.  Its row is never deleted,   *)
(* only given a revoked_at.  The ledger entry a command appends before it   *)
(* prints is no state of this module.                                       *)
(***************************************************************************)
EXTENDS Integers

CONSTANTS
    Operators,   \* bound: commands at a time
    MaxKeys      \* bound on the keys minted

ASSUME MaxKeysAssumption == MaxKeys \in Nat

VARIABLES
    status,      \* sources.status; "none": not registered
    minted,      \* how many keys there have been: 1 .. minted
    live,        \* those without a revoked_at
    shown,       \* those an operator has read from a command
    withdrawn,   \* history: keys retired because the source was revoked
    command      \* what each operator runs

sourceVars == <<status, minted, live, shown, withdrawn, command>>

NoCommand == [pc |-> "idle", previous |-> {}, key |-> 0]

SourcesTypeOK ==
    /\ status \in {"none", "active", "suspended", "revoked"}
    /\ minted \in Nat
    /\ live \subseteq 1 .. minted /\ shown \subseteq 1 .. minted
    /\ withdrawn \subseteq 1 .. minted
    /\ command \in [Operators -> [pc : {"idle", "mint", "retire", "show", "withdraw"},
                                  previous : SUBSET (1 .. minted), key : 0 .. minted]]

SourcesInit ==
    /\ status = "none"
    /\ minted = 0 /\ live = {} /\ shown = {} /\ withdrawn = {}
    /\ command = [o \in Operators |-> NoCommand]

Step(o, to) == command' = [command EXCEPT ![o].pc = to]
Start(o, at, previous) ==
    /\ command[o].pc = "idle"
    /\ command' = [command EXCEPT ![o] = [pc |-> at, previous |-> previous, key |-> 0]]

\* The row first, its key after; a second registration finds the row.
Register(o) ==
    /\ status = "none"
    /\ status' = "active"
    /\ Start(o, "mint", {})
    /\ UNCHANGED <<minted, live, shown, withdrawn>>

IssueKey(o) ==
    /\ status # "none"
    /\ Start(o, "mint", {})
    /\ UNCHANGED <<status, minted, live, shown, withdrawn>>

\* What is to be retired is read before the replacement is minted.
Rotate(o) ==
    /\ status # "none"
    /\ Start(o, "mint", live)
    /\ UNCHANGED <<status, minted, live, shown, withdrawn>>

Mint(o) ==
    /\ command[o].pc = "mint" /\ minted < MaxKeys
    /\ minted' = minted + 1
    /\ live' = live \cup {minted + 1}
    /\ command' = [command EXCEPT
         ![o].pc = IF command[o].previous = {} THEN "show" ELSE "retire", ![o].key = minted + 1]
    /\ UNCHANGED <<status, shown, withdrawn>>

AllButItsOwn(o) == live \ {command[o].key}
Retired(o) == command[o].previous

Retire(o) ==
    /\ command[o].pc = "retire"
    /\ live' = live \ Retired(o)
    /\ Step(o, "show")
    /\ UNCHANGED <<status, minted, shown, withdrawn>>

Show(o) ==
    /\ command[o].pc = "show"
    /\ shown' = shown \cup {command[o].key}
    /\ command' = [command EXCEPT ![o] = NoCommand]
    /\ UNCHANGED <<status, minted, live, withdrawn>>

Suspend(o) ==
    /\ command[o].pc = "idle" /\ status # "none"
    /\ status' = "suspended"
    /\ UNCHANGED <<minted, live, shown, withdrawn, command>>

Reactivate(o) ==
    /\ command[o].pc = "idle" /\ status # "none"
    /\ status' = "active"
    /\ UNCHANGED <<minted, live, shown, withdrawn, command>>

\* The source first, its keys after.
Revoke(o) ==
    /\ status # "none"
    /\ status' = "revoked"
    /\ Start(o, "withdraw", {})
    /\ UNCHANGED <<minted, live, shown, withdrawn>>

Withdraw(o) ==
    /\ command[o].pc = "withdraw"
    /\ live' = {} /\ withdrawn' = withdrawn \cup live
    /\ command' = [command EXCEPT ![o] = NoCommand]
    /\ UNCHANGED <<status, minted, shown>>

\* The command dies between two of its statements.
Abandon(o) ==
    /\ command[o].pc # "idle"
    /\ command' = [command EXCEPT ![o] = NoCommand]
    /\ UNCHANGED <<status, minted, live, shown, withdrawn>>

Manage(o) ==
    \/ Register(o) \/ IssueKey(o) \/ Rotate(o) \/ Mint(o) \/ Retire(o) \/ Show(o)
    \/ Suspend(o) \/ Reactivate(o) \/ Revoke(o) \/ Withdraw(o) \/ Abandon(o)

----------------------------------------------------------------------------
(***************************************************************************)
(* "the new key cannot be caught by its own rotation"                       *)
(* (manage_sources.py:94-95), nor by another one that runs meanwhile or     *)
(* died half-way: a feed nobody revoked has a key that works, the one       *)
(* minted last.                                                             *)
(***************************************************************************)
FeedKeepsItsKey == minted > 0 => minted \in live \cup withdrawn

(***************************************************************************)
(* "so an operator always has the replacement in hand at the moment the     *)
(* feed stops accepting the old" (manage_sources.py:90-91).  The new key is *)
(* printed last.                                                            *)
(***************************************************************************)
OperatorHasReplacement ==
    shown # {} /\ withdrawn = {} => shown \cap live # {}
===============================================================================
