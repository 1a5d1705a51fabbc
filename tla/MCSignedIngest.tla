----------------------------- MODULE MCSignedIngest -----------------------------
(***************************************************************************)
(* Small instances of SignedIngest.  The window is two units of time, and   *)
(* time runs past the moment the first nonce is forgotten.                  *)
(***************************************************************************)
EXTENDS SignedIngest, TLC

CONSTANTS m1, m2, h1, h2, o1, o2

TwoMessages == {m1, m2}
TwoHandlers == {h1, h2}
TwoOperators == {o1, o2}
SameNames == Permutations(TwoMessages) \cup Permutations(TwoHandlers) \cup Permutations(TwoOperators)

\* Time is the nonces' matter and commands are the keys': beyond ManagedUntil,
\* and with a second message, only states with one key and no command are
\* followed.
ManagedUntil == 0
OneKeyOnly ==
    /\ minted = 1 /\ shown = {1} /\ live = {1} /\ status = "active"
    /\ \A o \in Operators : command[o] = NoCommand
Bounded ==
    \/ purgesFirst \/ OneKeyOnly
    \/ now <= ManagedUntil /\ \A m, n \in sent : m = n
===============================================================================
