------------------------------- MODULE MCCeremony -------------------------------
(***************************************************************************)
(* A small instance of Ceremony: two rows, one secret, one request at a     *)
(* time, and credentials that are re-keyed up to twice.                     *)
(***************************************************************************)
EXTENDS Ceremony, TLC

CONSTANTS e1, e2, totp, t1

TwoRecords == {e1, e2}
OneSecret == {totp}
OneThread == {t1}

\* Bounds: nothing is explored past a run of encrypt_store over a sealed store,
\* nor past a second re-keying where encrypt_store left something in plaintext.
\* A refusal of destroy-legacy-key leaves all but the history of refusals as it
\* was, so that nothing new comes after it.
Bounded ==
    /\ ~downgraded
    /\ refusals = {}
    /\ made > 1 => Count("plain") = 0 /\ \A c \in Credentials : credentials[c] # Plain

\* No action reads the ledger, and of a ceremony in which a command died no
\* property of the run does: such states are told apart by the rest.
Distinguished ==
    <<database, service, files, manifest, IF died THEN {} ELSE ledger, thread, cmd,
      history, died>>

Symmetric == Permutations(Records) \cup Permutations(Credentials) \cup Permutations(Threads)
===============================================================================
