------------------------------- MODULE MCEdgeAgent -------------------------------
(***************************************************************************)
(* Small instances of EdgeAgent: two files of one or two reads each, of     *)
(* which one may be malformed.                                              *)
(***************************************************************************)
EXTENDS EdgeAgent, TLC

CONSTANTS f1, f2, c1, c2

TwoFiles == {f1, f2}
TwoAndOne == f1 :> 2 @@ f2 :> 1
OneEach == f1 :> 1 @@ f2 :> 1
OneMalformed == {<<f2, 1, 1>>}
NoneMalformed == {}
TwoCalls == {c1, c2}
SameCalls == Permutations(TwoCalls)

\* Of a crash, a fault and a suspension, any two happen.  No fair action waits
\* for a mishap, so that this leaves all other behaviours as they are.
TwoMishaps == count.crash + count.fault + count.suspension <= 2
BoundedFairSpec ==
    /\ EdgeInit /\ [][EdgeNext /\ TwoMishaps']_edgeVars
    /\ WF_edgeVars(AgentStep)
    /\ \A c \in Calls : WF_edgeVars(Serve(c))
===============================================================================
