--------------------------- MODULE MCCustodianServer ---------------------------
(***************************************************************************)
(* Small instances of CustodianServer.                                     *)
(***************************************************************************)
EXTENDS CustodianServer, TLC

CONSTANTS c1, c2, c3

ThreeConnections == {c1, c2, c3}
BothBuckets == {"search_calls", "index_calls"}
OffAndOne == {0, 1}

Search == [op |-> "search-token", role |-> "disclosure", approved |-> TRUE]
Forged == [op |-> "search-token", role |-> "disclosure", approved |-> FALSE]
Index == [op |-> "index", role |-> "ingest", approved |-> FALSE]
Opening == [op |-> "open", role |-> "disclosure", approved |-> TRUE]

\* Two callers of one bucket and one who takes no token; or callers of every
\* other kind, of whom the ingest caller, refused on vsock, has a bucket of its
\* own on HTTP.
TwoMixes == {(c1 :> Search) @@ (c2 :> Search) @@ (c3 :> Opening),
             (c1 :> Forged) @@ (c2 :> Index) @@ (c3 :> Opening)}
===============================================================================
