-------------------------------- MODULE MCReseal --------------------------------
(***************************************************************************)
(* A small instance of Reseal: four rows in batches of two, one of which     *)
(* the old key does not open.                                               *)
(***************************************************************************)
EXTENDS Reseal

CONSTANTS e1, e2, e3, e4, t1, t2

FourRecords == {e1, e2, e3, e4}
OneDamaged == {e3}
TwoThreads == {t1, t2}
===============================================================================
