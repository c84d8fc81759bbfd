---------------------------- MODULE MCObjects ----------------------------
(***************************************************************************)
(* Instances of Objects: two threads that both receive object g1, one of   *)
(* them g2 as well, and an own object that keeps proxies.                  *)
(***************************************************************************)
EXTENDS Objects

CONSTANTS t1, t2, g1, g2, o1

TwoThreads == {t1, t2}
TwoOids == {g1, g2}
OneOwned == {o1}
Partly == [t \in TwoThreads |-> IF t = t1 THEN {g1, g2} ELSE {g1}]
=============================================================================
