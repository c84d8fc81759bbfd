--------------------------- MODULE MCReplySlots ---------------------------
(***************************************************************************)
(* Instances of ReplySlots: two threads that share no slot name (one of    *)
(* them uses two names in turn); two threads that share one name and have  *)
(* one each; two threads that make every call under the same name, as two  *)
(* threads do that call e.g. SetNamespace; one thread.                     *)
(***************************************************************************)
EXTENDS ReplySlots

CONSTANTS t1, t2, n1, n2, n3

TwoThreads == {t1, t2}
OneThread == {t1}
ThreeNames == {n1, n2, n3}

Distinct == [t \in TwoThreads |-> IF t = t1 THEN {n1, n2} ELSE {n3}]
Shared == [t \in TwoThreads |-> {n1}]
Mixed == [t \in TwoThreads |-> IF t = t1 THEN {n1, n2} ELSE {n1, n3}]
Alone == [t \in OneThread |-> {n1}]
=============================================================================
