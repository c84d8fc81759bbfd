----------------------------- MODULE Promise -----------------------------
(***************************************************************************)
(* What future.hpp promises: a value is given once; every reader that      *)
(* asks for it gets that value, and only after it was given.               *)
(***************************************************************************)
CONSTANTS Readers,  \* threads that ask for the value
          Values,   \* values it may be given
          None      \* no value

VARIABLES val,      \* the value given, or None
          got       \* what each reader was told, or None

vars == <<val, got>>

Init == /\ val = None
        /\ got = [r \in Readers |-> None]

Give == /\ val = None
        /\ val' \in Values
        /\ UNCHANGED got

Tell(r) == /\ val # None
           /\ got[r] = None
           /\ got' = [got EXCEPT ![r] = val]
           /\ UNCHANGED val

Next == Give \/ \E r \in Readers : Tell(r)

Spec == Init /\ [][Next]_vars
=============================================================================
