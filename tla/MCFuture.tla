----------------------------- MODULE MCFuture -----------------------------
(* An instance of Future: three readers and one Set.                       *)
EXTENDS Future

CONSTANTS r1, r2, r3

ThreeReaders == {r1, r2, r3}
=============================================================================
