------------------------------- MODULE Rpc -------------------------------
(***************************************************************************)
(* What a caller of the client library is promised: a call is synchronous, *)
(* a thread has at most one in progress, the broker answers each request   *)
(* at most once, and the call returns exactly once, after its answer has   *)
(* come, with the answer to that very request.  ReplySlots is shown to     *)
(* implement this when no two threads use the same slot name.              *)
(***************************************************************************)
EXTENDS Naturals

CONSTANTS Threads,   \* threads that make calls
          MaxCalls,  \* bound on the calls one thread makes
          None       \* no value

VARIABLES status,    \* progress of each call
          value      \* what each returned call gave its caller

vars == <<status, value>>

(* The n-th call of thread t; the answer to a request is named after the   *)
(* call that made it.                                                      *)
Calls == Threads \X (1..MaxCalls)

Init == /\ status = [c \in Calls |-> "new"]
        /\ value = [c \in Calls |-> None]

(* A thread starts its next call once all its earlier ones have returned.  *)
Invoke(c) ==
    /\ status[c] = "new"
    /\ \A k \in 1..(c[2] - 1) : status[<<c[1], k>>] = "returned"
    /\ status' = [status EXCEPT ![c] = "pending"]
    /\ UNCHANGED value

Answer(c) ==
    /\ status[c] = "pending"
    /\ status' = [status EXCEPT ![c] = "answered"]
    /\ UNCHANGED value

Return(c) ==
    /\ status[c] = "answered"
    /\ status' = [status EXCEPT ![c] = "returned"]
    /\ value' = [value EXCEPT ![c] = c]

Next == \E c \in Calls : Invoke(c) \/ Answer(c) \/ Return(c)

Spec == Init /\ [][Next]_vars
=============================================================================
