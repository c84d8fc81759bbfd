------------------------------ MODULE Future ------------------------------
(***************************************************************************)
(* A Future (future.hpp) at the granularity of its mutex and condition     *)
(* variable: one thread calls Set, any number of threads call Get.         *)
(*                                                                         *)
(* Set assigns _result before it takes the mutex and notifies after it has *)
(* released it; Get returns a reference to _result, and its callers copy   *)
(* the value (connection.cpp:147) when the mutex is free again.  So both   *)
(* the assignment and the copy take an interval of time (a beginning and   *)
(* an end) in which no lock is held.                                       *)
(***************************************************************************)
EXTENDS Naturals

CONSTANTS Readers,      \* threads that call Get
          MaxSets,      \* how many times Set is called
          MaxSpurious,  \* bound on the spurious wakeups of one reader
          Setter,       \* the thread that calls Set
          Free,         \* nobody holds the mutex
          Absent,       \* no value
          Torn          \* a value read while it was being assigned

ASSUME ConstantsAssumption ==
    /\ MaxSets \in Nat /\ MaxSpurious \in Nat
    /\ Setter \notin Readers /\ Free \notin Readers /\ Free # Setter
    /\ Absent \notin Nat /\ Torn \notin Nat /\ Absent # Torn

VARIABLES spc,      \* where the setter is
          sets,     \* how many values it has been told to set
          rpc,      \* where each reader is
          spurious, \* spurious wakeups each reader has had
          mut,      \* owner of _mut
          avail,    \* _avail
          result,   \* _result; Torn while it is being assigned
          seen,     \* what each reader's copy found when it began
          got       \* what each reader's copy ended with

vars == <<spc, sets, rpc, spurious, mut, avail, result, seen, got>>

Values == 1..MaxSets

Waiting == {r \in Readers : rpc[r] = "wait"}

Init ==
    /\ spc = "idle" /\ sets = 0
    /\ rpc = [r \in Readers |-> "idle"]
    /\ spurious = [r \in Readers |-> 0]
    /\ mut = Free
    /\ avail = FALSE
    /\ result = Absent
    /\ seen = [r \in Readers |-> Absent]
    /\ got = [r \in Readers |-> Absent]

RGoto(r, from, to) == /\ rpc[r] = from
                      /\ rpc' = [rpc EXCEPT ![r] = to]

SGoto(from, to) == /\ spc = from
                   /\ spc' = to

-----------------------------------------------------------------------------
(* Get. *)

Lock(r) ==
    /\ mut = Free /\ mut' = r
    /\ \/ RGoto(r, "idle", "check")
       \/ RGoto(r, "woken", "check")
    /\ UNCHANGED <<spc, sets, spurious, avail, result, seen, got>>

(* while(!_avail): the test and the wait that follows are two steps, ... *)
FoundUnset(r) ==
    /\ ~avail
    /\ RGoto(r, "check", "sleep")
    /\ UNCHANGED <<spc, sets, spurious, mut, avail, result, seen, got>>

(* ... but in _cond.wait(lock) releasing the mutex and joining the waiters *)
(* is one. *)
Wait(r) ==
    /\ RGoto(r, "sleep", "wait")
    /\ mut' = Free
    /\ UNCHANGED <<spc, sets, spurious, avail, result, seen, got>>

(* return _result; the lock's destructor releases the mutex. *)
GetReturn(r) ==
    /\ avail
    /\ RGoto(r, "check", "copy")
    /\ mut' = Free
    /\ UNCHANGED <<spc, sets, spurious, avail, result, seen, got>>

(* A wait may end without a notification. *)
SpuriousWake(r) ==
    /\ spurious[r] < MaxSpurious
    /\ spurious' = [spurious EXCEPT ![r] = @ + 1]
    /\ RGoto(r, "wait", "woken")
    /\ UNCHANGED <<spc, sets, mut, avail, result, seen, got>>

CopyBegin(r) ==
    /\ RGoto(r, "copy", "copying")
    /\ seen' = [seen EXCEPT ![r] = result]
    /\ UNCHANGED <<spc, sets, spurious, mut, avail, result, got>>

CopyEnd(r) ==
    /\ RGoto(r, "copying", "done")
    /\ got' = [got EXCEPT ![r] = IF result = seen[r] THEN result ELSE Torn]
    /\ UNCHANGED <<spc, sets, spurious, mut, avail, result, seen>>

-----------------------------------------------------------------------------
(* Set. *)

(* Mutant: Set announces the value before it assigns it. *)
AvailFirst ==
    /\ sets < MaxSets
    /\ SGoto("idle", "assigning")
    /\ sets' = sets + 1
    /\ result' = Torn
    /\ avail' = TRUE
    /\ UNCHANGED <<rpc, spurious, mut, seen, got>>

AssignBegin ==
    /\ sets < MaxSets
    /\ SGoto("idle", "assigning")
    /\ sets' = sets + 1
    /\ result' = Torn
    /\ UNCHANGED <<rpc, spurious, mut, avail, seen, got>>

AssignEnd ==
    /\ SGoto("assigning", "lock")
    /\ result' = sets
    /\ UNCHANGED <<sets, rpc, spurious, mut, avail, seen, got>>

(* Mutant: _avail is set without the mutex. *)
UnlockedSet ==
    /\ SGoto("lock", "notify")
    /\ avail' = TRUE
    /\ UNCHANGED <<sets, rpc, spurious, mut, result, seen, got>>

SetLock ==
    /\ mut = Free /\ mut' = Setter
    /\ SGoto("lock", "avail")
    /\ UNCHANGED <<sets, rpc, spurious, avail, result, seen, got>>

(* _avail=true; the lock_guard's destructor releases the mutex. *)
SetAvail ==
    /\ SGoto("avail", "notify")
    /\ avail' = TRUE
    /\ mut' = Free
    /\ UNCHANGED <<sets, rpc, spurious, result, seen, got>>

(* Mutant: notify_one. *)
NotifyOne ==
    /\ SGoto("notify", "idle")
    /\ \/ Waiting = {} /\ UNCHANGED rpc
       \/ \E r \in Waiting : rpc' = [rpc EXCEPT ![r] = "woken"]
    /\ UNCHANGED <<sets, spurious, mut, avail, result, seen, got>>

NotifyAll ==
    /\ SGoto("notify", "idle")
    /\ rpc' = [r \in Readers |-> IF rpc[r] = "wait" THEN "woken" ELSE rpc[r]]
    /\ UNCHANGED <<sets, spurious, mut, avail, result, seen, got>>

-----------------------------------------------------------------------------

Set == AssignEnd \/ SetLock \/ SetAvail \/ NotifyAll

Get(r) == FoundUnset(r) \/ Wait(r) \/ GetReturn(r) \/ CopyBegin(r) \/ CopyEnd(r)

Next == \/ AssignBegin \/ Set
        \/ \E r \in Readers : Lock(r) \/ Get(r) \/ SpuriousWake(r)

Spec == Init /\ [][Next]_vars

(* A Set that has begun goes on, and so does a Get; no thread is obliged   *)
(* to call either. A free mutex goes to one of those who want it.          *)
FairSpec == /\ Spec
            /\ WF_vars(Set)
            /\ \A r \in Readers : WF_vars(Get(r) \/ (rpc[r] = "woken" /\ Lock(r)))

-----------------------------------------------------------------------------
(* Properties.                                                             *)

(* Type correctness of the Future and of the threads that use it.          *)
TypeOK ==
    /\ spc \in {"idle", "assigning", "lock", "avail", "notify"}
    /\ sets \in 0..MaxSets
    /\ rpc \in [Readers -> {"idle", "check", "sleep", "wait", "woken",
                         "copy", "copying", "done"}]
    /\ spurious \in [Readers -> 0..MaxSpurious]
    /\ mut \in Readers \cup {Setter, Free}
    /\ avail \in BOOLEAN
    /\ result \in Values \cup {Absent, Torn}
    /\ seen \in [Readers -> Values \cup {Absent, Torn}]
    /\ got \in [Readers -> Values \cup {Absent, Torn}]

(* A reader that still waits although the value is there has a             *)
(* notification coming, however often Set is called.                       *)
NoLostWakeup == avail /\ Waiting # {} => spc = "notify"

(* A reader past its wait reads a value that was completely assigned, and  *)
(* nobody assigns _result while it copies, although it holds no lock.      *)
NoTornRead ==
    /\ \A r \in Readers : got[r] # Torn
    /\ spc = "assigning" => \A r \in Readers : rpc[r] # "copying"

(* Every Get returns once a Set has begun.                                 *)
GetsReturn ==
    \A r \in Readers :
        rpc[r] \notin {"idle", "done"} /\ sets > 0 ~> rpc[r] = "done"

(* With one Set, the Future is a Promise.                                  *)
Abstract == INSTANCE Promise WITH
    val <- IF avail THEN result ELSE Absent, None <- Absent

ImplementsPromise == Abstract!Spec

-----------------------------------------------------------------------------
(* The inductive invariants behind NoLostWakeup and, for one Set,          *)
(* NoTornRead. *)

(* The mutex is held by the thread in its critical section. *)
MutexInv ==
    /\ \A r \in Readers : rpc[r] \in {"check", "sleep"} <=> mut = r
    /\ spc = "avail" <=> mut = Setter

(* No wakeup is lost, with what makes that inductive: a reader that waits  *)
(* while _avail is set has a notification coming, and the mutex keeps _avail *)
(* from being set between Get's test of it and its wait.                   *)
WakeInv ==
    /\ TypeOK /\ MutexInv /\ NoLostWakeup
    /\ \A r \in Readers : rpc[r] = "sleep" => ~avail

(* While _avail is false nobody is past the wait; with one Set, nothing is *)
(* assigned once it is true. *)
ReadInv ==
    /\ \A r \in Readers : rpc[r] \in {"copy", "copying", "done"} => avail
    /\ spc \in {"assigning", "lock", "avail"} => ~avail
    /\ spc = "notify" => avail
    /\ spc \in {"lock", "avail", "notify"} => sets > 0 /\ result = sets
    /\ spc # "idle" => sets > 0
    /\ avail => sets > 0 /\ result = sets
    /\ \A r \in Readers : rpc[r] \in {"copying", "done"} => seen[r] = result
    /\ \A r \in Readers : rpc[r] = "done" => got[r] = result
    /\ \A r \in Readers : rpc[r] # "done" => got[r] = Absent
    /\ sets > 0 /\ spc = "idle" => avail
=============================================================================
