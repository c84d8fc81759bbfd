--------------------------- MODULE FutureProofs ---------------------------
(***************************************************************************)
(* Theorems about Future, for any number of readers and of Sets.           *)
(***************************************************************************)
EXTENDS Future, TLAPS

(* A value is being assigned only after Set was called. *)
TypeInv == TypeOK /\ (spc # "idle" => sets \in Values)

LEMMA TypeInit == Init => TypeInv
<1>1. 0 \in 0..MaxSets /\ 0 \in 0..MaxSpurious
  BY ConstantsAssumption DEF ConstantsAssumption
<1>2. QED
  BY <1>1 DEF Init, TypeInv, TypeOK

LEMMA TypeStep == TypeInv /\ [Next]_vars => TypeInv'
<1> SUFFICES ASSUME TypeInv, [Next]_vars
             PROVE  TypeInv'
  OBVIOUS
<1> USE ConstantsAssumption DEF ConstantsAssumption, TypeInv, RGoto, SGoto
<1>1. ASSUME NEW r \in Readers, Lock(r) \/ Get(r)
      PROVE  TypeInv'
  BY <1>1 DEF Lock, Get, FoundUnset, Wait, GetReturn, CopyBegin, CopyEnd, TypeOK
<1>2. ASSUME NEW r \in Readers, SpuriousWake(r)
      PROVE  TypeInv'
  <2>1. spurious[r] + 1 \in 0..MaxSpurious
    BY <1>2 DEF SpuriousWake, TypeOK
  <2>2. QED
    BY <1>2, <2>1 DEF SpuriousWake, TypeOK
<1>3. CASE AssignBegin
  <2>1. sets + 1 \in Values /\ sets + 1 \in 0..MaxSets
    BY <1>3 DEF AssignBegin, TypeOK, Values
  <2>2. QED
    BY <1>3, <2>1 DEF AssignBegin, TypeOK
<1>4. CASE Set
  BY <1>4 DEF Set, AssignEnd, SetLock, SetAvail, NotifyAll, TypeOK
<1>5. CASE UNCHANGED vars
  BY <1>5 DEF vars, TypeOK
<1>6. QED
  BY <1>1, <1>2, <1>3, <1>4, <1>5 DEF Next

(* Every variable keeps its type, however often Set is called. *)
THEOREM TypeCorrect == Spec => []TypeOK
<1>1. TypeInv => TypeOK
  BY DEF TypeInv
<1>2. QED
  BY TypeInit, TypeStep, <1>1, PTL DEF Spec

-----------------------------------------------------------------------------
(* The wakeup: a reader checks _avail and joins the waiters under the      *)
(* mutex, so _avail, which is set under it too, cannot change in between;  *)
(* and notify_all comes after. *)

LEMMA WakeInit == Init => WakeInv
  BY TypeInit, ConstantsAssumption
     DEF ConstantsAssumption, Init, WakeInv, TypeInv, MutexInv, NoLostWakeup, Waiting

LEMMA WakeStep == WakeInv /\ TypeOK' /\ [Next]_vars => WakeInv'
<1> SUFFICES ASSUME WakeInv, TypeOK', [Next]_vars
             PROVE  /\ MutexInv' /\ NoLostWakeup'
                    /\ \A r \in Readers : rpc'[r] = "sleep" => ~avail'
  BY DEF WakeInv
<1> USE ConstantsAssumption DEF ConstantsAssumption, WakeInv, RGoto, SGoto
<1>1. MutexInv'
  <2>1. ASSUME NEW r \in Readers, Lock(r)
        PROVE  MutexInv'
    BY <2>1 DEF Lock, MutexInv, TypeOK
  <2>2. ASSUME NEW r \in Readers, Get(r) \/ SpuriousWake(r)
        PROVE  MutexInv'
    BY <2>2 DEF Get, FoundUnset, Wait, GetReturn, CopyBegin, CopyEnd, SpuriousWake, MutexInv, TypeOK
  <2>3. CASE AssignBegin \/ Set
    BY <2>3 DEF AssignBegin, Set, AssignEnd, SetLock, SetAvail, NotifyAll, MutexInv, TypeOK
  <2>4. CASE UNCHANGED vars
    BY <2>4 DEF vars, MutexInv
  <2>5. QED
    BY <2>1, <2>2, <2>3, <2>4 DEF Next
<1>2. NoLostWakeup'
  <2> USE DEF NoLostWakeup, Waiting
  <2>1. ASSUME NEW r \in Readers, Lock(r)
        PROVE  NoLostWakeup'
    BY <2>1 DEF Lock, TypeOK
  <2>2. ASSUME NEW r \in Readers, Get(r) \/ SpuriousWake(r)
        PROVE  NoLostWakeup'
    BY <2>2 DEF Get, FoundUnset, Wait, GetReturn, CopyBegin, CopyEnd, SpuriousWake, TypeOK
  <2>3. CASE AssignBegin \/ Set
    BY <2>3 DEF AssignBegin, Set, AssignEnd, SetLock, SetAvail, NotifyAll, TypeOK
  <2>4. CASE UNCHANGED vars
    BY <2>4 DEF vars
  <2>5. QED
    BY <2>1, <2>2, <2>3, <2>4 DEF Next
<1>3. ASSUME NEW q \in Readers, rpc'[q] = "sleep"
      PROVE  ~avail'
  <2>1. ASSUME NEW r \in Readers, Lock(r)
        PROVE  ~avail'
    BY <1>3, <2>1 DEF Lock, TypeOK
  <2>2. ASSUME NEW r \in Readers, Get(r) \/ SpuriousWake(r)
        PROVE  ~avail'
    BY <1>3, <2>2 DEF Get, FoundUnset, Wait, GetReturn, CopyBegin, CopyEnd, SpuriousWake, TypeOK
  <2>3. CASE AssignBegin \/ Set
    BY <1>3, <2>3 DEF AssignBegin, Set, AssignEnd, SetLock, SetAvail, NotifyAll, MutexInv, TypeOK
  <2>4. CASE UNCHANGED vars
    BY <1>3, <2>4 DEF vars
  <2>5. QED
    BY <2>1, <2>2, <2>3, <2>4 DEF Next
<1>4. QED
  BY <1>1, <1>2, <1>3

(* No reader waits for a notification that has already been given, and the *)
(* mutex keeps _avail from being set between a reader's test and its wait. *)
THEOREM NobodyMissesTheWakeup == Spec => []WakeInv
  BY TypeCorrect, WakeInit, WakeStep, PTL DEF Spec

-----------------------------------------------------------------------------
(* One Set. *)

LEMMA ReadInit == Init => ReadInv
  BY DEF Init, ReadInv

LEMMA ReadStep ==
    MaxSets = 1 /\ TypeOK /\ ReadInv /\ [Next]_vars => ReadInv'
<1> SUFFICES ASSUME MaxSets = 1, TypeOK, ReadInv, [Next]_vars
             PROVE  ReadInv'
  OBVIOUS
<1> USE ConstantsAssumption DEF ConstantsAssumption, RGoto, SGoto
<1>1. ASSUME NEW r \in Readers, Lock(r) \/ SpuriousWake(r)
      PROVE  ReadInv'
  BY <1>1 DEF Lock, SpuriousWake, ReadInv, TypeOK
<1>2. ASSUME NEW r \in Readers, Get(r)
      PROVE  ReadInv'
  BY <1>2 DEF Get, FoundUnset, Wait, GetReturn, CopyBegin, CopyEnd, ReadInv, TypeOK
<1>3. CASE AssignBegin
  <2>1. sets = 0 /\ ~avail /\ sets + 1 > 0
    BY <1>3 DEF AssignBegin, ReadInv, TypeOK
  <2>2. QED
    BY <1>3, <2>1 DEF AssignBegin, ReadInv, TypeOK
<1>4. CASE Set
  BY <1>4 DEF Set, AssignEnd, SetLock, SetAvail, NotifyAll, ReadInv, TypeOK
<1>5. CASE UNCHANGED vars
  BY <1>5 DEF vars, ReadInv
<1>6. QED
  BY <1>1, <1>2, <1>3, <1>4, <1>5 DEF Next

LEMMA ReadAlways == MaxSets = 1 /\ Spec => []ReadInv
<1> SUFFICES ASSUME MaxSets = 1
             PROVE  Spec => []ReadInv
  OBVIOUS
<1>1. TypeOK /\ ReadInv /\ [Next]_vars => ReadInv'
  BY ReadStep
<1>2. QED
  BY TypeCorrect, ReadInit, <1>1, PTL DEF Spec

(* A Future that is set once is read only after it was assigned, and then  *)
(* as a whole, although its readers copy it without a lock. *)
THEOREM ReadsAreWhole == MaxSets = 1 /\ Spec => []NoTornRead
<1>1. TypeOK /\ ReadInv => NoTornRead
  <2> SUFFICES ASSUME TypeOK, ReadInv
               PROVE  NoTornRead
    OBVIOUS
  <2>1. \A r \in Readers : got[r] \in {result, Absent} /\ (rpc[r] = "done" => avail)
    BY DEF ReadInv, TypeOK
  <2>2. avail => result # Torn
    BY ConstantsAssumption DEF ConstantsAssumption, ReadInv, TypeOK
  <2>3. \A r \in Readers : got[r] # Torn
    BY <2>1, <2>2, ConstantsAssumption DEF ConstantsAssumption, ReadInv
  <2>4. QED
    BY <2>3 DEF ReadInv, NoTornRead
<1>2. QED
  BY <1>1, TypeCorrect, ReadAlways, PTL

LEMMA RefinesStep ==
    MaxSets = 1 /\ TypeOK /\ ReadInv /\ [Next]_vars
        => [Abstract!Next]_(<<IF avail THEN result ELSE Absent, got>>)
<1> DEFINE val == IF avail THEN result ELSE Absent
<1> SUFFICES ASSUME MaxSets = 1, TypeOK, ReadInv, [Next]_vars
             PROVE  Abstract!Next \/ UNCHANGED <<val, got>>
  OBVIOUS
<1> USE ConstantsAssumption DEF ConstantsAssumption, RGoto, SGoto
<1>1. avail => result \in Values /\ result # Absent
  BY DEF ReadInv, TypeOK, Values
<1>2. ASSUME NEW r \in Readers, CopyEnd(r)
      PROVE  Abstract!Tell(r)
  BY <1>1, <1>2 DEF CopyEnd, ReadInv, TypeOK, Abstract!Tell
<1>3. CASE SetAvail
  <2>1. ~avail /\ avail' /\ result' = result /\ result \in Values /\ got' = got
    BY <1>3 DEF SetAvail, ReadInv, TypeOK, Values
  <2>2. Abstract!Give
    BY <2>1 DEF Abstract!Give
  <2>3. QED
    BY <2>2 DEF Abstract!Next
<1>4. CASE AssignBegin
  <2>1. ~avail
    BY <1>4 DEF AssignBegin, ReadInv, TypeOK
  <2>2. QED
    BY <1>4, <2>1 DEF AssignBegin
<1>5. CASE AssignEnd \/ SetLock \/ NotifyAll
  BY <1>5 DEF AssignEnd, SetLock, NotifyAll, ReadInv
<1>6. ASSUME NEW r \in Readers,
             Lock(r) \/ FoundUnset(r) \/ Wait(r) \/ GetReturn(r) \/ CopyBegin(r) \/ SpuriousWake(r)
      PROVE  UNCHANGED <<val, got>>
  BY <1>6 DEF Lock, FoundUnset, Wait, GetReturn, CopyBegin, SpuriousWake
<1>7. CASE UNCHANGED vars
  BY <1>7 DEF vars
<1>8. QED
  BY <1>2, <1>3, <1>4, <1>5, <1>6, <1>7 DEF Next, Set, Get, Abstract!Next

(* A Future that is set once is a Promise. *)
THEOREM FutureImplementsPromise == MaxSets = 1 /\ Spec => ImplementsPromise
<1> SUFFICES ASSUME MaxSets = 1
             PROVE  Spec => ImplementsPromise
  OBVIOUS
<1>1. Init => Abstract!Init
  BY DEF Init, Abstract!Init
<1>2. TypeOK /\ ReadInv /\ [Next]_vars
        => [Abstract!Next]_(<<IF avail THEN result ELSE Absent, got>>)
  BY RefinesStep
<1>3. Spec => []ReadInv
  BY ReadAlways
<1>4. QED
  BY <1>1, <1>2, <1>3, TypeCorrect, PTL
     DEF Spec, ImplementsPromise, Abstract!Spec, Abstract!vars
=============================================================================
