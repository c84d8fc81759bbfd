-------------------------- MODULE ObjectsProofs --------------------------
(***************************************************************************)
(* Theorems about Objects, for any threads, objects and bounds.            *)
(***************************************************************************)
EXTENDS Objects, TLAPS

LEMMA StartsConsistent == Init => IInv
  BY ConstantsAssumption
     DEF ConstantsAssumption, Init, IInv, TypeOK, CallInv, ConvertInv, KnownInv, HandleInv,
         DyingInv, ReplacedInv, Converting, Adding, Held, Actors, Handles

(* What a thread that converts g would add is a handle of g. *)
LEMMA MadeIsHandle ==
    ASSUME IInv, NEW t \in Threads, Converting(t)
    PROVE  cur[t] \in Oids /\ Made(t) \in Handles
<1>1. cur[t] \in Wraps[t] /\ cnt[t] > 0 /\ cnt[t] \in 0..MaxWraps
  BY DEF IInv, TypeOK, ConvertInv
<1>2. cnt[t] \in 1..MaxWraps
  BY <1>1, ConstantsAssumption DEF ConstantsAssumption
<1>3. QED
  BY <1>1, <1>2, ConstantsAssumption DEF ConstantsAssumption, Made, Handles

(* The tables, the proxies and the calls keep their types. *)
LEMMA TypeStep ==
    ASSUME IInv, Next
    PROVE  TypeOK'
<1> USE ConstantsAssumption
    DEF ConstantsAssumption, IInv, TypeOK, CallInv, Goto, Free, Running, Actors,
        threads, ending
<1>1. ASSUME NEW t \in Threads, NEW g \in Wraps[t], Receive(t, g)
      PROVE  TypeOK'
  BY <1>1 DEF Receive
<1>2. ASSUME NEW t \in Threads, TryGetObject(t)
      PROVE  TypeOK'
  <2>1. cur[t] \in Oids /\ Made(t) \in Handles
    BY <1>2, MadeIsHandle DEF TryGetObject, Converting
  <2>2. (IF used[cur[t]] # None THEN used[cur[t]] ELSE <<cur[t], t, cnt[t]>>) \in Handles
    BY <2>1 DEF Made
  <2>3. held' \in [Threads -> SUBSET Handles]
    BY <1>2, <2>2 DEF TryGetObject
  <2>4. QED
    BY <1>2, <2>3 DEF TryGetObject
<1>3. ASSUME NEW t \in Threads, AddObjectBegin(t)
      PROVE  TypeOK'
  BY <1>3 DEF AddObjectBegin
<1>4. ASSUME NEW t \in Threads, AddObjectEnd(t)
      PROVE  TypeOK'
  <2>1. cur[t] \in Oids /\ Made(t) \in Handles
    BY <1>4, MadeIsHandle DEF AddObjectEnd, Converting
  <2>2. used' \in [Oids -> Handles \cup {None}] /\ replaced' \subseteq Oids
    BY <1>4, <2>1 DEF AddObjectEnd, Made
  <2>3. {used[cur[t]]} \ {None} \subseteq Handles
    BY <2>1
  <2>4. dying' \in [Actors -> SUBSET Handles]
    BY <1>4, <2>3 DEF AddObjectEnd, Dropped
  <2>5. QED
    BY <1>4, <2>2, <2>4 DEF AddObjectEnd
<1>5. ASSUME NEW t \in Threads, TableRace(t)
      PROVE  TypeOK'
  BY <1>5 DEF TableRace
<1>6. ASSUME NEW t \in Threads, NEW h \in held[t], Drop(t, h)
      PROVE  TypeOK'
  BY <1>6 DEF Drop, Dropped
<1>7. ASSUME NEW t \in Threads, NEW h \in held[t], Store(t, h)
      PROVE  TypeOK'
  BY <1>7 DEF Store
<1>8. ASSUME NEW t \in Threads, NEW o \in Owned, Enter(t, o)
      PROVE  TypeOK'
  BY <1>8 DEF Enter
<1>9. ASSUME NEW t \in Threads, Leave(t)
      PROVE  TypeOK'
  BY <1>9 DEF Leave, Dropped
<1>10. ASSUME NEW o \in Owned, FreeObject(o)
      PROVE  TypeOK'
  BY <1>10 DEF FreeObject, Dropped
<1>11. ASSUME NEW a \in Actors, NEW h \in dying[a], ReleaseObject(a, h)
      PROVE  TypeOK'
  BY <1>11 DEF ReleaseObject
<1>12. ASSUME NEW a \in Actors, SharedSlot(a)
      PROVE  TypeOK'
  BY <1>12 DEF SharedSlot
<1>13. ASSUME NEW a \in Actors, Broker(a)
      PROVE  TypeOK'
  BY <1>13 DEF Broker
<1>14. ASSUME NEW a \in Actors, PutReply(a)
      PROVE  TypeOK'
  BY <1>14 DEF PutReply
<1>15. QED
  BY <1>1, <1>2, <1>3, <1>4, <1>5, <1>6, <1>7, <1>8, <1>9, <1>10, <1>11, <1>12,
     <1>13, <1>14 DEF Next, Continue, Destroy

(* A call under way belongs to a conversion or to a destructor. *)
LEMMA CallStep ==
    ASSUME IInv, Next
    PROVE  CallInv'
<1> USE ConstantsAssumption
    DEF ConstantsAssumption, IInv, TypeOK, CallInv, Goto, Free, Running, Actors,
        threads, ending
<1>1. ASSUME NEW t \in Threads, NEW g \in Wraps[t], Receive(t, g)
      PROVE  CallInv'
  BY <1>1 DEF Receive
<1>2. ASSUME NEW t \in Threads, TryGetObject(t)
      PROVE  CallInv'
  BY <1>2 DEF TryGetObject
<1>3. ASSUME NEW t \in Threads, AddObjectBegin(t)
      PROVE  CallInv'
  BY <1>3 DEF AddObjectBegin
<1>4. ASSUME NEW t \in Threads, AddObjectEnd(t)
      PROVE  CallInv'
  BY <1>4 DEF AddObjectEnd, Dropped
<1>5. ASSUME NEW t \in Threads, TableRace(t)
      PROVE  CallInv'
  BY <1>5 DEF TableRace
<1>6. ASSUME NEW t \in Threads, NEW h \in held[t], Drop(t, h)
      PROVE  CallInv'
  BY <1>6 DEF Drop, Dropped
<1>7. ASSUME NEW t \in Threads, NEW h \in held[t], Store(t, h)
      PROVE  CallInv'
  BY <1>7 DEF Store
<1>8. ASSUME NEW t \in Threads, NEW o \in Owned, Enter(t, o)
      PROVE  CallInv'
  BY <1>8 DEF Enter
<1>9. ASSUME NEW t \in Threads, Leave(t)
      PROVE  CallInv'
  BY <1>9 DEF Leave, Dropped
<1>10. ASSUME NEW o \in Owned, FreeObject(o)
      PROVE  CallInv'
  BY <1>10 DEF FreeObject, Dropped
<1>11. ASSUME NEW a \in Actors, NEW h \in dying[a], ReleaseObject(a, h)
      PROVE  CallInv'
  BY <1>11 DEF ReleaseObject
<1>12. ASSUME NEW a \in Actors, SharedSlot(a)
      PROVE  CallInv'
  BY <1>12 DEF SharedSlot
<1>13. ASSUME NEW a \in Actors, Broker(a)
      PROVE  CallInv'
  BY <1>13 DEF Broker
<1>14. ASSUME NEW a \in Actors, PutReply(a)
      PROVE  CallInv'
  BY <1>14 DEF PutReply
<1>15. QED
  BY <1>1, <1>2, <1>3, <1>4, <1>5, <1>6, <1>7, <1>8, <1>9, <1>10, <1>11, <1>12,
     <1>13, <1>14 DEF Next, Continue, Destroy

(* A thread keeps the handle it is adding; only another thread that receives
   the same object can have filled its entry. *)
LEMMA ConvertStep ==
    ASSUME IInv, Next
    PROVE  ConvertInv'
<1> USE ConstantsAssumption
    DEF ConstantsAssumption, IInv, TypeOK, CallInv, ConvertInv, Converting, Adding,
        Made, Shared, Oid, Handles, Goto, Free, Running, Actors, threads, ending
<1>1. ASSUME NEW t \in Threads, NEW g \in Wraps[t], Receive(t, g)
      PROVE  ConvertInv'
  BY <1>1 DEF Receive
<1>2. ASSUME NEW t \in Threads, TryGetObject(t)
      PROVE  ConvertInv'
  BY <1>2 DEF TryGetObject
<1>3. ASSUME NEW t \in Threads, AddObjectBegin(t)
      PROVE  ConvertInv'
  BY <1>3 DEF AddObjectBegin
<1>4. ASSUME NEW t \in Threads, AddObjectEnd(t)
      PROVE  ConvertInv'
  BY <1>4 DEF AddObjectEnd, Dropped
<1>5. ASSUME NEW t \in Threads, TableRace(t)
      PROVE  ConvertInv'
  BY <1>5 DEF TableRace
<1>6. ASSUME NEW t \in Threads, NEW h \in held[t], Drop(t, h)
      PROVE  ConvertInv'
  BY <1>6 DEF Drop, Dropped
<1>7. ASSUME NEW t \in Threads, NEW h \in held[t], Store(t, h)
      PROVE  ConvertInv'
  BY <1>7 DEF Store
<1>8. ASSUME NEW t \in Threads, NEW o \in Owned, Enter(t, o)
      PROVE  ConvertInv'
  BY <1>8 DEF Enter
<1>9. ASSUME NEW t \in Threads, Leave(t)
      PROVE  ConvertInv'
  BY <1>9 DEF Leave, Dropped
<1>10. ASSUME NEW o \in Owned, FreeObject(o)
      PROVE  ConvertInv'
  BY <1>10 DEF FreeObject, Dropped
<1>11. ASSUME NEW a \in Actors, NEW h \in dying[a], ReleaseObject(a, h)
      PROVE  ConvertInv'
  BY <1>11 DEF ReleaseObject
<1>12. ASSUME NEW a \in Actors, SharedSlot(a)
      PROVE  ConvertInv'
  BY <1>12 DEF SharedSlot
<1>13. ASSUME NEW a \in Actors, Broker(a)
      PROVE  ConvertInv'
  BY <1>13 DEF Broker
<1>14. ASSUME NEW a \in Actors, PutReply(a)
      PROVE  ConvertInv'
  BY <1>14 DEF PutReply
<1>15. QED
  BY <1>1, <1>2, <1>3, <1>4, <1>5, <1>6, <1>7, <1>8, <1>9, <1>10, <1>11, <1>12,
     <1>13, <1>14 DEF Next, Continue, Destroy

(* Only an object whose entry was replaced is taken back by the broker. *)
LEMMA KnownStep ==
    ASSUME IInv, Next
    PROVE  KnownInv'
<1> USE ConstantsAssumption
    DEF ConstantsAssumption, IInv, TypeOK, CallInv, ConvertInv, KnownInv, DyingInv,
        Converting, Held, Oid, Handles, Goto, Free, Running, Actors, threads,
        ending
<1>1. ASSUME NEW t \in Threads, NEW g \in Wraps[t], Receive(t, g)
      PROVE  KnownInv'
  BY <1>1 DEF Receive
<1>2. ASSUME NEW t \in Threads, TryGetObject(t)
      PROVE  KnownInv'
  BY <1>2 DEF TryGetObject
<1>3. ASSUME NEW t \in Threads, AddObjectBegin(t)
      PROVE  KnownInv'
  BY <1>3 DEF AddObjectBegin
<1>4. ASSUME NEW t \in Threads, AddObjectEnd(t)
      PROVE  KnownInv'
  BY <1>4 DEF AddObjectEnd, Dropped
<1>5. ASSUME NEW t \in Threads, TableRace(t)
      PROVE  KnownInv'
  BY <1>5 DEF TableRace
<1>6. ASSUME NEW t \in Threads, NEW h \in held[t], Drop(t, h)
      PROVE  KnownInv'
  BY <1>6 DEF Drop, Dropped
<1>7. ASSUME NEW t \in Threads, NEW h \in held[t], Store(t, h)
      PROVE  KnownInv'
  BY <1>7 DEF Store
<1>8. ASSUME NEW t \in Threads, NEW o \in Owned, Enter(t, o)
      PROVE  KnownInv'
  BY <1>8 DEF Enter
<1>9. ASSUME NEW t \in Threads, Leave(t)
      PROVE  KnownInv'
  BY <1>9 DEF Leave, Dropped
<1>10. ASSUME NEW o \in Owned, FreeObject(o)
      PROVE  KnownInv'
  BY <1>10 DEF FreeObject, Dropped
<1>11. ASSUME NEW a \in Actors, NEW h \in dying[a], ReleaseObject(a, h)
      PROVE  KnownInv'
  BY <1>11 DEF ReleaseObject
<1>12. ASSUME NEW a \in Actors, SharedSlot(a)
      PROVE  KnownInv'
  BY <1>12 DEF SharedSlot
<1>13. ASSUME NEW a \in Actors, Broker(a)
      PROVE  KnownInv'
  BY <1>13 DEF Broker
<1>14. ASSUME NEW a \in Actors, PutReply(a)
      PROVE  KnownInv'
  BY <1>14 DEF PutReply
<1>15. QED
  BY <1>1, <1>2, <1>3, <1>4, <1>5, <1>6, <1>7, <1>8, <1>9, <1>10, <1>11, <1>12,
     <1>13, <1>14 DEF Next, Continue, Destroy

(* A handle that is in use stays in the table until its entry is replaced. *)
LEMMA HandleStep ==
    ASSUME IInv, Next
    PROVE  HandleInv'
<1> USE ConstantsAssumption
    DEF ConstantsAssumption, IInv, TypeOK, CallInv, ConvertInv, KnownInv, HandleInv,
        Adding, Made, Held, Oid, Handles, Goto, Free, Running, Actors, threads,
        ending
<1>1. ASSUME NEW t \in Threads, NEW g \in Wraps[t], Receive(t, g)
      PROVE  HandleInv'
  BY <1>1 DEF Receive
<1>2. ASSUME NEW t \in Threads, TryGetObject(t)
      PROVE  HandleInv'
  <2> DEFINE new == IF used[cur[t]] # None THEN used[cur[t]] ELSE Made(t)
  <2>1. cur[t] \in Oids /\ Made(t) \in Handles /\ new \in Handles
    BY <1>2, MadeIsHandle DEF TryGetObject, Converting, TypeOK
  <2>2. /\ held' = [held EXCEPT ![t] = @ \cup {new}]
        /\ pc[t] = "find" /\ pc' = [pc EXCEPT ![t] = IF used[cur[t]] # None THEN "run" ELSE "add"]
        /\ UNCHANGED <<cnt, cur, used, stored, replaced>>
    BY <1>2 DEF TryGetObject, Made
  <2>3. \A h \in Handles : Adding(h[2]) /\ h = Made(h[2]) => Adding(h[2])' /\ h = Made(h[2])'
    BY <2>2
  <2>4. used[cur[t]] # None => Oid(new) = cur[t] /\ used[Oid(new)] = new
    BY <2>1
  <2>5. used[cur[t]] = None => Adding(t)' /\ new = Made(t)' /\ new[2] = t
    BY <2>2
  <2>6. ASSUME NEW h \in Handles, Held(h)', h # new
        PROVE  Held(h)
    BY <2>2, <2>6
  <2>7. QED
    BY <2>2, <2>3, <2>4, <2>5, <2>6
<1>3. ASSUME NEW t \in Threads, AddObjectBegin(t)
      PROVE  HandleInv'
  BY <1>3 DEF AddObjectBegin
<1>4. ASSUME NEW t \in Threads, AddObjectEnd(t)
      PROVE  HandleInv'
  BY <1>4 DEF AddObjectEnd, Dropped
<1>5. ASSUME NEW t \in Threads, TableRace(t)
      PROVE  HandleInv'
  BY <1>5 DEF TableRace
<1>6. ASSUME NEW t \in Threads, NEW h \in held[t], Drop(t, h)
      PROVE  HandleInv'
  BY <1>6 DEF Drop, Dropped
<1>7. ASSUME NEW t \in Threads, NEW h \in held[t], Store(t, h)
      PROVE  HandleInv'
  BY <1>7 DEF Store
<1>8. ASSUME NEW t \in Threads, NEW o \in Owned, Enter(t, o)
      PROVE  HandleInv'
  BY <1>8 DEF Enter
<1>9. ASSUME NEW t \in Threads, Leave(t)
      PROVE  HandleInv'
  BY <1>9 DEF Leave, Dropped
<1>10. ASSUME NEW o \in Owned, FreeObject(o)
      PROVE  HandleInv'
  BY <1>10 DEF FreeObject, Dropped
<1>11. ASSUME NEW a \in Actors, NEW h \in dying[a], ReleaseObject(a, h)
      PROVE  HandleInv'
  BY <1>11 DEF ReleaseObject
<1>12. ASSUME NEW a \in Actors, SharedSlot(a)
      PROVE  HandleInv'
  BY <1>12 DEF SharedSlot
<1>13. ASSUME NEW a \in Actors, Broker(a)
      PROVE  HandleInv'
  BY <1>13 DEF Broker
<1>14. ASSUME NEW a \in Actors, PutReply(a)
      PROVE  HandleInv'
  BY <1>14 DEF PutReply
<1>15. QED
  BY <1>1, <1>2, <1>3, <1>4, <1>5, <1>6, <1>7, <1>8, <1>9, <1>10, <1>11, <1>12,
     <1>13, <1>14 DEF Next, Continue, Destroy

(* Dropping a proxy destroys no handle that the table, or the thread that
   made it, still refers to. *)
LEMMA DyingStep ==
    ASSUME IInv, Next
    PROVE  DyingInv'
<1> USE ConstantsAssumption
    DEF ConstantsAssumption, IInv, TypeOK, CallInv, ConvertInv, KnownInv, HandleInv,
        DyingInv, Adding, Made, Held, Oid, Handles, Referenced, Goto, Free,
        Running, Actors, threads, ending
<1>1. ASSUME NEW t \in Threads, NEW g \in Wraps[t], Receive(t, g)
      PROVE  DyingInv'
  BY <1>1 DEF Receive
<1>2. ASSUME NEW t \in Threads, TryGetObject(t)
      PROVE  DyingInv'
  BY <1>2 DEF TryGetObject
<1>3. ASSUME NEW t \in Threads, AddObjectBegin(t)
      PROVE  DyingInv'
  BY <1>3 DEF AddObjectBegin
<1>4. ASSUME NEW t \in Threads, AddObjectEnd(t)
      PROVE  DyingInv'
  <2>1. cur[t] \in Oids
    BY <1>4, MadeIsHandle DEF AddObjectEnd, Converting
  <2>2. ASSUME NEW h \in {used[cur[t]]} \ {None}
        PROVE  Oid(h) \in replaced'
    BY <1>4, <2>1, <2>2 DEF AddObjectEnd
  <2>3. /\ replaced \subseteq replaced' /\ rel' = rel
        /\ dying' = [dying EXCEPT ![t] = dying'[t]]
        /\ dying'[t] \subseteq dying[t] \cup ({used[cur[t]]} \ {None})
    BY <1>4 DEF AddObjectEnd, Dropped
  <2>4. QED
    BY <2>2, <2>3
<1>5. ASSUME NEW t \in Threads, TableRace(t)
      PROVE  DyingInv'
  BY <1>5 DEF TableRace
<1>6. ASSUME NEW t \in Threads, NEW h \in held[t], Drop(t, h)
      PROVE  DyingInv'
  BY <1>6 DEF Drop, Dropped
<1>7. ASSUME NEW t \in Threads, NEW h \in held[t], Store(t, h)
      PROVE  DyingInv'
  BY <1>7 DEF Store
<1>8. ASSUME NEW t \in Threads, NEW o \in Owned, Enter(t, o)
      PROVE  DyingInv'
  BY <1>8 DEF Enter
<1>9. ASSUME NEW t \in Threads, Leave(t)
      PROVE  DyingInv'
  BY <1>9 DEF Leave, Dropped
<1>10. ASSUME NEW o \in Owned, FreeObject(o)
      PROVE  DyingInv'
  BY <1>10 DEF FreeObject, Dropped
<1>11. ASSUME NEW a \in Actors, NEW h \in dying[a], ReleaseObject(a, h)
      PROVE  DyingInv'
  BY <1>11 DEF ReleaseObject
<1>12. ASSUME NEW a \in Actors, SharedSlot(a)
      PROVE  DyingInv'
  BY <1>12 DEF SharedSlot
<1>13. ASSUME NEW a \in Actors, Broker(a)
      PROVE  DyingInv'
  BY <1>13 DEF Broker
<1>14. ASSUME NEW a \in Actors, PutReply(a)
      PROVE  DyingInv'
  BY <1>14 DEF PutReply
<1>15. QED
  BY <1>1, <1>2, <1>3, <1>4, <1>5, <1>6, <1>7, <1>8, <1>9, <1>10, <1>11, <1>12,
     <1>13, <1>14 DEF Next, Continue, Destroy

(* An entry is replaced only by two threads that receive the same object. *)
LEMMA SharedStep ==
    ASSUME IInv, Next
    PROVE  ReplacedInv'
<1> USE ConstantsAssumption
    DEF ConstantsAssumption, IInv, TypeOK, ReplacedInv, ConvertInv, Adding, Made, Shared,
        Converting, Goto, Free, Running, Actors, threads, ending
<1>1. ASSUME NEW t \in Threads, NEW g \in Wraps[t], Receive(t, g)
      PROVE  ReplacedInv'
  BY <1>1 DEF Receive
<1>2. ASSUME NEW t \in Threads, TryGetObject(t)
      PROVE  ReplacedInv'
  BY <1>2 DEF TryGetObject
<1>3. ASSUME NEW t \in Threads, AddObjectBegin(t)
      PROVE  ReplacedInv'
  BY <1>3 DEF AddObjectBegin
<1>4. ASSUME NEW t \in Threads, AddObjectEnd(t)
      PROVE  ReplacedInv'
  <2>1. \A g \in replaced' : g \in replaced \/ (g = cur[t] /\ used[g] # None)
    BY <1>4 DEF AddObjectEnd
  <2>2. used[cur[t]] # None => Shared(cur[t])
    BY <1>4 DEF AddObjectEnd
  <2>3. QED
    BY <2>1, <2>2
<1>5. ASSUME NEW t \in Threads, TableRace(t)
      PROVE  ReplacedInv'
  BY <1>5 DEF TableRace
<1>6. ASSUME NEW t \in Threads, NEW h \in held[t], Drop(t, h)
      PROVE  ReplacedInv'
  BY <1>6 DEF Drop, Dropped
<1>7. ASSUME NEW t \in Threads, NEW h \in held[t], Store(t, h)
      PROVE  ReplacedInv'
  BY <1>7 DEF Store
<1>8. ASSUME NEW t \in Threads, NEW o \in Owned, Enter(t, o)
      PROVE  ReplacedInv'
  BY <1>8 DEF Enter
<1>9. ASSUME NEW t \in Threads, Leave(t)
      PROVE  ReplacedInv'
  BY <1>9 DEF Leave, Dropped
<1>10. ASSUME NEW o \in Owned, FreeObject(o)
      PROVE  ReplacedInv'
  BY <1>10 DEF FreeObject, Dropped
<1>11. ASSUME NEW a \in Actors, NEW h \in dying[a], ReleaseObject(a, h)
      PROVE  ReplacedInv'
  BY <1>11 DEF ReleaseObject
<1>12. ASSUME NEW a \in Actors, SharedSlot(a)
      PROVE  ReplacedInv'
  BY <1>12 DEF SharedSlot
<1>13. ASSUME NEW a \in Actors, Broker(a)
      PROVE  ReplacedInv'
  BY <1>13 DEF Broker
<1>14. ASSUME NEW a \in Actors, PutReply(a)
      PROVE  ReplacedInv'
  BY <1>14 DEF PutReply
<1>15. QED
  BY <1>1, <1>2, <1>3, <1>4, <1>5, <1>6, <1>7, <1>8, <1>9, <1>10, <1>11, <1>12,
     <1>13, <1>14 DEF Next, Continue, Destroy

LEMMA StaysConsistent == IInv /\ [Next]_vars => IInv'
<1>1. CASE Next
  BY <1>1, TypeStep, CallStep, ConvertStep, KnownStep, HandleStep, DyingStep, SharedStep
     DEF IInv
<1>2. CASE UNCHANGED vars
  BY <1>2 DEF vars, threads, ending, IInv, TypeOK, CallInv, ConvertInv, KnownInv, HandleInv,
              DyingInv, ReplacedInv, Converting, Adding, Made, Held, Shared, Oid
<1>3. QED
  BY <1>1, <1>2

(* The inductive invariant of the handles, for any interleaving of         *)
(* conversions, destructors, method calls and the receiver.                *)
THEOREM ObjectsConsistent == Spec => []IInv
  BY StartsConsistent, StaysConsistent, PTL DEF Spec

(* Releasing an object in use takes two threads that receive it and an     *)
(* entry of _usedobjects that one of them replaced.                        *)
THEOREM ReleasedInUseOnlyIfReplaced == Spec => []InUseUnlessReplaced
<1>1. IInv => InUseUnlessReplaced
  BY DEF IInv, TypeOK, KnownInv, Held, InUseUnlessReplaced, InUse
<1>2. QED
  BY <1>1, ObjectsConsistent, PTL

(* An object that one thread alone receives is not released in use.        *)
THEOREM PrivateObjectsInUse == Spec => []PrivateInUse
<1>1. ASSUME IInv, NEW t \in Threads, NEW g \in Wraps[t], InUse(g),
             \A u \in Threads \ {t} : g \notin Wraps[u]
      PROVE  g \in known
  <2>1. ~Shared(g)
    BY <1>1 DEF Shared
  <2>2. g \notin replaced
    BY <1>1, <2>1 DEF IInv, ReplacedInv
  <2>3. g \in known \cup replaced
    BY <1>1 DEF IInv, TypeOK, KnownInv, Held, InUse
  <2>4. QED
    BY <2>2, <2>3
<1>2. IInv => PrivateInUse
  BY <1>1 DEF PrivateInUse
<1>3. QED
  BY <1>2, ObjectsConsistent, PTL

(* The receiver thread runs the destructor of a handle, and waits there    *)
(* for itself, only when an entry was replaced.                            *)
THEOREM ReceiverDestroysOnlyReplaced == Spec => []ReceiverNeverWaits
<1>1. IInv => ReceiverNeverWaits
  BY DEF IInv, DyingInv, ReceiverNeverWaits, Actors
<1>2. QED
  BY <1>1, ObjectsConsistent, PTL
=============================================================================
