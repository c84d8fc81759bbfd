----------------------------- MODULE Objects -----------------------------
(***************************************************************************)
(* The objects of other applications that a Connection uses: proxies,      *)
(* their ObjectHandles (connection.hpp:198-221), the table _usedobjects    *)
(* and the release of an object when its last handle is destroyed.         *)
(*                                                                         *)
(* A thread that receives an ObjectID makes a proxy of it with             *)
(* ObjectIDToMetaObject (metaext.cpp:133-153): it asks for the object's    *)
(* definition, looks for a handle with TryGetObject and, when there is     *)
(* none, makes one and enters it with AddObject.  No lock is held.  A      *)
(* proxy shares its handle with its copies and with the table; a handle    *)
(* that loses its last reference is destroyed by the thread that dropped   *)
(* it, which calls ReleaseObject and waits for the answer.                 *)
(*                                                                         *)
(* The methods of the application's own objects may keep proxies in the    *)
(* object's state.  The receiver thread erases an object the broker frees, *)
(* and so may be the one that destroys a handle.                           *)
(***************************************************************************)
EXTENDS Naturals

CONSTANTS Threads,    \* application threads and call threads
          Receiver,   \* the receiver thread
          Oids,       \* the ObjectIDs of objects of other applications
          Wraps,      \* Wraps[t]: the ObjectIDs thread t receives
          Owned,      \* the application's own objects
          MaxWraps,   \* bound on the ObjectIDs one thread receives
          None        \* no handle, no object

Actors == Threads \cup {Receiver}

(* A handle is named after its object and the conversion that made it. *)
Handles == Oids \X Threads \X (1..MaxWraps)
Oid(h) == h[1]

ASSUME ConstantsAssumption ==
    /\ MaxWraps \in Nat
    /\ Wraps \in [Threads -> SUBSET Oids]
    /\ Receiver \notin Threads
    /\ None \notin Handles /\ None \notin Owned

VARIABLES pc,       \* where each thread is in ObjectIDToMetaObject
          cnt,      \* conversions each thread has begun
          cur,      \* the ObjectID it is converting
          used,     \* _usedobjects: ObjectID -> handle or None
          held,     \* the handles of the proxies each thread has
          stored,   \* the handles of the proxies each own object keeps
          regs,     \* own objects in _regobjects
          inside,   \* the own object whose method a thread runs
          dying,    \* handles each actor has to destroy
          rel,      \* the handle whose destructor it is in
          call,     \* its call: none, sent to the broker, answered
          known,    \* objects the broker counts as used by this Connection
          replaced, \* objects whose entry was replaced (history)
          fault     \* why the model stops: a data race, a shared slot

threads == <<pc, cnt, cur, held, inside>>
ending  == <<dying, rel, call>>
vars == <<threads, used, stored, regs, ending, known, replaced, fault>>

Init ==
    /\ pc = [t \in Threads |-> "run"]
    /\ cnt = [t \in Threads |-> 0]
    /\ cur = [t \in Threads |-> None]
    /\ used = [g \in Oids |-> None]
    /\ held = [t \in Threads |-> {}]
    /\ stored = [o \in Owned |-> {}]
    /\ regs = Owned
    /\ inside = [t \in Threads |-> None]
    /\ dying = [a \in Actors |-> {}]
    /\ rel = [a \in Actors |-> None]
    /\ call = [a \in Actors |-> "none"]
    /\ known = {}
    /\ replaced = {}
    /\ fault = "none"

Running == fault = "none"

(* An actor that neither destroys a handle nor waits for an answer. *)
Free(a) == Running /\ dying[a] = {} /\ call[a] = "none"

Goto(t, from, to) == /\ pc[t] = from
                     /\ pc' = [pc EXCEPT ![t] = to]

(* shared_ptr: a handle lives while the table, a proxy in the hands of a   *)
(* thread or a proxy in an object's state refers to it.                    *)
Referenced(h, u, p, s) == \/ u[Oid(h)] = h
                          \/ \E t \in Threads : h \in p[t]
                          \/ \E o \in Owned : h \in s[o]

(* Actor a drops its references to the handles in S: those nobody else     *)
(* refers to are destroyed, by a.                                          *)
Dropped(a, S) ==
    dying' = [dying EXCEPT ![a] = @ \cup
                  {h \in S : ~Referenced(h, used', held', stored')}]

(* The slot of GetObjectDef or ReleaseObject an actor is waiting on. *)
Slot(a) == IF rel[a] # None THEN <<"ReleaseObject", Oid(rel[a])>>
           ELSE <<"GetObjectDef", cur[a]>>

SlotTaken(a, slot) == \E b \in Actors \ {a} : call[b] # "none" /\ Slot(b) = slot

-----------------------------------------------------------------------------
(* ObjectIDToMetaObject. *)

(* The broker hands ObjectID g to thread t, as an argument or a result,    *)
(* and t asks for its definition.                                          *)
Receive(t, g) ==
    /\ Free(t) /\ cnt[t] < MaxWraps
    /\ ~SlotTaken(t, <<"GetObjectDef", g>>)
    /\ Goto(t, "run", "define")
    /\ cnt' = [cnt EXCEPT ![t] = @ + 1]
    /\ cur' = [cur EXCEPT ![t] = g]
    /\ known' = known \cup {g}
    /\ call' = [call EXCEPT ![t] = "sent"]
    /\ UNCHANGED <<used, held, stored, regs, inside, dying, rel, replaced, fault>>

(* TryGetObject: the handle in the table, or a new one to be added. *)
TryGetObject(t) ==
    /\ Free(t)
    /\ LET g == cur[t]
           found == used[g] # None IN
          /\ Goto(t, "find", IF found THEN "run" ELSE "add")
          /\ held' = [held EXCEPT ![t] =
                         @ \cup {IF found THEN used[g] ELSE <<g, t, cnt[t]>>}]
    /\ UNCHANGED <<cnt, cur, used, stored, regs, inside, ending, known, replaced, fault>>

AddObjectBegin(t) ==
    /\ Free(t)
    /\ Goto(t, "add", "adding")
    /\ UNCHANGED <<cnt, cur, used, held, stored, regs, inside, ending, known, replaced,
                   fault>>

(* Mutant: the table does not keep the handle alive. *)
AddObjectNot(t) ==
    /\ Free(t)
    /\ Goto(t, "adding", "run")
    /\ UNCHANGED <<cnt, cur, used, held, stored, regs, inside, ending, known, replaced,
                   fault>>

(* _usedobjects[oid]=obj drops the entry's reference to another handle. *)
AddObjectEnd(t) ==
    /\ Free(t)
    /\ Goto(t, "adding", "run")
    /\ LET g == cur[t] IN
          /\ used' = [used EXCEPT ![g] = <<g, t, cnt[t]>>]
          /\ replaced' = IF used[g] = None THEN replaced ELSE replaced \cup {g}
          /\ UNCHANGED <<held, stored>>
          /\ Dropped(t, {used[g]} \ {None})
    /\ UNCHANGED <<cnt, cur, regs, inside, rel, call, known, fault>>

(* An insertion that overlaps another access of the table is a data race.  *)
TableRace(t) ==
    /\ Running /\ pc[t] = "adding"
    /\ \E u \in Threads \ {t} : pc[u] \in {"find", "adding"}
    /\ fault' = "race"
    /\ UNCHANGED <<threads, used, stored, regs, ending, known, replaced>>

-----------------------------------------------------------------------------
(* Proxies and own objects. *)

(* The last copy of a proxy in the hands of thread t is destroyed. *)
Drop(t, h) ==
    /\ Free(t) /\ pc[t] = "run"
    /\ h \in held[t]
    /\ held' = [held EXCEPT ![t] = @ \ {h}]
    /\ UNCHANGED <<used, stored>>
    /\ Dropped(t, {h})
    /\ UNCHANGED <<pc, cnt, cur, regs, inside, rel, call, known, replaced, fault>>

(* The receiver starts call thread t for a method of own object o; the     *)
(* thread has a shared_ptr of the object.                                  *)
Enter(t, o) ==
    /\ Free(t) /\ pc[t] = "run" /\ inside[t] = None
    /\ Free(Receiver) /\ o \in regs
    /\ inside' = [inside EXCEPT ![t] = o]
    /\ UNCHANGED <<pc, cnt, cur, held, used, stored, regs, ending, known, replaced, fault>>

Store(t, h) ==
    /\ Free(t) /\ pc[t] = "run"
    /\ inside[t] # None /\ h \in held[t]
    /\ stored' = [stored EXCEPT ![inside[t]] = @ \cup {h}]
    /\ UNCHANGED <<threads, used, regs, ending, known, replaced, fault>>

(* The end of a method call, which may destroy an object freed meanwhile. *)
Leave(t) ==
    /\ Free(t) /\ pc[t] = "run"
    /\ LET o == inside[t]
           last == o \notin regs /\ \A u \in Threads \ {t} : inside[u] # o IN
          /\ o # None
          /\ inside' = [inside EXCEPT ![t] = None]
          /\ stored' = IF last THEN [stored EXCEPT ![o] = {}] ELSE stored
          /\ UNCHANGED <<used, held>>
          /\ Dropped(t, IF last THEN stored[o] ELSE {})
    /\ UNCHANGED <<pc, cnt, cur, regs, rel, call, known, replaced, fault>>

(* Recv_FreeObject: _regobjects.erase(oid). *)
FreeObject(o) ==
    /\ Free(Receiver) /\ o \in regs
    /\ regs' = regs \ {o}
    /\ LET last == \A u \in Threads : inside[u] # o IN
          /\ stored' = IF last THEN [stored EXCEPT ![o] = {}] ELSE stored
          /\ UNCHANGED <<used, held>>
          /\ Dropped(Receiver, IF last THEN stored[o] ELSE {})
    /\ UNCHANGED <<pc, cnt, cur, inside, rel, call, known, replaced, fault>>

-----------------------------------------------------------------------------
(* ~ObjectHandle, run by actor a. *)

ReleaseObject(a, h) ==
    /\ Running /\ h \in dying[a] /\ rel[a] = None
    /\ ~SlotTaken(a, <<"ReleaseObject", Oid(h)>>)
    /\ rel' = [rel EXCEPT ![a] = h]
    /\ call' = [call EXCEPT ![a] = "sent"]
    /\ UNCHANGED <<threads, used, stored, regs, dying, known, replaced, fault>>

(* A second call under a slot name in use: ReplySlots shows where that     *)
(* leads, this model stops.                                                *)
SharedSlot(a) ==
    /\ Running
    /\ \/ \E h \in dying[a] : rel[a] = None /\ SlotTaken(a, <<"ReleaseObject", Oid(h)>>)
       \/ /\ a \in Threads /\ Free(a) /\ pc[a] = "run" /\ cnt[a] < MaxWraps
          /\ \E g \in Wraps[a] : SlotTaken(a, <<"GetObjectDef", g>>)
    /\ fault' = "slot"
    /\ UNCHANGED <<threads, used, stored, regs, ending, known, replaced>>

(* The broker answers; it takes the object back when it is released. *)
Broker(a) ==
    /\ Running /\ call[a] = "sent"
    /\ call' = [call EXCEPT ![a] = "answered"]
    /\ known' = IF rel[a] = None THEN known ELSE known \ {Oid(rel[a])}
    /\ UNCHANGED <<threads, used, stored, regs, dying, rel, replaced, fault>>

(* Mutant: the answers to ReleaseObject are not dispatched. *)
PutReplyDefOnly(a) ==
    /\ Free(Receiver) /\ call[a] = "answered" /\ rel[a] = None
    /\ call' = [call EXCEPT ![a] = "none"]
    /\ Goto(a, "define", "find")
    /\ UNCHANGED <<cnt, cur, used, held, stored, regs, inside, dying, rel, known,
                   replaced, fault>>

(* Recv_GetObjectDef and Recv_ReleaseObject, on the receiver thread, let   *)
(* the waiting call return.                                                *)
PutReply(a) ==
    /\ Free(Receiver) /\ call[a] = "answered"
    /\ call' = [call EXCEPT ![a] = "none"]
    /\ IF rel[a] = None
       THEN Goto(a, "define", "find") /\ UNCHANGED <<dying, rel>>
       ELSE /\ dying' = [dying EXCEPT ![a] = @ \ {rel[a]}]
            /\ rel' = [rel EXCEPT ![a] = None]
            /\ UNCHANGED pc
    /\ UNCHANGED <<cnt, cur, used, held, stored, regs, inside, known, replaced, fault>>

-----------------------------------------------------------------------------

(* What a thread goes on with by itself, and what the others do for it. *)
Continue(t) == TryGetObject(t) \/ AddObjectBegin(t) \/ AddObjectEnd(t)

Destroy(a) == \E h \in dying[a] : ReleaseObject(a, h)

Next ==
    \/ \E t \in Threads :
          \/ \E g \in Wraps[t] : Receive(t, g)
          \/ Continue(t) \/ TableRace(t)
          \/ \E h \in held[t] : Drop(t, h) \/ Store(t, h)
          \/ \E o \in Owned : Enter(t, o)
          \/ Leave(t)
    \/ \E o \in Owned : FreeObject(o)
    \/ \E a \in Actors : Destroy(a) \/ SharedSlot(a) \/ Broker(a) \/ PutReply(a)

Spec == Init /\ [][Next]_vars

(* Threads go on with a conversion and with a destructor, the broker       *)
(* answers and the receiver delivers; proxies need not be dropped.         *)
FairSpec ==
    /\ Spec
    /\ \A t \in Threads : WF_vars(Continue(t))
    /\ \A a \in Actors : WF_vars(Destroy(a)) /\ WF_vars(Broker(a)) /\ WF_vars(PutReply(a))

-----------------------------------------------------------------------------
(* Properties. *)

(* Type correctness of the table, the proxies and the calls under way. *)
TypeOK ==
    /\ pc \in [Threads -> {"run", "define", "find", "add", "adding"}]
    /\ cnt \in [Threads -> 0..MaxWraps]
    /\ cur \in [Threads -> Oids \cup {None}]
    /\ used \in [Oids -> Handles \cup {None}]
    /\ held \in [Threads -> SUBSET Handles]
    /\ stored \in [Owned -> SUBSET Handles]
    /\ regs \subseteq Owned
    /\ inside \in [Threads -> Owned \cup {None}]
    /\ dying \in [Actors -> SUBSET Handles]
    /\ rel \in [Actors -> Handles \cup {None}]
    /\ call \in [Actors -> {"none", "sent", "answered"}]
    /\ known \subseteq Oids /\ replaced \subseteq Oids
    /\ fault \in {"none", "race", "slot"}

(* Somebody in the application has a proxy of object g. *)
InUse(g) == \/ \E t \in Threads : \E h \in held[t] : Oid(h) = g
            \/ \E o \in Owned : \E h \in stored[o] : Oid(h) = g

(* An object is released from use by the Connection (ReleaseObject) only   *)
(* when no proxy of it is left.                                            *)
InUseNotReleased == \A g \in Oids : InUse(g) => g \in known

(* Only an entry that was replaced, which takes two threads between        *)
(* TryGetObject and AddObject at once, lets an object be released in use.  *)
InUseUnlessReplaced == \A g \in Oids : InUse(g) => g \in known \cup replaced

(* An object that one thread alone receives is never released in use,      *)
(* whatever the other threads do.                                          *)
PrivateInUse ==
    \A t \in Threads : \A g \in Wraps[t] :
        (\A u \in Threads \ {t} : g \notin Wraps[u]) /\ InUse(g) => g \in known

(* The receiver thread, which alone can deliver the answer it would wait   *)
(* for, destroys no handle of an object whose entry was never replaced:    *)
(* the table keeps it, although no proxy of the object may be left.        *)
ReceiverNeverWaits == \A h \in dying[Receiver] : Oid(h) \in replaced

(* A destructor that has begun ends, unless the receiver is in one itself. *)
ReleasesComplete ==
    \A a \in Actors :
        dying[a] # {} ~> (dying[a] = {} \/ ~Running \/ dying[Receiver] # {})

-----------------------------------------------------------------------------
(* The inductive invariant behind the safety properties. *)

Converting(t) == pc[t] \in {"define", "find", "add", "adding"}
Adding(t) == pc[t] \in {"add", "adding"}

(* The handle a thread has made and is about to add. *)
Made(t) == <<cur[t], t, cnt[t]>>

(* Some proxy has handle h. *)
Held(h) == \/ \E t \in Threads : h \in held[t]
           \/ \E o \in Owned : h \in stored[o]

(* Two threads receive object g. *)
Shared(g) == \E t, u \in Threads : t # u /\ g \in Wraps[t] /\ g \in Wraps[u]

(* Only a conversion or a destructor has a call under way. *)
CallInv ==
    \A a \in Actors : call[a] # "none" =>
        rel[a] # None \/ (a \in Threads /\ pc[a] = "define")

ConvertInv ==
    \A t \in Threads :
        /\ Converting(t) => cur[t] \in Wraps[t] /\ cnt[t] > 0
        /\ Adding(t) => Made(t) \in held[t]
        /\ Adding(t) /\ used[cur[t]] # None => Shared(cur[t])

(* What is in use, or about to be, was handed out and not taken back,      *)
(* unless its entry was replaced.                                          *)
KnownInv ==
    /\ \A t \in Threads : Converting(t) => cur[t] \in known \cup replaced
    /\ \A g \in Oids : used[g] # None => Oid(used[g]) = g /\ g \in known \cup replaced
    /\ \A h \in Handles : Held(h) => Oid(h) \in known \cup replaced

(* The handle of a proxy is in the table, or about to be. *)
HandleInv ==
    \A h \in Handles : Held(h) =>
        \/ Oid(h) \in replaced
        \/ used[Oid(h)] = h
        \/ Adding(h[2]) /\ h = Made(h[2])

(* Only handles of objects whose entry was replaced are destroyed. *)
DyingInv ==
    \A a \in Actors :
        /\ \A h \in dying[a] : Oid(h) \in replaced
        /\ rel[a] # None => Oid(rel[a]) \in replaced

(* An entry is replaced only by two threads that receive the same object. *)
ReplacedInv == \A g \in replaced : Shared(g)

IInv == /\ TypeOK
        /\ CallInv
        /\ ConvertInv
        /\ KnownInv
        /\ HandleInv
        /\ DyingInv
        /\ ReplacedInv
=============================================================================
