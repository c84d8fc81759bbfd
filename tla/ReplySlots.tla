---------------------------- MODULE ReplySlots ----------------------------
(***************************************************************************)
(* The reply slots of a Connection (connection.cpp:126-150) and the        *)
(* Futures kept in them (future.hpp), at the granularity of their locks.   *)
(*                                                                         *)
(* Every API function of Connection makes a call the same way: SetupReply  *)
(* puts a new Future into _replymap under the slot's name, Send hands the  *)
(* request to the sender thread, GetReply looks the Future up, waits for   *)
(* it, copies the value and erases the slot.  The receiver thread runs     *)
(* PutReply for each answer of the broker.  _rpmut guards SetupReply, the  *)
(* lookup in GetReply and the whole of PutReply; the erase at the end of   *)
(* GetReply runs without it.                                               *)
(*                                                                         *)
(* The sender thread, the socket and the broker are the set `requests':    *)
(* the broker answers each request once, in any order.  A Future, a        *)
(* request and an answer are all named after the call that made them.      *)
(***************************************************************************)
EXTENDS Naturals

CONSTANTS Threads,      \* threads that call the Connection's API
          Names,        \* slot names
          Uses,         \* Uses[t]: the names thread t makes calls under
          MaxCalls,     \* bound on the calls one thread makes
          AbortsOnRace, \* TRUE if undefined behaviour may end the process
          Absent,       \* no map entry, no value
          Null          \* the null shared_ptr operator[] inserts for a new key

Calls == Threads \X (1..MaxCalls)

ASSUME ConstantsAssumption ==
    /\ MaxCalls \in Nat
    /\ Uses \in [Threads -> SUBSET Names]
    /\ AbortsOnRace \in BOOLEAN
    /\ Absent \notin Calls /\ Null \notin Calls /\ Absent # Null
    /\ Absent \notin Names

VARIABLES pc,        \* where each thread is in its call
          cnt,       \* calls each thread has started
          ptr,       \* GetReply's local `ptr' of each thread
          ret,       \* GetReply's local `ret' of each thread
          name,      \* the slot name each call uses
          replymap,  \* _replymap: name -> Future, Null or Absent
          avail,     \* _avail of each Future
          result,    \* _result of each Future
          requests,  \* sent and not yet answered
          rpc,       \* the step of PutReply the receiver takes next
          rcur,      \* the answer it is delivering
          rfut,      \* the Future it called Set on
          returned,  \* what each finished call returned (history)
          fault      \* undefined behaviour that ended the process

callers  == <<pc, cnt, ptr, ret, name>>
futures  == <<avail, result>>
receiver == <<rpc, rcur, rfut>>
vars == <<callers, replymap, futures, requests, receiver, returned, fault>>

-----------------------------------------------------------------------------

Cur(t) == <<t, cnt[t]>>             \* the call thread t is in, or was in last

(* _rpmut: only PutReply keeps it from one step to the next. *)
RpmutFree == rpc = "read"

(* shared_ptr: a Future lives while the map or a GetReply refers to it. *)
Alive(c) == \/ \E n \in Names : replymap[n] = c
            \/ \E t \in Threads : ptr[t] = c

(* Wrong orders of PutReply, for the mutation runs: _avail set before      *)
(* _result; the return without releasing _rpmut.                           *)
AvailFirst == [read |-> "avail", avail |-> "result", result |-> "notify",
               notify |-> "read"]
LockKept == [read |-> "result", result |-> "avail", avail |-> "notify",
             notify |-> "locked"]

(* The steps of PutReply, in order: the lookup in _replymap, then Set's    *)
(* assignment of _result, of _avail (under the Future's mutex) and its     *)
(* notify_all.                                                             *)
After == [read |-> "result", result |-> "avail", avail |-> "notify",
          notify |-> "read"]

Running == fault = "none"

Init ==
    /\ pc = [t \in Threads |-> "idle"]
    /\ cnt = [t \in Threads |-> 0]
    /\ ptr = [t \in Threads |-> Absent]
    /\ ret = [t \in Threads |-> Absent]
    /\ name = [c \in Calls |-> Absent]
    /\ replymap = [n \in Names |-> Absent]
    /\ avail = [c \in Calls |-> FALSE]
    /\ result = [c \in Calls |-> Absent]
    /\ requests = {}
    /\ rpc = "read" /\ rcur = Absent /\ rfut = Absent
    /\ returned = [c \in Calls |-> Absent]
    /\ fault = "none"

Goto(t, from, to) == /\ pc[t] = from
                     /\ pc' = [pc EXCEPT ![t] = to]

-----------------------------------------------------------------------------
(* A call, made by thread t. *)

SetupReply(t, nm) ==
    /\ Running /\ RpmutFree
    /\ cnt[t] < MaxCalls
    /\ Goto(t, "idle", "send")
    /\ cnt' = [cnt EXCEPT ![t] = @ + 1]
    /\ LET c == <<t, cnt[t] + 1>> IN
          /\ name' = [name EXCEPT ![c] = nm]
          /\ replymap' = [replymap EXCEPT ![nm] = c]
    /\ UNCHANGED <<ptr, ret, futures, requests, receiver, returned, fault>>

Send(t) ==
    /\ Running
    /\ Goto(t, "send", "lookup")
    /\ requests' = requests \cup {Cur(t)}
    /\ UNCHANGED <<cnt, ptr, ret, name, replymap, futures, receiver, returned, fault>>

(* Mutant: the lookup also takes the slot out of the map. *)
LookupTakesSlot(t) ==
    /\ Running /\ RpmutFree
    /\ Goto(t, "lookup", "get")
    /\ ptr' = [ptr EXCEPT ![t] = replymap[name[Cur(t)]]]
    /\ replymap' = [replymap EXCEPT ![name[Cur(t)]] = Absent]
    /\ UNCHANGED <<cnt, ret, name, futures, requests, receiver, returned, fault>>

(* ptr=_replymap[nm]: operator[] inserts a null pointer for a missing key. *)
GetReplyLookup(t) ==
    /\ Running /\ RpmutFree
    /\ Goto(t, "lookup", "get")
    /\ LET nm == name[Cur(t)]
           found == IF replymap[nm] = Absent THEN Null ELSE replymap[nm] IN
          /\ ptr' = [ptr EXCEPT ![t] = found]
          /\ replymap' = [replymap EXCEPT ![nm] = found]
    /\ UNCHANGED <<cnt, ret, name, futures, requests, receiver, returned, fault>>

(* Mutant: Get does not wait for _avail. *)
WaitNotAtAll(t) ==
    /\ Running
    /\ Goto(t, "get", "copy")
    /\ ptr[t] # Null
    /\ UNCHANGED <<cnt, ptr, ret, name, replymap, futures, requests, receiver,
                   returned, fault>>

(* ptr->Get() blocks until _avail and returns a reference to _result; *)
GetReplyWait(t) ==
    /\ Running
    /\ Goto(t, "get", "copy")
    /\ ptr[t] # Null
    /\ avail[ptr[t]]
    /\ UNCHANGED <<cnt, ptr, ret, name, replymap, futures, requests, receiver,
                   returned, fault>>

(* the value is copied from it after Get has released the Future's mutex.  *)
GetReplyCopy(t) ==
    /\ Running
    /\ Goto(t, "copy", "erase")
    /\ ret' = [ret EXCEPT ![t] = result[ptr[t]]]
    /\ UNCHANGED <<cnt, ptr, name, replymap, futures, requests, receiver,
                   returned, fault>>

(* _replymap.erase(nm) holds no lock: it takes an interval of time in      *)
(* which other threads may be at work on the map.                          *)
GetReplyEraseBegin(t) ==
    /\ Running
    /\ Goto(t, "erase", "erasing")
    /\ UNCHANGED <<cnt, ptr, ret, name, replymap, futures, requests, receiver,
                   returned, fault>>

(* Mutant: the slot is not erased. *)
EraseNothing(t) ==
    /\ Running
    /\ Goto(t, "erasing", "idle")
    /\ ptr' = [ptr EXCEPT ![t] = Absent]
    /\ returned' = [returned EXCEPT ![Cur(t)] = ret[t]]
    /\ UNCHANGED <<cnt, ret, name, replymap, futures, requests, receiver, fault>>

(* The end of the erase and the return, which drops `ptr'. *)
GetReplyEraseEnd(t) ==
    /\ Running
    /\ Goto(t, "erasing", "idle")
    /\ replymap' = [replymap EXCEPT ![name[Cur(t)]] = Absent]
    /\ ptr' = [ptr EXCEPT ![t] = Absent]
    /\ returned' = [returned EXCEPT ![Cur(t)] = ret[t]]
    /\ UNCHANGED <<cnt, ret, name, futures, requests, receiver, fault>>

-----------------------------------------------------------------------------
(* PutReply, on the receiver thread, for the answer to call c. *)

(* Mutant: the handler builds the slot name without the key. *)
PutReplyAnySlot(c) ==
    /\ Running /\ rpc = "read"
    /\ c \in requests
    /\ requests' = requests \ {c}
    /\ rpc' = After[rpc]
    /\ rcur' = c
    /\ rfut' \in {replymap[n] : n \in Names} \cap Calls
    /\ UNCHANGED <<callers, replymap, futures, returned, fault>>

PutReplyLookup(c) ==
    /\ Running /\ rpc = "read"
    /\ c \in requests
    /\ requests' = requests \ {c}
    /\ replymap[name[c]] \in Calls
    /\ rpc' = After[rpc]
    /\ rcur' = c
    /\ rfut' = replymap[name[c]]
    /\ UNCHANGED <<callers, replymap, futures, returned, fault>>

SetResult ==
    /\ Running /\ rpc = "result"
    /\ result' = [result EXCEPT ![rfut] = rcur]
    /\ rpc' = After[rpc]
    /\ UNCHANGED <<callers, replymap, avail, requests, rcur, rfut, returned, fault>>

SetAvail ==
    /\ Running /\ rpc = "avail"
    /\ avail' = [avail EXCEPT ![rfut] = TRUE]
    /\ rpc' = After[rpc]
    /\ UNCHANGED <<callers, replymap, result, requests, rcur, rfut, returned, fault>>

(* notify_all, and the return from PutReply, which releases _rpmut. *)
Notify ==
    /\ Running /\ rpc = "notify"
    /\ rpc' = After[rpc]
    /\ UNCHANGED <<callers, replymap, futures, requests, rcur, rfut, returned, fault>>

-----------------------------------------------------------------------------
(* Undefined behaviour, and the checked null dereference. *)

Fault(what) ==
    /\ Running
    /\ fault' = what
    /\ UNCHANGED <<callers, replymap, futures, requests, receiver, returned>>

(* boost::shared_ptr's operator-> asserts that the pointer is not null.    *)
PutReplyNull(c) ==
    /\ rpc = "read" /\ c \in requests
    /\ replymap[name[c]] \notin Calls
    /\ Fault("null slot")

GetReplyNull(t) ==
    /\ pc[t] = "get" /\ ptr[t] = Null
    /\ Fault("null slot")

(* A thread, or the receiver, about to use the map. *)
MapAccess(t) ==
    \/ pc[t] = "idle" /\ cnt[t] < MaxCalls /\ RpmutFree
    \/ pc[t] = "lookup" /\ RpmutFree
    \/ pc[t] = "erasing"

(* An erase that overlaps another use of the map is a data race: it may    *)
(* pass unnoticed (the actions above) or break the map and the process.    *)
MapRace(t) ==
    /\ AbortsOnRace /\ pc[t] = "erasing"
    /\ \/ \E u \in Threads \ {t} : MapAccess(u)
       \/ rpc = "read" /\ requests # {}
    /\ Fault("map race")

(* So does the rest of a Set whose Future has been destroyed. *)
DeadFuture ==
    /\ AbortsOnRace /\ rpc # "read" /\ ~Alive(rfut)
    /\ Fault("dead future")

-----------------------------------------------------------------------------

Continue(t) ==
    \/ Send(t)
    \/ GetReplyLookup(t)
    \/ GetReplyWait(t)
    \/ GetReplyCopy(t)
    \/ GetReplyEraseBegin(t)
    \/ GetReplyEraseEnd(t)
    \/ GetReplyNull(t)

Reciever ==
    \/ \E c \in Calls : PutReplyLookup(c) \/ PutReplyNull(c)
    \/ SetResult
    \/ SetAvail
    \/ Notify

Next ==
    \/ \E t \in Threads, nm \in Names : nm \in Uses[t] /\ SetupReply(t, nm)
    \/ \E t \in Threads : Continue(t) \/ MapRace(t)
    \/ Reciever
    \/ DeadFuture

Spec == Init /\ [][Next]_vars

(* A thread that has begun a call goes on with it and the receiver goes on *)
(* reading; no thread is obliged to begin a call.                          *)
FairSpec == Spec /\ WF_vars(Reciever) /\ \A t \in Threads : WF_vars(Continue(t))

-----------------------------------------------------------------------------
(* Properties.                                                             *)

(* The names two threads use never meet: what the documentation of         *)
(* SetupReply asks of its callers ("the unique name").                     *)
DisjointUses ==
    \A t, u \in Threads : t # u => Uses[t] \cap Uses[u] = {}

(* Type correctness of the slot map, the Futures and the three kinds of    *)
(* thread state.                                                           *)
TypeOK ==
    /\ pc \in [Threads -> {"idle", "send", "lookup", "get", "copy", "erase", "erasing"}]
    /\ cnt \in [Threads -> 0..MaxCalls]
    /\ ptr \in [Threads -> Calls \cup {Absent, Null}]
    /\ ret \in [Threads -> Calls \cup {Absent}]
    /\ name \in [Calls -> Names \cup {Absent}]
    /\ replymap \in [Names -> Calls \cup {Absent, Null}]
    /\ avail \in [Calls -> BOOLEAN]
    /\ result \in [Calls -> Calls \cup {Absent}]
    /\ requests \in SUBSET Calls
    /\ rpc \in {"read", "result", "avail", "notify"}
    /\ rcur \in Calls \cup {Absent}
    /\ rfut \in Calls \cup {Absent}
    /\ returned \in [Calls -> Calls \cup {Absent}]
    /\ fault \in {"none", "null slot", "map race", "dead future"}

(* GetReply hands its caller the answer to the caller's own request, never *)
(* that of another call, a stale one or an unset value.                    *)
OwnReply ==
    /\ \A t \in Threads : pc[t] \in {"erase", "erasing"} => ret[t] = Cur(t)
    /\ \A c \in Calls : returned[c] \in {c, Absent}

(* Whatever names the threads use, shared or not, what GetReply returns    *)
(* was sent in answer to a request made under the same slot name.          *)
NameIsolation ==
    \A c \in Calls : returned[c] # Absent => name[returned[c]] = name[c]

(* The slot of every answer still owed is the caller's own and unset, and  *)
(* GetReply found it: neither PutReply nor GetReply meets a null pointer.  *)
SlotsHeld ==
    /\ \A c \in requests : replymap[name[c]] = c /\ ~avail[c]
    /\ \A t \in Threads : pc[t] = "get" => ptr[t] = Cur(t)
    /\ fault # "null slot"

(* No slot outlives the call that made it: each entry of _replymap belongs *)
(* to a call in progress.                                                  *)
NoSlotLeak ==
    \A n \in Names : replymap[n] # Absent =>
        \E t \in Threads : pc[t] # "idle" /\ replymap[n] = Cur(t)

(* PutReply assigns _result and _avail of a Future that still exists.      *)
SetWritesLiveFuture == rpc \in {"result", "avail"} => Alive(rfut)

(* PutReply "also wakes up code waiting for the reply" (connection.hpp):   *)
(* the Future whose waiters it wakes still exists.                         *)
NotifiesLiveFuture == rpc = "notify" => Alive(rfut)

(* A Future is assigned once: its value does not change after _avail is    *)
(* set, when a reader may be copying it without a lock.                    *)
SetOnce == [][\A c \in Calls : avail[c] => avail'[c] /\ result'[c] = result[c]]_vars

(* Every call that has begun returns, while nothing undefined happens.     *)
CallsReturn ==
    \A t \in Threads : pc[t] # "idle" ~> (pc[t] = "idle" \/ ~Running)

(* The calls, seen by their callers, are those of Rpc.                     *)
Status == [c \in Calls |->
    IF c[2] > cnt[c[1]] THEN "new"
    ELSE IF c # Cur(c[1]) \/ pc[c[1]] = "idle" THEN "returned"
    ELSE IF avail[c] THEN "answered"
    ELSE "pending"]

Abstract == INSTANCE Rpc WITH status <- Status, value <- returned, None <- Absent

ImplementsRpc == Abstract!Spec

-----------------------------------------------------------------------------
(* The inductive invariant behind OwnReply, SlotsHeld, NoSlotLeak and the  *)
(* refinement, when names are not shared.                                  *)

InCall(t) == pc[t] # "idle"

(* A thread in a call holds its slot in the map, and only that one. *)
SlotInv ==
    /\ \A t \in Threads : InCall(t) =>
          /\ cnt[t] > 0
          /\ name[Cur(t)] \in Uses[t]
          /\ replymap[name[Cur(t)]] = Cur(t)
    /\ \A n \in Names : replymap[n] # Absent =>
          \E t \in Threads : InCall(t) /\ replymap[n] = Cur(t) /\ name[Cur(t)] = n

(* What each step of GetReply has read. *)
ReaderInv ==
    /\ \A t \in Threads : pc[t] \in {"get", "copy", "erase", "erasing"} => ptr[t] = Cur(t)
    /\ \A t \in Threads : pc[t] \in {"copy", "erase", "erasing"} => avail[Cur(t)]
    /\ \A t \in Threads : pc[t] \in {"erase", "erasing"} => ret[t] = Cur(t)

(* An answer is owed, or being delivered, to a call that still waits. *)
Waiting(c) == /\ c = Cur(c[1])
              /\ pc[c[1]] \in {"lookup", "get"}
              /\ ~avail[c]

AnswerInv ==
    /\ \A c \in requests : Waiting(c)
    /\ rpc # "read" => rfut = rcur /\ rcur \in Calls /\ rcur \notin requests
    /\ rpc \in {"result", "avail"} => Waiting(rcur)
    /\ rpc \in {"avail", "notify"} => result[rcur] = rcur
    /\ rpc = "notify" => avail[rcur]

(* The Future of a call that has not begun, or has not sent, is unset; a   *)
(* set one holds the answer to its own call; a past call is over.          *)
FutureInv ==
    /\ \A c \in Calls : c[2] > cnt[c[1]] => ~avail[c] /\ returned[c] = Absent
    /\ \A t \in Threads : pc[t] = "send" => ~avail[Cur(t)]
    /\ \A c \in Calls : avail[c] => result[c] = c
    /\ \A t \in Threads : InCall(t) => returned[Cur(t)] = Absent
    /\ \A c \in Calls : returned[c] \in {c, Absent}

(* The strengthening of the slot properties that every step preserves.     *)
IInv == TypeOK /\ SlotInv /\ ReaderInv /\ AnswerInv /\ FutureInv /\ fault # "null slot"

(* The strengthening of NameIsolation, whatever names the threads use: a   *)
(* call that has begun keeps its slot name, and every reference to a       *)
(* Future, every answer and every value is one of a call begun under the   *)
(* name it is kept, delivered or returned for.                             *)
Begun(c) == c \in Calls /\ c[2] <= cnt[c[1]]

Under(c, n) == Begun(c) /\ name[c] = n

NameInv ==
    /\ \A c \in Calls : Begun(c) => name[c] \in Names
    /\ \A n \in Names : replymap[n] \in Calls => Under(replymap[n], n)
    /\ \A c \in requests : Begun(c)
    /\ rpc # "read" => Begun(rcur) /\ Under(rfut, name[rcur])
    /\ \A c \in Calls : result[c] # Absent => Begun(c) /\ Under(result[c], name[c])
    /\ \A t \in Threads : ptr[t] \in Calls => InCall(t) /\ Under(ptr[t], name[Cur(t)])
    /\ \A t \in Threads : pc[t] \in {"erase", "erasing"} /\ ret[t] # Absent =>
          Under(ret[t], name[Cur(t)])
    /\ \A c \in Calls : returned[c] # Absent => Begun(c) /\ Under(returned[c], name[c])
=============================================================================
