# A TLA+ model of cobject-client

cobject-client is a C++ library through which an application talks to a
CrossObject broker: it registers classes and objects, gets proxies for those of
other applications, and calls their methods. This directory holds TLA+
specifications of the library, the TLC configurations that check them on small
instances, and proofs, checked by TLAPS, of what holds for every value of the
constants.

## 1. The system

### Threads and shared state

One `Connection` object is shared by

* any number of **application threads**, which call its API;
* the **sender** thread (`Connection::Sender`), which writes queued messages to
  the socket;
* the **receiver** thread (`Connection::Reciever`), which reads one message
  after the other and runs its `Recv_` handler;
* **call threads**, one per request of the broker (`runcall.cpp`), which run a
  method of a registered class or object and send back the result. They call the
  API themselves when an argument or a result is an object.

| Component | State | Operations | What makes it correct | Module |
|---|---|---|---|---|
| Reply slots (`connection.cpp:126-150`) | `_replymap`, `_rpmut` | `SetupReply`, `PutReply`, `GetReply` | each call returns the answer to its own request, once; no slot is lost or left behind | `ReplySlots`, abstract `Rpc` |
| Future (`future.hpp`) | `_result`, `_avail`, mutex, condition | `Set`, `Get` | no lost wakeup, no torn value, alive while used | `Future`, abstract `Promise` |
| Send queue (`connection.cpp:27-51`, `119-124`) | `_sendqueue`, `_sqmut`, `_sendcond`, `_sendready`, `*_term` | `Send`, the sender's loop | FIFO, nothing before the welcome, nothing forgotten | `SendQueue`, abstract `Channel` |
| Wire format (`serialize.*`) | none | `Serialize`, `Deserialize` | what is read is what was written; what can be published can be written | `Stream`, `Codec` |
| Type mapping (`typemap.*`, `metaext.cpp:61-131`) | none | `MapType`, `TypeToTypeInfo` | no two types share a name; a proxy reports the types its method was published with | `TypeMap` |
| Remote calls (`metaext.cpp`, `runcall.cpp`, part of `connection.cpp`) | `_callid`, proxies, streams, `_regobjects` | `COFnWrap::Call`, `Recv_Req...`, `Do_Run...`, `Recv_Call...` | arguments and results arrive unchanged, receivers stay in step | `RemoteCall` (the data), `Connection` (the control) |
| API operations and dispatch (`connection.cpp:53-117`, `152-436`) | `_nsname`, slot names, `_regclasses`, `_regobjects`, `_objectid`, `_callid` | one function and one handler per message, call threads | both sides build the same slot name, nested calls return, what is looked up exists | `Connection` |
| Used objects (`connection.cpp:362-383`, `431-451`, `connection.hpp:198-221`, `metaext.cpp:133-153`) | `_usedobjects`, handles | `ObjectIDToMetaObject`, `TryGetObject`, `AddObject`, `~ObjectHandle`, `ReleaseObject`, `FreeObject` | an object lives while a proxy of it does | `Objects` |
| Shutdown (`connection.cpp:27-33`) | `*_term`, both threads, `_usedobjects` | `~Connection` | the threads end; nobody waits for ever | `Shutdown` |
| Socket stream (`socketstream.*`) | the socket | `read`, `write` | bytes arrive in order | bounded FIFO in `SendQueue` |

The components meet in four ways: by the shared slot map (application and call
threads against the receiver), by the send queue (everybody against the sender),
by the flag `_sendready` (receiver to sender), and by the messages themselves.

### What is hard here

* **Interleaving without locks.** `GetReply` erases its slot without `_rpmut`;
  `Future::Set` assigns before it locks and notifies after it unlocks; `_callid`,
  `_objectid`, `_regclasses`, `_regobjects` and `_usedobjects` are shared without
  any lock.
* **Names as identities.** The answer to a call is found by a slot name. Some
  names are constants (`"SetNamespace"`), some contain an argument
  (`"ListClasses:" + ns`), some a counter (`"Call:10:7"`).
* **Blocking under a lock.** The sender writes to the socket with `_sqmut` held.
* **Undelimited messages.** Nothing on the wire separates messages: a reader that
  takes one item too many or too few misreads everything that follows.
* **Calls inside calls.** A request of the broker may need answers of the broker
  before it can be answered; destroying a proxy may make a call.
* **Ends.** `~Connection` sets a flag, interrupts both threads and sleeps.

`PROJECT.json` lists every such place with its line ("hazards"), and the
properties that cover it or the reason why none does.

## 2. The modules

### `Rpc`, `ReplySlots`: synchronous calls

`Rpc` is what a caller is promised: a call goes through *new*, *pending*,
*answered*, *returned*, and returns the value given in answer to it. A thread has
one call in progress at a time.

`ReplySlots` is the code. A thread's `pc` is its place in
`SetupReply; Send; GetReply`, the skeleton of every API function; `SetupReply`, the
lookup in `GetReply` and the whole of `PutReply` run under `_rpmut`. `PutReply` is
four steps (lookup, `_result=`, `_avail=true`, `notify_all`) and `GetReply` five
(lookup, wait, copy, and a beginning and an end of the unlocked `erase`, so that
other uses of the map can overlap it). The Future of a call, its request and its
answer carry the name of the call that made them, so a wrong delivery is visible.
Sender, socket and broker are the set `requests`: the broker answers each request
once, in any order. That is weaker than the FIFO they are, so what is shown holds
for the FIFO.

`AbortsOnRace = TRUE` adds what undefined behaviour may do: an erase that overlaps
another access of the map, or a `Set` on a destroyed Future, may end the process
(`fault`) or go unnoticed. A null pointer in a slot is boost's assertion, always a
fault.

`Uses[t]` says under which slot names thread `t` makes calls. `DisjointUses` - no
name is used by two threads - is what `connection.hpp:102` asks for ("the unique
name"). The library itself guarantees it for calls of methods as long as
`_callid` is not raced; for the calls with constant names nothing does, which is
what the run `slots_shared` shows.

### `Promise`, `Future`

`Promise` is a value given once and told to any number of readers. `Future` has one
setter and readers at the granularity of the mutex and the condition variable, with
bounded spurious wakeups. The assignment of `_result` and the copy that `GetReply`
makes of the returned reference both take an interval with no lock held; a copy that
sees the value change is `Torn`.

### `Channel`, `SendQueue`

`Channel` is a FIFO: `sent` and its prefix `delivered`. `SendQueue` has the clients'
`Send`, the sender's loop (spin on `_sendready`, test of `*term`, lock, inner loop
with the wait, write, pop), a socket of `SocketCap` messages, the broker that reads
it, and of `~Connection` the two statements that concern the sender (`*_term=true`
and `interrupt`, which takes effect at the wait). The refinement maps `sent` to
what the broker has read, the socket, and the queue without the element that is
being written.

### `TypeMap`

The three mappings between C++ types and protocol types, which the code keeps in three
files: `MapType`, with which a class is published (`NameOf`, from `typemap.cpp`), the
types to which `Serialize` casts a value (`CppOf` and `WrittenAs`, from
`serialize.cpp`), and `TypeToTypeInfo`, with which a proxy reports what it takes and
returns (`MetaCpp`, from `metaext.cpp`). Each is a table of its own, written from its
own file, so that the theorems which compare them say something about the code. A
protocol type is a sequence of array prefixes and a name, a C++ type a sequence such
as `<<"vector", "int8_t">>`. The module is apart from `Codec` because it needs no
recursion, so that theorems about it can be proved.

### `Stream`, `Codec`

The wire format as operators. A stream (`Stream`) is a sequence of items
`<<width, datum>>`, so that a read of the wrong width is an error (`Lost`) instead of a
wrong number; an exception while writing is the item `Throw`. A `boost::any` is its C++ type with its
data, and `any_cast` compares types. `Serialize(c, d)` and `Deserialize(c, in)` choose the overload by the
C++ type, as overload resolution does, and recur (a `Hash` holds anys, a vector
holds elements). `Codec` therefore has RECURSIVE operators and no theorems, and what
`RemoteCall` needs of streams but not of the format is in `Stream`.

Named differences the model keeps: `SerializeArray` has no branch for `Hash`,
`DeserializeArray` has; `DeserializeArray` throws for an array of void, which
`SerializeArray` writes; `Hash` entries are sent with the type of the any that holds
them; `TypeToTypeInfo` does not know floating point; an array of objects is cast to
a vector of ObjectIDs although it maps from a vector of `MetaObject`. The run
`remote_types` shows what three of them lead to.

### `RemoteCall`

Two applications and a broker that forwards. `A` gets a class of `B`, makes
proxies, and calls methods: `Call` writes the request as `COFnWrap::Call` does (the
conversion of objects included), `RequestArrives` is the three `Recv_Req` handlers,
`RunConstruct` and `RunMethod` are the call threads, `AnswerArrives` the three
answer handlers and the end of `Call`. A proxy holds the `MethodInfo` it was made with
(`MakeMetaClass`), so a call is written with what A has read of the class, not with
what B declared. `slots` has the reply slots of the calls: `Call` makes one after all
of the request has been written (`SetupReply`), so that a call whose arguments cannot
be written leaves none. Several calls are under way at once and share
the two streams, so that a reader out of step meets the next message. The broker is
external: `Forward` and `Answer` replace the MessageID, and the broker drops the
namespace, because that is how the two sides of `src/` differ.

The wire format is a parameter: `Write` and `Read` stand for the overloads of
`Serialize` and `Deserialize`, which the calls use without looking into the stream
themselves. `CodecContract` lists what the calls need of them: the class definition,
the numbers, names and results they write are read back as they were, whatever follows
them in the stream, and each list of arguments either is well typed and read back, or
makes the writing throw. The contract leaves it open which well-typed arguments can be
written. It is not true of a method with a result of type `vector<Hash>` or
`vector<MetaObject>`, whose answer cannot be written, nor of one with a parameter of
type `NullType`, for which any value is written as nothing.
`MCRemoteCall` gives the parameters the operators of `Codec`, and the run checks with
`RoundTrip` that they keep the contract.

### `Objects`

The objects of other applications. A proxy shares an `ObjectHandle` with its copies
and with the table `_usedobjects`; whoever drops the last reference runs
`~ObjectHandle`, which calls `ReleaseObject` and waits. `Receive`, `TryGetObject`,
`AddObjectBegin` and `AddObjectEnd` are `ObjectIDToMetaObject`, with the answer to
`GetObjectDef` in between; `Referenced` is the reference count and `Dropped` who
destroys what. Methods of the application's own objects may keep proxies (`Store`),
so that `Recv_FreeObject`, or the end of a method that outlives its object, drops
them. Each actor has at most one call under way (`call`); the receiver must be free
to deliver an answer (`PutReply`), which is how its own destructor would hang. The
model stops at a data race on the table and at a second call under a slot name in
use, which is the subject of `ReplySlots`. `replaced` records the objects whose
entry was overwritten while it existed.

### `Connection`

The control of everything above the slots: application threads that make any call
of the API, call threads, the receiver and the broker. A call is a list of steps
(`Steps`): `ReadCallID` and `CountCall` are the two halves of `++_callid`,
`ReadObjectID` and `StoreObject` those of `_regobjects[++_objectid]=`, a message
stands for `SetupReply; Send; GetReply`, `Run` and `Answer` are the rest of a call
thread. So `RegisterObject` inside `COFnWrap::Call`, or `COFnWrap::Call` inside a
method that a call thread runs (`callhello` of `testclass.cpp`), is the
concatenation of their steps. `SlotName` is the name the caller makes, `RecvSlot`
the one the handler makes from what it reads; they are separate translations of
separate functions. The application owns the class and the objects it calls, as
`main.cpp` does, so that each of its calls comes back as a request. `Target`, what
a call thread works on, is looked up by the receiver (`RecvRequest`).

The broker answers in the order of the requests and forwards with a CallID of its
own; it is external and modelled from what the client sends and expects. It takes
each message as it is sent, and the queue `in` of messages on their way back has all
the delay. The model stops (`fault`) where two calls share a slot, where a table is
accessed during an insertion, and where a null pointer is used; `Clash` tells
sharing for which the callers ask (the same question, or two `SetNamespace`s) from
sharing of a name made from a raced number (`"same number"`) and from everything
else (`"clash"`): two calls with a CallID or an ObjectID in their name must never
meet unless two threads have counted from the same value.

`Workers` is a named bound: a request waits in `in` while no call thread is idle
(the code starts a thread for every request). `Names` is the set of the names of
namespaces and classes; `CallsAssumption` says what a call of the API may be. Both
serve the proofs: they say which data the program's calls are made from.

### `Shutdown`

`SendQueue` with the receiver's loop, the destructor and the used objects: an answer
to the application may put a handle into `_usedobjects`, `~Connection` sets `*_term`
and interrupts, and the destruction of the table calls `ReleaseObject` for one
handle after the other. `sleep(1)` orders nothing and is left out.

## 3. The runs

| Run | Shows | Distinct states |
|---|---|---|
| `slots_distinct` | two threads, three calls each, disjoint names, races and faults enabled: `OwnReply`, `SlotsHeld`, `NoSlotLeak`, `SetWritesLiveFuture`, `SetOnce`; `ReplySlots` implements `Rpc`; every call that has begun returns unless a race ends the process | 15680 |
| `slots_mixed` | with one shared name, calls under the other names are not disturbed (`NameIsolation`); every fault of the model is reached | 320962 |
| `slots_shared` | *violated*: `OwnReply` with two threads in the same API function | |
| `slots_lifetime` | *violated*: `notify_all` meets only living Futures; one thread and one call suffice | |
| `future_once` | three readers, one `Set`, a spurious wakeup: `NoTornRead`, no lost wakeup (`WakeInv`), every `Get` returns, and `Future` implements `Promise` | 3647 |
| `remote_plain` | 34 methods over the types that `Serialize` writes, well and badly typed arguments, two calls under way: `InStep`, `ArgumentsArrive`, `ResultsReturn`, `TypedCallsAreSent`, `CallsAnswered`, `SlotsOwned`; for these methods the code's wire format keeps the contract (`RoundTrip`) | 7632 |
| `remote_types` | *violated*: a call throws for arguments that are not what the proxy reports, never for those that are | |
| `objects` | two threads receive object `g1`, one of them also `g2`, two conversions each; an own object keeps proxies and is freed: `InUseUnlessReplaced`, `PrivateInUse`, `ReceiverNeverWaits`; a destructor that has begun ends (`ReleasesComplete`) unless the receiver is in one itself | 66995 |
| `objects_race` | *violated*: no object in use is released | |
| `connection` | the whole API from two threads, with up to four call threads: `OwnAnswer`, `SlotsAgree`, `OnlySameQuestionsClash`, `ClassesStored`, `ObjectsFound`, `RunsOnObject`, `CallsReturn` | 127814 |
| `shutdown` | an application and a Connection that may be destroyed at any moment: FIFO (`ImplementsChannel`), welcome first, no sleep on a message, no front of an empty queue while the Connection lives, delivery unless the Connection ends; `Send` returns while the broker reads; after `*_term` one more message at most in each direction (`AtMostOneMore`), and a sender that waits when it is interrupted ends (`InterruptEndsWait`) | 16819 |
| `shutdown_hang` | *violated*: a Connection destroyed with an object in use releases it | |

The five violated properties are stated by comments of the code; "findings" in
`PROJECT.json` quotes them. The class of `remote_types` has six types that two of the
three tables know and the third does not, and each of them alone violates the property:
`float`, `double`, `vector<float>` and `vector<double>`, for which a proxy reports
`NullType` or `vector<NullType>` (`metaext.cpp:94`, `130`), and `vector<Hash>` and
`vector<MetaObject>`, which `SerializeArray` does not write or casts to another type
(`serialize.cpp:71-74`). `int8_t` and `vector<string>`, which are in the class too, do
not violate it.

**Known defects that no property excludes.** Some races and undefined steps are in the
models because they are in the code; the properties say what holds unless they happen,
since the code does nothing against them and no line of the repository promises
otherwise.

* The unlocked erase of a slot may overlap another access of the map
  (`connection.cpp:148`): `ReplySlots` lets it end the process or pass unnoticed.
* A sender that tests the queue after `*_term` is set and finds it empty takes the front
  of an empty queue (`connection.cpp:43-44`). `Shutdown` reaches it (`spc = "stray"`),
  and nothing is said of the sender from there on: not that it ends.
* A result that cannot be written throws in the call's thread, which catches nothing,
  and ends the process (`runcall.cpp:78`). No run has such a method.
* `++_callid` and `++_objectid` may give two threads the same number
  (`metaext.cpp:194`, `connection.cpp:251`). `Connection` reaches it, records it in
  `raced`, and its properties except what follows.
* Once two conversions of one object have overlapped, the receiver may destroy a handle
  when it frees an object, and waits for an answer that only it can read
  (`connection.cpp:435`). `Objects` reaches it; `ReceiverNeverWaits` says that nothing
  else leads there.

**Bounds.** Two threads with three calls each make a slot name be reused after its
erase and let two calls overlap in every order; two names for one thread show that a
slot does not disturb its neighbour. Three readers are enough for a notification
to reach more than one waiter while another is between test and wait; the theorems
cover any number. `SocketCap = 1` makes the full socket frequent; in `shutdown` an
application thread and the destructor send up to three messages each and two handles
are left over, which exercises order within and between clients and destructors that
follow each other; the theorems cover any number of clients. In `objects` two
conversions per thread let an object be received again after it was released, and
one of the two objects is private to a thread. In `connection` one thread makes three
calls and the other one, chosen from the whole API: the second thread meets every
phase of the first one's registration, construction, calls with new and known objects
and nested calls; two first ObjectIDs stand for the uninitialised one. Four call
threads are one more than are ever needed at once. In `remote_plain` each
C++ type appears as parameter and result of a method, but `vector<Hash>` and
`vector<MetaObject>`, which cannot be written; strings have two different
characters, vectors two elements, the Hash holds a number, a vector of wide strings
and a Hash; two calls suffice for a request that follows another in the stream and
for a method call on an object constructed before; the theorems cover any number.
`RoundTrip` reads each datum back with nothing, with each item and with a Hash behind
it: what is behind a datum matters only to a reader that takes one item too many.

**Fairness.** A thread inside a library call goes on when it can, and so do the
sender and the receiver: they are operating system threads that never wait for
anything but what the model's guards name. No thread is obliged to begin a call.
`shutdown` assumes that the broker sends its welcome and keeps reading, and that a
destructor that has begun goes on; without a reading broker `Send` does block, since
the sender writes with `_sqmut` held. `slots_distinct` (for `CallsReturn` alone) and
`objects` assume that the broker answers each request; in `connection` an answer is
there as soon as its request is sent, and fairness of the receiver and of the threads
is enough. A mutex is not
assumed to be fair beyond weak fairness.

**Deadlock** checking is off where the bounded system simply finishes; the liveness
properties show that it does not stop earlier.

## 4. The proofs

TLAPS checks the theorems below for any sets of threads, names, readers and
clients and any bounds.

* `ReplySlotsProofs`. `TypeCorrect` and `NamesIsolate` assume nothing about the use
  of names; the others assume `DisjointUses`. `NamesIsolate` is what is left of
  `OwnReply` when threads do share names: a call may get the answer to another one,
  but only to one made under the same name. Its inductive invariant `NameInv` follows
  the Future of a call through every place that refers to it - the map, `ptr`, the
  receiver's `rfut`, `_result`, the copied value - and says that each was put there
  under the call's own name; it relies on the name of a call never changing after
  `SetupReply`. For disjoint names `IInv` adds to the properties what ties the three places together
  in which a call is known: a thread past `SetupReply` owns exactly its slot until
  its erase; a request or an answer in progress belongs to a thread that is waiting
  for it; only a Future whose `_avail` is set lets its thread go on to copy. Without
  these, `OwnReply` is not inductive: the state says nothing about whose Future the
  receiver is writing. `FuturesSetOnce` and `ReplySlotsImplementRpc` are proved
  from it step by step; the refinement maps `PutReply`'s `_avail=true` to `Answer`
  and the end of the erase to `Return`.
* `FutureProofs`. `WakeInv` (mutual exclusion and "who waits has a notification
  coming") is inductive for any number of Sets and readers; TLC checks it for one Set
  and three readers. `ReadInv` needs `MaxSets = 1`, which
  `FuturesSetOnce` shows the slots to guarantee.
* `SendQueueProofs`. `IInv` says who holds `_sqmut` and what the sender has tested
  under it; it is also what the refinement of `Channel` needs (the head of the
  queue exists when it is popped).

* `ObjectsProofs`. Assumes only the named assumptions on the constants. That the
  object of a held handle is known to the broker or was replaced is not inductive: a
  handle is also held between `TryGetObject` and `AddObject`, before it is in the
  table. `IInv` adds where each held handle is (`HandleInv`), what a conversion has
  made and that only a second thread can have filled the entry meanwhile
  (`ConvertInv`), and that only handles of replaced objects are ever destroyed
  (`DyingInv`).
* `ShutdownProofs`. Every step of `Shutdown` is one of `SendQueue` or leaves the
  queue alone, so the theorems about the queue hold to the end. `EndInv` adds
  to `AtMostOneMore` where a thread that has done its one thing more is: on its way
  to the test of `*_term`.
* `ConnectionProofs`. Every invariant of `Connection`, for any number of threads and
  call threads, any list of API calls for each and any first value of `_objectid`,
  from `ConstantsAssumption` (threads, call threads and data are different things)
  and `CallsAssumption`. None of the invariants about answers, slots and objects is
  inductive: whether a handler finds its caller depends on what the broker still has
  to send, and that on what each thread's calls consist of. `IInv` therefore says

  * of the lists of steps (`StepInv`): what follows what (`Linked`: an object's
    number is read, then the object is stored, then it is registered), that a CallID
    is taken before it is used (`Counted`), and that a call thread's list ends in its
    answer;
  * of the callers (`WaitInv`): who waits, waits under the name of the step it is at,
    and no two wait under the same name;
  * of the messages (`MessageInv`, `OnceInv`): each one on its way, and each request
    that a call thread works on, is owed to a caller that waits for exactly it, and no
    caller is owed two;
  * of the numbers (`NumberInv`): as long as nobody has raced, no two threads hold the
    same CallID or ObjectID;
  * of the objects (`ObjectInv`, `FreeInv`): those the broker may ask for are in
    `_regobjects` under the number it was told, one that is stored and not yet
    announced is known to nobody else, and a `MethodCall` reaches the receiver before
    the `FreeObject` of its object;
  * of the call threads (`ConstructInv`, `RunInv`): what they work on was found.

  From it follow `AnswersAreOwn`, `HandlersFindCallers`, `ClashesAreExplained`,
  `ClassesAreStored`, `ObjectsAreFound`, `MethodsRunOnObjects` and the types. Where a
  property excepts a race of the counters, so does the theorem: `raced` is set by
  the code's own `++_callid` and `++_objectid`, and the exception is real.
* `TypeMapProofs`. That the three tables agree, and where they do not, for every C++ type
  that has a protocol type, vectors included: a value is written by an `any_cast` to its
  own type, but an object and a vector of objects are cast to numbers and a vector of
  Hashes to nothing (`WrittenAsTyped`); a proxy reports the type its method was published
  with, unless it is a floating point number or a vector of them (`ProxyTypes`); no two
  types are published under the same protocol type (`TypesDiffer`).

* `RemoteCallProofs`. Every invariant of `RemoteCall`, for any class whose methods have
  different names, any argument lists and results, any number of calls, and any wire
  format of which `CodecContract(Seq(Items))` is true. None of the invariants is
  inductive: whether a receiver stays in step depends on what is in the stream before
  it. `Inductive` therefore says where each call is. A call that was sent
  is in exactly one of three places at B - in the stream `toB`, with a thread (`Running`:
  the thread has to run what was called), or done (`Ran`: it ran that) - and one that
  is done has its answer in `toA` or has returned (`Got`). The streams are
  described by `Chunks(stream, q, F)`: there is a queue `q` of call ids such that the
  stream is `F[q[1]]`, `F[q[2]]`, ..., one after the other, where `F` gives the message
  of each call. So a receiver always stands at the first item of a whole message
  (`ChunksHead`), a sender appends one (`ChunksAppend`), and a stream is empty only
  when no message is owed (`ChunksNil`), which is what `CallsAnswered` needs.
  `RequestRead` and `AnswerRead` say that reading such a message gives back the call
  and the rest of the stream; they are the only use of the contract. `Made` counts the
  objects: there are as many in `_regobjects` as constructors have run, so a method call
  is made on an object that exists (`ObjectsExistAlways`) and its thread does not throw
  (`ReceiversInStep`). `Owned` says that the reply slots are those of the calls that
  wait, which with the queue of `toA` - its calls are different ones, and none of them has
  returned - gives `SlotsOwnedAlways`: no answer meets a missing slot, and no call, one
  that threw among them, leaves a slot behind. `ArgumentsRead`, `ResultIs` and `ProxiesReport` lead from the
  protocol types back to the C++ types with the theorems about `TypeMap`.

  `ProxiesKeepTypesAlways` needs the hypothesis that the class has no floating point
  numbers (`KeptTypes`); `remote_types` shows why.

  The contract is a hypothesis and not an assumption on the constants, because it is
  not true of every class: see `RemoteCall` above for what breaks it. For the 34 methods
  of `remote_plain` `RoundTrip` checks that it is true, with the `Rests` listed in
  `MCRemoteCall`. That a call throws only for mistyped arguments (`TypedCallsAreSent`) is
  not a theorem: it is what the contract leaves open. TLC checks it for the 34 methods,
  and it is false for a method with a `vector<Hash>` or a `vector<MetaObject>` parameter.

What stays with TLC: all liveness (`CallsReturn`, `GetsReturn`, `Delivered`,
`SendReturns`, `InterruptEndsWait`, `ReleasesComplete`), `TypedCallsAreSent`, and `RoundTrip`: that `Deserialize`
reads what `Serialize` writes is an induction over data that the provers cannot make,
and `Codec` declares its operators RECURSIVE, since the overloads they model call each
other on parts of their argument.

## 5. What could follow

1. An abstract specification of remote calls, on messages instead of streams, that
   `RemoteCall` implements; the queues of the inductive invariant would be its state.
2. A bounded buffer in each direction between receiver, sender and broker, and
   `ReplySlots` with `Future` in place of its own wait.
3. The end of the stream and short writes, once the behaviour of the stream library
   is fixed by a version.

## 6. Not modelled

`handlemessage.*` (does not compile by intent, `#error`), `memstream.*` (commented
out), `doc/` (generated), and of `main.cpp` and `testclass.*` what only prints or
computes. The Meta library, boost and the broker are external and appear only as the
code uses them: method lookup, `any`, `iostreams`, thread interruption at a wait.

Left out although it is in the code:

* what a read at the end of the stream leaves in its variable (`connection.cpp:62-63`
  and every handler), and what becomes of the rest of a short write
  (`socketstream.cpp:20-23`): undefined, or decided by the stream library;
* a thread that uses members after `~Connection` has destroyed them: undefined;
* what follows a slot shared by two calls or a data race on a table, in `Objects`
  and `Connection`, which stop there; `ReplySlots` goes on;
* names with `::` in them, for which two questions share one `GetClassDef` slot
  (`connection.cpp:282`);
* messages the receiver has no case for (`ClientVersion`): nothing sends them in
  the models.
