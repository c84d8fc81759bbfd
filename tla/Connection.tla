--------------------------- MODULE Connection ---------------------------
(***************************************************************************)
(* The API of a Connection, the calls of proxies, the receiver's dispatch  *)
(* and the call threads, composed with a broker (connection.cpp:53-117,    *)
(* 152-436; metaext.cpp:133-240; runcall.cpp).                             *)
(*                                                                         *)
(* The application calls methods of its own class and objects through the  *)
(* broker, as main.cpp does, so each CallStatic comes back as a StaticCall *)
(* while its caller waits.  The methods are those of testclass.cpp that    *)
(* take or return an object: "hello" does neither, "getobject" returns a   *)
(* new object, "callhello" takes one and calls its "hello".                *)
(*                                                                         *)
(* A thread executes the list of steps its call consists of: messages, for *)
(* which it fills a reply slot and waits, and uses of the shared counters  *)
(* and tables.  SetupReply, Send and the lookup of GetReply are one step;  *)
(* what happens inside them is the subject of ReplySlots and SendQueue,    *)
(* and so is what follows once two calls share a slot: here the model      *)
(* stops.  It also stops at a data race on a table.                        *)
(***************************************************************************)
EXTENDS Naturals, Sequences, Functions

CONSTANTS Threads,   \* application threads
          Workers,   \* bound on the call threads at work at once
          Names,     \* names of namespaces and classes
          Calls,     \* Calls[t]: for each call of thread t, in order, its choices
          FirstIds,  \* what the uninitialised _objectid may hold
          None       \* no answer, no object, no value

Actors == Threads \cup Workers

Methods == {"hello", "getobject", "callhello"}

(* A call: the API function or the kind of proxy, and its arguments; for a *)
(* static method also whether it is given no object, a new or a known one. *)
IsCall(c) ==
    \/ c[1] \in {"BrokerDetails", "ListNamespaces", "RegisterObject", "ReleaseObject"}
       /\ c = <<c[1]>>
    \/ c[1] \in {"SetNamespace", "ListClasses", "RegisterClass", "ConstructObject"}
       /\ c = <<c[1], c[2]>> /\ c[2] \in Names
    \/ c[1] = "GetClassDef" /\ c = <<c[1], c[2], c[3]>> /\ {c[2], c[3]} \subseteq Names
    \/ c[1] = "CallMethod" /\ c = <<c[1], c[2]>> /\ c[2] \in Methods
    \/ c[1] = "CallStatic" /\ c = <<c[1], c[2], c[3], c[4]>>
       /\ c[2] \in Names /\ c[3] \in Methods /\ c[4] \in {"none", "new", "proxy"}

ASSUME ConstantsAssumption ==
    /\ Threads \cap Workers = {}
    /\ None \notin Nat \cup Names \cup [oid : Nat, obj : Nat]
    /\ FirstIds \subseteq Nat

ASSUME CallsAssumption ==
    \A t \in Threads : \A c \in UNION Range(Calls[t]) : IsCall(c)

VARIABLES todo,       \* the steps each thread has before it
          cnt,        \* calls each application thread has begun
          slot,       \* the slot it waits on, or <<>>
          answer,     \* the answer in that slot's Future
          tmp,        \* the value of a counter it has read
          cid,        \* the CallID of its call
          own,        \* the object it registers, and its ObjectID
          ref,        \* the ObjectID of the proxy it handles
          job,        \* the request a call thread answers
          obj,        \* the class or object that request is for
          callid,     \* COFnWrap::_callid
          objectid,   \* _objectid
          regclasses, \* names in _regclasses
          regobjects, \* _regobjects: ObjectID -> object
          nsname,     \* _nsname
          proxies,    \* ObjectIDs of the application's proxies
          made,       \* objects made so far
          in,         \* messages from the broker
          classes,    \* external: classes the broker knows
          objects,    \* external: objects the broker was told of
          live,       \* external: those of them in use
          raced,      \* two threads counted from the same value (history)
          fault       \* why the model stops

threads  == <<todo, cnt, slot, answer, tmp, cid, own, ref, job, obj>>
counters == <<callid, objectid, made, raced>>
tables   == <<regclasses, regobjects>>
broker   == <<classes, objects, live>>
vars == <<threads, counters, tables, nsname, proxies, in, broker, fault>>

-----------------------------------------------------------------------------
(* What the calls consist of. *)

ProxyCalls == {"ConstructObject", "CallStatic", "CallMethod"}

Messages == ProxyCalls \cup
    {"BrokerDetails", "SetNamespace", "ListNamespaces", "ListClasses", "RegisterClass",
     "GetClassDef", "RegisterObject", "GetObjectDef", "ReleaseObject"}

Requests == {"Construct", "StaticCall", "MethodCall"}

(* RegisterObject, with the GetObjectDef of ObjectIDToMetaObject. *)
RegisterObject == << <<"ReadObjectID">>, <<"StoreObject">>, <<"RegisterObject">>,
                     <<"GetObjectDef">> >>

(* Mutant: the class is entered in _regclasses when the broker answers. *)
RegisterClassFirst(cls) == << <<"RegisterClass", cls>>, <<"StoreClass", cls>> >>
RegisterClass(cls) == << <<"StoreClass", cls>>, <<"RegisterClass", cls>> >>

(* COFnWrap::Call: the CallID is taken first, then an argument that is an  *)
(* object of the application is registered; a result that is an object     *)
(* becomes a proxy.                                                        *)
ProxyCall(message, new, method) ==
    << <<"ReadCallID">>, <<"CountCall">> >>
    \o (IF new THEN RegisterObject ELSE <<>>)
    \o <<message>>
    \o (IF method = "getobject" THEN << <<"GetObjectDef">> >> ELSE <<>>)

Steps(c) == CASE c[1] = "RegisterObject" -> RegisterObject
              [] c[1] = "RegisterClass" -> RegisterClass(c[2])
              [] c[1] = "CallStatic" -> ProxyCall(<<c[1], c[2], c[3]>>, c[4] = "new", c[3])
              [] c[1] = "CallMethod" -> ProxyCall(<<c[1], c[2]>>, FALSE, c[2])
              [] c[1] = "ConstructObject" -> ProxyCall(<<c[1], c[2]>>, FALSE, "ctor")
              [] OTHER -> <<c>>

(* The method that calls a method of the proxy it is given. *)
callhello == ProxyCall(<<"CallMethod", "hello">>, FALSE, "hello")

(* Do_RunStaticCall and Do_RunMethodCall: ProcessObjects, the method, the  *)
(* registration of a result, the answer.                                   *)
RunCall(method) ==
    CASE method = "hello" -> << <<"Run">>, <<"Answer">> >>
      [] method = "getobject" -> << <<"Run">> >> \o RegisterObject \o << <<"Answer">> >>
      [] method = "callhello" -> << <<"GetObjectDef">>, <<"Run">> >> \o callhello
                                 \o << <<"Answer">> >>

(* Do_RunConstruct, with AddOwnedObject. *)
RunConstruct == << <<"ReadObjectID">>, <<"StoreObject">>, <<"Answer">> >>

(* Calls that concern some proxy of the application. *)
TakesProxy(c) == \/ c[1] \in {"CallMethod", "ReleaseObject"}
                 \/ c[1] = "CallStatic" /\ c[4] = "proxy"

-----------------------------------------------------------------------------

Init ==
    /\ todo = [a \in Actors |-> <<>>]
    /\ cnt = [t \in Threads |-> 0]
    /\ slot = [a \in Actors |-> <<>>]
    /\ answer = [a \in Actors |-> None]
    /\ tmp = [a \in Actors |-> 0]
    /\ cid = [a \in Actors |-> 0]
    /\ own = [a \in Actors |-> None]
    /\ ref = [a \in Actors |-> None]
    /\ job = [w \in Workers |-> None]
    /\ obj = [w \in Workers |-> None]
    /\ callid = 0
    /\ objectid \in FirstIds
    /\ regclasses = {} /\ regobjects = <<>>
    /\ nsname = None
    /\ proxies = {}
    /\ made = 0
    /\ in = <<>>
    /\ classes = {} /\ objects = <<>> /\ live = {}
    /\ raced = FALSE
    /\ fault = "none"

Running == fault = "none"

(* Thread a is about to execute step s; it waits for no answer. *)
At(a, s) == /\ todo[a] # <<>> /\ slot[a] = <<>>
            /\ Head(todo[a])[1] = s

Do(a, s) == /\ Running /\ At(a, s)
            /\ todo' = [todo EXCEPT ![a] = Tail(@)]

Put(table, key, val) ==
    [k \in DOMAIN table \cup {key} |-> IF k = key THEN val ELSE table[k]]

(* An application thread begins call c, with proxy g if it takes one. *)
Start(t, c, g) ==
    /\ Running /\ todo[t] = <<>>
    /\ cnt[t] < Len(Calls[t]) /\ c \in Calls[t][cnt[t] + 1]
    /\ IF TakesProxy(c) THEN g \in proxies ELSE g = None
    /\ todo' = [todo EXCEPT ![t] = Steps(c)]
    /\ cnt' = [cnt EXCEPT ![t] = @ + 1]
    /\ ref' = [ref EXCEPT ![t] = g]
    /\ cid' = [cid EXCEPT ![t] = 0] /\ own' = [own EXCEPT ![t] = None]
    /\ proxies' = IF c[1] = "ReleaseObject" THEN proxies \ {g} ELSE proxies
    /\ UNCHANGED <<slot, answer, tmp, job, obj, counters, tables, nsname, in,
                   broker, fault>>

-----------------------------------------------------------------------------
(* The counters and the tables.  ++_callid and ++_objectid read and write. *)

ReadCallID(a) ==
    /\ Do(a, "ReadCallID")
    /\ tmp' = [tmp EXCEPT ![a] = callid]
    /\ UNCHANGED <<cnt, slot, answer, cid, own, ref, job, obj, counters, tables, nsname,
                   proxies, in, broker, fault>>

CountCall(a) ==
    /\ Do(a, "CountCall")
    /\ callid' = tmp[a] + 1
    /\ cid' = [cid EXCEPT ![a] = callid']
    /\ tmp' = [tmp EXCEPT ![a] = 0]
    /\ raced' = (raced \/ \E b \in Actors \ {a} : At(b, "CountCall"))
    /\ UNCHANGED <<cnt, slot, answer, own, ref, job, obj, objectid, made, tables,
                   nsname, proxies, in, broker, fault>>

ReadObjectID(a) ==
    /\ Do(a, "ReadObjectID")
    /\ tmp' = [tmp EXCEPT ![a] = objectid]
    /\ UNCHANGED <<cnt, slot, answer, cid, own, ref, job, obj, counters, tables, nsname,
                   proxies, in, broker, fault>>

(* Mutant: the counter is read and not advanced. *)
StoreObjectSameID(a) ==
    /\ Do(a, "StoreObject")
    /\ own' = [own EXCEPT ![a] = [oid |-> tmp[a], obj |-> made + 1]]
    /\ made' = made + 1
    /\ regobjects' = Put(regobjects, tmp[a], made + 1)
    /\ UNCHANGED <<cnt, slot, answer, tmp, cid, ref, job, obj, callid, objectid, raced,
                   regclasses, nsname, proxies, in, broker, fault>>

(* _regobjects[++_objectid]=..., in RegisterObject and AddOwnedObject. *)
StoreObject(a) ==
    /\ Do(a, "StoreObject")
    /\ objectid' = tmp[a] + 1
    /\ own' = [own EXCEPT ![a] = [oid |-> objectid', obj |-> made + 1]]
    /\ made' = made + 1
    /\ regobjects' = Put(regobjects, objectid', made + 1)
    /\ tmp' = [tmp EXCEPT ![a] = 0]
    /\ raced' = (raced \/ \E b \in Actors \ {a} : At(b, "StoreObject"))
    /\ UNCHANGED <<cnt, slot, answer, cid, ref, job, obj, callid, regclasses, nsname,
                   proxies, in, broker, fault>>

StoreClass(a) ==
    /\ Do(a, "StoreClass")
    /\ regclasses' = regclasses \cup {Head(todo[a])[2]}
    /\ UNCHANGED <<cnt, slot, answer, tmp, cid, own, ref, job, obj, counters, regobjects,
                   nsname, proxies, in, broker, fault>>

(* No lock guards the tables: an insertion and another access at once are  *)
(* a data race.                                                            *)
TableRace(a) ==
    /\ Running
    /\ LET received == IF in = <<>> THEN "nothing" ELSE Head(in).msg IN
          \/ /\ At(a, "StoreObject")
             /\ \/ received \in {"MethodCall", "FreeObject"}
                \/ \E b \in Actors \ {a} : At(b, "StoreObject")
          \/ /\ At(a, "StoreClass")
             /\ \/ received \in {"Construct", "StaticCall"}
                \/ \E b \in Actors \ {a} : At(b, "StoreClass")
    /\ fault' = "race"
    /\ UNCHANGED <<threads, counters, tables, nsname, proxies, in, broker>>

-----------------------------------------------------------------------------
(* The broker: external.  It takes messages in the order in which they     *)
(* were sent, so it may as well take each when it is sent: the delay is in *)
(* the messages on their way back.  It forwards calls to the application,  *)
(* which owns the class and all objects, under a CallID of its own.        *)

Forwarded == [ConstructObject |-> "Construct", CallStatic |-> "StaticCall",
              CallMethod |-> "MethodCall"]

BrokerForwards(x) ==
    LET known == IF x.msg = "CallMethod" THEN x.val \in live ELSE x.args[1] \in classes IN
    /\ in' = Append(in,
           IF known
           THEN [x EXCEPT !.msg = Forwarded[x.msg], !.id = <<x.msg, x.id>>,
                          !.val = IF x.msg = "CallMethod" THEN objects[x.val].oid ELSE @]
           ELSE [x EXCEPT !.val = None])
    /\ UNCHANGED broker

BrokerReturns(y) ==
    LET new == y.msg = "Construct" IN
    /\ objects' = IF new THEN Append(objects, y.val) ELSE objects
    /\ live' = IF new THEN live \cup {Len(objects')} ELSE live
    /\ in' = Append(in, [y EXCEPT !.msg = y.id[1], !.id = y.id[2],
                                  !.val = IF new THEN Len(objects') ELSE @])
    /\ UNCHANGED classes

BrokerRegisters(x) ==
    /\ objects' = Append(objects, x.val)
    /\ live' = live \cup {Len(objects')}
    /\ in' = Append(in, [x EXCEPT !.val = Len(objects')])
    /\ UNCHANGED classes

BrokerReleases(x) ==
    /\ live' = live \ {x.id}
    /\ in' = in \o << x, [x EXCEPT !.msg = "FreeObject", !.id = objects[x.id].oid] >>
    /\ UNCHANGED <<classes, objects>>

BrokerAnswers(x) ==
    /\ in' = Append(in, x)
    /\ classes' = IF x.msg = "RegisterClass" THEN classes \cup {x.args[1]} ELSE classes
    /\ UNCHANGED <<objects, live>>

Send(x) == CASE x.msg \in ProxyCalls -> BrokerForwards(x)
             [] x.msg \in Requests -> BrokerReturns(x)
             [] x.msg = "RegisterObject" -> BrokerRegisters(x)
             [] x.msg = "ReleaseObject" -> BrokerReleases(x)
             [] OTHER -> BrokerAnswers(x)

-----------------------------------------------------------------------------
(* Calls to the broker. *)

Step(a) == Head(todo[a])

(* The id a request carries and its answer repeats. *)
Id(a) == CASE Step(a)[1] \in ProxyCalls -> cid[a]
           [] Step(a)[1] = "RegisterObject" -> own[a].oid
           [] OTHER -> ref[a]

Request(a) ==
    [msg |-> Step(a)[1], args |-> Tail(Step(a)), id |-> Id(a),
     val |-> IF Step(a)[1] = "RegisterObject" THEN own[a] ELSE ref[a],
     from |-> a]

(* Mutant: all ListClasses share a slot. *)
ListSlotNoName(ns) == <<"ListClasses">>
ListSlot(ns) == <<"ListClasses", ns>>

(* The slot name the caller makes. *)
SlotName(a) ==
    LET m == Step(a)[1] IN
    CASE m \in {"BrokerDetails", "SetNamespace", "ListNamespaces"} -> <<m>>
      [] m = "ListClasses" -> ListSlot(Step(a)[2])
      [] m = "RegisterClass" -> <<m, Step(a)[2]>>
      [] m = "GetClassDef" -> <<m, Step(a)[2], "::", Step(a)[3]>>
      [] m \in {"RegisterObject", "GetObjectDef", "ReleaseObject"} -> <<m, Id(a)>>
      [] m \in ProxyCalls -> <<"Call", m, Id(a)>>

(* A thread whose call is under way under the slot name of a's next call. *)
Sharing(a) == {b \in Actors \ {a} : slot[b] = SlotName(a)}

Ask(a) ==
    /\ Running /\ \E m \in Messages : At(a, m)
    /\ Sharing(a) = {}
    /\ slot' = [slot EXCEPT ![a] = SlotName(a)]
    /\ Send(Request(a))
    /\ UNCHANGED <<todo, cnt, answer, tmp, cid, own, ref, job, obj, counters, tables,
                   nsname, proxies, fault>>

(* The second SetupReply under a name replaces the Future of the first.    *)
(* That takes two threads with the same question (SetNamespace has one     *)
(* slot whatever it asks for) or with the same number.                     *)
Clash(a) ==
    /\ Running /\ \E m \in Messages : At(a, m)
    /\ \E b \in Sharing(a) :
          fault' = IF SlotName(a)[1] \in {"Call", "RegisterObject"}
                   THEN IF raced THEN "same number" ELSE "clash"
                   ELSE IF Step(a) = Step(b) \/ Step(a)[1] = "SetNamespace"
                        THEN "same question"
                        ELSE "clash"
    /\ UNCHANGED <<threads, counters, tables, nsname, proxies, in, broker>>

(* The end of GetReply, and what the API function does with the answer.    *)
(* The status of an answer is dropped: a failed call returns no object.    *)
Return(a) ==
    /\ Running /\ answer[a] # None
    /\ LET m == Step(a)[1]
           val == answer[a].val
           rest == Tail(todo[a]) IN
          /\ slot' = [slot EXCEPT ![a] = <<>>]
          /\ answer' = [answer EXCEPT ![a] = None]
          /\ ref' = IF m \in {"RegisterObject", "CallStatic", "CallMethod"}
                    THEN [ref EXCEPT ![a] = val] ELSE ref
          /\ todo' = [todo EXCEPT ![a] =
                         IF val = None /\ rest = << <<"GetObjectDef">> >> THEN <<>> ELSE rest]
          /\ nsname' = IF m = "SetNamespace" THEN answer[a].args[1] ELSE nsname
          /\ proxies' = proxies \cup
                {g \in {IF m = "ConstructObject" THEN val ELSE ref[a]} :
                     /\ m \in {"GetObjectDef", "ConstructObject"} /\ a \in Threads
                     /\ g # None}
    /\ UNCHANGED <<cnt, tmp, cid, own, job, obj, counters, tables, in, broker, fault>>

-----------------------------------------------------------------------------
(* The receiver thread. *)

(* Mutant: the answer to a call is put where the last call was made. *)
RecvCallSlotLast(x) == <<"Call", x.msg, callid>>
(* Recv_ConstructObject, Recv_CallStatic, Recv_CallMethod. *)
RecvCallSlot(x) == <<"Call", x.msg, x.id>>

(* Mutant: Recv_RegisterObject takes the new ObjectID for the old one. *)
RecvRegisterSlotNew(x) == <<x.msg, x.val>>
RecvRegisterSlot(x) == <<x.msg, x.id>>

(* The slot name the handler of an answer makes from what it reads. *)
RecvSlot(x) ==
    CASE x.msg \in {"BrokerDetails", "SetNamespace", "ListNamespaces"} -> <<x.msg>>
      [] x.msg \in {"ListClasses", "RegisterClass"} -> <<x.msg, x.args[1]>>
      [] x.msg = "GetClassDef" -> <<x.msg, x.args[1], "::", x.args[2]>>
      [] x.msg = "RegisterObject" -> RecvRegisterSlot(x)
      [] x.msg \in {"GetObjectDef", "ReleaseObject"} -> <<x.msg, x.id>>
      [] x.msg \in ProxyCalls -> RecvCallSlot(x)

(* Mutant: the receiver runs the methods itself. *)
ReceiverBusy == \E w \in Workers : todo[w] # <<>>
(* RunConstruct, RunStaticCall and RunMethodCall start a thread. *)
ReceiverWaits == FALSE

Recv(messages) == /\ Running /\ ~ReceiverWaits
                  /\ in # <<>> /\ Head(in).msg \in messages
                  /\ in' = Tail(in)

(* The handlers of answers end in PutReply; operator[] makes a null slot   *)
(* of a missing one.                                                       *)
RecvAnswer ==
    /\ Recv(Messages)
    /\ LET x == Head(in)
           waiting == {a \in Actors : slot[a] = RecvSlot(x) /\ answer[a] = None} IN
          /\ answer' = [a \in Actors |-> IF a \in waiting THEN x ELSE answer[a]]
          /\ fault' = IF waiting = {} THEN "null slot" ELSE fault
    /\ UNCHANGED <<todo, cnt, slot, tmp, cid, own, ref, job, obj, counters, tables, nsname,
                   proxies, broker>>

(* Recv_ReqConstruct, Recv_ReqStaticCall and Recv_ReqMethodCall: a call    *)
(* thread gets a copy of the class or a reference to the object.           *)
RecvRequest ==
    /\ Recv(Requests)
    /\ \E v \in Workers : todo[v] = <<>>
    /\ LET x == Head(in)
           w == CHOOSE v \in Workers : todo[v] = <<>> IN
          /\ todo' = [todo EXCEPT ![w] = IF x.msg = "Construct" THEN RunConstruct
                                         ELSE RunCall(x.args[Len(x.args)])]
          /\ job' = [job EXCEPT ![w] = x]
          /\ ref' = [ref EXCEPT ![w] = IF x.msg = "StaticCall" THEN x.val ELSE None]
          /\ IF x.msg = "MethodCall"
             THEN LET found == x.val \in DOMAIN regobjects IN
                  /\ obj' = [obj EXCEPT ![w] = IF found THEN regobjects[x.val] ELSE None]
                  /\ regobjects' = IF found THEN regobjects ELSE Put(regobjects, x.val, None)
             ELSE /\ obj' = [obj EXCEPT ![w] =
                                 IF x.args[1] \in regclasses THEN x.args[1] ELSE None]
                  /\ UNCHANGED regobjects
    /\ UNCHANGED <<cnt, slot, answer, tmp, cid, own, counters, regclasses, nsname, proxies,
                   broker, fault>>

(* Mutant: the pointer is reset, the entry stays. *)
RecvFreeObjectReset ==
    /\ Recv({"FreeObject"})
    /\ regobjects' = Put(regobjects, Head(in).id, None)
    /\ UNCHANGED <<threads, counters, regclasses, nsname, proxies, broker, fault>>

(* Recv_FreeObject. *)
RecvFreeObject ==
    /\ Recv({"FreeObject"})
    /\ regobjects' = [o \in DOMAIN regobjects \ {Head(in).id} |-> regobjects[o]]
    /\ UNCHANGED <<threads, counters, regclasses, nsname, proxies, broker, fault>>

-----------------------------------------------------------------------------
(* Call threads. *)

(* Mutant: the object is looked up when the thread runs. *)
TargetLater(w) ==
    IF job[w].msg # "MethodCall" THEN obj[w]
    ELSE IF job[w].val \in DOMAIN regobjects THEN regobjects[job[w].val] ELSE None
(* The class or object the call thread was given. *)
Target(w) == obj[w]

(* The method is looked up in the class or object and run. *)
Run(w) ==
    /\ Do(w, "Run")
    /\ fault' = IF Target(w) = None THEN "null object" ELSE fault
    /\ UNCHANGED <<cnt, slot, answer, tmp, cid, own, ref, job, obj, counters, tables,
                   nsname, proxies, in, broker>>

(* The end of the thread. *)
Answer(w) ==
    /\ Do(w, "Answer")
    /\ Send([job[w] EXCEPT
                 !.val = IF job[w].msg = "Construct" THEN own[w] ELSE ref[w]])
    /\ cid' = [cid EXCEPT ![w] = 0]
    /\ own' = [own EXCEPT ![w] = None]
    /\ ref' = [ref EXCEPT ![w] = None]
    /\ job' = [job EXCEPT ![w] = None]
    /\ obj' = [obj EXCEPT ![w] = None]
    /\ UNCHANGED <<cnt, slot, answer, tmp, counters, tables, nsname, proxies, fault>>

-----------------------------------------------------------------------------

Continue(a) ==
    \/ ReadCallID(a) \/ CountCall(a) \/ ReadObjectID(a) \/ StoreObject(a) \/ StoreClass(a)
    \/ Ask(a) \/ Clash(a) \/ Return(a)
    \/ a \in Workers /\ (Run(a) \/ Answer(a))

Reciever == RecvAnswer \/ RecvRequest \/ RecvFreeObject

Next == \/ \E t \in Threads : \E c \in UNION Range(Calls[t]), g \in proxies \cup {None} :
              Start(t, c, g)
        \/ \E a \in Actors : Continue(a) \/ TableRace(a)
        \/ Reciever

Spec == Init /\ [][Next]_vars

(* Threads go on with a call and the receiver goes on reading; no thread   *)
(* is obliged to begin a call.                                             *)
FairSpec == /\ Spec
            /\ \A a \in Actors : WF_vars(Continue(a))
            /\ WF_vars(Reciever)

-----------------------------------------------------------------------------
(* Properties. *)

(* Steps, with the names they carry.                                       *)
StepSet ==
    { <<k>> : k \in {"ReadCallID", "CountCall", "ReadObjectID", "StoreObject", "Run",
                     "Answer", "BrokerDetails", "ListNamespaces", "RegisterObject",
                     "GetObjectDef", "ReleaseObject"} }
    \cup { <<k, n>> : k \in {"SetNamespace", "ListClasses", "RegisterClass",
                             "ConstructObject", "StoreClass"}, n \in Names }
    \cup { <<"GetClassDef", n, c>> : n \in Names, c \in Names }
    \cup { <<"CallMethod", f>> : f \in Methods }
    \cup { <<"CallStatic", c, f>> : c \in Names, f \in Methods }

Owned == [oid : Nat, obj : Nat]
Refs == 1..Len(objects) \cup {None}

(* Messages from the broker; one that forwards a call has a CallID of the  *)
(* broker's.                                                               *)
Arguments == {Tail(s) : s \in StepSet}
Answers ==
    [msg : Messages \cup {"FreeObject"}, args : Arguments, id : Nat \cup {None},
     val : Nat \cup {None}, from : Actors]
Forwards ==
    [msg : Requests, args : Arguments, id : ProxyCalls \X Nat, val : Nat \cup {None},
     from : Actors]
MessageSet == Answers \cup Forwards

Types ==
    /\ todo \in [Actors -> Seq(StepSet)]
    /\ cnt \in [Threads -> Nat]
    /\ slot = [a \in Actors |-> slot[a]]
    /\ answer \in [Actors -> MessageSet \cup {None}]
    /\ tmp \in [Actors -> Nat] /\ cid \in [Actors -> Nat]
    /\ own \in [Actors -> Owned \cup {None}]
    /\ ref \in [Actors -> Refs]
    /\ job \in [Workers -> MessageSet \cup {None}]
    /\ obj = [w \in Workers |-> obj[w]]
    /\ callid \in Nat /\ objectid \in Nat /\ made \in Nat /\ raced \in BOOLEAN
    /\ regclasses \subseteq Names
    /\ DOMAIN regobjects \subseteq Nat
    /\ regobjects \in [DOMAIN regobjects -> 1..made \cup {None}]
    /\ proxies \subseteq Refs \ {None}
    /\ in \in Seq(MessageSet)
    /\ classes \subseteq Names
    /\ objects \in Seq(Owned)
    /\ live \subseteq 1..Len(objects)
    /\ fault \in {"none", "race", "same number", "same question", "clash", "null slot",
                  "null object"}

(* Type correctness; and _regobjects holds no null pointer unless two      *)
(* threads have raced for an ObjectID.                                     *)
TypeOK ==
    /\ Types
    /\ raced \/ \A o \in DOMAIN regobjects : regobjects[o] # None

(* Every call, nested or not, gets the broker's answer to itself.          *)
OwnAnswer == \A a \in Actors : answer[a] # None => answer[a].from = a

(* The handler of an answer makes the slot name its caller made, and finds *)
(* the caller waiting ("must agree with the format used by the recieving   *)
(* code", connection.hpp:102).                                             *)
SlotsAgree == fault # "null slot"

(* Calls that are not the same question never share a slot name, unless    *)
(* two threads have raced for a number.                                    *)
OnlySameQuestionsClash == fault # "clash"

(* The broker knows no class that a request for it would not find.         *)
ClassesStored == classes \subseteq regclasses

(* An object the broker was told of is in _regobjects under its ObjectID   *)
(* until it is released, whatever _objectid held at first, unless two      *)
(* threads have raced for an ObjectID.                                     *)
ObjectsFound ==
    raced \/ \A g \in live :
                /\ objects[g].oid \in DOMAIN regobjects
                /\ regobjects[objects[g].oid] = objects[g].obj

(* A method runs on an object that exists, also when the object is freed   *)
(* while its call thread is under way.                                     *)
RunsOnObject == fault = "null object" => raced

(* Calls return although the broker's requests need answers of their own   *)
(* before they can be answered.                                            *)
CallsReturn == \A t \in Threads : todo[t] # <<>> ~> (todo[t] = <<>> \/ ~Running)
=============================================================================
