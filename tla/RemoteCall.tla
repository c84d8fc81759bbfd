----------------------------- MODULE RemoteCall -----------------------------
(***************************************************************************)
(* Calls of one application, A, on a class of another, B, through the      *)
(* broker: what crosses the wire and what each side makes of it.           *)
(*                                                                         *)
(* B registers the class (MetaClassInfo); A gets it and makes a proxy for  *)
(* each method (MakeMetaClass).  A call of a proxy (COFnWrap::Call) is     *)
(* written with the parameter types of the proxy and read by B's receiver; *)
(* a thread of its own runs it (runcall.cpp) and writes the result with    *)
(* the return type of B's method; A's receiver reads that.  The broker     *)
(* forwards each message with the header the other side expects; several   *)
(* requests and answers may be under way and share the two streams.        *)
(*                                                                         *)
(* The wire format is a parameter: Write(type, datum) is what Serialize    *)
(* writes, Read(type, stream) is what Deserialize reads and what is left,  *)
(* and CodecContract says what both sides need of them.  The code's own    *)
(* format is Codec.                                                        *)
(***************************************************************************)
EXTENDS Stream

CONSTANTS Write(_, _), Read(_, _),
          Items,      \* the items of the streams
          Class,      \* B's methods: sequence of [name, static, ret, params]
          Passed,     \* Passed[m]: the argument lists A calls method m with
          Result,     \* Result[m]: the any B's method m returns
          MaxCalls,   \* bound on A's calls
          None        \* nothing yet

(* The methods of a class have different names (metaext.cpp:34). *)
ASSUME ConstantsAssumption ==
    /\ MaxCalls \in Nat
    /\ DOMAIN Passed = DOMAIN Class /\ DOMAIN Result = DOMAIN Class
    /\ Class \in Seq({Class[m] : m \in DOMAIN Class})
    /\ \A m, n \in DOMAIN Class : Class[m].name = Class[n].name => m = n
    /\ \A m \in DOMAIN Class :
          /\ Class[m].static \in {0, 1} /\ Class[m].ret \in Seq(STRING)
          /\ Class[m].params \in Seq(Seq(STRING))
          /\ \A args \in Passed[m] : DOMAIN args = DOMAIN Class[m].params
          /\ Result[m][1] = Class[m].ret

VARIABLES classdef,   \* what B wrote to register the class
          info,       \* the ClassInfo A has read
          proxied,    \* the types A's proxies report, per method
          toB, toA,   \* the two streams, as the receivers read them
          callid,     \* COFnWrap::_callid
          slots,      \* A's reply slots of calls, <<MessageID, call id>>
          calls,      \* A's calls by id: method, object, arguments (history)
          workers,    \* call id -> the request B's thread has to run
          objectid,   \* B's _objectid
          regobjects, \* keys of B's _regobjects
          objects,    \* "__OBJECT_ID"s of A's constructed objects
          seen,       \* call id -> what B ran: object, method, arguments
          got,        \* call id -> what A's call returned
          stateA, stateB  \* "up", or why the process has ended

vars == <<classdef, info, proxied, toB, toA, callid, slots, calls, workers, objectid,
          regobjects, objects, seen, got, stateA, stateB>>

registry == <<classdef, info, proxied>>

Ids == 1..MaxCalls
Ctor == <<0>>                \* "ctor"
ClassName == <<1>>
Namespace == <<2>>
RegisteredOid == 9           \* ObjectID the broker gives an object of A or B

(* MessageIDs: of A's requests, and of their counterparts at B. *)
ConstructObject == 8
CallStatic == 9
CallMethod == 10
Construct == 21
StaticCall == 22
MethodCall == 23
Success == 1

Counterpart == [kind \in {ConstructObject, CallStatic, CallMethod} |->
    CASE kind = ConstructObject -> Construct
      [] kind = CallStatic -> StaticCall
      [] kind = CallMethod -> MethodCall]

(* The functions from call ids: an entry is added or replaced, or erased. *)
Put(f, i, x) == [k \in DOMAIN f \cup {i} |-> IF k = i THEN x ELSE f[k]]
Erase(f, i) == [k \in DOMAIN f \ {i} |-> f[k]]

Init ==
    /\ classdef = None /\ info = None
    /\ proxied = None
    /\ toB = <<>> /\ toA = <<>>
    /\ callid = 0 /\ slots = {} /\ calls = <<>>
    /\ workers = <<>> /\ seen = <<>> /\ got = <<>>
    /\ objectid = 0 /\ regobjects = {} /\ objects = {}
    /\ stateA = "up" /\ stateB = "up"

-----------------------------------------------------------------------------
(* The class definition. *)

MetaClassInfo ==
    [ClassName |-> ClassName,
     Methods |-> [m \in DOMAIN Class |->
        [MethodName |-> Class[m].name, IsStatic |-> Class[m].static,
         ReturnType |-> MapType(Class[m].ret),
         ParamTypes |-> [i \in DOMAIN Class[m].params |-> MapType(Class[m].params[i])]]]]

RegisterClass ==
    /\ classdef = None
    /\ classdef' = Write(<<"ClassInfo">>, MetaClassInfo)
    /\ UNCHANGED <<info, proxied, toB, toA, callid, slots, calls, workers, objectid, regobjects,
                   objects, seen, got, stateA, stateB>>

(* A proxy for each method, and one for "ctor" where the class has none. *)
MakeMetaClass(methods) ==
    LET ctor == [MethodName |-> Ctor, IsStatic |-> 0, ReturnType |-> <<"Void">>,
                 ParamTypes |-> <<>>] IN
    IF \E m \in DOMAIN methods : methods[m].MethodName = Ctor THEN methods
    ELSE Append(methods, ctor)

(* COFnWrap::GetReturnType, COFnWrap::GetParamTypes. *)
Proxied(methods) ==
    [m \in DOMAIN methods |->
        [ret |-> TypeToTypeInfo(methods[m].ReturnType),
         params |-> [i \in DOMAIN methods[m].ParamTypes |->
                        TypeToTypeInfo(methods[m].ParamTypes[i])]]]

GetClass ==
    /\ classdef # None /\ info = None
    /\ LET cls == Read(<<"ClassInfo">>, classdef) IN
          /\ info' = MakeMetaClass(cls.val.Methods)
          /\ stateA' = IF cls.in = <<>> THEN "up" ELSE "lost"
    /\ proxied' = Proxied(info')
    /\ UNCHANGED <<classdef, toB, toA, callid, slots, calls, workers, objectid, regobjects,
                   objects, seen, got, stateB>>

-----------------------------------------------------------------------------
(* A calls; the proxy holds the MethodInfo of its method. *)

Kind(method) == IF method.MethodName = Ctor THEN ConstructObject
               ELSE IF method.IsStatic = 1 THEN CallStatic ELSE CallMethod

(* An object that has no ObjectID yet (0 here) is registered first; the    *)
(* any_cast of anything else throws, as the writing of Empty will. *)
ObjectArg(a) ==
    IF a[1] # <<"MetaObject">> THEN Empty
    ELSE <<<<"uint32_t">>, IF a[2] = 0 THEN RegisteredOid ELSE a[2]>>

(* Mutant: objects are passed as they are. *)
PassObjects(method, args) ==
    [i \in DOMAIN method.ParamTypes |->
        [type |-> method.ParamTypes[i], val |-> args[i]]]

TypedArgs(method, args) ==
    [i \in DOMAIN method.ParamTypes |->
        LET t == method.ParamTypes[i] IN
        [type |-> t, val |-> IF t = <<"Object">> THEN ObjectArg(args[i]) ELSE args[i]]]

(* What Call writes after the MessageID. *)
Request(method, oid, id, args) ==
    (IF Kind(method) = CallMethod THEN Write(<<"uint32_t">>, oid)
     ELSE Write(<<"string">>, Namespace) \o Write(<<"string">>, ClassName))
    \o (IF Kind(method) = ConstructObject THEN <<>>
        ELSE Write(<<"string">>, method.MethodName))
    \o Write(<<"uint32_t">>, id)
    \o Write(<<"vector", "TypedVal">>, TypedArgs(method, args))

(* The broker knows B by the namespace, and does not pass it on. *)
Forward(kind, request) ==
    <<<<"2", Counterpart[kind]>>>> \o
        IF kind = CallMethod THEN request
        ELSE Read(<<"string">>, request).in

(* Mutant: the slot is made before the arguments are written. *)
SetupReplyFirst(slot, threw) == slots \cup {slot}

(* "Call:<MessageID>:<call id>" is made when everything is written.        *)
SetupReply(slot, threw) == IF threw THEN slots ELSE slots \cup {slot}

(* A call whose arguments cannot be written throws and sends nothing. *)
Call(m, oid, args) ==
    /\ info # None /\ stateA = "up" /\ callid < MaxCalls
    /\ m \in DOMAIN info
    /\ oid \in IF Kind(info[m]) = CallMethod THEN objects ELSE {0}
    /\ callid' = callid + 1
    /\ LET request == Request(info[m], oid, callid + 1, args)
           threw == Failed(request) IN
          /\ calls' = Append(calls,
                [method |-> m, oid |-> oid, args |-> args, threw |-> threw])
          /\ slots' = SetupReply(<<Kind(info[m]), callid + 1>>, threw)
          /\ toB' = IF threw THEN toB ELSE toB \o Forward(Kind(info[m]), request)
    /\ UNCHANGED <<registry, toA, workers, objectid, regobjects, objects, seen, got,
                   stateA, stateB>>

-----------------------------------------------------------------------------
(* B's receiver reads a request and starts a thread for it. *)

Recv(c, r) == Read(c, r.in)

(* Recv_ReqConstruct, Recv_ReqStaticCall, Recv_ReqMethodCall: what is read *)
(* of a request before its arguments, [oid, method, in]. *)
Target(kind, in) ==
    LET oid == IF kind = MethodCall THEN Read(<<"uint32_t">>, in)
               ELSE [val |-> 0, in |-> Read(<<"string">>, in).in]
        name == IF kind = Construct THEN [val |-> Ctor, in |-> oid.in]
                ELSE Recv(<<"string">>, oid) IN
    [oid |-> oid.val, method |-> name.val, in |-> name.in]

RequestAt(in) ==
    LET kind == Item("2", in)
        target == Target(kind.val, kind.in)
        id == Recv(<<"uint32_t">>, target)
        args == Recv(<<"vector", "TypedVal">>, id) IN
    [id |-> id.val, in |-> args.in,
     run |-> [kind |-> kind.val, oid |-> target.oid, method |-> target.method,
              args |-> args.val]]

RequestArrives ==
    /\ stateB = "up" /\ toB # <<>>
    /\ LET r == RequestAt(toB)
           lost == \/ r.run.kind \notin {Construct, StaticCall, MethodCall}
                   \/ Failed(r.in) \/ r.id \notin Ids IN
          /\ stateB' = IF lost THEN "lost" ELSE "up"
          /\ toB' = IF lost THEN toB ELSE r.in
          /\ workers' = IF lost THEN workers ELSE Put(workers, r.id, r.run)
    /\ UNCHANGED <<registry, toA, callid, slots, calls, objectid, regobjects, objects, seen, got,
                   stateA>>

-----------------------------------------------------------------------------
(* B's threads. *)

(* The broker sends the answer on under the MessageID of A's request. *)
Answer(kind, id, rest) ==
    <<<<"2", CHOOSE k \in DOMAIN Counterpart : Counterpart[k] = kind>>>>
        \o Write(<<"uint32_t">>, id) \o Write(<<"uint16_t">>, Success) \o rest

(* Mutant: the object is not kept. *)
AddNothing(i) ==
    /\ stateB = "up" /\ i \in DOMAIN workers /\ workers[i].kind = Construct
    /\ workers' = Erase(workers, i)
    /\ objectid' = objectid + 1
    /\ seen' = Put(seen, i, [oid |-> objectid + 1, method |-> Ctor, args |-> <<>>])
    /\ toA' = toA \o Answer(Construct, i, Write(<<"uint32_t">>, objectid + 1))
    /\ UNCHANGED <<registry, toB, callid, slots, calls, regobjects, objects, got, stateA, stateB>>

(* The object is in _regobjects before its ObjectID is sent.  Nothing is   *)
(* made of the arguments. *)
RunConstruct(i) ==
    /\ stateB = "up" /\ i \in DOMAIN workers /\ workers[i].kind = Construct
    /\ workers' = Erase(workers, i)
    /\ objectid' = objectid + 1
    /\ regobjects' = regobjects \cup {objectid + 1}
    /\ seen' = Put(seen, i, [oid |-> objectid + 1, method |-> Ctor, args |-> <<>>])
    /\ toA' = toA \o Answer(Construct, i, Write(<<"uint32_t">>, objectid + 1))
    /\ UNCHANGED <<registry, toB, callid, slots, calls, objects, got, stateA, stateB>>

(* Mutant: objects stay ObjectIDs. *)
RawObjects(args) == [i \in DOMAIN args |-> args[i].val]

(* VectorTVtoVectorAny, and ProcessObjects: an ObjectID becomes a proxy. *)
ProcessObjects(args) ==
    [i \in DOMAIN args |->
        IF args[i].type = <<"Object">> THEN <<<<"MetaObject">>, args[i].val[2]>>
        ELSE args[i].val]

(* The value sent for what method m returned, with the type m declares. *)
ReturnVal(m) ==
    LET t == MapType(Class[m].ret) IN
    [type |-> t, val |-> IF t = <<"Object">> THEN ObjectArg(Result[m]) ELSE Result[m]]

(* Do_RunStaticCall and Do_RunMethodCall.  Nothing catches what they       *)
(* throw: a method, an object or a type that is not known ends the process.*)
RunMethod(i) ==
    /\ stateB = "up" /\ i \in DOMAIN workers /\ workers[i].kind # Construct
    /\ workers' = Erase(workers, i)
    /\ LET w == workers[i]
           ms == {m \in DOMAIN Class : Class[m].name = w.method}
           known == ms # {} /\ (w.kind = MethodCall => w.oid \in regobjects)
           answer == IF known
                     THEN Answer(w.kind, i, Write(<<"TypedVal">>,
                                    ReturnVal(CHOOSE m \in ms : TRUE)))
                     ELSE <<Throw>> IN
          /\ stateB' = IF Failed(answer) THEN "terminated" ELSE "up"
          /\ toA' = IF Failed(answer) THEN toA ELSE toA \o answer
          /\ seen' = IF known
                     THEN Put(seen, i, [oid |-> w.oid, method |-> w.method,
                                        args |-> ProcessObjects(w.args)])
                     ELSE seen
    /\ UNCHANGED <<registry, toB, callid, slots, calls, objectid, regobjects, objects, got, stateA>>

-----------------------------------------------------------------------------
(* A's receiver, and the end of Call in the thread that waits for it. *)

(* Mutant: an object is returned as its ObjectID. *)
ReturnRaw(res) == res.val

Returned(res) ==
    IF res.type # <<"Object">> THEN res.val ELSE <<<<"MetaObject">>, res.val[2]>>

Nothing == <<<<"NullType">>, 0>>

(* Recv_ConstructObject, Recv_CallStatic, Recv_CallMethod. *)
AnswerAt(in) ==
    LET kind == Item("2", in)
        id == Recv(<<"uint32_t">>, kind)
        status == Recv(<<"uint16_t">>, id)
        res == IF kind.val = ConstructObject THEN Recv(<<"uint32_t">>, status)
               ELSE Recv(<<"TypedVal">>, status) IN
    [kind |-> kind.val, id |-> id.val, status |-> status.val, val |-> res.val, in |-> res.in]

(* PutReply finds the slot of the call, or a null pointer; GetReply takes  *)
(* the answer out of it and erases it. *)
AnswerArrives ==
    /\ stateA = "up" /\ toA # <<>>
    /\ LET a == AnswerAt(toA)
           slot == <<a.kind, a.id>>
           lost == Failed(a.in) \/ slot \notin slots IN
          /\ stateA' = IF lost THEN "lost" ELSE "up"
          /\ toA' = IF lost THEN toA ELSE a.in
          /\ slots' = IF lost THEN slots ELSE slots \ {slot}
          /\ got' = IF lost THEN got
                    ELSE Put(got, a.id, IF a.kind = ConstructObject THEN Nothing
                                        ELSE Returned(a.val))
          /\ objects' = IF ~lost /\ a.kind = ConstructObject /\ a.status = Success
                        THEN objects \cup {a.val} ELSE objects
    /\ UNCHANGED <<registry, toB, callid, calls, workers, objectid, regobjects, seen,
                   stateB>>

-----------------------------------------------------------------------------

ArgLists(m) == IF m \in DOMAIN Passed THEN Passed[m] ELSE {<<>>}

Next ==
    \/ RegisterClass \/ GetClass
    \/ \E m \in 1..(Len(Class) + 1), oid \in objects \cup {0} :
          \E args \in ArgLists(m) : Call(m, oid, args)
    \/ RequestArrives \/ AnswerArrives
    \/ \E i \in Ids : RunConstruct(i) \/ RunMethod(i)

Spec == Init /\ [][Next]_vars

-----------------------------------------------------------------------------
(* Properties. *)

(* The receivers stay in step with what is written for them, and nothing   *)
(* in a request makes B's threads throw.                                   *)
InStep == stateA = "up" /\ stateB = "up"

(* An any at the other side: an object is a proxy of it. *)
Arrived(a) == IF a[1] = <<"MetaObject">> THEN <<a[1], ObjectArg(a)[2]>> ELSE a

(* B runs the method A called, on the object A called it on, with the      *)
(* arguments A gave, an object being the proxy of the object given.  (A    *)
(* constructor is run without its arguments.)                              *)
ArgumentsArrive ==
    \A i \in DOMAIN seen :
        LET call == calls[i]  called == info[call.method] IN
        /\ seen[i].method = called.MethodName
        /\ Kind(called) = CallMethod => seen[i].oid = call.oid
        /\ Kind(called) # ConstructObject =>
              seen[i].args = [k \in DOMAIN call.args |-> Arrived(call.args[k])]

(* A's call returns what B's method returned, or nothing for a method that *)
(* returns nothing and for a constructor.                                  *)
ResultsReturn ==
    \A i \in DOMAIN got :
        LET m == calls[i].method IN
        got[i] = IF info[m].MethodName = Ctor THEN Nothing
                 ELSE IF Class[m].ret = <<"NullType">> THEN Empty
                 ELSE Arrived(Result[m])

(* An object A has constructed is one of B's.                              *)
ObjectsExist == objects \subseteq regobjects

(* Each argument has the type of its parameter. *)
WellTyped(m, args) == \A k \in DOMAIN args : args[k][1] = Class[m].params[k]

(* A call throws only when an argument has not its parameter's type.  That *)
(* depends on the class: which types Serialize writes is for Codec to say. *)
TypedCallsAreSent ==
    \A i \in DOMAIN calls : calls[i].threw => ~WellTyped(calls[i].method, calls[i].args)

(* A call throws only when an argument has not the type that the proxy     *)
(* reports for its parameter (COFnWrap::GetParamTypes): who asks the proxy *)
(* and passes what it says is not refused.                                 *)
ReportedTypesAreTaken ==
    \A i \in DOMAIN calls : calls[i].threw =>
        \E k \in DOMAIN calls[i].args :
            calls[i].args[k][1] # proxied[calls[i].method].params[k]

(* The calls that wait for their answers. *)
Waiting == {i \in DOMAIN calls : ~calls[i].threw /\ i \notin DOMAIN got}

(* There is a reply slot for each call that waits and for no other: a call *)
(* that throws while its arguments are written leaves none behind.         *)
SlotsOwned == slots = {<<Kind(info[calls[i].method]), i>> : i \in Waiting}

(* A proxy reports the types of the method it stands for: publishing the   *)
(* proxied class again gives it the same protocol types.                   *)
ProxiesKeepTypes ==
    proxied # None => \A m \in DOMAIN Class :
        /\ proxied[m].ret = Class[m].ret
        /\ Len(proxied[m].params) = Len(Class[m].params)
        /\ \A i \in DOMAIN Class[m].params : proxied[m].params[i] = Class[m].params[i]

(* No call is lost: when nothing is under way, each one that was sent has  *)
(* returned.                                                               *)
CallsAnswered ==
    toB = <<>> /\ toA = <<>> /\ DOMAIN workers = {} =>
        \A i \in DOMAIN calls : calls[i].threw \/ i \in DOMAIN got

-----------------------------------------------------------------------------
(* What the calls need of the wire format. *)

(* The MethodInfos of A's proxies once it has the class. *)
Published == MakeMetaClass(MetaClassInfo.Methods)

(* What is written with d is read as val, whatever of Rests follows it. *)
ReadAs(c, d, val, Rests) ==
    /\ Write(c, d) \in Seq(Items)
    /\ \A rest \in Rests :
          Read(c, Write(c, d) \o rest) = [val |-> val, in |-> rest]

(* The result of a method that returns nothing is read as an empty any. *)
ResultRead(m) ==
    LET r == ReturnVal(m) IN
    IF r.type = <<"Void">> THEN [type |-> r.type, val |-> Empty] ELSE r

(* Arguments are read back as they were given or writing them throws.  No  *)
(* contract can ask for more: what has not its parameter's type throws,    *)
(* and so does a vector of objects or of Hashes.                           *)
ArgumentsKept(m, args, Rests) ==
    LET typed == TypedArgs(Published[m], args)
        written == Write(<<"vector", "TypedVal">>, typed) IN
    \/ WellTyped(m, args) /\ ReadAs(<<"vector", "TypedVal">>, typed, typed, Rests)
    \/ written \in Seq(Items \cup {Throw}) /\ Failed(written)

(* Everything a call or an answer writes is read back, however much        *)
(* follows it in the stream.                                               *)
CodecContract(Rests) ==
    /\ {Throw, Lost} \cap Items = {}
    /\ \A kind \in DOMAIN Counterpart :
          {<<"2", kind>>, <<"2", Counterpart[kind]>>} \subseteq Items
    /\ ReadAs(<<"ClassInfo">>, MetaClassInfo, MetaClassInfo, {<<>>})
    /\ \A n \in 0..MaxCalls : ReadAs(<<"uint32_t">>, n, n, Rests)
    /\ ReadAs(<<"uint16_t">>, Success, Success, Rests)
    /\ \A name \in {Namespace, ClassName}
                    \cup {Published[m].MethodName : m \in DOMAIN Published} :
          ReadAs(<<"string">>, name, name, Rests)
    /\ \A m \in DOMAIN Published : \A args \in ArgLists(m) : ArgumentsKept(m, args, Rests)
    /\ \A m \in DOMAIN Class : ReadAs(<<"TypedVal">>, ReturnVal(m), ResultRead(m), Rests)
=============================================================================
