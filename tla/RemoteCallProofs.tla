-------------------------- MODULE RemoteCallProofs --------------------------
(***************************************************************************)
(* Theorems about RemoteCall, for every class, every number of calls and   *)
(* every wire format that keeps CodecContract.                             *)
(***************************************************************************)
EXTENDS RemoteCall, TypeMapProofs, FiniteSets, FiniteSetTheorems,
        SequenceTheorems, TLAPS

Streams == Seq(Items)

LEMMA ConcatType == \A s, t \in Streams : s \o t \in Streams
  BY ConcatProperties DEF Streams

LEMMA ConcatAssoc == \A s, t, u \in Streams : (s \o t) \o u = s \o (t \o u)
  BY ConcatAssociative DEF Streams

(* Naming an equation makes its instances easy to find. *)
Associates(s, t, u) == (s \o t) \o u = s \o (t \o u)

LEMMA ConcatAssociates == \A s, t, u \in Streams : Associates(s, t, u)
  BY ConcatAssoc, Zenon DEF Associates

LEMMA ConcatNothing ==
    <<>> \in Streams /\ \A s \in Streams : s \o <<>> = s /\ <<>> \o s = s
  BY EmptySeq, ConcatEmptySeq DEF Streams

-----------------------------------------------------------------------------
(* A stream that several messages have been written to: F[q[1]], F[q[2]],  *)
(* ..., the rest of it before each one being tails[1], tails[2], ... *)
Chunks(stream, q, F) ==
    \E tails \in [1..(Len(q) + 1) -> Streams] :
        /\ tails[1] = stream /\ tails[Len(q) + 1] = <<>>
        /\ \A k \in 1..Len(q) :
              F[q[k]] \in Streams /\ tails[k] = F[q[k]] \o tails[k + 1]

LEMMA ChunksEmpty == \A F : Chunks(<<>>, <<>>, F)
<1>1. TAKE F
<1>2. DEFINE tails == [k \in 1..(Len(<<>>) + 1) |-> <<>>]
<1>3. <<>> \in Streams /\ Len(<<>>) = 0
  BY DEF Streams
<1>4. tails \in [1..(Len(<<>>) + 1) -> Streams] /\ tails[1] = <<>>
  BY <1>3
<1>5. \A k \in 1..Len(<<>>) : FALSE
  BY <1>3
<1> HIDE DEF tails
<1>6. QED
  BY <1>3, <1>4, <1>5 DEF Chunks

(* Only the messages of the queue count. *)
LEMMA ChunksFrame ==
    ASSUME NEW stream, NEW q, NEW F, NEW G, Chunks(stream, q, F),
           \A k \in 1..Len(q) : G[q[k]] = F[q[k]]
    PROVE  Chunks(stream, q, G)
  BY DEF Chunks

(* The first message is a prefix, and the others follow it. *)
LEMMA ChunksHead ==
    ASSUME NEW S, NEW q \in Seq(S), NEW stream, NEW F, Chunks(stream, q, F), q # <<>>
    PROVE  /\ F[Head(q)] \in Streams
           /\ \E rest \in Streams : stream = F[Head(q)] \o rest /\ Chunks(rest, Tail(q), F)
<1>1. PICK tails \in [1..(Len(q) + 1) -> Streams] :
          /\ tails[1] = stream /\ tails[Len(q) + 1] = <<>>
          /\ \A k \in 1..Len(q) :
                F[q[k]] \in Streams /\ tails[k] = F[q[k]] \o tails[k + 1]
  BY DEF Chunks
<1>2. Len(q) \in Nat \ {0} /\ Tail(q) \in Seq(S) /\ Len(Tail(q)) = Len(q) - 1
  BY EmptySeq, HeadTailProperties
<1>3. Head(q) = q[1] /\ \A k \in 1..Len(Tail(q)) : Tail(q)[k] = q[k + 1]
  BY HeadTailProperties
<1>4. tails[2] \in Streams /\ stream = F[Head(q)] \o tails[2] /\ F[Head(q)] \in Streams
  <2>1. 1 \in 1..Len(q) /\ 2 \in 1..(Len(q) + 1) /\ 1 + 1 = 2
    BY <1>2
  <2>2. tails[2] \in Streams
    BY <2>1
  <2>3. F[q[1]] \in Streams
    BY <1>1, <2>1
  <2>4. tails[1] = F[q[1]] \o tails[1 + 1]
    BY <1>1, <2>1
  <2>5. tails[1] = F[q[1]] \o tails[2]
    BY <2>1, <2>4
  <2>6. QED
    BY <1>1, <1>3, <2>2, <2>3, <2>5
<1>5. DEFINE rests == [k \in 1..(Len(Tail(q)) + 1) |-> tails[k + 1]]
<1>6. rests \in [1..(Len(Tail(q)) + 1) -> Streams]
  BY <1>1, <1>2
<1>7. rests[1] = tails[2] /\ rests[Len(Tail(q)) + 1] = <<>>
  BY <1>1, <1>2
<1>8. ASSUME NEW k \in 1..Len(Tail(q))
      PROVE  F[Tail(q)[k]] \in Streams /\ rests[k] = F[Tail(q)[k]] \o rests[k + 1]
  <2>1. k + 1 \in 1..Len(q) /\ Tail(q)[k] = q[k + 1]
    BY <1>2, <1>3
  <2>2. rests[k] = tails[k + 1] /\ rests[k + 1] = tails[(k + 1) + 1]
    BY <1>2
  <2>3. QED
    BY <1>1, <2>1, <2>2
<1> HIDE DEF rests
<1>9. Chunks(tails[2], Tail(q), F)
  BY <1>6, <1>7, <1>8 DEF Chunks
<1>10. QED
  BY <1>4, <1>9

(* A message that is written goes to the end. *)
LEMMA ChunksAppend ==
    ASSUME NEW S, NEW q \in Seq(S), NEW i \in S, NEW stream, NEW F,
           Chunks(stream, q, F), F[i] \in Streams
    PROVE  Chunks(stream \o F[i], Append(q, i), F)
<1>1. PICK tails \in [1..(Len(q) + 1) -> Streams] :
          /\ tails[1] = stream /\ tails[Len(q) + 1] = <<>>
          /\ \A k \in 1..Len(q) :
                F[q[k]] \in Streams /\ tails[k] = F[q[k]] \o tails[k + 1]
  BY DEF Chunks
<1>2. Len(q) \in Nat /\ Len(Append(q, i)) = Len(q) + 1
  BY LenProperties, AppendProperties
<1>3. /\ \A k \in 1..Len(q) : Append(q, i)[k] = q[k]
      /\ Append(q, i)[Len(q) + 1] = i
  BY AppendProperties
<1>4. DEFINE longer == [k \in 1..(Len(Append(q, i)) + 1) |->
                           IF k <= Len(q) + 1 THEN tails[k] \o F[i] ELSE <<>>]
<1>5. \A k \in 1..(Len(q) + 1) : tails[k] \o F[i] \in Streams
  BY <1>1, ConcatProperties DEF Streams
<1>6. longer \in [1..(Len(Append(q, i)) + 1) -> Streams]
  <2>1. <<>> \in Streams
    BY EmptySeq DEF Streams
  <2>2. QED
    BY <1>2, <1>5, <2>1
<1>7. longer[1] = stream \o F[i] /\ longer[Len(Append(q, i)) + 1] = <<>>
  <2>1. 1 \in 1..(Len(Append(q, i)) + 1) /\ 1 <= Len(q) + 1
    BY <1>2
  <2>2. longer[1] = tails[1] \o F[i]
    BY <2>1
  <2>3. /\ Len(Append(q, i)) + 1 \in 1..(Len(Append(q, i)) + 1)
        /\ ~(Len(Append(q, i)) + 1 <= Len(q) + 1)
    BY <1>2
  <2>4. longer[Len(Append(q, i)) + 1] = <<>>
    BY <2>3
  <2>5. QED
    BY <1>1, <2>2, <2>4
<1>8. ASSUME NEW k \in 1..Len(Append(q, i))
      PROVE  /\ F[Append(q, i)[k]] \in Streams
             /\ longer[k] = F[Append(q, i)[k]] \o longer[k + 1]
  <2>1. CASE k \in 1..Len(q)
    <3>1. /\ k \in 1..(Len(q) + 1) /\ k + 1 \in 1..(Len(q) + 1)
          /\ k \in 1..(Len(Append(q, i)) + 1) /\ k + 1 \in 1..(Len(Append(q, i)) + 1)
          /\ k <= Len(q) + 1 /\ k + 1 <= Len(q) + 1
      BY <1>2, <2>1
    <3>2. longer[k] = tails[k] \o F[i]
      BY <3>1
    <3>3. longer[k + 1] = tails[k + 1] \o F[i]
      BY <3>1
    <3>4. F[q[k]] \in Streams /\ tails[k] = F[q[k]] \o tails[k + 1]
      BY <1>1, <2>1
    <3>5. tails[k + 1] \in Streams
      BY <3>1
    <3>6. Associates(F[q[k]], tails[k + 1], F[i])
      BY <3>4, <3>5, ConcatAssociates
    <3>7. Append(q, i)[k] = q[k]
      BY <1>3, <2>1
    <3>8. QED
      BY <3>2, <3>3, <3>4, <3>6, <3>7 DEF Associates
  <2>2. CASE k = Len(q) + 1
    <3>1. /\ k \in 1..(Len(Append(q, i)) + 1) /\ k + 1 \in 1..(Len(Append(q, i)) + 1)
          /\ k <= Len(q) + 1 /\ ~(k + 1 <= Len(q) + 1)
      BY <1>2, <2>2
    <3>2. longer[k] = tails[k] \o F[i]
      BY <3>1
    <3>3. longer[k + 1] = <<>>
      BY <3>1
    <3>4. tails[k] = <<>> /\ Append(q, i)[k] = i
      BY <1>1, <1>3, <2>2
    <3>5. <<>> \o F[i] = F[i] /\ F[i] \o <<>> = F[i]
      BY ConcatEmptySeq DEF Streams
    <3>6. QED
      BY <3>2, <3>3, <3>4, <3>5
  <2>3. k \in 1..Len(q) \/ k = Len(q) + 1
    BY <1>2
  <2> HIDE DEF longer
  <2>4. QED
    BY <2>1, <2>2, <2>3
<1> HIDE DEF longer
<1>9. QED
  BY <1>6, <1>7, <1>8 DEF Chunks

(* A stream without messages is empty, and only that one. *)
LEMMA ChunksNil ==
    ASSUME NEW S, NEW q \in Seq(S), NEW stream, NEW F, Chunks(stream, q, F)
    PROVE  /\ stream \in Streams
           /\ q = <<>> => stream = <<>>
           /\ stream = <<>> /\ (\A k \in 1..Len(q) : F[q[k]] # <<>>) => q = <<>>
<1>1. PICK tails \in [1..(Len(q) + 1) -> Streams] :
          /\ tails[1] = stream /\ tails[Len(q) + 1] = <<>>
          /\ \A k \in 1..Len(q) :
                F[q[k]] \in Streams /\ tails[k] = F[q[k]] \o tails[k + 1]
  BY DEF Chunks
<1>2. Len(q) \in Nat
  BY LenProperties
<1>3. stream \in Streams
  BY <1>1, <1>2
<1>4. q = <<>> => stream = <<>>
  BY <1>1, EmptySeq
<1>5. ASSUME stream = <<>>, \A k \in 1..Len(q) : F[q[k]] # <<>>, q # <<>>
      PROVE  FALSE
  <2>1. 1 \in 1..Len(q)
    BY <1>5, EmptySeq
  <2>2. F[q[1]] \in Streams /\ tails[1] = F[q[1]] \o tails[1 + 1]
    BY <1>1, <2>1
  <2>3. 1 + 1 \in 1..(Len(q) + 1)
    BY <1>2, <2>1
  <2>4. tails[1 + 1] \in Streams
    BY <2>3
  <2>5. F[q[1]] \o tails[1 + 1] = <<>>
    BY <1>1, <1>5, <2>2
  <2>6. F[q[1]] = <<>>
    BY <2>2, <2>4, <2>5, ConcatEqualIffEmpty DEF Streams
  <2>7. QED
    BY <1>5, <2>1, <2>6
<1>6. QED
  BY <1>3, <1>4, <1>5

-----------------------------------------------------------------------------
(* What A gets of the class. *)

LEMMA ClassSeq ==
    /\ Len(Class) \in Nat /\ DOMAIN Class = 1..Len(Class)
    /\ DOMAIN MetaClassInfo.Methods = 1..Len(Class)
  BY ConstantsAssumption, LenProperties DEF MetaClassInfo

LEMMA MethodFacts ==
    \A m \in DOMAIN Class :
        LET method == MetaClassInfo.Methods[m] IN
        /\ method.MethodName = Class[m].name
        /\ method.IsStatic = Class[m].static
        /\ method.ReturnType = MapType(Class[m].ret)
        /\ method.ParamTypes = [i \in DOMAIN Class[m].params |-> MapType(Class[m].params[i])]
  BY DEF MetaClassInfo

DefaultCtor == [MethodName |-> Ctor, IsStatic |-> 0, ReturnType |-> <<"Void">>,
                ParamTypes |-> <<>>]

(* The methods, in their order, and a constructor without parameters if    *)
(* none of them is one. *)
LEMMA PublishedMethods ==
    /\ DOMAIN Class \subseteq DOMAIN Published
    /\ \A m \in DOMAIN Class : Published[m] = MetaClassInfo.Methods[m]
    /\ \A m \in DOMAIN Published : m \in DOMAIN Class \/ Published[m] = DefaultCtor
<1>1. DEFINE methods == MetaClassInfo.Methods
             S == {methods[m] : m \in DOMAIN methods}
<1>2. methods \in Seq(S) /\ Len(methods) = Len(Class)
  <2>1. methods = [m \in 1..Len(Class) |-> methods[m]]
    BY ClassSeq DEF MetaClassInfo
  <2>2. \A m \in 1..Len(Class) : methods[m] \in S
    BY ClassSeq
  <2> HIDE DEF methods, S
  <2>3. methods \in [1..Len(Class) -> S]
    BY <2>1, <2>2
  <2>4. QED
    BY <2>3, ClassSeq, SeqDef
<1>3. Published = IF \E m \in DOMAIN methods : methods[m].MethodName = Ctor THEN methods
                  ELSE Append(methods, DefaultCtor)
  BY DEF Published, MakeMetaClass, DefaultCtor
<1>4. DOMAIN methods = 1..Len(Class) /\ DOMAIN Class = 1..Len(Class) /\ Len(Class) \in Nat
  BY ClassSeq
<1> HIDE DEF methods
<1>5. CASE Published = methods
  BY <1>4, <1>5 DEF methods
<1>6. CASE Published = Append(methods, DefaultCtor)
  <2>1. methods \in Seq(S \cup {DefaultCtor})
    BY <1>2, SeqMonotonic
  <2>2. DOMAIN Published = 1..(Len(Class) + 1)
    BY <1>2, <1>6, <2>1, AppendProperties, LenProperties
  <2>3. /\ \A m \in 1..Len(Class) : Published[m] = methods[m]
        /\ Published[Len(Class) + 1] = DefaultCtor
    BY <1>2, <1>6, <2>1, AppendProperties
  <2>4. QED
    BY <1>4, <2>2, <2>3 DEF methods
<1>7. QED
  BY <1>3, <1>5, <1>6

LEMMA KindFacts ==
    /\ \A m \in DOMAIN Published : Kind(Published[m]) \in DOMAIN Counterpart
    /\ \A m \in DOMAIN Published : Published[m].MethodName = Ctor
                                      <=> Kind(Published[m]) = ConstructObject
    /\ \A m \in DOMAIN Published : Kind(Published[m]) # ConstructObject => m \in DOMAIN Class
<1>1. DefaultCtor.MethodName = Ctor
  BY DEF DefaultCtor
<1>2. QED
  BY <1>1, PublishedMethods
     DEF Kind, Counterpart, ConstructObject, CallStatic, CallMethod

(* The two sets of MessageIDs correspond one to one. *)
LEMMA CounterpartFacts ==
    /\ DOMAIN Counterpart = {ConstructObject, CallStatic, CallMethod}
    /\ Counterpart[ConstructObject] = Construct /\ Counterpart[CallStatic] = StaticCall
    /\ Counterpart[CallMethod] = MethodCall
    /\ ConstructObject # CallStatic /\ ConstructObject # CallMethod /\ CallStatic # CallMethod
    /\ Construct # StaticCall /\ Construct # MethodCall /\ StaticCall # MethodCall
    /\ \A kind \in DOMAIN Counterpart :
          (CHOOSE k \in DOMAIN Counterpart : Counterpart[k] = Counterpart[kind]) = kind
<1>1. /\ DOMAIN Counterpart = {ConstructObject, CallStatic, CallMethod}
      /\ Counterpart[ConstructObject] = Construct /\ Counterpart[CallStatic] = StaticCall
      /\ Counterpart[CallMethod] = MethodCall
      /\ ConstructObject # CallStatic /\ ConstructObject # CallMethod
      /\ CallStatic # CallMethod
      /\ Construct # StaticCall /\ Construct # MethodCall /\ StaticCall # MethodCall
  BY DEF Counterpart, ConstructObject, CallStatic, CallMethod, Construct, StaticCall,
         MethodCall
<1>2. \A j, k \in DOMAIN Counterpart : Counterpart[j] = Counterpart[k] => j = k
  BY <1>1
<1>3. QED
  BY <1>1, <1>2

-----------------------------------------------------------------------------
(* Reading what was written. *)

LEMMA ItemRead ==
    ASSUME NEW w, NEW x, <<w, x>> \in Items, NEW rest \in Streams
    PROVE  /\ <<<<w, x>>>> \in Streams
           /\ <<<<w, x>>>> \o rest # <<>>
           /\ Item(w, <<<<w, x>>>> \o rest) = [val |-> x, in |-> rest]
<1>1. <<<<w, x>>>> \in Streams /\ Len(<<<<w, x>>>>) = 1
  BY DEF Streams
<1>2. PICK s : s = <<<<w, x>>>> \o rest
  OBVIOUS
<1>3. /\ s \in Streams /\ Len(s) = 1 + Len(rest) /\ Len(rest) \in Nat
      /\ \A i \in 1..(1 + Len(rest)) : s[i] = IF i <= 1 THEN <<<<w, x>>>>[i] ELSE rest[i - 1]
  BY <1>1, <1>2, ConcatProperties, LenProperties DEF Streams
<1>4. s # <<>> /\ s[1] = <<w, x>>
  BY <1>3, EmptySeq
<1>5. Head(s) = <<w, x>>
  BY <1>3, <1>4, HeadTailProperties DEF Streams
<1>6. Tail(s) = rest
  <2>1. /\ Tail(s) \in Seq(Items) /\ Len(Tail(s)) = Len(rest)
        /\ \A i \in 1..Len(Tail(s)) : Tail(s)[i] = s[i + 1]
    BY <1>3, <1>4, HeadTailProperties DEF Streams
  <2>2. \A i \in 1..Len(rest) : s[i + 1] = rest[i]
    BY <1>3
  <2>3. QED
    BY <2>1, <2>2, SeqEqual DEF Streams
<1>7. Head(s)[1] = w /\ Head(s)[2] = x
  BY <1>5
<1>8. Item(w, s) = [val |-> x, in |-> rest]
  BY <1>4, <1>6, <1>7, Zenon DEF Item
<1>9. QED
  BY <1>1, <1>2, <1>4, <1>8

(* The contract, part by part. *)
Written(c, d, val) ==
    /\ Write(c, d) \in Streams
    /\ \A rest \in Streams :
          Read(c, Write(c, d) \o rest) = [val |-> val, in |-> rest]

LEMMA Contract ==
    ASSUME CodecContract(Streams)
    PROVE  /\ \A kind \in DOMAIN Counterpart :
                 <<"2", kind>> \in Items /\ <<"2", Counterpart[kind]>> \in Items
           /\ \A n \in 0..MaxCalls : Written(<<"uint32_t">>, n, n)
           /\ Written(<<"uint16_t">>, Success, Success)
           /\ Written(<<"string">>, Namespace, Namespace)
           /\ Written(<<"string">>, ClassName, ClassName)
           /\ \A m \in DOMAIN Published :
                 Written(<<"string">>, Published[m].MethodName, Published[m].MethodName)
           /\ \A m \in DOMAIN Class : Written(<<"TypedVal">>, ReturnVal(m), ResultRead(m))
  BY DEF CodecContract, ReadAs, Written, Streams

(* A stream of items has no exception in it. *)
LEMMA NotFailed ==
    ASSUME CodecContract(Streams)
    PROVE  \A s \in Streams : ~Failed(s)
<1>1. Throw \notin Items /\ Lost \notin Items
  BY DEF CodecContract
<1>2. QED
  BY <1>1 DEF Failed, Streams

LEMMA ClassRead ==
    ASSUME CodecContract(Streams)
    PROVE  Read(<<"ClassInfo">>, Write(<<"ClassInfo">>, MetaClassInfo))
             = [val |-> MetaClassInfo, in |-> <<>>]
<1>1. /\ Write(<<"ClassInfo">>, MetaClassInfo) \in Streams
      /\ Read(<<"ClassInfo">>, Write(<<"ClassInfo">>, MetaClassInfo) \o <<>>)
             = [val |-> MetaClassInfo, in |-> <<>>]
  BY DEF CodecContract, ReadAs, Streams
<1>2. QED
  BY <1>1, ConcatNothing

-----------------------------------------------------------------------------
(* Requests.  A call is a record of the history calls. *)

Sound(c) ==
    /\ c.method \in DOMAIN Published /\ c.args \in ArgLists(c.method)
    /\ c.oid \in 0..MaxCalls

KindOf(c) == Kind(Published[c.method])

RequestOf(c, i) == Request(Published[c.method], c.oid, i, c.args)

(* What B reads of the request of call i. *)
Message(c, i) == Forward(KindOf(c), RequestOf(c, i))

(* What B is to run for it. *)
RunOf(c) ==
    [kind |-> Counterpart[KindOf(c)],
     oid |-> IF KindOf(c) = CallMethod THEN c.oid ELSE 0,
     method |-> Published[c.method].MethodName,
     args |-> TypedArgs(Published[c.method], c.args)]

(* The parts of a request, grouped as they are read. *)
WrittenName(c) == Write(<<"string">>, Published[c.method].MethodName)
WrittenId(i) == Write(<<"uint32_t">>, i)
WrittenArgs(c) == Write(<<"vector", "TypedVal">>, TypedArgs(Published[c.method], c.args))
WrittenClass == Write(<<"string">>, ClassName)
WrittenNamespace == Write(<<"string">>, Namespace)

(* The arguments can be written. *)
Writable(c) == ~Failed(WrittenArgs(c))

(* Arguments that can be written have the types of their parameters and    *)
(* are read as they were given. *)
LEMMA ArgumentsWritten ==
    ASSUME CodecContract(Streams), NEW c, Sound(c)
    PROVE  LET typed == TypedArgs(Published[c.method], c.args) IN
           /\ Writable(c) => /\ WellTyped(c.method, c.args)
                             /\ Written(<<"vector", "TypedVal">>, typed, typed)
           /\ ~Writable(c) => WrittenArgs(c) \in Seq(Items \cup {Throw})
<1>1. PICK m, args, typed :
          /\ m \in DOMAIN Published /\ m = c.method /\ args \in ArgLists(m) /\ args = c.args
          /\ typed = TypedArgs(Published[m], args)
  BY DEF Sound
<1>2. ArgumentsKept(m, args, Streams)
  BY <1>1 DEF CodecContract
<1>3. WrittenArgs(c) = Write(<<"vector", "TypedVal">>, typed)
  BY <1>1 DEF WrittenArgs
<1>4. CASE WellTyped(m, args) /\ ReadAs(<<"vector", "TypedVal">>, typed, typed, Streams)
  BY <1>1, <1>3, <1>4, NotFailed DEF Writable, ReadAs, Written, Streams
<1>5. CASE /\ Write(<<"vector", "TypedVal">>, typed) \in Seq(Items \cup {Throw})
           /\ Failed(Write(<<"vector", "TypedVal">>, typed))
  BY <1>1, <1>3, <1>5 DEF Writable
<1>6. QED
  BY <1>1, <1>2, <1>4, <1>5 DEF ArgumentsKept

Body(c, i) ==
    IF KindOf(c) = CallMethod
    THEN Write(<<"uint32_t">>, c.oid) \o (WrittenName(c) \o (WrittenId(i) \o WrittenArgs(c)))
    ELSE IF KindOf(c) = ConstructObject
    THEN WrittenClass \o (WrittenId(i) \o WrittenArgs(c))
    ELSE WrittenClass \o (WrittenName(c) \o (WrittenId(i) \o WrittenArgs(c)))

LEMMA WrittenParts ==
    ASSUME CodecContract(Streams), NEW c, Sound(c), NEW i \in Ids
    PROVE  /\ Write(<<"uint32_t">>, c.oid) \in Streams
           /\ WrittenName(c) \in Streams /\ WrittenId(i) \in Streams
           /\ WrittenClass \in Streams /\ WrittenNamespace \in Streams
           /\ Writable(c) => WrittenArgs(c) \in Streams
<1>1. i \in 0..MaxCalls
  BY ConstantsAssumption DEF Ids
<1>2. QED
  BY <1>1, Contract, ArgumentsWritten
     DEF Sound, Written, WrittenName, WrittenId, WrittenArgs, WrittenClass, WrittenNamespace

Regrouped(a, b, c, d) ==
    /\ c \o d \in Streams /\ b \o (c \o d) \in Streams
    /\ ((a \o b) \o c) \o d = a \o (b \o (c \o d))

LEMMA Regroup == \A a, b, c, d \in Streams : Regrouped(a, b, c, d)
<1> TAKE a, b, c, d \in Streams
<1>1. a \o b \in Streams /\ c \o d \in Streams
  BY ConcatType
<1>2. b \o (c \o d) \in Streams
  BY <1>1, ConcatType
<1>3. Associates(a \o b, c, d) /\ Associates(a, b, c \o d)
  BY <1>1, ConcatAssociates
<1>4. QED
  BY <1>1, <1>2, <1>3 DEF Associates, Regrouped

(* The broker takes the namespace off and puts its MessageID before the    *)
(* rest. *)
LEMMA MessageIs ==
    ASSUME CodecContract(Streams), NEW c, Sound(c), NEW i \in Ids,
           Writable(c)
    PROVE  /\ RequestOf(c, i) \in Streams /\ Body(c, i) \in Streams
           /\ Message(c, i) = <<<<"2", Counterpart[KindOf(c)]>>>> \o Body(c, i)
<1>1. PICK oid \in Streams, name \in Streams, id \in Streams, args \in Streams,
           cls \in Streams, ns \in Streams :
          /\ oid = Write(<<"uint32_t">>, c.oid) /\ name = WrittenName(c)
          /\ id = WrittenId(i) /\ args = WrittenArgs(c)
          /\ cls = WrittenClass /\ ns = WrittenNamespace
  BY WrittenParts
<1>2. RequestOf(c, i) = ((((IF KindOf(c) = CallMethod THEN oid ELSE ns \o cls)
                           \o (IF KindOf(c) = ConstructObject THEN <<>> ELSE name))
                          \o id) \o args)
  BY <1>1 DEF RequestOf, Request, KindOf, WrittenName, WrittenId, WrittenArgs,
              WrittenClass, WrittenNamespace
<1>3. Body(c, i) = IF KindOf(c) = CallMethod THEN oid \o (name \o (id \o args))
                   ELSE IF KindOf(c) = ConstructObject THEN cls \o (id \o args)
                   ELSE cls \o (name \o (id \o args))
  BY <1>1 DEF Body
<1>4. CASE KindOf(c) = CallMethod
  <2>1. Regrouped(oid, name, id, args)
    BY Regroup
  <2>2. oid \o (name \o (id \o args)) \in Streams
    BY <2>1, ConcatType DEF Regrouped
  <2>3. RequestOf(c, i) = Body(c, i) /\ Body(c, i) \in Streams
    BY <1>2, <1>3, <1>4, <2>1, <2>2, CounterpartFacts DEF Regrouped
  <2>4. Message(c, i) = <<<<"2", Counterpart[KindOf(c)]>>>> \o RequestOf(c, i)
    BY <1>4 DEF Message, Forward
  <2>5. QED
    BY <2>3, <2>4
<1>5. CASE KindOf(c) # CallMethod
  <2>1. PICK y \in Streams : y = IF KindOf(c) = ConstructObject THEN <<>> ELSE name
    BY ConcatNothing
  <2>2. y \o (id \o args) = IF KindOf(c) = ConstructObject THEN id \o args
                            ELSE name \o (id \o args)
    <3>1. id \o args \in Streams
      BY ConcatType
    <3>2. QED
      BY <2>1, <3>1, ConcatNothing
  <2>3. PICK tail \in Streams : tail = y \o (id \o args)
    <3>1. Regrouped(y, y, id, args) /\ Regrouped(y, name, id, args)
      BY Regroup
    <3>2. QED
      BY <3>1, ConcatType DEF Regrouped
  <2>4. (ns \o cls) \o tail = ns \o (cls \o tail) /\ cls \o tail \in Streams
    <3>1. Associates(ns, cls, tail)
      BY ConcatAssociates
    <3>2. QED
      BY <3>1, ConcatType DEF Associates
  <2>5. PICK ncl \in Streams : ncl = ns \o cls
    BY ConcatType
  <2>6. ((ncl \o y) \o id) \o args = ncl \o (y \o (id \o args))
    <3>1. Regrouped(ncl, y, id, args)
      BY Regroup
    <3>2. QED
      BY <3>1 DEF Regrouped
  <2>7. RequestOf(c, i) = ((ncl \o y) \o id) \o args
    BY <1>2, <1>5, <2>1, <2>5
  <2>8. Body(c, i) = cls \o tail
    BY <1>3, <1>5, <2>2, <2>3
  <2>9. RequestOf(c, i) = ns \o Body(c, i) /\ Body(c, i) \in Streams
    BY <2>3, <2>4, <2>5, <2>6, <2>7, <2>8
  <2>10. Read(<<"string">>, ns \o Body(c, i)) = [val |-> Namespace, in |-> Body(c, i)]
    BY <1>1, <2>9, Contract DEF Written, WrittenNamespace
  <2>11. Message(c, i) = <<<<"2", Counterpart[KindOf(c)]>>>> \o Body(c, i)
    BY <1>5, <2>9, <2>10 DEF Message, Forward
  <2>12. QED
    BY <2>9, <2>11, ConcatType
<1>6. QED
  BY <1>4, <1>5

(* What follows a message follows its last part. *)
Spread(a, b, c, d, r) ==
    /\ (a \o (c \o d)) \o r = a \o (c \o (d \o r))
    /\ (a \o (b \o (c \o d))) \o r = a \o (b \o (c \o (d \o r)))
    /\ d \o r \in Streams /\ c \o (d \o r) \in Streams /\ b \o (c \o (d \o r)) \in Streams

LEMMA Spreads == \A a, b, c, d, r \in Streams : Spread(a, b, c, d, r)
<1> TAKE a, b, c, d, r \in Streams
<1>1. PICK cd \in Streams, dr \in Streams : cd = c \o d /\ dr = d \o r
  BY ConcatType
<1>2. PICK bcd \in Streams, cdr \in Streams : bcd = b \o cd /\ cdr = c \o dr
  BY ConcatType
<1>3. Associates(c, d, r) /\ Associates(b, cd, r) /\ Associates(a, cd, r)
      /\ Associates(a, bcd, r)
  BY ConcatAssociates
<1>4. b \o cdr \in Streams
  BY ConcatType
<1>5. cd \o r = cdr
  BY <1>1, <1>2, <1>3 DEF Associates
<1>6. (a \o cd) \o r = a \o cdr /\ (b \o cd) \o r = b \o cdr
  BY <1>3, <1>5 DEF Associates
<1>7. (a \o bcd) \o r = a \o (b \o cdr)
  BY <1>2, <1>3, <1>6 DEF Associates
<1>8. QED
  BY <1>1, <1>2, <1>4, <1>6, <1>7 DEF Spread

(* B reads of a request what A called, and leaves what follows it. *)
LEMMA RequestRead ==
    ASSUME CodecContract(Streams), NEW c, Sound(c), NEW i \in Ids,
           Writable(c), NEW rest \in Streams
    PROVE  /\ Message(c, i) \in Streams /\ Message(c, i) # <<>>
           /\ RequestAt(Message(c, i) \o rest) = [id |-> i, in |-> rest, run |-> RunOf(c)]
<1>1. PICK kind : kind = Counterpart[KindOf(c)]
  OBVIOUS
<1>2. <<"2", kind>> \in Items /\ KindOf(c) \in DOMAIN Counterpart
  BY <1>1, KindFacts, Contract DEF Sound, KindOf
<1>3. PICK body \in Streams : body = Body(c, i) /\ Message(c, i) = <<<<"2", kind>>>> \o body
  BY <1>1, MessageIs
<1>4. /\ <<<<"2", kind>>>> \in Streams /\ <<<<"2", kind>>>> \o body # <<>>
      /\ body \o rest \in Streams
      /\ Item("2", <<<<"2", kind>>>> \o (body \o rest)) = [val |-> kind, in |-> body \o rest]
  <2>1. body \o rest \in Streams
    BY ConcatType
  <2>2. QED
    BY <1>2, <2>1, ItemRead
<1>5. Message(c, i) \in Streams /\ Message(c, i) # <<>>
  BY <1>3, <1>4, ConcatType
<1>6. Message(c, i) \o rest = <<<<"2", kind>>>> \o (body \o rest)
  <2>1. Associates(<<<<"2", kind>>>>, body, rest)
    BY <1>4, ConcatAssociates
  <2>2. QED
    BY <1>3, <2>1 DEF Associates
<1>7. PICK oid \in Streams, name \in Streams, id \in Streams, args \in Streams, cls \in Streams :
          /\ oid = Write(<<"uint32_t">>, c.oid) /\ name = WrittenName(c)
          /\ id = WrittenId(i) /\ args = WrittenArgs(c) /\ cls = WrittenClass
  BY WrittenParts
<1>8. PICK r1 \in Streams, r2 \in Streams, r3 \in Streams :
          r1 = args \o rest /\ r2 = id \o r1 /\ r3 = name \o r2
  BY ConcatType
<1>9. body \o rest = IF KindOf(c) = CallMethod THEN oid \o r3
                     ELSE IF KindOf(c) = ConstructObject THEN cls \o r2 ELSE cls \o r3
  <2>1. Spread(oid, name, id, args, rest) /\ Spread(cls, name, id, args, rest)
    BY Spreads
  <2>2. body = IF KindOf(c) = CallMethod THEN oid \o (name \o (id \o args))
               ELSE IF KindOf(c) = ConstructObject THEN cls \o (id \o args)
               ELSE cls \o (name \o (id \o args))
    BY <1>3, <1>7 DEF Body
  <2>3. QED
    BY <1>8, <2>1, <2>2 DEF Spread
<1>10. Target(kind, body \o rest)
          = [oid |-> IF KindOf(c) = CallMethod THEN c.oid ELSE 0,
             method |-> Published[c.method].MethodName, in |-> r2]
  <2>1. /\ Read(<<"uint32_t">>, oid \o r3) = [val |-> c.oid, in |-> r3]
        /\ Read(<<"string">>, cls \o r2) = [val |-> ClassName, in |-> r2]
        /\ Read(<<"string">>, cls \o r3) = [val |-> ClassName, in |-> r3]
        /\ Read(<<"string">>, name \o r2)
              = [val |-> Published[c.method].MethodName, in |-> r2]
    BY <1>7, Contract DEF Sound, Written, WrittenName, WrittenClass
  <2>2. Read(<<"string">>, r3) = [val |-> Published[c.method].MethodName, in |-> r2]
    BY <1>8, <2>1
  <2>3. CASE KindOf(c) = CallMethod
    <3>1. kind = MethodCall /\ kind # Construct
      BY <1>1, <2>3, CounterpartFacts
    <3>2. QED
      BY <1>9, <2>1, <2>2, <2>3, <3>1 DEF Target, Recv
  <2>4. CASE KindOf(c) = ConstructObject
    <3>1. kind = Construct /\ kind # MethodCall /\ KindOf(c) # CallMethod
      BY <1>1, <2>4, CounterpartFacts
    <3>2. Published[c.method].MethodName = Ctor
      BY <2>4, KindFacts DEF Sound, KindOf
    <3>3. QED
      BY <1>9, <2>1, <2>4, <3>1, <3>2 DEF Target, Recv
  <2>5. CASE KindOf(c) = CallStatic
    <3>1. /\ kind # Construct /\ kind # MethodCall
          /\ KindOf(c) # CallMethod /\ KindOf(c) # ConstructObject
      BY <1>1, <2>5, CounterpartFacts
    <3>2. QED
      BY <1>9, <2>1, <2>2, <3>1 DEF Target, Recv
  <2>6. QED
    BY <1>2, <2>3, <2>4, <2>5, CounterpartFacts
<1>11. Read(<<"uint32_t">>, r2) = [val |-> i, in |-> r1]
  <2>1. i \in 0..MaxCalls
    BY ConstantsAssumption DEF Ids
  <2>2. QED
    BY <1>7, <1>8, <2>1, Contract DEF Written, WrittenId
<1>12. Read(<<"vector", "TypedVal">>, r1)
          = [val |-> TypedArgs(Published[c.method], c.args), in |-> rest]
  BY <1>7, <1>8, ArgumentsWritten DEF Sound, Written, WrittenArgs
<1>13. Item("2", Message(c, i) \o rest) = [val |-> kind, in |-> body \o rest]
  BY <1>4, <1>6
<1>14. PICK s, in, target, typed :
          /\ s = Message(c, i) \o rest /\ in = body \o rest
          /\ target = [oid |-> IF KindOf(c) = CallMethod THEN c.oid ELSE 0,
                       method |-> Published[c.method].MethodName, in |-> r2]
          /\ typed = TypedArgs(Published[c.method], c.args)
  OBVIOUS
<1>15. /\ Item("2", s).val = kind /\ Item("2", s).in = in
       /\ Target(kind, in) = target
  BY <1>10, <1>13, <1>14
<1>16. /\ Recv(<<"uint32_t">>, target) = [val |-> i, in |-> r1]
       /\ Recv(<<"vector", "TypedVal">>, [val |-> i, in |-> r1]) = [val |-> typed, in |-> rest]
  BY <1>11, <1>12, <1>14 DEF Recv
<1>17. RequestAt(s) = [id |-> [val |-> i, in |-> r1].val,
                       in |-> [val |-> typed, in |-> rest].in,
                       run |-> [kind |-> kind, oid |-> target.oid, method |-> target.method,
                                args |-> [val |-> typed, in |-> rest].val]]
  BY <1>15, <1>16, Zenon DEF RequestAt
<1>18. RequestAt(s) = [id |-> i, in |-> rest, run |-> RunOf(c)]
  BY <1>1, <1>14, <1>17 DEF RunOf
<1>19. QED
  BY <1>5, <1>14, <1>18

(* A call throws if its arguments cannot be written, and only then. *)
LEMMA RequestFails ==
    ASSUME CodecContract(Streams), NEW c, Sound(c), NEW i \in Ids
    PROVE  Failed(RequestOf(c, i)) <=> ~Writable(c)
<1>1. CASE Writable(c)
  BY <1>1, MessageIs, NotFailed
<1>2. CASE ~Writable(c)
  <2>1. PICK prefix, args : /\ prefix \in Streams /\ args = WrittenArgs(c)
                            /\ RequestOf(c, i) = prefix \o args
    <3>1. PICK oid \in Streams, name \in Streams, id \in Streams, cls \in Streams,
               ns \in Streams :
              /\ oid = Write(<<"uint32_t">>, c.oid) /\ name = WrittenName(c)
              /\ id = WrittenId(i) /\ cls = WrittenClass /\ ns = WrittenNamespace
      BY WrittenParts
    <3>2. PICK prefix : prefix = ((IF KindOf(c) = CallMethod THEN oid ELSE ns \o cls)
                        \o (IF KindOf(c) = ConstructObject THEN <<>> ELSE name)) \o id
      OBVIOUS
    <3>3. RequestOf(c, i) = prefix \o WrittenArgs(c)
      BY <3>1, <3>2 DEF RequestOf, Request, KindOf, WrittenName, WrittenId, WrittenArgs,
                        WrittenClass, WrittenNamespace
    <3>4. prefix \in Streams
      <4>1. PICK x \in Streams, y \in Streams :
                /\ x = IF KindOf(c) = CallMethod THEN oid ELSE ns \o cls
                /\ y = IF KindOf(c) = ConstructObject THEN <<>> ELSE name
        BY ConcatType, ConcatNothing
      <4>2. x \o y \in Streams
        BY ConcatType
      <4>3. (x \o y) \o id \in Streams
        BY <4>2, ConcatType
      <4>4. QED
        BY <3>2, <4>1, <4>3
    <3>5. QED
      BY <3>3, <3>4
  <2>2. args \in Seq(Items \cup {Throw}) /\ Failed(args)
    BY <1>2, <2>1, ArgumentsWritten DEF Writable
  <2>3. prefix \in Seq(Items \cup {Throw})
    BY <2>1, SeqMonotonic DEF Streams
  <2>4. PICK k \in 1..Len(args) : args[k] \in {Throw, Lost}
    BY <2>2, LenProperties DEF Failed
  <2>5. /\ prefix \o args \in Seq(Items \cup {Throw})
        /\ Len(prefix \o args) = Len(prefix) + Len(args)
        /\ \A n \in 1..(Len(prefix) + Len(args)) :
              (prefix \o args)[n] = IF n <= Len(prefix) THEN prefix[n]
                                    ELSE args[n - Len(prefix)]
    BY <2>2, <2>3, ConcatProperties
  <2>6. Len(prefix) \in Nat /\ Len(args) \in Nat
    BY <2>2, <2>3, LenProperties
  <2>7. PICK n : n = Len(prefix) + k
    OBVIOUS
  <2>8. n \in 1..(Len(prefix) + Len(args)) /\ ~(n <= Len(prefix)) /\ n - Len(prefix) = k
    BY <2>6, <2>7
  <2>9. (prefix \o args)[n] \in {Throw, Lost} /\ n \in DOMAIN (prefix \o args)
    BY <2>4, <2>5, <2>8, LenProperties
  <2>10. QED
    BY <1>2, <2>1, <2>9 DEF Failed
<1>3. QED
  BY <1>1, <1>2

-----------------------------------------------------------------------------
(* Answers: oid is the object a construct has made. *)

AnswerOf(c, i, oid) ==
    Answer(Counterpart[KindOf(c)], i,
           IF KindOf(c) = ConstructObject THEN Write(<<"uint32_t">>, oid)
           ELSE Write(<<"TypedVal">>, ReturnVal(c.method)))

(* A reads of an answer what B wrote, and leaves what follows it. *)
LEMMA AnswerRead ==
    ASSUME CodecContract(Streams), NEW c, Sound(c), NEW i \in Ids,
           NEW oid \in 0..MaxCalls, NEW rest \in Streams
    PROVE  /\ AnswerOf(c, i, oid) \in Streams /\ AnswerOf(c, i, oid) # <<>>
           /\ AnswerAt(AnswerOf(c, i, oid) \o rest)
                = [kind |-> KindOf(c), id |-> i, status |-> Success,
                   val |-> IF KindOf(c) = ConstructObject THEN oid
                           ELSE ResultRead(c.method),
                   in |-> rest]
<1>1. PICK kind : kind = KindOf(c)
  OBVIOUS
<1>2. /\ kind \in DOMAIN Counterpart /\ <<"2", kind>> \in Items
      /\ kind # ConstructObject => c.method \in DOMAIN Class
  BY <1>1, KindFacts, Contract DEF Sound, KindOf
<1>3. i \in 0..MaxCalls
  BY ConstantsAssumption DEF Ids
<1>4. PICK id \in Streams, status \in Streams :
          /\ id = Write(<<"uint32_t">>, i) /\ status = Write(<<"uint16_t">>, Success)
  BY <1>3, Contract DEF Written
<1>5. PICK val \in Streams :
          val = IF kind = ConstructObject THEN Write(<<"uint32_t">>, oid)
                ELSE Write(<<"TypedVal">>, ReturnVal(c.method))
  BY <1>2, Contract DEF Written
<1>6. PICK head : head = <<<<"2", kind>>>>
  OBVIOUS
<1>7. head \in Streams
  BY <1>2, <1>6, ItemRead
<1>8. (CHOOSE k \in DOMAIN Counterpart : Counterpart[k] = Counterpart[kind]) = kind
  BY <1>2, CounterpartFacts
<1>9. AnswerOf(c, i, oid) = ((head \o id) \o status) \o val
  BY <1>1, <1>4, <1>5, <1>6, <1>8 DEF AnswerOf, Answer
<1>10. Regrouped(head, id, status, val) /\ Spread(head, id, status, val, rest)
  BY <1>7, Regroup, Spreads
<1>11. PICK r1 \in Streams, r2 \in Streams, r3 \in Streams :
          r1 = val \o rest /\ r2 = status \o r1 /\ r3 = id \o r2
  BY ConcatType
<1>12. AnswerOf(c, i, oid) \o rest = head \o r3
  BY <1>9, <1>10, <1>11 DEF Regrouped, Spread
<1>13. AnswerOf(c, i, oid) \in Streams /\ AnswerOf(c, i, oid) # <<>>
  <2>1. PICK s \in Streams : s = id \o (status \o val)
    BY <1>10 DEF Regrouped
  <2>2. head \o s \in Streams /\ head \o s # <<>>
    BY <1>2, <1>6, <1>7, ItemRead, ConcatType
  <2>3. QED
    BY <1>9, <1>10, <2>1, <2>2 DEF Regrouped
<1>14. Item("2", head \o r3) = [val |-> kind, in |-> r3]
  BY <1>2, <1>6, ItemRead
<1>15. /\ Read(<<"uint32_t">>, r3) = [val |-> i, in |-> r2]
       /\ Read(<<"uint16_t">>, r2) = [val |-> Success, in |-> r1]
  BY <1>3, <1>4, <1>11, Contract DEF Written
<1>16. PICK res : res = [val |-> IF kind = ConstructObject THEN oid ELSE ResultRead(c.method),
                         in |-> rest]
  OBVIOUS
<1>17. res = IF kind = ConstructObject THEN Read(<<"uint32_t">>, r1)
             ELSE Read(<<"TypedVal">>, r1)
  BY <1>2, <1>5, <1>11, <1>16, Contract DEF Written
<1>18. /\ Item("2", head \o r3).val = kind
       /\ Recv(<<"uint32_t">>, Item("2", head \o r3)) = [val |-> i, in |-> r2]
       /\ Recv(<<"uint16_t">>, [val |-> i, in |-> r2]) = [val |-> Success, in |-> r1]
       /\ res = IF kind = ConstructObject
                THEN Recv(<<"uint32_t">>, [val |-> Success, in |-> r1])
                ELSE Recv(<<"TypedVal">>, [val |-> Success, in |-> r1])
  BY <1>14, <1>15, <1>17 DEF Recv
<1>19. AnswerAt(head \o r3)
         = [kind |-> kind, id |-> [val |-> i, in |-> r2].val,
            status |-> [val |-> Success, in |-> r1].val, val |-> res.val, in |-> res.in]
  BY <1>18, Zenon DEF AnswerAt
<1>20. AnswerAt(AnswerOf(c, i, oid) \o rest)
         = [kind |-> kind, id |-> i, status |-> Success,
            val |-> IF kind = ConstructObject THEN oid ELSE ResultRead(c.method), in |-> rest]
  BY <1>12, <1>16, <1>19
<1>21. QED
  BY <1>1, <1>13, <1>20

-----------------------------------------------------------------------------
(* Arguments, results and the types of the proxies. *)

LEMMA ArgumentsRead ==
    ASSUME CodecContract(Streams), NEW c, Sound(c), Writable(c), c.method \in DOMAIN Class
    PROVE  ProcessObjects(TypedArgs(Published[c.method], c.args))
             = [k \in DOMAIN c.args |-> Arrived(c.args[k])]
<1>1. PICK m, args, params :
          /\ m \in DOMAIN Class /\ m = c.method /\ args = c.args
          /\ params = Class[m].params
  OBVIOUS
<1>2. /\ Published[m].ParamTypes = [k \in DOMAIN params |-> MapType(params[k])]
      /\ DOMAIN args = DOMAIN params /\ params \in Seq(Seq(STRING))
  BY <1>1, PublishedMethods, MethodFacts, ConstantsAssumption DEF Sound, ArgLists
<1>3. \A k \in DOMAIN params : params[k] \in Seq(STRING)
  BY <1>2
<1>4. PICK typed : typed = TypedArgs(Published[m], args)
  OBVIOUS
<1>5. /\ DOMAIN typed = DOMAIN args
      /\ \A k \in DOMAIN args :
            typed[k] = [type |-> MapType(params[k]),
                        val |-> IF MapType(params[k]) = <<"Object">> THEN ObjectArg(args[k])
                                ELSE args[k]]
  BY <1>2, <1>4 DEF TypedArgs
<1>6. ASSUME NEW k \in DOMAIN args
      PROVE  (IF typed[k].type = <<"Object">> THEN <<<<"MetaObject">>, typed[k].val[2]>>
              ELSE typed[k].val) = Arrived(args[k])
  <2>1. /\ args[k][1] = params[k]
        /\ MapType(params[k]) = <<"Object">> <=> params[k] = <<"MetaObject">>
    <3>1. WellTyped(m, args)
      BY <1>1, ArgumentsWritten
    <3>2. args[k][1] = params[k]
      BY <1>1, <3>1 DEF WellTyped
    <3>3. params[k] \in Seq(STRING)
      BY <1>2, <1>3
    <3>4. QED
      BY <3>2, <3>3, ObjectAndVoid
  <2>2. CASE params[k] = <<"MetaObject">>
    BY <1>5, <2>1, <2>2 DEF Arrived
  <2>3. CASE params[k] # <<"MetaObject">>
    BY <1>5, <2>1, <2>3 DEF Arrived
  <2>4. QED
    BY <2>2, <2>3
<1>7. ProcessObjects(typed)
        = [k \in DOMAIN args |->
              IF typed[k].type = <<"Object">> THEN <<<<"MetaObject">>, typed[k].val[2]>>
              ELSE typed[k].val]
  BY <1>5 DEF ProcessObjects
<1>8. ProcessObjects(typed) = [k \in DOMAIN args |-> Arrived(args[k])]
  BY <1>6, <1>7
<1>9. QED
  BY <1>1, <1>4, <1>8

LEMMA ResultIs ==
    ASSUME NEW m \in DOMAIN Class
    PROVE  Returned(ResultRead(m)) = IF Class[m].ret = <<"NullType">> THEN Empty
                                     ELSE Arrived(Result[m])
<1>1. PICK c : c = Class[m].ret
  OBVIOUS
<1>2. c \in Seq(STRING) /\ Result[m][1] = c
  BY <1>1, ConstantsAssumption
<1>3. /\ MapType(c) = <<"Object">> <=> c = <<"MetaObject">>
      /\ MapType(c) = <<"Void">> <=> c = <<"NullType">>
  BY <1>2, ObjectAndVoid
<1>4. ReturnVal(m) = [type |-> MapType(c),
                      val |-> IF MapType(c) = <<"Object">> THEN ObjectArg(Result[m])
                              ELSE Result[m]]
  BY <1>1 DEF ReturnVal
<1>5. CASE c = <<"NullType">>
  <2>1. MapType(c) = <<"Void">> /\ <<"Void">> # <<"Object">>
    BY <1>3, <1>5, Tuples
  <2>2. ResultRead(m) = [type |-> <<"Void">>, val |-> Empty]
    BY <1>4, <2>1 DEF ResultRead
  <2>3. QED
    BY <1>1, <1>5, <2>1, <2>2 DEF Returned
<1>6. CASE c = <<"MetaObject">>
  <2>1. MapType(c) = <<"Object">> /\ <<"Object">> # <<"Void">> /\ c # <<"NullType">>
    BY <1>3, <1>6, Tuples
  <2>2. ResultRead(m) = [type |-> <<"Object">>, val |-> ObjectArg(Result[m])]
    BY <1>4, <2>1 DEF ResultRead
  <2>3. QED
    BY <1>1, <1>2, <1>6, <2>1, <2>2 DEF Returned, Arrived
<1>7. CASE c # <<"NullType">> /\ c # <<"MetaObject">>
  <2>1. MapType(c) # <<"Object">> /\ MapType(c) # <<"Void">>
    BY <1>3, <1>7
  <2>2. ResultRead(m) = [type |-> MapType(c), val |-> Result[m]]
    BY <1>4, <2>1 DEF ResultRead
  <2>3. QED
    BY <1>1, <1>2, <1>7, <2>1, <2>2 DEF Returned, Arrived
<1>8. QED
  BY <1>5, <1>6, <1>7

(* The types that a proxy reports as they are. *)
Kept == {c \in CppTypes : c[Len(c)] \notin {"float", "double"}}

KeptTypes(method) == /\ method.ret \in Kept
                     /\ \A i \in DOMAIN method.params : method.params[i] \in Kept

(* What the proxies of the published methods report. *)
LEMMA ProxiesReport ==
    ASSUME NEW m \in DOMAIN Class, KeptTypes(Class[m])
    PROVE  LET p == Proxied(Published)[m] IN
           /\ p.ret = Class[m].ret
           /\ Len(p.params) = Len(Class[m].params)
           /\ \A i \in DOMAIN Class[m].params : p.params[i] = Class[m].params[i]
<1>1. PICK params : params = Class[m].params
  OBVIOUS
<1>2. /\ m \in DOMAIN Published /\ Published[m].ReturnType = MapType(Class[m].ret)
      /\ Published[m].ParamTypes = [i \in DOMAIN params |-> MapType(params[i])]
  BY <1>1, PublishedMethods, MethodFacts
<1>3. /\ Class[m].ret \in Seq(STRING) /\ params \in Seq(Seq(STRING))
  BY <1>1, ConstantsAssumption
<1>4. \A c \in Kept : TypeToTypeInfo(MapType(c)) = c
  BY ProxyTypes DEF Kept, Floats
<1>5. PICK p : p = Proxied(Published)[m]
  OBVIOUS
<1>6. /\ p.ret = TypeToTypeInfo(MapType(Class[m].ret))
      /\ p.params = [i \in DOMAIN params |-> TypeToTypeInfo(MapType(params[i]))]
  BY <1>2, <1>5 DEF Proxied
<1>7. p.params = [i \in 1..Len(params) |-> params[i]]
  BY <1>1, <1>3, <1>4, <1>6, LenProperties DEF KeptTypes
<1>8. Len(p.params) = Len(params) /\ DOMAIN params = 1..Len(params)
  BY <1>3, <1>7, LenProperties
<1>9. QED
  BY <1>1, <1>4, <1>5, <1>6, <1>7, <1>8 DEF KeptTypes

-----------------------------------------------------------------------------
(* The inductive invariant. *)

(* What A knows of the class is what B has registered. *)
Registered ==
    /\ classdef = None \/ classdef = Write(<<"ClassInfo">>, MetaClassInfo)
    /\ info = None \/ info = Published
    /\ proxied = None \/ proxied = Proxied(Published)

(* A's calls: those have thrown whose arguments cannot be written, and a   *)
(* method is called only on an object of B's. *)
CallRecords ==
    {c \in [method : DOMAIN Published, oid : 0..MaxCalls,
            args : UNION {ArgLists(m) : m \in DOMAIN Published}, threw : BOOLEAN] :
        Sound(c) /\ (c.threw <=> ~Writable(c))}

Called ==
    /\ callid \in 0..MaxCalls /\ calls \in Seq(CallRecords) /\ Len(calls) = callid
    /\ callid # 0 => info = Published
    /\ \A i \in 1..callid : KindOf(calls[i]) = CallMethod => calls[i].oid \in regobjects

Sent == {i \in 1..callid : ~calls[i].threw}

(* B's threads have to run what was called, and each call has one. *)
Running ==
    /\ DOMAIN workers \subseteq Sent
    /\ DOMAIN workers \cap DOMAIN seen = {}
    /\ \A i \in DOMAIN workers : workers[i] = RunOf(calls[i])

RanAs(c, s) ==
    /\ s.oid \in 0..MaxCalls /\ s.method = Published[c.method].MethodName
    /\ KindOf(c) = CallMethod => s.oid = c.oid
    /\ KindOf(c) # ConstructObject =>
          s.args = [k \in DOMAIN c.args |-> Arrived(c.args[k])]

Ran ==
    /\ DOMAIN seen \subseteq Sent
    /\ \A i \in DOMAIN seen : RanAs(calls[i], seen[i])

Gets(c) == IF KindOf(c) = ConstructObject THEN Nothing ELSE Returned(ResultRead(c.method))

Got ==
    /\ DOMAIN got \subseteq DOMAIN seen
    /\ \A i \in DOMAIN got : got[i] = Gets(calls[i])

(* The reply slots are those of the calls that have not returned. *)
Owned == slots = {<<KindOf(calls[i]), i>> : i \in Sent \ DOMAIN got}

(* There are as many objects as constructors have run. *)
Constructs == {i \in DOMAIN seen : KindOf(calls[i]) = ConstructObject}

Made ==
    /\ objectid = Cardinality(Constructs) /\ objectid \in 0..MaxCalls
    /\ regobjects = 1..objectid
    /\ \A i \in Constructs : seen[i].oid \in regobjects
    /\ objects \subseteq regobjects

(* The streams hold the requests that no thread has yet and the answers    *)
(* that A has not read; each call that was sent is somewhere on its way.   *)
Elems(q) == {q[k] : k \in 1..Len(q)}
Distinct(q) == \A j, k \in 1..Len(q) : q[j] = q[k] => j = k

Messages == [i \in 1..callid |-> Message(calls[i], i)]
Answers == [i \in DOMAIN seen |-> AnswerOf(calls[i], i, seen[i].oid)]

ToB(q) ==
    /\ q \in Seq(Ids) /\ Distinct(q) /\ Chunks(toB, q, Messages)
    /\ Elems(q) \subseteq Sent \ (DOMAIN workers \cup DOMAIN seen)
    /\ Sent \subseteq DOMAIN workers \cup DOMAIN seen \cup Elems(q)

ToA(q) ==
    /\ q \in Seq(Ids) /\ Distinct(q) /\ Chunks(toA, q, Answers)
    /\ Elems(q) \subseteq DOMAIN seen \ DOMAIN got
    /\ DOMAIN seen \subseteq DOMAIN got \cup Elems(q)

IInv ==
    /\ Registered /\ Called /\ Running /\ Ran /\ Got /\ Owned /\ Made /\ InStep
    /\ \E q : ToB(q)
    /\ \E q : ToA(q)

-----------------------------------------------------------------------------
(* Lemmas for the steps. *)

LEMMA ElemsHead ==
    ASSUME NEW q \in Seq(Ids), q # <<>>
    PROVE  /\ Head(q) \in Ids /\ Tail(q) \in Seq(Ids)
           /\ Elems(q) = {Head(q)} \cup Elems(Tail(q))
           /\ Distinct(q) => Distinct(Tail(q)) /\ Head(q) \notin Elems(Tail(q))
<1>1. /\ Head(q) \in Ids /\ Tail(q) \in Seq(Ids) /\ Len(Tail(q)) = Len(q) - 1
      /\ \A k \in 1..Len(Tail(q)) : Tail(q)[k] = q[k + 1]
  BY HeadTailProperties
<1>2. Head(q) = q[1] /\ Len(q) \in Nat \ {0}
  BY EmptySeq
<1>3. \A k \in 1..Len(Tail(q)) : k + 1 \in 1..Len(q) /\ k + 1 # 1
  BY <1>1, <1>2
<1>4. \A k \in 1..Len(q) : k = 1 \/ (k - 1 \in 1..Len(Tail(q)) /\ (k - 1) + 1 = k)
  BY <1>1, <1>2
<1>5. Elems(q) \subseteq {Head(q)} \cup Elems(Tail(q))
  BY <1>1, <1>2, <1>4 DEF Elems
<1>6. {Head(q)} \cup Elems(Tail(q)) \subseteq Elems(q)
  <2>1. Elems(Tail(q)) \subseteq Elems(q)
    BY <1>1, <1>3 DEF Elems
  <2>2. 1 \in 1..Len(q)
    BY <1>2
  <2>3. Head(q) \in Elems(q)
    BY <1>2, <2>2 DEF Elems
  <2>4. QED
    BY <2>1, <2>3
<1>7. ASSUME Distinct(q)
      PROVE  Distinct(Tail(q)) /\ Head(q) \notin Elems(Tail(q))
  <2>1. ASSUME NEW j \in 1..Len(Tail(q)), NEW k \in 1..Len(Tail(q)), Tail(q)[j] = Tail(q)[k]
        PROVE  j = k
    <3>1. j + 1 = k + 1
      BY <1>1, <1>3, <1>7, <2>1 DEF Distinct
    <3>2. QED
      BY <1>1, <1>2, <3>1
  <2>2. Head(q) \notin Elems(Tail(q))
    <3>1. SUFFICES ASSUME NEW k \in 1..Len(Tail(q)), Head(q) = Tail(q)[k]
                   PROVE  FALSE
      BY DEF Elems
    <3>2. k + 1 = 1
      <4>1. 1 \in 1..Len(q) /\ q[1] = q[k + 1]
        BY <1>1, <1>2, <3>1
      <4>2. QED
        BY <1>3, <1>7, <4>1 DEF Distinct
    <3>3. QED
      BY <1>3, <3>2
  <2>3. QED
    BY <2>1, <2>2 DEF Distinct
<1>8. QED
  BY <1>1, <1>5, <1>6, <1>7

LEMMA ElemsAppend ==
    ASSUME NEW q \in Seq(Ids), NEW i \in Ids
    PROVE  /\ Append(q, i) \in Seq(Ids)
           /\ Elems(Append(q, i)) = Elems(q) \cup {i}
           /\ Distinct(q) /\ i \notin Elems(q) => Distinct(Append(q, i))
<1>1. PICK a : a = Append(q, i)
  OBVIOUS
<1>2. /\ a \in Seq(Ids) /\ Len(a) = Len(q) + 1 /\ Len(q) \in Nat
      /\ \A k \in 1..Len(q) : a[k] = q[k]
      /\ a[Len(q) + 1] = i
  BY <1>1, AppendProperties, LenProperties
<1>3. \A k \in 1..Len(a) : k \in 1..Len(q) \/ k = Len(q) + 1
  BY <1>2
<1>4. Len(q) + 1 \in 1..Len(a) /\ \A k \in 1..Len(q) : k \in 1..Len(a)
  BY <1>2
<1>5. Elems(a) = Elems(q) \cup {i}
  BY <1>2, <1>3, <1>4 DEF Elems
<1>6. ASSUME Distinct(q), i \notin Elems(q)
      PROVE  Distinct(a)
  <2>1. \A k \in 1..Len(q) : q[k] # i
    BY <1>6 DEF Elems
  <2>2. QED
    BY <1>2, <1>3, <1>6, <2>1 DEF Distinct
<1>7. QED
  BY <1>1, <1>2, <1>5, <1>6

LEMMA CallFacts ==
    ASSUME Called, NEW i \in 1..callid
    PROVE  /\ i \in Ids /\ i \in DOMAIN calls /\ Sound(calls[i])
           /\ calls[i].threw <=> ~Writable(calls[i])
           /\ info = Published
<1>1. i \in Ids /\ callid # 0
  BY ConstantsAssumption DEF Called, Ids
<1>2. calls[i] \in CallRecords /\ i \in DOMAIN calls
  BY LenProperties DEF Called
<1>3. QED
  BY <1>1, <1>2 DEF Called, CallRecords

-----------------------------------------------------------------------------
(* The steps. *)

LEMMA InvInit == Init => IInv
<1> SUFFICES ASSUME Init
             PROVE  IInv
  OBVIOUS
<1>1. Registered /\ InStep
  BY DEF Init, Registered, InStep
<1>2. MaxCalls \in Nat
  BY ConstantsAssumption
<1>3. Called
  <2>1. calls \in Seq(CallRecords) /\ Len(calls) = 0 /\ callid = 0
    BY EmptySeq DEF Init
  <2>2. QED
    BY <1>2, <2>1 DEF Called
<1>4. DOMAIN workers = {} /\ DOMAIN seen = {} /\ DOMAIN got = {}
  BY DEF Init
<1>5. Running /\ Ran /\ Got
  BY <1>4 DEF Running, Ran, Got
<1>6. Made
  <2>1. Constructs = {}
    BY <1>4 DEF Constructs
  <2>2. objectid = 0 /\ regobjects = {} /\ objects = {}
    BY DEF Init
  <2>3. 1..0 = {}
    OBVIOUS
  <2>4. QED
    BY <1>2, <2>1, <2>2, <2>3, FS_EmptySet DEF Made
<1>7. Sent = {}
  BY DEF Sent, Init
<1>8. PICK q : q = <<>>
  OBVIOUS
<1>9. q \in Seq(Ids) /\ Elems(q) = {} /\ Distinct(q)
  BY <1>8, EmptySeq DEF Elems, Distinct
<1>10. Chunks(toB, q, Messages) /\ Chunks(toA, q, Answers)
  BY <1>8, ChunksEmpty DEF Init
<1>11. ToB(q) /\ ToA(q)
  BY <1>4, <1>7, <1>9, <1>10 DEF ToB, ToA
<1>12. Owned
  BY <1>7 DEF Init, Owned
<1>13. QED
  BY <1>1, <1>3, <1>5, <1>6, <1>11, <1>12 DEF IInv

traffic == <<toB, toA, callid, slots, calls, workers, objectid, regobjects, objects, seen, got>>

(* Nothing that is on its way changes. *)
LEMMA TrafficKept ==
    ASSUME Called, Running, Ran, Got, Owned, Made, \E q : ToB(q), \E q : ToA(q),
           UNCHANGED traffic, callid # 0 => info' = info
    PROVE  /\ Called' /\ Running' /\ Ran' /\ Got' /\ Owned' /\ Made'
           /\ (\E q : ToB(q))' /\ (\E q : ToA(q))'
<1> USE DEF traffic
<1>1. Called'
  BY DEF Called
<1>2. Running'
  BY DEF Running, Sent
<1>3. Ran'
  BY DEF Ran, Sent
<1>4. Got'
  BY DEF Got
<1>5. Made'
  BY DEF Made, Constructs
<1>6. (\E q : ToB(q))'
  BY DEF ToB, Messages, Sent
<1>7. (\E q : ToA(q))'
  BY DEF ToA, Answers
<1>8. Owned'
  BY DEF Owned, Sent
<1>9. QED
  BY <1>1, <1>2, <1>3, <1>4, <1>5, <1>6, <1>7, <1>8

LEMMA RegisterClassStep == IInv /\ RegisterClass => IInv'
<1> SUFFICES ASSUME IInv, RegisterClass
             PROVE  IInv'
  OBVIOUS
<1>1. UNCHANGED traffic /\ info' = info /\ proxied' = proxied
      /\ stateA' = stateA /\ stateB' = stateB
      /\ classdef' = Write(<<"ClassInfo">>, MetaClassInfo)
  BY DEF RegisterClass, traffic
<1>2. Registered' /\ InStep'
  BY <1>1 DEF IInv, Registered, InStep
<1>3. QED
  BY <1>1, <1>2, TrafficKept DEF IInv

LEMMA GetClassStep ==
    ASSUME CodecContract(Streams)
    PROVE  IInv /\ GetClass => IInv'
<1> SUFFICES ASSUME IInv, GetClass
             PROVE  IInv'
  OBVIOUS
<1>1. classdef = Write(<<"ClassInfo">>, MetaClassInfo)
  BY DEF IInv, Registered, GetClass
<1>2. Read(<<"ClassInfo">>, classdef) = [val |-> MetaClassInfo, in |-> <<>>]
  BY <1>1, ClassRead
<1>3. info' = Published /\ stateA' = "up"
  BY <1>2 DEF GetClass, Published
<1>4. proxied' = Proxied(Published) /\ stateB' = stateB /\ classdef' = classdef
  BY <1>3 DEF GetClass
<1>5. UNCHANGED traffic
  BY DEF GetClass, traffic
<1>6. Registered' /\ InStep'
  BY <1>1, <1>3, <1>4 DEF IInv, Registered, InStep
<1>7. callid # 0 => info' = info
  BY <1>3 DEF IInv, Called
<1>8. QED
  BY <1>5, <1>6, <1>7, TrafficKept DEF IInv

(* The history of a call is appended; earlier ones stay. *)
LEMMA CallStep ==
    ASSUME CodecContract(Streams), NEW m, NEW oid, NEW args \in ArgLists(m)
    PROVE  IInv /\ Call(m, oid, args) => IInv'
<1> SUFFICES ASSUME IInv, Call(m, oid, args)
             PROVE  IInv'
  OBVIOUS
<1>1. PICK i, c : /\ i = callid + 1
                  /\ c = [method |-> m, oid |-> oid, args |-> args,
                          threw |-> Failed(Request(info[m], oid, callid + 1, args))]
  OBVIOUS
<1>2. info = Published /\ m \in DOMAIN Published
  BY DEF IInv, Registered, Call
<1>3. /\ callid \in Nat /\ i \in Ids /\ callid' = i /\ i \in 1..MaxCalls
  BY <1>1, ConstantsAssumption DEF IInv, Called, Call, Ids
<1>4. oid \in 0..MaxCalls /\ (KindOf(c) = CallMethod => oid \in regobjects)
  BY <1>1, <1>2, ConstantsAssumption DEF IInv, Made, Call, KindOf
<1>5. Sound(c)
  BY <1>1, <1>2, <1>4 DEF Sound
<1>6. /\ calls' = Append(calls, c)
      /\ toB' = IF c.threw THEN toB ELSE toB \o Message(c, i)
      /\ c.threw = Failed(RequestOf(c, i))
  BY <1>1, <1>2 DEF Call, Message, RequestOf, KindOf
<1>7. c.threw <=> ~Writable(c)
  BY <1>3, <1>5, <1>6, RequestFails
<1>8. c.threw \in BOOLEAN
  BY <1>1 DEF Failed
<1>9. c \in CallRecords
  <2>1. args \in UNION {ArgLists(k) : k \in DOMAIN Published}
    BY <1>2
  <2>2. c \in [method : DOMAIN Published, oid : 0..MaxCalls,
               args : UNION {ArgLists(k) : k \in DOMAIN Published}, threw : BOOLEAN]
    BY <1>1, <1>2, <1>4, <1>8, <2>1
  <2>3. QED
    BY <1>5, <1>7, <2>2 DEF CallRecords
<1>10. /\ calls' \in Seq(CallRecords) /\ Len(calls') = i
       /\ \A k \in 1..callid : calls'[k] = calls[k]
       /\ calls'[i] = c
  BY <1>1, <1>6, <1>9, AppendProperties DEF IInv, Called
<1>11. /\ toA' = toA /\ workers' = workers /\ objectid' = objectid
       /\ regobjects' = regobjects /\ objects' = objects /\ seen' = seen /\ got' = got
       /\ stateA' = stateA /\ stateB' = stateB
       /\ classdef' = classdef /\ info' = info /\ proxied' = proxied
  BY DEF Call, registry
<1>12. 1..i = 1..callid \cup {i} /\ i \notin 1..callid
  BY <1>1, <1>3
<1>13. Registered' /\ InStep'
  BY <1>11 DEF IInv, Registered, InStep
<1>14. Called'
  <2>1. callid' \in 0..MaxCalls
    BY <1>3
  <2>2. \A k \in 1..i : KindOf(calls'[k]) = CallMethod => calls'[k].oid \in regobjects
    <3>1. \A k \in 1..callid : KindOf(calls[k]) = CallMethod => calls[k].oid \in regobjects
      BY DEF IInv, Called
    <3>2. c.oid = oid
      BY <1>1
    <3>3. QED
      BY <1>4, <1>10, <1>12, <3>1, <3>2
  <2>3. QED
    BY <1>2, <1>3, <1>10, <1>11, <2>1, <2>2 DEF Called
<1>15. Sent' = IF c.threw THEN Sent ELSE Sent \cup {i}
  BY <1>3, <1>10, <1>12 DEF Sent
<1>16. DOMAIN workers \subseteq 1..callid /\ DOMAIN seen \subseteq 1..callid
  BY DEF IInv, Running, Ran, Sent
<1>17. Running' /\ Ran'
  <2>1. \A k \in DOMAIN workers : workers[k] = RunOf(calls'[k])
    BY <1>10, <1>16 DEF IInv, Running
  <2>2. \A k \in DOMAIN seen : RanAs(calls'[k], seen[k])
    BY <1>10, <1>16 DEF IInv, Ran
  <2>3. QED
    BY <1>11, <1>15, <2>1, <2>2 DEF IInv, Running, Ran
<1>18. Got'
  <2>1. \A k \in DOMAIN got : got[k] = Gets(calls'[k])
    BY <1>10, <1>16 DEF IInv, Got
  <2>2. QED
    BY <1>11, <2>1 DEF IInv, Got
<1>19. Made'
  <2>1. \A k \in DOMAIN seen : calls'[k] = calls[k]
    BY <1>10, <1>16
  <2>2. Constructs' = Constructs
    BY <1>11, <2>1 DEF Constructs
  <2>3. QED
    BY <1>11, <2>2 DEF IInv, Made
<1>20. (\E q : ToB(q))'
  <2>1. PICK q : ToB(q)
    BY DEF IInv
  <2>2. q \in Seq(Ids) /\ Elems(q) \subseteq 1..callid /\ Chunks(toB, q, Messages)
    BY <2>1 DEF ToB, Sent
  <2>3. \A k \in 1..Len(q) : q[k] \in 1..callid
    BY <2>2 DEF Elems
  <2>4. \A k \in 1..callid : Messages'[k] = Messages[k]
    BY <1>3, <1>10, <1>12 DEF Messages
  <2>5. PICK F : F = Messages'
    OBVIOUS
  <2>6. \A k \in 1..Len(q) : F[q[k]] = Messages[q[k]]
    BY <2>3, <2>4, <2>5
  <2>7. Chunks(toB, q, F)
    BY <2>2, <2>6, ChunksFrame
  <2>8. CASE c.threw
    <3>1. Chunks(toB', q, Messages')
      BY <1>6, <2>5, <2>7, <2>8
    <3>2. Sent' = Sent
      BY <1>15, <2>8
    <3>3. ToB(q)'
      BY <1>11, <2>1, <3>1, <3>2 DEF ToB
    <3>4. QED
      BY <3>3
  <2>9. CASE ~c.threw
    <3>1. F[i] = Message(c, i)
      BY <1>3, <1>10, <2>5 DEF Messages
    <3>2. F[i] \in Streams
      BY <1>3, <1>5, <1>7, <2>9, <3>1, RequestRead, ConcatNothing
    <3>3. PICK r : r = Append(q, i)
      OBVIOUS
    <3>4. Chunks(toB', r, Messages')
      BY <1>3, <1>6, <2>2, <2>5, <2>7, <2>9, <3>1, <3>2, <3>3, ChunksAppend
    <3>5. Elems(r) = Elems(q) \cup {i} /\ r \in Seq(Ids) /\ Distinct(r)
      BY <1>3, <1>12, <2>1, <2>2, <3>3, ElemsAppend DEF ToB
    <3>6. Sent' = Sent \cup {i}
      BY <1>15, <2>9
    <3>7. ToB(r)'
      BY <1>11, <1>12, <1>16, <2>1, <3>4, <3>5, <3>6 DEF ToB
    <3>8. QED
      BY <3>7
  <2>10. QED
    BY <1>8, <2>8, <2>9
<1>21. (\E q : ToA(q))'
  <2>1. PICK q : ToA(q)
    BY DEF IInv
  <2>2. \A k \in DOMAIN seen : calls'[k] = calls[k]
    BY <1>10, <1>16
  <2>3. Answers' = Answers
    BY <1>11, <2>2 DEF Answers
  <2>4. ToA(q)'
    BY <1>11, <2>1, <2>3 DEF ToA
  <2>5. QED
    BY <2>4
<1>22. Owned'
  <2>1. slots' = IF c.threw THEN slots ELSE slots \cup {<<KindOf(c), i>>}
    BY <1>1, <1>2 DEF Call, SetupReply, KindOf
  <2>2. DOMAIN got \subseteq 1..callid
    BY <1>16 DEF IInv, Got
  <2>3. \A k \in Sent : calls'[k] = calls[k]
    BY <1>10 DEF Sent
  <2>4. slots = {<<KindOf(calls'[k]), k>> : k \in Sent \ DOMAIN got}
    BY <2>3 DEF IInv, Owned
  <2>5. CASE c.threw
    BY <1>11, <1>15, <2>1, <2>4, <2>5 DEF Owned
  <2>6. CASE ~c.threw
    <3>1. Sent' \ DOMAIN got = (Sent \ DOMAIN got) \cup {i}
      BY <1>12, <1>15, <2>2, <2>6
    <3>2. slots' = {<<KindOf(calls'[k]), k>> : k \in (Sent \ DOMAIN got) \cup {i}}
      BY <1>10, <2>1, <2>4, <2>6
    <3>3. QED
      BY <1>11, <3>1, <3>2 DEF Owned
  <2>7. QED
    BY <1>8, <2>5, <2>6
<1>23. QED
  BY <1>13, <1>14, <1>17, <1>18, <1>19, <1>20, <1>21, <1>22 DEF IInv

LEMMA PutFacts ==
    \A f, i, x : /\ DOMAIN Put(f, i, x) = DOMAIN f \cup {i}
                 /\ Put(f, i, x)[i] = x
                 /\ \A k \in DOMAIN f : k # i => Put(f, i, x)[k] = f[k]
  BY DEF Put

LEMMA EraseFacts ==
    \A f, i : /\ DOMAIN Erase(f, i) = DOMAIN f \ {i}
              /\ \A k \in DOMAIN f : k # i => Erase(f, i)[k] = f[k]
  BY DEF Erase

(* B reads the request that has been in the stream longest. *)
LEMMA FirstRequest ==
    ASSUME CodecContract(Streams), IInv, toB # <<>>, NEW q, ToB(q)
    PROVE  /\ q # <<>> /\ Head(q) \in Sent /\ Head(q) \in Ids
           /\ \E rest \in Streams :
                 /\ RequestAt(toB) = [id |-> Head(q), in |-> rest, run |-> RunOf(calls[Head(q)])]
                 /\ Chunks(rest, Tail(q), Messages)
<1>1. q \in Seq(Ids) /\ Chunks(toB, q, Messages) /\ Elems(q) \subseteq Sent
  BY DEF ToB
<1>2. q # <<>>
  BY <1>1, ChunksNil
<1>3. PICK i : i = Head(q)
  OBVIOUS
<1>4. i \in Sent
  BY <1>1, <1>2, <1>3, ElemsHead
<1>5. i \in 1..callid /\ ~calls[i].threw
  BY <1>4 DEF Sent
<1>6. i \in Ids /\ Sound(calls[i]) /\ Writable(calls[i])
  BY <1>5, CallFacts DEF IInv
<1>7. PICK rest \in Streams :
          toB = Messages[i] \o rest /\ Chunks(rest, Tail(q), Messages)
  BY <1>1, <1>2, <1>3, ChunksHead
<1>8. Messages[i] = Message(calls[i], i)
  BY <1>5 DEF Messages
<1>9. RequestAt(toB) = [id |-> i, in |-> rest, run |-> RunOf(calls[i])]
  BY <1>6, <1>7, <1>8, RequestRead
<1>10. QED
  BY <1>2, <1>3, <1>4, <1>6, <1>7, <1>9

LEMMA RequestArrivesStep ==
    ASSUME CodecContract(Streams)
    PROVE  IInv /\ RequestArrives => IInv'
<1> SUFFICES ASSUME IInv, RequestArrives
             PROVE  IInv'
  OBVIOUS
<1>1. PICK q : ToB(q)
  BY DEF IInv
<1>2. toB # <<>>
  BY DEF RequestArrives
<1>3. PICK i : i = Head(q)
  OBVIOUS
<1>4. q # <<>> /\ i \in Sent /\ i \in Ids
  BY <1>1, <1>2, <1>3, FirstRequest
<1>5. PICK rest \in Streams :
          /\ RequestAt(toB) = [id |-> i, in |-> rest, run |-> RunOf(calls[i])]
          /\ Chunks(rest, Tail(q), Messages)
  BY <1>1, <1>2, <1>3, FirstRequest
<1>6. PICK run : run = RunOf(calls[i])
  OBVIOUS
<1>7. run.kind \in {Construct, StaticCall, MethodCall}
  <2>1. i \in 1..callid
    BY <1>4 DEF Sent
  <2>2. KindOf(calls[i]) \in DOMAIN Counterpart
    BY <2>1, CallFacts, KindFacts DEF IInv, Sound, KindOf
  <2>3. run.kind = Counterpart[KindOf(calls[i])]
    BY <1>6 DEF RunOf
  <2>4. QED
    BY <2>2, <2>3, CounterpartFacts
<1>8. ~Failed(rest)
  BY NotFailed
<1>9. PICK r : r = RequestAt(toB)
  OBVIOUS
<1>10. r.id = i /\ r.in = rest /\ r.run = run
  BY <1>5, <1>6, <1>9
<1>11. stateB' = "up" /\ toB' = rest /\ workers' = Put(workers, i, run)
  BY <1>4, <1>7, <1>8, <1>9, <1>10 DEF RequestArrives
<1>12. /\ toA' = toA /\ callid' = callid /\ slots' = slots /\ calls' = calls
       /\ objectid' = objectid
       /\ regobjects' = regobjects /\ objects' = objects /\ seen' = seen /\ got' = got
       /\ stateA' = stateA /\ classdef' = classdef /\ info' = info /\ proxied' = proxied
  BY DEF RequestArrives, registry
<1>13. i \notin DOMAIN workers /\ i \notin DOMAIN seen
  BY <1>1, <1>3, <1>4, ElemsHead DEF ToB
<1>14. Registered' /\ InStep'
  BY <1>11, <1>12 DEF IInv, Registered, InStep
<1>15. Called' /\ Sent' = Sent
  BY <1>12 DEF IInv, Called, Sent
<1>16. DOMAIN workers' = DOMAIN workers \cup {i}
  BY <1>11, PutFacts
<1>17. Running'
  <2>1. \A k \in DOMAIN workers' : workers'[k] = RunOf(calls[k])
    BY <1>6, <1>11, <1>16, PutFacts DEF IInv, Running
  <2>2. QED
    BY <1>4, <1>12, <1>13, <1>15, <1>16, <2>1 DEF IInv, Running
<1>18. Ran' /\ Got'
  BY <1>12, <1>15 DEF IInv, Ran, Got
<1>19. Made'
  BY <1>12 DEF IInv, Made, Constructs
<1>20. (\E k : ToB(k))'
  <2>1. PICK t : t = Tail(q)
    OBVIOUS
  <2>2. /\ t \in Seq(Ids) /\ Distinct(t) /\ Elems(q) = {i} \cup Elems(t)
        /\ i \notin Elems(t)
    BY <1>1, <1>3, <1>4, <2>1, ElemsHead DEF ToB
  <2>3. Messages' = Messages
    BY <1>12 DEF Messages
  <2>4. Chunks(toB', t, Messages')
    BY <1>5, <1>11, <2>1, <2>3
  <2>5. ToB(t)'
    BY <1>1, <1>12, <1>15, <1>16, <2>2, <2>4 DEF ToB
  <2>6. QED
    BY <2>5
<1>21. (\E k : ToA(k))'
  <2>1. PICK k : ToA(k)
    BY DEF IInv
  <2>2. Answers' = Answers
    BY <1>12 DEF Answers
  <2>3. ToA(k)'
    BY <1>12, <2>1, <2>2 DEF ToA
  <2>4. QED
    BY <2>3
<1>22. Owned'
  BY <1>12, <1>15 DEF IInv, Owned
<1>23. QED
  BY <1>14, <1>15, <1>17, <1>18, <1>19, <1>20, <1>21, <1>22 DEF IInv

(* What the two kinds of B's threads do alike: the call has run as s, and  *)
(* its answer is the last of the stream. *)
LEMMA AnswerSent ==
    ASSUME CodecContract(Streams), IInv, NEW i \in DOMAIN workers, NEW s,
           RanAs(calls[i], s), workers' = Erase(workers, i), seen' = Put(seen, i, s),
           toA' = toA \o AnswerOf(calls[i], i, s.oid),
           UNCHANGED <<registry, toB, callid, slots, calls, got>>
    PROVE  /\ Running' /\ Ran' /\ Got' /\ Owned'
           /\ (\E q : ToB(q))' /\ (\E q : ToA(q))'
<1>1. i \in Sent /\ i \notin DOMAIN seen
  BY DEF IInv, Running
<1>2. i \in 1..callid
  BY <1>1 DEF Sent
<1>3. i \in Ids /\ Sound(calls[i])
  BY <1>2, CallFacts DEF IInv
<1>4. s.oid \in 0..MaxCalls
  BY DEF RanAs
<1>5. /\ toB' = toB /\ callid' = callid /\ slots' = slots /\ calls' = calls
      /\ got' = got
  OBVIOUS
<1>6. Sent' = Sent /\ Messages' = Messages
  BY <1>5 DEF Sent, Messages
<1>7. DOMAIN workers' = DOMAIN workers \ {i} /\ DOMAIN seen' = DOMAIN seen \cup {i}
  BY EraseFacts, PutFacts
<1>8. seen'[i] = s /\ \A k \in DOMAIN seen : seen'[k] = seen[k]
  BY <1>1, PutFacts
<1>9. Running'
  <2>1. \A k \in DOMAIN workers' : workers'[k] = RunOf(calls[k])
    BY <1>7, EraseFacts DEF IInv, Running
  <2>2. QED
    BY <1>5, <1>6, <1>7, <2>1 DEF IInv, Running
<1>10. Ran'
  <2>1. \A k \in DOMAIN seen' : RanAs(calls[k], seen'[k])
    BY <1>7, <1>8 DEF IInv, Ran
  <2>2. QED
    BY <1>1, <1>5, <1>6, <1>7, <2>1 DEF IInv, Ran
<1>11. Got'
  BY <1>5, <1>7 DEF IInv, Got
<1>12. (\E k : ToB(k))'
  <2>1. PICK k : ToB(k)
    BY DEF IInv
  <2>2. DOMAIN workers' \cup DOMAIN seen' = DOMAIN workers \cup DOMAIN seen
    BY <1>7
  <2>3. ToB(k)'
    BY <1>5, <1>6, <2>1, <2>2 DEF ToB
  <2>4. QED
    BY <2>3
<1>13. (\E k : ToA(k))'
  <2>1. PICK q : ToA(q)
    BY DEF IInv
  <2>2. q \in Seq(Ids) /\ Elems(q) \subseteq DOMAIN seen /\ Chunks(toA, q, Answers)
    BY <2>1 DEF ToA
  <2>3. PICK F : F = Answers'
    OBVIOUS
  <2>4. F = [k \in DOMAIN seen' |-> AnswerOf(calls[k], k, seen'[k].oid)]
    BY <1>5, <2>3 DEF Answers
  <2>5. /\ F[i] = AnswerOf(calls[i], i, s.oid)
        /\ \A k \in DOMAIN seen : F[k] = Answers[k]
    BY <1>7, <1>8, <2>4 DEF Answers
  <2>6. \A k \in 1..Len(q) : F[q[k]] = Answers[q[k]]
    BY <2>2, <2>5 DEF Elems
  <2>7. Chunks(toA, q, F)
    BY <2>2, <2>6, ChunksFrame
  <2>8. F[i] \in Streams
    BY <1>3, <1>4, <2>5, AnswerRead, ConcatNothing
  <2>9. PICK r : r = Append(q, i)
    OBVIOUS
  <2>10. Chunks(toA', r, Answers')
    BY <1>3, <2>2, <2>3, <2>5, <2>7, <2>8, <2>9, ChunksAppend
  <2>11. /\ Elems(r) = Elems(q) \cup {i} /\ r \in Seq(Ids)
         /\ Distinct(r)
    BY <1>1, <1>3, <2>1, <2>2, <2>9, ElemsAppend DEF ToA
  <2>12. i \notin DOMAIN got
    BY <1>1 DEF IInv, Got
  <2>13. ToA(r)'
    BY <1>5, <1>7, <2>1, <2>10, <2>11, <2>12 DEF ToA
  <2>14. QED
    BY <2>13
<1>14. Owned'
  BY <1>5, <1>6 DEF IInv, Owned
<1>15. QED
  BY <1>9, <1>10, <1>11, <1>12, <1>13, <1>14

LEMMA RunConstructStep ==
    ASSUME CodecContract(Streams), NEW i
    PROVE  IInv /\ RunConstruct(i) => IInv'
<1> SUFFICES ASSUME IInv, RunConstruct(i)
             PROVE  IInv'
  OBVIOUS
<1>1. PICK c : c = calls[i]
  OBVIOUS
<1>2. i \in DOMAIN workers /\ workers[i].kind = Construct /\ workers[i] = RunOf(c)
  BY <1>1 DEF IInv, Running, RunConstruct
<1>3. i \in Sent /\ i \notin DOMAIN seen
  BY <1>2 DEF IInv, Running
<1>4. i \in 1..callid
  BY <1>3 DEF Sent
<1>5. i \in Ids /\ Sound(c)
  BY <1>1, <1>4, CallFacts DEF IInv
<1>6. KindOf(c) = ConstructObject
  <2>1. KindOf(c) \in DOMAIN Counterpart
    BY <1>5, KindFacts DEF Sound, KindOf
  <2>2. Counterpart[KindOf(c)] = Construct
    BY <1>2 DEF RunOf
  <2>3. QED
    BY <2>1, <2>2, CounterpartFacts
<1>7. /\ toB' = toB /\ callid' = callid /\ slots' = slots /\ calls' = calls
      /\ objects' = objects
      /\ got' = got /\ stateA' = stateA /\ stateB' = stateB
      /\ classdef' = classdef /\ info' = info /\ proxied' = proxied
      /\ objectid' = objectid + 1 /\ regobjects' = regobjects \cup {objectid + 1}
      /\ workers' = Erase(workers, i)
  BY DEF RunConstruct, registry
<1>8. PICK s : s = [oid |-> objectid + 1, method |-> Ctor, args |-> <<>>]
  OBVIOUS
<1>9. seen' = Put(seen, i, s) /\ s.oid = objectid + 1 /\ s.method = Ctor
  BY <1>8 DEF RunConstruct
<1>10. DOMAIN seen' = DOMAIN seen \cup {i} /\ seen'[i] = s
       /\ \A k \in DOMAIN seen : seen'[k] = seen[k]
  <2>1. seen' = [k \in DOMAIN seen \cup {i} |-> IF k = i THEN s ELSE seen[k]]
    BY <1>9, Zenon DEF Put
  <2>2. QED
    BY <1>3, <2>1
<1>11. Constructs' = Constructs \cup {i} /\ i \notin Constructs
  BY <1>1, <1>3, <1>6, <1>7, <1>10 DEF Constructs
(* There are at most as many objects as calls. *)
<1>12. objectid' = Cardinality(Constructs') /\ objectid' \in 0..MaxCalls
  <2>1. MaxCalls \in Nat
    BY ConstantsAssumption
  <2>2. IsFiniteSet(1..MaxCalls) /\ Cardinality(1..MaxCalls) = MaxCalls
    <3>1. 1 <= MaxCalls => MaxCalls - 1 + 1 = MaxCalls
      BY <2>1
    <3>2. QED
      BY <2>1, <3>1, FS_Interval
  <2>3. Constructs \subseteq 1..MaxCalls /\ Constructs \cup {i} \subseteq 1..MaxCalls
    <3>1. DOMAIN seen \subseteq 1..callid
      BY DEF IInv, Ran, Sent
    <3>2. 1..callid \subseteq 1..MaxCalls
      BY <2>1 DEF IInv, Called
    <3>3. QED
      BY <1>4, <3>1, <3>2 DEF Constructs
  <2>4. IsFiniteSet(Constructs)
    BY <2>2, <2>3, FS_Subset
  <2>5. Cardinality(Constructs \cup {i}) = Cardinality(Constructs) + 1
    BY <1>11, <2>4, FS_AddElement
  <2>6. Cardinality(Constructs \cup {i}) <= MaxCalls
    BY <2>2, <2>3, FS_Subset
  <2>7. objectid = Cardinality(Constructs) /\ objectid \in Nat
    BY <2>1 DEF IInv, Made
  <2>8. QED
    BY <1>7, <1>11, <2>1, <2>5, <2>6, <2>7
<1>13. objectid \in Nat /\ objectid + 1 \in 1..MaxCalls /\ MaxCalls \in Nat
  BY <1>7, <1>12, ConstantsAssumption DEF IInv, Made
<1>14. RanAs(c, s)
  BY <1>5, <1>6, <1>9, <1>13, KindFacts, CounterpartFacts DEF RanAs, Sound, KindOf
<1>15. toA' = toA \o AnswerOf(c, i, s.oid)
  BY <1>6, <1>9, CounterpartFacts DEF RunConstruct, AnswerOf
<1>16. /\ Running' /\ Ran' /\ Got' /\ Owned' /\ (\E q : ToB(q))' /\ (\E q : ToA(q))'
  BY <1>1, <1>2, <1>7, <1>9, <1>14, <1>15, AnswerSent DEF registry
<1>17. Registered' /\ InStep'
  BY <1>7 DEF IInv, Registered, InStep
<1>18. Called'
  BY <1>7 DEF IInv, Called
<1>19. Made'
  <2>1. 1..(objectid + 1) = 1..objectid \cup {objectid + 1}
    BY <1>13
  <2>2. regobjects' = 1..objectid'
    BY <1>7, <2>1 DEF IInv, Made
  <2>3. \A k \in Constructs' : seen'[k].oid \in regobjects'
    BY <1>7, <1>9, <1>10, <1>11 DEF IInv, Made, Constructs
  <2>4. objects' \subseteq regobjects'
    BY <1>7 DEF IInv, Made
  <2>5. QED
    BY <1>12, <2>2, <2>3, <2>4 DEF Made
<1>20. QED
  BY <1>16, <1>17, <1>18, <1>19 DEF IInv

LEMMA RunMethodStep ==
    ASSUME CodecContract(Streams), NEW i
    PROVE  IInv /\ RunMethod(i) => IInv'
<1> SUFFICES ASSUME IInv, RunMethod(i)
             PROVE  IInv'
  OBVIOUS
<1>1. PICK c : c = calls[i]
  OBVIOUS
<1>2. i \in DOMAIN workers /\ workers[i].kind # Construct /\ workers[i] = RunOf(c)
  BY <1>1 DEF IInv, Running, RunMethod
<1>3. i \in Sent /\ i \notin DOMAIN seen
  BY <1>2 DEF IInv, Running
<1>4. i \in 1..callid /\ ~c.threw
  BY <1>1, <1>3 DEF Sent
<1>5. i \in Ids /\ Sound(c) /\ Writable(c)
  BY <1>1, <1>4, CallFacts DEF IInv
<1>6. PICK w : w = workers[i]
  OBVIOUS
<1>7. /\ w.kind = Counterpart[KindOf(c)] /\ w.kind # Construct
      /\ w.oid = (IF KindOf(c) = CallMethod THEN c.oid ELSE 0)
      /\ w.method = Published[c.method].MethodName
      /\ w.args = TypedArgs(Published[c.method], c.args)
  BY <1>2, <1>6 DEF RunOf
<1>8. /\ KindOf(c) \in DOMAIN Counterpart /\ KindOf(c) # ConstructObject
      /\ c.method \in DOMAIN Class
  BY <1>5, <1>7, KindFacts, CounterpartFacts DEF Sound, KindOf
(* The method and the object are known. *)
<1>9. PICK ms : ms = {m \in DOMAIN Class : Class[m].name = w.method}
  OBVIOUS
<1>10. ms = {c.method}
  <2>1. Published[c.method].MethodName = Class[c.method].name
    BY <1>8, PublishedMethods, MethodFacts
  <2>2. \A m \in DOMAIN Class : Class[m].name = Class[c.method].name => m = c.method
    BY <1>8, ConstantsAssumption
  <2>3. QED
    BY <1>7, <1>8, <1>9, <2>1, <2>2
<1>11. w.kind = MethodCall => w.oid \in regobjects
  <2>1. w.kind = MethodCall => KindOf(c) = CallMethod
    BY <1>7, <1>8, CounterpartFacts
  <2>2. KindOf(c) = CallMethod => c.oid \in regobjects
    BY <1>1, <1>4 DEF IInv, Called
  <2>3. QED
    BY <1>7, <2>1, <2>2
<1>12. PICK known : known = (ms # {} /\ (w.kind = MethodCall => w.oid \in regobjects))
  OBVIOUS
<1>13. known = TRUE
  BY <1>10, <1>11, <1>12
(* It returns, and what is written of its result is an answer. *)
<1>14. PICK m, sent : /\ m = (CHOOSE x \in ms : TRUE)
                      /\ sent = Answer(w.kind, i, Write(<<"TypedVal">>, ReturnVal(m)))
  OBVIOUS
<1>15. w.oid \in 0..MaxCalls
  <2>1. MaxCalls \in Nat
    BY ConstantsAssumption
  <2>2. QED
    BY <1>5, <1>7, <2>1 DEF Sound
<1>16. m = c.method
  BY <1>10, <1>14
<1>17. sent = AnswerOf(c, i, w.oid)
  <2>1. AnswerOf(c, i, w.oid)
          = Answer(Counterpart[KindOf(c)], i, Write(<<"TypedVal">>, ReturnVal(c.method)))
    BY <1>8, Zenon DEF AnswerOf
  <2>2. QED
    BY <1>7, <1>14, <1>16, <2>1, Zenon
<1>18. ~Failed(sent)
  <2>1. sent \in Streams
    BY <1>5, <1>15, <1>17, AnswerRead, ConcatNothing
  <2>2. QED
    BY <2>1, NotFailed
<1>19. PICK s : s = [oid |-> w.oid, method |-> w.method, args |-> ProcessObjects(w.args)]
  OBVIOUS
<1>20. /\ stateB' = "up" /\ toA' = toA \o sent /\ seen' = Put(seen, i, s)
       /\ workers' = Erase(workers, i)
  BY <1>6, <1>9, <1>12, <1>13, <1>14, <1>18, <1>19, Zenon DEF RunMethod
<1>21. /\ toB' = toB /\ callid' = callid /\ slots' = slots /\ calls' = calls
       /\ objects' = objects
       /\ got' = got /\ stateA' = stateA /\ objectid' = objectid /\ regobjects' = regobjects
       /\ classdef' = classdef /\ info' = info /\ proxied' = proxied
  BY DEF RunMethod, registry
<1>22. RanAs(c, s)
  <2>1. s.oid = w.oid /\ s.method = w.method /\ s.args = ProcessObjects(w.args)
    BY <1>19
  <2>2. s.args = [k \in DOMAIN c.args |-> Arrived(c.args[k])]
    BY <1>5, <1>7, <1>8, <2>1, ArgumentsRead
  <2>3. QED
    BY <1>7, <1>15, <2>1, <2>2 DEF RanAs
<1>23. toA' = toA \o AnswerOf(c, i, s.oid)
  BY <1>17, <1>19, <1>20
<1>24. /\ Running' /\ Ran' /\ Got' /\ Owned' /\ (\E q : ToB(q))' /\ (\E q : ToA(q))'
  BY <1>1, <1>2, <1>20, <1>21, <1>22, <1>23, AnswerSent DEF registry
<1>25. Registered' /\ InStep'
  BY <1>20, <1>21 DEF IInv, Registered, InStep
<1>26. Called'
  BY <1>21 DEF IInv, Called
<1>27. Made'
  <2>1. seen' = [k \in DOMAIN seen \cup {i} |-> IF k = i THEN s ELSE seen[k]]
    BY <1>20, Zenon DEF Put
  <2>2. Constructs' = Constructs
    BY <1>1, <1>3, <1>8, <1>21, <2>1 DEF Constructs
  <2>3. \A k \in Constructs : seen'[k] = seen[k]
    BY <1>3, <2>1 DEF Constructs
  <2>4. QED
    BY <1>21, <2>2, <2>3 DEF IInv, Made
<1>28. QED
  BY <1>24, <1>25, <1>26, <1>27 DEF IInv

(* A reads the answer that has been in the stream longest. *)
LEMMA FirstAnswer ==
    ASSUME CodecContract(Streams), IInv, toA # <<>>, NEW q, ToA(q)
    PROVE  /\ q # <<>> /\ Head(q) \in DOMAIN seen
           /\ \E rest \in Streams :
                 /\ AnswerAt(toA)
                      = [kind |-> KindOf(calls[Head(q)]), id |-> Head(q), status |-> Success,
                         val |-> IF KindOf(calls[Head(q)]) = ConstructObject
                                 THEN seen[Head(q)].oid
                                 ELSE ResultRead(calls[Head(q)].method),
                         in |-> rest]
                 /\ Chunks(rest, Tail(q), Answers)
<1>1. q \in Seq(Ids) /\ Chunks(toA, q, Answers) /\ Elems(q) \subseteq DOMAIN seen
  BY DEF ToA
<1>2. q # <<>>
  BY <1>1, ChunksNil
<1>3. PICK i : i = Head(q)
  OBVIOUS
<1>4. i \in DOMAIN seen
  BY <1>1, <1>2, <1>3, ElemsHead
<1>5. i \in 1..callid /\ RanAs(calls[i], seen[i])
  BY <1>4 DEF IInv, Ran, Sent
<1>6. i \in Ids /\ Sound(calls[i]) /\ seen[i].oid \in 0..MaxCalls
  BY <1>5, CallFacts DEF IInv, RanAs
<1>7. PICK rest \in Streams :
          toA = Answers[i] \o rest /\ Chunks(rest, Tail(q), Answers)
  BY <1>1, <1>2, <1>3, ChunksHead
<1>8. Answers[i] = AnswerOf(calls[i], i, seen[i].oid)
  BY <1>4 DEF Answers
<1>9. PICK c, oid : c = calls[i] /\ oid = seen[i].oid
  OBVIOUS
<1>10. AnswerAt(toA) = [kind |-> KindOf(c), id |-> i, status |-> Success,
                        val |-> IF KindOf(c) = ConstructObject THEN oid
                                ELSE ResultRead(c.method),
                        in |-> rest]
  <2>1. Sound(c) /\ oid \in 0..MaxCalls /\ toA = AnswerOf(c, i, oid) \o rest
    BY <1>6, <1>7, <1>8, <1>9
  <2>2. QED
    BY <1>6, <2>1, AnswerRead
<1>11. QED
  BY <1>2, <1>3, <1>4, <1>7, <1>9, <1>10

LEMMA AnswerArrivesStep ==
    ASSUME CodecContract(Streams)
    PROVE  IInv /\ AnswerArrives => IInv'
<1> SUFFICES ASSUME IInv, AnswerArrives
             PROVE  IInv'
  OBVIOUS
<1>1. PICK q : ToA(q)
  BY DEF IInv
<1>2. toA # <<>>
  BY DEF AnswerArrives
<1>3. PICK i, c, kind, oid :
          i = Head(q) /\ c = calls[i] /\ kind = KindOf(c) /\ oid = seen[i].oid
  OBVIOUS
<1>4. q # <<>> /\ i \in DOMAIN seen
  BY <1>1, <1>2, <1>3, FirstAnswer
<1>5. PICK val : val = IF kind = ConstructObject THEN oid ELSE ResultRead(c.method)
  OBVIOUS
<1>6. PICK rest \in Streams :
          /\ AnswerAt(toA)
               = [kind |-> kind, id |-> i, status |-> Success, val |-> val, in |-> rest]
          /\ Chunks(rest, Tail(q), Answers)
  BY <1>1, <1>2, <1>3, <1>5, FirstAnswer
<1>7. i \in 1..callid
  BY <1>4 DEF IInv, Ran, Sent
<1>8. i \in DOMAIN calls /\ Sound(c) /\ kind = Kind(info[c.method])
  BY <1>3, <1>7, CallFacts DEF IInv, KindOf
<1>9. ~Failed(rest)
  BY NotFailed
<1>10. PICK a : a = AnswerAt(toA)
  OBVIOUS
<1>11. a.kind = kind /\ a.id = i /\ a.status = Success /\ a.val = val /\ a.in = rest
  BY <1>6, <1>10
<1>12. PICK lost : lost = (Failed(a.in) \/ <<a.kind, a.id>> \notin slots)
  OBVIOUS
<1>13. lost = FALSE
  <2>1. i \in Sent /\ i \notin DOMAIN got
    BY <1>1, <1>3, <1>4, ElemsHead DEF IInv, Ran, ToA
  <2>2. <<kind, i>> \in slots
    BY <1>3, <2>1 DEF IInv, Owned
  <2>3. QED
    BY <1>9, <1>11, <1>12, <2>2
<1>14. PICK result : result = IF kind = ConstructObject THEN Nothing ELSE Returned(val)
  OBVIOUS
<1>15. /\ stateA' = "up" /\ toA' = rest /\ got' = Put(got, i, result)
       /\ slots' = slots \ {<<kind, i>>}
       /\ objects' = IF kind = ConstructObject THEN objects \cup {val} ELSE objects
  BY <1>10, <1>11, <1>12, <1>13, <1>14 DEF AnswerArrives
<1>16. /\ toB' = toB /\ callid' = callid /\ calls' = calls /\ objectid' = objectid
       /\ regobjects' = regobjects /\ workers' = workers /\ seen' = seen
       /\ stateB' = stateB /\ classdef' = classdef /\ info' = info /\ proxied' = proxied
  BY DEF AnswerArrives, registry
<1>17. Registered' /\ InStep'
  BY <1>15, <1>16 DEF IInv, Registered, InStep
<1>18. Called' /\ Sent' = Sent
  BY <1>16 DEF IInv, Called, Sent
<1>19. Running' /\ Ran'
  BY <1>16, <1>18 DEF IInv, Running, Ran
<1>20. got' = [k \in DOMAIN got \cup {i} |-> IF k = i THEN result ELSE got[k]]
  BY <1>15, Zenon DEF Put
<1>21. Got'
  <2>1. result = Gets(c)
    <3>1. CASE kind = ConstructObject
      BY <1>3, <1>14, <3>1 DEF Gets
    <3>2. CASE kind # ConstructObject
      BY <1>3, <1>5, <1>14, <3>2 DEF Gets
    <3>3. QED
      BY <3>1, <3>2
  <2>2. \A k \in DOMAIN got' : got'[k] = Gets(calls[k])
    BY <1>3, <1>20, <2>1 DEF IInv, Got
  <2>3. QED
    BY <1>4, <1>16, <1>20, <2>2 DEF IInv, Got
<1>22. Made'
  <2>1. kind = ConstructObject => val \in regobjects
    BY <1>3, <1>4, <1>5 DEF IInv, Made, Constructs
  <2>2. objects' \subseteq regobjects
    BY <1>15, <2>1 DEF IInv, Made
  <2>3. QED
    BY <1>16, <2>2 DEF IInv, Made, Constructs
<1>23. (\E k : ToB(k))'
  <2>1. PICK k : ToB(k)
    BY DEF IInv
  <2>2. Messages' = Messages
    BY <1>16 DEF Messages
  <2>3. ToB(k)'
    BY <1>16, <1>18, <2>1, <2>2 DEF ToB
  <2>4. QED
    BY <2>3
<1>24. (\E k : ToA(k))'
  <2>1. PICK t : t = Tail(q)
    OBVIOUS
  <2>2. /\ t \in Seq(Ids) /\ Elems(q) = {i} \cup Elems(t)
        /\ Distinct(t) /\ i \notin Elems(t)
    BY <1>1, <1>3, <1>4, <2>1, ElemsHead DEF ToA
  <2>3. Answers' = Answers
    BY <1>16 DEF Answers
  <2>4. Chunks(toA', t, Answers')
    BY <1>6, <1>15, <2>1, <2>3
  <2>5. DOMAIN got' = DOMAIN got \cup {i}
    BY <1>20
  <2>6. ToA(t)'
    BY <1>1, <1>16, <2>2, <2>4, <2>5 DEF ToA
  <2>7. QED
    BY <2>6
<1>25. Owned'
  <2>1. Sent \ DOMAIN got' = (Sent \ DOMAIN got) \ {i}
    BY <1>20
  <2>2. slots \ {<<kind, i>>} = {<<KindOf(calls[k]), k>> : k \in (Sent \ DOMAIN got) \ {i}}
    BY <1>3 DEF IInv, Owned
  <2>3. QED
    BY <1>15, <1>16, <1>18, <2>1, <2>2 DEF Owned
<1>26. QED
  BY <1>17, <1>18, <1>19, <1>21, <1>22, <1>23, <1>24, <1>25 DEF IInv

LEMMA InvStep ==
    ASSUME CodecContract(Streams)
    PROVE  IInv /\ [Next]_vars => IInv'
<1> SUFFICES ASSUME IInv, [Next]_vars
             PROVE  IInv'
  OBVIOUS
<1>1. CASE RegisterClass
  BY <1>1, RegisterClassStep
<1>2. CASE GetClass
  BY <1>2, GetClassStep
<1>3. ASSUME NEW m \in 1..(Len(Class) + 1), NEW oid \in objects \cup {0},
             NEW args \in ArgLists(m), Call(m, oid, args)
      PROVE  IInv'
  BY <1>3, CallStep
<1>4. CASE RequestArrives
  BY <1>4, RequestArrivesStep
<1>5. CASE AnswerArrives
  BY <1>5, AnswerArrivesStep
<1>6. ASSUME NEW i \in Ids, RunConstruct(i)
      PROVE  IInv'
  BY <1>6, RunConstructStep
<1>7. ASSUME NEW i \in Ids, RunMethod(i)
      PROVE  IInv'
  BY <1>7, RunMethodStep
<1>8. CASE UNCHANGED vars
  <2>1. UNCHANGED traffic /\ info' = info /\ proxied' = proxied /\ classdef' = classdef
        /\ stateA' = stateA /\ stateB' = stateB
    BY <1>8 DEF vars, traffic
  <2>2. Registered' /\ InStep'
    BY <2>1 DEF IInv, Registered, InStep
  <2>3. QED
    BY <2>1, <2>2, TrafficKept DEF IInv
<1>9. QED
  BY <1>1, <1>2, <1>3, <1>4, <1>5, <1>6, <1>7, <1>8 DEF Next

-----------------------------------------------------------------------------
(* The theorems: for every class with methods of different names, every    *)
(* number of calls and every wire format that keeps the contract for every *)
(* stream of items. *)

(* The invariant that the properties follow from: each call of A's that    *)
(* was sent is in B's stream, in one of B's threads, or has run as what    *)
(* was called, and then its answer is in A's stream or has been read; the  *)
(* streams are the messages of these calls, one after the other.           *)
THEOREM Inductive ==
    ASSUME CodecContract(Streams)
    PROVE  Spec => []IInv
<1>1. Init => IInv
  BY InvInit
<1>2. IInv /\ [Next]_vars => IInv'
  BY InvStep
<1>3. QED
  BY <1>1, <1>2, PTL DEF Spec

(* Neither receiver (connection.cpp:299) ever reads anything but the start *)
(* of a message or loses a call, and nothing that a thread of runcall.cpp  *)
(* does for a call throws.                                                 *)
THEOREM ReceiversInStep ==
    ASSUME CodecContract(Streams)
    PROVE  Spec => []InStep
<1>1. IInv => InStep
  BY DEF IInv
<1>2. QED
  BY <1>1, Inductive, PTL

(* What runcall.cpp runs for a call of COFnWrap::Call is the method, on    *)
(* the object and with the arguments of the call, whatever other calls are *)
(* under way.                                                              *)
THEOREM ArgumentsArriveAlways ==
    ASSUME CodecContract(Streams)
    PROVE  Spec => []ArgumentsArrive
<1>1. IInv => ArgumentsArrive
  <2> SUFFICES ASSUME IInv, NEW i \in DOMAIN seen
               PROVE  LET call == calls[i]  called == info[call.method] IN
                      /\ seen[i].method = called.MethodName
                      /\ Kind(called) = CallMethod => seen[i].oid = call.oid
                      /\ Kind(called) # ConstructObject =>
                            seen[i].args = [k \in DOMAIN call.args |-> Arrived(call.args[k])]
    BY DEF ArgumentsArrive
  <2>1. i \in 1..callid /\ RanAs(calls[i], seen[i])
    BY DEF IInv, Ran, Sent
  <2>2. info = Published
    BY <2>1, CallFacts DEF IInv
  <2>3. QED
    BY <2>1, <2>2 DEF RanAs, KindOf
<1>2. QED
  BY <1>1, Inductive, PTL

(* COFnWrap::Call returns what B's method returned for this call, and      *)
(* never what another call returned.                                       *)
THEOREM ResultsReturnAlways ==
    ASSUME CodecContract(Streams)
    PROVE  Spec => []ResultsReturn
<1>1. IInv => ResultsReturn
  <2> SUFFICES ASSUME IInv, NEW i \in DOMAIN got
               PROVE  got[i] = IF info[calls[i].method].MethodName = Ctor THEN Nothing
                               ELSE IF Class[calls[i].method].ret = <<"NullType">> THEN Empty
                               ELSE Arrived(Result[calls[i].method])
    BY DEF ResultsReturn
  <2>1. i \in 1..callid /\ got[i] = Gets(calls[i])
    BY DEF IInv, Got, Ran, Sent
  <2>2. info = Published /\ Sound(calls[i])
    BY <2>1, CallFacts DEF IInv
  <2>3. PICK m : m = calls[i].method
    OBVIOUS
  <2>4. /\ Published[m].MethodName = Ctor <=> KindOf(calls[i]) = ConstructObject
        /\ KindOf(calls[i]) # ConstructObject => m \in DOMAIN Class
    BY <2>2, <2>3, KindFacts DEF Sound, KindOf
  <2>5. CASE KindOf(calls[i]) = ConstructObject
    BY <2>1, <2>2, <2>3, <2>4, <2>5 DEF Gets
  <2>6. CASE KindOf(calls[i]) # ConstructObject
    <3>1. got[i] = Returned(ResultRead(m))
      BY <2>1, <2>3, <2>6 DEF Gets
    <3>2. QED
      BY <2>2, <2>3, <2>4, <2>6, <3>1, ResultIs
  <2>7. QED
    BY <2>5, <2>6
<1>2. QED
  BY <1>1, Inductive, PTL

(* Each call that waits has its slot "Call:<MessageID>:<call id>", and no  *)
(* slot is left by a call that threw or has returned (metaext.cpp:217).    *)
THEOREM SlotsOwnedAlways ==
    ASSUME CodecContract(Streams)
    PROVE  Spec => []SlotsOwned
<1>1. IInv => SlotsOwned
  <2> SUFFICES ASSUME IInv
               PROVE  SlotsOwned
    OBVIOUS
  <2>1. DOMAIN calls = 1..callid
    BY LenProperties DEF IInv, Called
  <2>2. Waiting = Sent \ DOMAIN got
    BY <2>1 DEF Waiting, Sent
  <2>3. \A i \in Waiting : Kind(info[calls[i].method]) = KindOf(calls[i])
    BY <2>1, CallFacts DEF IInv, Waiting, KindOf
  <2>4. QED
    BY <2>2, <2>3 DEF IInv, Owned, SlotsOwned
<1>2. QED
  BY <1>1, Inductive, PTL

(* An ObjectID that A holds is in B's _regobjects (runcall.cpp:42).        *)
THEOREM ObjectsExistAlways ==
    ASSUME CodecContract(Streams)
    PROVE  Spec => []ObjectsExist
<1>1. IInv => ObjectsExist
  BY DEF IInv, Made, ObjectsExist
<1>2. QED
  BY <1>1, Inductive, PTL

(* When both streams are read and no thread of B's runs, each call that    *)
(* was sent has returned.                                                  *)
THEOREM CallsAnsweredAlways ==
    ASSUME CodecContract(Streams)
    PROVE  Spec => []CallsAnswered
<1>1. IInv => CallsAnswered
  <2> SUFFICES ASSUME IInv, toB = <<>>, toA = <<>>, DOMAIN workers = {}
               PROVE  \A i \in DOMAIN calls : calls[i].threw \/ i \in DOMAIN got
    BY DEF CallsAnswered
  <2>1. PICK p : ToB(p)
    BY DEF IInv
  <2>2. PICK q : ToA(q)
    BY DEF IInv
  <2>3. p = <<>>
    <3>1. p \in Seq(Ids) /\ Chunks(toB, p, Messages) /\ Elems(p) \subseteq Sent
      BY <2>1 DEF ToB
    <3>2. ASSUME NEW k \in 1..Len(p)
          PROVE  Messages[p[k]] # <<>>
      <4>1. p[k] \in Sent
        BY <3>1 DEF Elems
      <4>2. p[k] \in 1..callid /\ ~calls[p[k]].threw
        BY <4>1 DEF Sent
      <4>3. p[k] \in Ids /\ Sound(calls[p[k]]) /\ Writable(calls[p[k]])
        BY <4>2, CallFacts DEF IInv
      <4>4. QED
        BY <4>2, <4>3, RequestRead, ConcatNothing DEF Messages
    <3>3. QED
      BY <3>1, <3>2, ChunksNil
  <2>4. q = <<>>
    <3>1. q \in Seq(Ids) /\ Chunks(toA, q, Answers) /\ Elems(q) \subseteq DOMAIN seen
      BY <2>2 DEF ToA
    <3>2. ASSUME NEW k \in 1..Len(q)
          PROVE  Answers[q[k]] # <<>>
      <4>1. q[k] \in DOMAIN seen
        BY <3>1 DEF Elems
      <4>2. q[k] \in 1..callid /\ RanAs(calls[q[k]], seen[q[k]])
        BY <4>1 DEF IInv, Ran, Sent
      <4>3. q[k] \in Ids /\ Sound(calls[q[k]]) /\ seen[q[k]].oid \in 0..MaxCalls
        BY <4>2, CallFacts DEF IInv, RanAs
      <4>4. QED
        BY <4>1, <4>3, AnswerRead, ConcatNothing DEF Answers
    <3>3. QED
      BY <3>1, <3>2, ChunksNil
  <2>5. Elems(p) = {} /\ Elems(q) = {}
    BY <2>3, <2>4, EmptySeq DEF Elems
  <2>6. Sent \subseteq DOMAIN got
    BY <2>1, <2>2, <2>5 DEF ToB, ToA
  <2>7. DOMAIN calls = 1..callid
    BY LenProperties DEF IInv, Called
  <2>8. QED
    BY <2>6, <2>7 DEF Sent
<1>2. QED
  BY <1>1, Inductive, PTL

(* A proxy (metaext.cpp) reports the types of the method it stands for if  *)
(* these have protocol types and are no floating point numbers.            *)
THEOREM ProxiesKeepTypesAlways ==
    ASSUME CodecContract(Streams), \A m \in DOMAIN Class : KeptTypes(Class[m])
    PROVE  Spec => []ProxiesKeepTypes
<1>1. IInv => ProxiesKeepTypes
  <2> SUFFICES ASSUME IInv, proxied # None, NEW m \in DOMAIN Class
               PROVE  /\ proxied[m].ret = Class[m].ret
                      /\ Len(proxied[m].params) = Len(Class[m].params)
                      /\ \A i \in DOMAIN Class[m].params :
                            proxied[m].params[i] = Class[m].params[i]
    BY DEF ProxiesKeepTypes
  <2>1. proxied = Proxied(Published)
    BY DEF IInv, Registered
  <2>2. QED
    BY <2>1, ProxiesReport
<1>2. QED
  BY <1>1, Inductive, PTL
=============================================================================
