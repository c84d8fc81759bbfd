------------------------ MODULE ConnectionProofs ------------------------
(***************************************************************************)
(* Theorems about Connection, for any threads, call threads and programs.  *)
(***************************************************************************)
EXTENDS Connection, SequenceTheorems, TLAPS

-----------------------------------------------------------------------------
(* The inductive invariant. *)

(* What comes before a step in the list of a call. *)
Follows(p, q) ==
    /\ q[1] = "CountCall" => p[1] = "ReadCallID"
    /\ q[1] = "StoreObject" => p[1] = "ReadObjectID"
    /\ q[1] = "RegisterObject" => p[1] = "StoreObject"
    /\ q[1] = "RegisterClass" => p[1] = "StoreClass" /\ p[2] = q[2]
    /\ q[1] # "ReleaseObject"
    /\ p[1] # "Answer"

Linked(s) == \A i, j \in 1..Len(s) : j = i + 1 => Follows(s[i], s[j])

(* A call is counted before it is sent. *)
Counted(s) == \A i \in 1..Len(s) : s[i][1] \in ProxyCalls =>
                  \E j \in 1..Len(s) : j < i /\ s[j][1] = "CountCall"

EndsInAnswer(s) == s[Len(s)][1] = "Answer"

(* The step before has left what the first step needs. *)
Ready(a) ==
    LET h == Step(a)[1] IN
    /\ h = "CountCall" => raced \/ tmp[a] = callid
    /\ h = "StoreObject" => raced \/ tmp[a] = objectid
    /\ h = "RegisterObject" => own[a] # None
    /\ h = "RegisterClass" => Step(a)[2] \in regclasses
    /\ h = "ReleaseObject" => ref[a] # None

StepInv ==
    /\ \A a \in Actors : /\ Linked(todo[a])
                         /\ cid[a] > 0 \/ Counted(todo[a])
                         /\ todo[a] # <<>> => Ready(a)
    /\ \A w \in Workers : todo[w] # <<>> => EndsInAnswer(todo[w])

(* The broker, or a call thread, owes a caller the answer to the step it   *)
(* is at.                                                                  *)
Owed(x) ==
    /\ slot[x.from] # <<>> /\ answer[x.from] = None
    /\ x.args = Tail(Step(x.from))
    /\ IF x.msg \in Requests
       THEN /\ x.id = <<Step(x.from)[1], Id(x.from)>>
            /\ Step(x.from)[1] \in ProxyCalls /\ x.msg = Forwarded[Step(x.from)[1]]
       ELSE x.msg = Step(x.from)[1] /\ x.id = Id(x.from)

WaitInv ==
    /\ \A a \in Actors :
          /\ slot[a] # <<>> => todo[a] # <<>> /\ Step(a)[1] \in Messages
                               /\ slot[a] = SlotName(a)
          /\ answer[a] # None => /\ slot[a] # <<>> /\ answer[a].from = a
                                 /\ answer[a].val \in Refs
    /\ \A a, b \in Actors : a # b /\ slot[a] # <<>> => slot[a] # slot[b]

(* What a message from the broker refers to. *)
Sound(x) ==
    /\ x.msg \in Messages \cup {"StaticCall"} => x.val \in Refs
    /\ x.msg = "MethodCall" => x.val \in Nat
    /\ x.msg \in {"Construct", "StaticCall"} => x.args[1] \in classes

MessageInv ==
    /\ \A i \in 1..Len(in) :
          IF in[i].msg = "FreeObject" THEN in[i].id \in Nat
          ELSE Owed(in[i]) /\ Sound(in[i])
    /\ \A w \in Workers : todo[w] # <<>> =>
          job[w] \in MessageSet /\ job[w].msg \in Requests /\ Owed(job[w])

(* Each answer is owed once. *)
OnceInv ==
    /\ \A i, j \in 1..Len(in) :
          i # j /\ in[i].msg # "FreeObject" /\ in[j].msg # "FreeObject" =>
              in[i].from # in[j].from
    /\ \A i \in 1..Len(in), w \in Workers :
          in[i].msg # "FreeObject" /\ todo[w] # <<>> => in[i].from # job[w].from
    /\ \A v, w \in Workers :
          v # w /\ todo[v] # <<>> /\ todo[w] # <<>> => job[v].from # job[w].from

(* A thread that constructs an object stores it and answers. *)
Constructs(s) == \A i, j \in 1..Len(s) :
                     j = i + 1 /\ s[j][1] = "Answer" => s[i][1] = "StoreObject"

ConstructInv ==
    \A w \in Workers : todo[w] # <<>> /\ job[w].msg = "Construct" =>
        Constructs(todo[w]) /\ (Step(w)[1] = "Answer" => own[w] # None)

(* Numbers are taken once. *)
NumberInv ==
    raced \/
    /\ \A a \in Actors : cid[a] <= callid /\ (own[a] # None => own[a].oid <= objectid)
    /\ \A a, b \in Actors : a # b /\ cid[a] > 0 => cid[a] # cid[b]
    /\ \A a, b \in Actors : a # b /\ own[a] # None /\ own[b] # None =>
                                own[a].oid # own[b].oid

(* The object a has stored is not yet known to the broker. *)
Unsent(a) ==
    /\ todo[a] # <<>> /\ slot[a] = <<>>
    /\ \/ Step(a)[1] = "RegisterObject"
       \/ a \in Workers /\ Step(a)[1] = "Answer" /\ job[a].msg = "Construct"

ObjectInv ==
    raced \/
    /\ \A o \in DOMAIN regobjects : regobjects[o] # None
    /\ \A g \in live : /\ objects[g].oid \in DOMAIN regobjects
                       /\ regobjects[objects[g].oid] = objects[g].obj
    /\ \A g \in 1..Len(objects) : objects[g].oid <= objectid
    /\ \A g, h \in 1..Len(objects) : g # h => objects[g].oid # objects[h].oid
    /\ \A a \in Actors : Unsent(a) =>
          /\ own[a].oid \in DOMAIN regobjects /\ regobjects[own[a].oid] = own[a].obj
          /\ \A g \in 1..Len(objects) : objects[g].oid # own[a].oid

(* The broker asks for a method of an object before it says that the       *)
(* object may go.                                                          *)
FreeInv ==
    raced \/
    \A i \in 1..Len(in) :
        /\ in[i].msg = "FreeObject" =>
              \E g \in 1..Len(objects) : g \notin live /\ in[i].id = objects[g].oid
        /\ in[i].msg = "MethodCall" =>
              /\ in[i].val \in DOMAIN regobjects
              /\ \E g \in 1..Len(objects) : in[i].val = objects[g].oid
              /\ \A j \in 1..Len(in) : j < i /\ in[j].msg = "FreeObject" =>
                                           in[j].id # in[i].val

RunInv == \A w \in Workers : todo[w] # <<>> => raced \/ obj[w] # None

FaultInv == /\ fault \notin {"null slot", "clash"}
            /\ fault = "null object" => raced

IInv == /\ Types /\ StepInv /\ WaitInv /\ MessageInv /\ OnceInv /\ ConstructInv
        /\ ClassesStored /\ NumberInv /\ ObjectInv /\ FreeInv /\ RunInv /\ FaultInv

-----------------------------------------------------------------------------
(* Steps and lists of steps. *)

LEMMA Tails ==
    /\ \A x, y : Tail(<<x, y>>) = <<y>>
    /\ \A x, y, z : Tail(<<x, y, z>>) = <<y, z>>
  OBVIOUS

LEMMA Kinds ==
    ASSUME NEW s \in StepSet
    PROVE  /\ s[1] \in {"ListClasses", "RegisterClass", "StoreClass", "ConstructObject",
                        "SetNamespace"} =>
                s = <<s[1], s[2]>> /\ s[2] \in Names
           /\ s[1] = "GetClassDef" =>
                s = <<s[1], s[2], s[3]>> /\ s[2] \in Names
           /\ s[1] = "CallStatic" =>
                s = <<s[1], s[2], s[3]>> /\ s[2] \in Names /\ s[3] \in Methods
           /\ s[1] = "CallMethod" =>
                s = <<s[1], s[2]>> /\ s[2] \in Methods
           /\ s[1] \in {"BrokerDetails", "ListNamespaces", "RegisterObject", "GetObjectDef",
                        "ReleaseObject"} => s = <<s[1]>>
  BY DEF StepSet

LEMMA TailOf ==
    ASSUME NEW S, NEW s \in Seq(S), s # <<>>
    PROVE  /\ Len(s) \in Nat /\ Len(s) > 0 /\ Head(s) = s[1] /\ Head(s) \in S
           /\ Tail(s) \in Seq(S) /\ Len(Tail(s)) = Len(s) - 1
           /\ \A i \in 1..Len(Tail(s)) : Tail(s)[i] = s[i + 1]
  OBVIOUS

LEMMA LastOf ==
    ASSUME NEW S, NEW s \in Seq(S), s # <<>>, Tail(s) # <<>>
    PROVE  s[Len(s)] = Tail(s)[Len(Tail(s))]
<1>1. /\ Tail(s) \in Seq(S) /\ Len(s) \in Nat /\ Len(Tail(s)) = Len(s) - 1
      /\ \A i \in 1..Len(Tail(s)) : Tail(s)[i] = s[i + 1]
  BY TailOf
<1>2. Len(Tail(s)) \in Nat /\ Len(Tail(s)) > 0
  BY <1>1, TailOf
<1>3. QED
  BY <1>1, <1>2

LEMMA ConcatOf ==
    ASSUME NEW S, NEW s \in Seq(S), NEW t \in Seq(S)
    PROVE  /\ s \o t \in Seq(S) /\ Len(s \o t) = Len(s) + Len(t)
           /\ Len(s) \in Nat /\ Len(t) \in Nat
           /\ \A i \in 1..Len(s) : (s \o t)[i] = s[i]
           /\ \A i \in 1..Len(t) : (s \o t)[Len(s) + i] = t[i]
  OBVIOUS

LEMMA LinkedTail ==
    ASSUME NEW s \in Seq(StepSet), s # <<>>, Linked(s)
    PROVE  Linked(Tail(s))
  BY TailOf DEF Linked

LEMMA CountedTail ==
    ASSUME NEW s \in Seq(StepSet), s # <<>>, Counted(s), s[1][1] # "CountCall"
    PROVE  Counted(Tail(s))
<1> SUFFICES ASSUME NEW i \in 1..Len(Tail(s)), Tail(s)[i][1] \in ProxyCalls
             PROVE  \E j \in 1..Len(Tail(s)) : j < i /\ Tail(s)[j][1] = "CountCall"
  BY DEF Counted
<1>1. /\ i + 1 \in 1..Len(s) /\ s[i + 1] = Tail(s)[i]
      /\ Len(s) \in Nat /\ Len(Tail(s)) = Len(s) - 1
  BY TailOf
<1>2. PICK j \in 1..Len(s) : j < i + 1 /\ s[j][1] = "CountCall"
  BY <1>1 DEF Counted
<1>3. j # 1
  BY <1>2
<1>4. j - 1 \in 1..Len(Tail(s)) /\ Tail(s)[j - 1] = s[j]
  BY <1>1, <1>2, <1>3, TailOf
<1>5. j - 1 < i /\ Tail(s)[j - 1][1] = "CountCall"
  <2>1. i \in Nat /\ j \in Nat
    BY <1>1
  <2>2. j - 1 < i
    BY <1>2, <2>1
  <2>3. QED
    BY <1>2, <1>4, <2>2
<1>6. QED
  BY <1>4, <1>5

LEMMA ConstructsTail ==
    ASSUME NEW s \in Seq(StepSet), s # <<>>, Constructs(s)
    PROVE  /\ Constructs(Tail(s))
           /\ Tail(s) # <<>> /\ Head(Tail(s))[1] = "Answer" => Head(s)[1] = "StoreObject"
<1>1. /\ Len(s) \in Nat /\ Len(s) > 0 /\ Tail(s) \in Seq(StepSet) /\ Head(s) = s[1]
      /\ Len(Tail(s)) = Len(s) - 1
      /\ \A i \in 1..Len(Tail(s)) : Tail(s)[i] = s[i + 1]
  BY TailOf
<1>2. Constructs(Tail(s))
  <2> SUFFICES ASSUME NEW i \in 1..Len(Tail(s)), NEW j \in 1..Len(Tail(s)),
                      j = i + 1, Tail(s)[j][1] = "Answer"
               PROVE  Tail(s)[i][1] = "StoreObject"
    BY DEF Constructs
  <2>1. /\ i + 1 \in 1..Len(s) /\ j + 1 \in 1..Len(s) /\ j + 1 = (i + 1) + 1
        /\ Tail(s)[i] = s[i + 1] /\ Tail(s)[j] = s[j + 1]
    BY <1>1
  <2>2. QED
    BY <2>1 DEF Constructs
<1>3. ASSUME Tail(s) # <<>>, Head(Tail(s))[1] = "Answer"
      PROVE  Head(s)[1] = "StoreObject"
  <2>1. Len(Tail(s)) > 0 /\ Head(Tail(s)) = Tail(s)[1]
    BY <1>1, <1>3, TailOf
  <2>2. QED
    BY <1>1, <1>3, <2>1 DEF Constructs
<1>4. QED
  BY <1>2, <1>3

(* The parts that lists are put together from. *)
Independent(q) == q[1] \notin {"CountCall", "StoreObject", "RegisterObject",
                               "RegisterClass", "ReleaseObject"}

Part(s) == /\ s \in Seq(StepSet)
           /\ Linked(s)
           /\ \A i \in 1..Len(s) : s[i][1] # "Answer"

HasCount(s) == \E i \in 1..Len(s) : s[i][1] = "CountCall"

LEMMA JoinedParts ==
    ASSUME NEW s, NEW t, Part(s), t \in Seq(StepSet), Linked(t),
           t # <<>> => Independent(t[1])
    PROVE  s \o t \in Seq(StepSet) /\ Linked(s \o t)
<1> DEFINE u == s \o t
<1>1. /\ u \in Seq(StepSet) /\ Len(u) = Len(s) + Len(t)
      /\ Len(s) \in Nat /\ Len(t) \in Nat
      /\ \A i \in 1..Len(s) : u[i] = s[i]
      /\ \A i \in 1..Len(t) : u[Len(s) + i] = t[i]
  BY ConcatOf DEF Part
<1>2. ASSUME NEW i \in 1..Len(u), NEW j \in 1..Len(u), j = i + 1
      PROVE  Follows(u[i], u[j])
  <2>1. CASE j <= Len(s)
    BY <1>1, <1>2, <2>1 DEF Part, Linked
  <2>2. CASE i > Len(s)
    <3>1. i - Len(s) \in 1..Len(t) /\ j - Len(s) \in 1..Len(t)
      BY <1>1, <1>2, <2>2
    <3>2. u[i] = t[i - Len(s)] /\ u[j] = t[j - Len(s)]
      BY <1>1, <1>2, <3>1
    <3>3. j - Len(s) = (i - Len(s)) + 1
      BY <1>1, <1>2
    <3>4. QED
      BY <3>1, <3>2, <3>3 DEF Linked
  <2>3. CASE i = Len(s)
    <3>1. 1 \in 1..Len(t) /\ j = Len(s) + 1 /\ i \in 1..Len(s)
      BY <1>1, <1>2, <2>3
    <3>2. u[i] = s[i] /\ u[j] = t[1] /\ t # <<>>
      BY <1>1, <3>1
    <3>3. QED
      BY <3>1, <3>2 DEF Part, Independent, Follows
  <2>4. QED
    BY <1>1, <1>2, <2>1, <2>2, <2>3
<1>3. QED
  BY <1>1, <1>2 DEF Linked

LEMMA JoinedCounts ==
    ASSUME NEW s \in Seq(StepSet), NEW t \in Seq(StepSet), Counted(s),
           Counted(t) \/ HasCount(s)
    PROVE  Counted(s \o t) /\ (HasCount(s) => HasCount(s \o t))
<1> DEFINE u == s \o t
<1>1. /\ Len(u) = Len(s) + Len(t)
      /\ Len(s) \in Nat /\ Len(t) \in Nat
      /\ \A i \in 1..Len(s) : u[i] = s[i]
      /\ \A i \in 1..Len(t) : u[Len(s) + i] = t[i]
  BY ConcatOf
<1>2. ASSUME NEW i \in 1..Len(u), u[i][1] \in ProxyCalls
      PROVE  \E j \in 1..Len(u) : j < i /\ u[j][1] = "CountCall"
  <2>1. CASE i <= Len(s)
    <3>1. PICK j \in 1..Len(s) : j < i /\ s[j][1] = "CountCall"
      BY <1>1, <1>2, <2>1 DEF Counted
    <3>2. QED
      BY <1>1, <3>1
  <2>2. CASE i > Len(s) /\ HasCount(s)
    <3>1. PICK j \in 1..Len(s) : s[j][1] = "CountCall"
      BY <2>2 DEF HasCount
    <3>2. QED
      BY <1>1, <2>2, <3>1
  <2>3. CASE i > Len(s) /\ Counted(t)
    <3>1. i - Len(s) \in 1..Len(t) /\ u[i] = t[i - Len(s)]
      BY <1>1, <1>2, <2>3
    <3>2. PICK j \in 1..Len(t) : j < i - Len(s) /\ t[j][1] = "CountCall"
      BY <1>2, <2>3, <3>1 DEF Counted
    <3>3. Len(s) + j \in 1..Len(u) /\ u[Len(s) + j] = t[j] /\ Len(s) + j < i
      BY <1>1, <3>2
    <3>4. QED
      BY <3>2, <3>3
  <2>4. QED
    BY <1>1, <2>1, <2>2, <2>3
<1>3. HasCount(s) => HasCount(u)
  BY <1>1 DEF HasCount
<1>4. QED
  BY <1>2, <1>3 DEF Counted

LEMMA JoinedEnds ==
    ASSUME NEW s \in Seq(StepSet), NEW t \in Seq(StepSet), s # <<>>
    PROVE  /\ s \o t # <<>> /\ (s \o t)[1] = s[1]
           /\ t # <<>> => (s \o t)[Len(s \o t)] = t[Len(t)]
<1>1. /\ Len(s \o t) = Len(s) + Len(t)
      /\ Len(s) \in Nat /\ Len(t) \in Nat /\ Len(s) > 0
      /\ \A i \in 1..Len(s) : (s \o t)[i] = s[i]
      /\ \A i \in 1..Len(t) : (s \o t)[Len(s) + i] = t[i]
  BY ConcatOf, TailOf
<1>2. s \o t # <<>> /\ (s \o t)[1] = s[1]
  BY <1>1
<1>3. ASSUME t # <<>>
      PROVE  (s \o t)[Len(s \o t)] = t[Len(t)]
  <2>1. Len(t) \in 1..Len(t)
    BY <1>3, TailOf
  <2>2. QED
    BY <1>1, <2>1
<1>4. QED
  BY <1>2, <1>3

(* What the list of a call is when the call begins. *)
Begins(s) == /\ s \in Seq(StepSet) /\ s # <<>>
             /\ Linked(s) /\ Counted(s)
             /\ s[1][1] \notin {"CountCall", "StoreObject", "RegisterObject", "RegisterClass"}

LEMMA Singles ==
    /\ \A k \in {"ReadCallID", "CountCall", "ReadObjectID", "StoreObject", "Run", "Answer",
                 "BrokerDetails", "ListNamespaces", "RegisterObject", "GetObjectDef",
                 "ReleaseObject"} : <<k>> \in StepSet
    /\ \A s \in StepSet : <<s>> \in Seq(StepSet) /\ Linked(<<s>>)
    /\ <<>> \in Seq(StepSet) /\ Linked(<<>>) /\ Counted(<<>>)
<1>1. \A k \in {"ReadCallID", "CountCall", "ReadObjectID", "StoreObject", "Run", "Answer",
                "BrokerDetails", "ListNamespaces", "RegisterObject", "GetObjectDef",
                "ReleaseObject"} : <<k>> \in StepSet
  BY DEF StepSet
<1>2. \A s \in StepSet : <<s>> \in Seq(StepSet)
  OBVIOUS
<1>3. \A s : Linked(<<s>>)
  BY DEF Linked
<1>4. <<>> \in Seq(StepSet) /\ Linked(<<>>) /\ Counted(<<>>)
  BY DEF Linked, Counted
<1>5. QED
  BY <1>1, <1>2, <1>3, <1>4

LEMMA RegisterObjectList ==
    Part(RegisterObject) /\ Counted(RegisterObject) /\ Begins(RegisterObject)
<1>1. RegisterObject \in Seq(StepSet)
  <2>1. /\ <<"ReadObjectID">> \in StepSet /\ <<"StoreObject">> \in StepSet
        /\ <<"RegisterObject">> \in StepSet /\ <<"GetObjectDef">> \in StepSet
    BY DEF StepSet
  <2>2. QED
    BY <2>1 DEF RegisterObject
<1>2. Linked(RegisterObject)
  BY DEF Linked, RegisterObject, Follows
<1>3. \A i \in 1..Len(RegisterObject) :
         RegisterObject[i][1] # "Answer" /\ RegisterObject[i][1] \notin ProxyCalls
  BY DEF RegisterObject, ProxyCalls
<1>4. RegisterObject # <<>> /\ RegisterObject[1][1] = "ReadObjectID"
  BY DEF RegisterObject
<1>5. QED
  BY <1>1, <1>2, <1>3, <1>4 DEF Part, Counted, Begins

LEMMA RegisterClassList ==
    ASSUME NEW c \in Names
    PROVE  Begins(RegisterClass(c))
<1>1. RegisterClass(c) \in Seq(StepSet)
  <2>1. <<"StoreClass", c>> \in StepSet /\ <<"RegisterClass", c>> \in StepSet
    BY DEF StepSet
  <2>2. QED
    BY <2>1 DEF RegisterClass
<1>2. Linked(RegisterClass(c))
  BY DEF Linked, RegisterClass, Follows
<1>3. \A i \in 1..Len(RegisterClass(c)) : RegisterClass(c)[i][1] \notin ProxyCalls
  BY DEF RegisterClass, ProxyCalls
<1>4. RegisterClass(c) # <<>> /\ RegisterClass(c)[1][1] = "StoreClass"
  BY DEF RegisterClass
<1>5. QED
  BY <1>1, <1>2, <1>3, <1>4 DEF Counted, Begins

LEMMA ProxyCallList ==
    ASSUME NEW m \in StepSet, m[1] \in ProxyCalls, NEW new, NEW f
    PROVE  LET s == ProxyCall(m, new, f) IN
           Begins(s) /\ Part(s) /\ HasCount(s) /\ s[1][1] = "ReadCallID"
<1> DEFINE p == << <<"ReadCallID">>, <<"CountCall">> >>
           q == IF new THEN RegisterObject ELSE <<>>
           r == << m >>
           t == IF f = "getobject" THEN << <<"GetObjectDef">> >> ELSE <<>>
<1>1. Part(p) /\ Counted(p) /\ HasCount(p) /\ p # <<>> /\ p[1][1] = "ReadCallID"
  <2>1. p \in Seq(StepSet)
    <3>1. <<"ReadCallID">> \in StepSet /\ <<"CountCall">> \in StepSet
      BY DEF StepSet
    <3>2. QED
      BY <3>1
  <2>2. Linked(p)
    BY DEF Linked, Follows
  <2>3. \A i \in 1..Len(p) : p[i][1] # "Answer" /\ p[i][1] \notin ProxyCalls
    BY DEF ProxyCalls
  <2>4. HasCount(p)
    BY DEF HasCount
  <2>5. p # <<>> /\ p[1][1] = "ReadCallID"
    OBVIOUS
  <2>6. QED
    BY <2>1, <2>2, <2>3, <2>4, <2>5 DEF Part, Counted
<1>2. Part(q) /\ (q # <<>> => Independent(q[1]))
  <2>1. RegisterObject[1][1] = "ReadObjectID"
    BY DEF RegisterObject
  <2>2. Part(<<>>)
    BY Singles DEF Part
  <2>3. QED
    BY <2>1, <2>2, RegisterObjectList DEF Independent
<1>3. Part(r) /\ Independent(r[1])
  BY Singles DEF Part, Independent, ProxyCalls
<1>4. Part(t) /\ (t # <<>> => Independent(t[1]))
  <2>1. Part(<<>>)
    BY Singles DEF Part
  <2>2. Part(<< <<"GetObjectDef">> >>)
    BY Singles DEF Part
  <2>3. Independent(<<"GetObjectDef">>)
    BY DEF Independent
  <2>4. QED
    BY <2>1, <2>2, <2>3
<1>5. ProxyCall(m, new, f) = ((p \o q) \o r) \o t
  BY DEF ProxyCall
<1> HIDE DEF p, q, r, t
<1>6. ASSUME NEW u, NEW v, Part(u), Counted(u), HasCount(u), u # <<>>,
             u[1][1] = "ReadCallID", Part(v), v # <<>> => Independent(v[1])
      PROVE  /\ Part(u \o v) /\ Counted(u \o v) /\ HasCount(u \o v) /\ u \o v # <<>>
             /\ (u \o v)[1][1] = "ReadCallID"
  <2>1. u \o v \in Seq(StepSet) /\ Linked(u \o v)
    BY <1>6, JoinedParts DEF Part
  <2>2. Counted(u \o v) /\ HasCount(u \o v)
    BY <1>6, JoinedCounts DEF Part
  <2>3. u \o v # <<>> /\ (u \o v)[1] = u[1]
    BY <1>6, JoinedEnds DEF Part
  <2>4. ASSUME NEW i \in 1..Len(u \o v)
        PROVE  (u \o v)[i][1] # "Answer"
    <3>1. /\ Len(u \o v) = Len(u) + Len(v) /\ Len(u) \in Nat /\ Len(v) \in Nat
          /\ \A j \in 1..Len(u) : (u \o v)[j] = u[j]
          /\ \A j \in 1..Len(v) : (u \o v)[Len(u) + j] = v[j]
      BY <1>6, ConcatOf DEF Part
    <3>2. CASE i <= Len(u)
      BY <1>6, <3>1, <3>2 DEF Part
    <3>3. CASE i > Len(u)
      <4>1. i - Len(u) \in 1..Len(v) /\ (u \o v)[i] = v[i - Len(u)]
        BY <3>1, <3>3
      <4>2. QED
        BY <1>6, <4>1 DEF Part
    <3>4. QED
      BY <3>1, <3>2, <3>3
  <2>5. QED
    BY <1>6, <2>1, <2>2, <2>3, <2>4 DEF Part
<1>7. /\ Part(p \o q) /\ Counted(p \o q) /\ HasCount(p \o q) /\ p \o q # <<>>
      /\ (p \o q)[1][1] = "ReadCallID"
  BY <1>1, <1>2, <1>6
<1>8. /\ Part((p \o q) \o r) /\ Counted((p \o q) \o r) /\ HasCount((p \o q) \o r)
      /\ (p \o q) \o r # <<>> /\ ((p \o q) \o r)[1][1] = "ReadCallID"
  BY <1>3, <1>6, <1>7
<1>9. LET s == ((p \o q) \o r) \o t IN
      Part(s) /\ Counted(s) /\ HasCount(s) /\ s # <<>> /\ s[1][1] = "ReadCallID"
  BY <1>4, <1>6, <1>8
<1>10. QED
  BY <1>5, <1>9 DEF Begins, Part

LEMMA WithAnswer ==
    ASSUME NEW s, Part(s), Begins(s)
    PROVE  /\ Begins(s \o << <<"Answer">> >>) /\ EndsInAnswer(s \o << <<"Answer">> >>)
           /\ (s \o << <<"Answer">> >>)[1] = s[1]
<1> DEFINE t == << <<"Answer">> >>
<1>1. /\ t \in Seq(StepSet) /\ Linked(t) /\ t # <<>> /\ Independent(t[1]) /\ Counted(t)
      /\ Len(t) = 1 /\ t[1][1] = "Answer"
  BY Singles DEF Independent, Counted, ProxyCalls
<1> HIDE DEF t
<1>2. s \o t \in Seq(StepSet) /\ Linked(s \o t)
  BY <1>1, JoinedParts
<1>3. Counted(s \o t)
  BY <1>1, JoinedCounts DEF Begins
<1>4. s \o t # <<>> /\ (s \o t)[1] = s[1] /\ (s \o t)[Len(s \o t)] = t[Len(t)]
  BY <1>1, JoinedEnds DEF Begins
<1>5. Begins(s \o t) /\ EndsInAnswer(s \o t) /\ (s \o t)[1] = s[1]
  BY <1>1, <1>2, <1>3, <1>4 DEF Begins, EndsInAnswer
<1>6. QED
  BY <1>5 DEF t

LEMMA AfterRun ==
    ASSUME NEW s, NEW t, s \in { << <<"Run">> >>, << <<"GetObjectDef">>, <<"Run">> >> },
           Part(t), Counted(t), t # <<>> => Independent(t[1])
    PROVE  Part(s \o t) /\ Begins(s \o t) /\ (s \o t)[1][1] \in {"Run", "GetObjectDef"}
<1>1. Part(s) /\ Counted(s) /\ s # <<>> /\ s[1][1] \in {"Run", "GetObjectDef"}
  <2>1. <<"Run">> \in StepSet /\ <<"GetObjectDef">> \in StepSet
    BY DEF StepSet
  <2>2. CASE s = << <<"Run">> >>
    BY <2>1, <2>2 DEF Part, Linked, Counted, ProxyCalls
  <2>3. CASE s = << <<"GetObjectDef">>, <<"Run">> >>
    BY <2>1, <2>3 DEF Part, Linked, Follows, Counted, ProxyCalls
  <2>4. QED
    BY <2>2, <2>3
<1>2. s \o t \in Seq(StepSet) /\ Linked(s \o t)
  BY <1>1, JoinedParts DEF Part
<1>3. Counted(s \o t)
  BY <1>1, JoinedCounts DEF Part
<1>4. s \o t # <<>> /\ (s \o t)[1] = s[1]
  BY <1>1, JoinedEnds DEF Part
<1>5. ASSUME NEW i \in 1..Len(s \o t)
      PROVE  (s \o t)[i][1] # "Answer"
  <2>1. /\ Len(s \o t) = Len(s) + Len(t) /\ Len(s) \in Nat /\ Len(t) \in Nat
        /\ \A j \in 1..Len(s) : (s \o t)[j] = s[j]
        /\ \A j \in 1..Len(t) : (s \o t)[Len(s) + j] = t[j]
    BY <1>1, ConcatOf DEF Part
  <2>2. CASE i <= Len(s)
    BY <1>1, <2>1, <2>2 DEF Part
  <2>3. CASE i > Len(s)
    <3>1. i - Len(s) \in 1..Len(t) /\ (s \o t)[i] = t[i - Len(s)]
      BY <2>1, <2>3
    <3>2. QED
      BY <3>1 DEF Part
  <2>4. QED
    BY <2>1, <2>2, <2>3
<1>6. QED
  BY <1>1, <1>2, <1>3, <1>4, <1>5 DEF Part, Begins

LEMMA RunCallList ==
    ASSUME NEW f \in Methods
    PROVE  /\ Begins(RunCall(f)) /\ EndsInAnswer(RunCall(f))
           /\ RunCall(f)[1][1] \in {"Run", "GetObjectDef"}
<1>1. CASE f = "hello"
  <2>1. RunCall(f) = << <<"Run">>, <<"Answer">> >>
    BY <1>1 DEF RunCall
  <2>2. RunCall(f) \in Seq(StepSet)
    <3>1. <<"Run">> \in StepSet /\ <<"Answer">> \in StepSet
      BY DEF StepSet
    <3>2. QED
      BY <2>1, <3>1
  <2>3. QED
    BY <2>1, <2>2 DEF Begins, EndsInAnswer, Linked, Follows, Counted, ProxyCalls
<1>2. CASE f = "getobject"
  <2>1. RunCall(f) = (<< <<"Run">> >> \o RegisterObject) \o << <<"Answer">> >>
    BY <1>2 DEF RunCall
  <2>2. Independent(RegisterObject[1])
    BY DEF RegisterObject, Independent
  <2>3. QED
    BY <2>1, <2>2, RegisterObjectList, AfterRun, WithAnswer
<1>3. CASE f = "callhello"
  <2>1. RunCall(f) = (<< <<"GetObjectDef">>, <<"Run">> >> \o callhello) \o << <<"Answer">> >>
    BY <1>3 DEF RunCall
  <2>2. <<"CallMethod", "hello">> \in StepSet /\ <<"CallMethod", "hello">>[1] \in ProxyCalls
    BY DEF StepSet, Methods, ProxyCalls
  <2>3. Begins(callhello) /\ Part(callhello) /\ callhello[1][1] = "ReadCallID"
    BY <2>2, ProxyCallList DEF callhello
  <2>4. Counted(callhello) /\ Independent(callhello[1])
    BY <2>3 DEF Begins, Independent
  <2>5. QED
    BY <2>1, <2>3, <2>4, AfterRun, WithAnswer
<1>4. QED
  BY <1>1, <1>2, <1>3 DEF Methods

LEMMA RunConstructList ==
    /\ Begins(RunConstruct) /\ EndsInAnswer(RunConstruct)
    /\ RunConstruct[1][1] = "ReadObjectID"
    /\ Constructs(RunConstruct)
<1>1. RunConstruct \in Seq(StepSet)
  <2>1. <<"ReadObjectID">> \in StepSet /\ <<"StoreObject">> \in StepSet
        /\ <<"Answer">> \in StepSet
    BY DEF StepSet
  <2>2. QED
    BY <2>1 DEF RunConstruct
<1>2. Linked(RunConstruct)
  BY DEF RunConstruct, Linked, Follows
<1>3. Counted(RunConstruct)
  BY DEF RunConstruct, Counted, ProxyCalls
<1>4. QED
  BY <1>1, <1>2, <1>3 DEF Begins, EndsInAnswer, Constructs, RunConstruct

LEMMA StepsList ==
    ASSUME NEW c, IsCall(c)
    PROVE  /\ Begins(Steps(c))
           /\ Steps(c)[1][1] = "ReleaseObject" => c[1] = "ReleaseObject"
<1>1. CASE c[1] = "RegisterObject"
  BY <1>1, RegisterObjectList DEF Steps, RegisterObject
<1>2. CASE c[1] = "RegisterClass"
  <2>1. c[2] \in Names /\ Steps(c) = RegisterClass(c[2])
    BY <1>2 DEF IsCall, Steps
  <2>2. Steps(c)[1][1] = "StoreClass"
    BY <2>1 DEF RegisterClass
  <2>3. QED
    BY <2>1, <2>2, RegisterClassList
<1>3. CASE c[1] \in ProxyCalls
  <2>1. CASE c[1] = "CallStatic"
    <3>1. <<c[1], c[2], c[3]>> \in StepSet
      BY <2>1 DEF IsCall, StepSet
    <3>2. Steps(c) = ProxyCall(<<c[1], c[2], c[3]>>, c[4] = "new", c[3])
      BY <2>1 DEF Steps
    <3>3. QED
      BY <1>3, <3>1, <3>2, ProxyCallList
  <2>2. CASE c[1] = "CallMethod"
    <3>1. <<c[1], c[2]>> \in StepSet
      BY <2>2 DEF IsCall, StepSet
    <3>2. Steps(c) = ProxyCall(<<c[1], c[2]>>, FALSE, c[2])
      BY <2>2 DEF Steps
    <3>3. QED
      BY <1>3, <3>1, <3>2, ProxyCallList
  <2>3. CASE c[1] = "ConstructObject"
    <3>1. <<c[1], c[2]>> \in StepSet
      BY <2>3 DEF IsCall, StepSet
    <3>2. Steps(c) = ProxyCall(<<c[1], c[2]>>, FALSE, "ctor")
      BY <2>3 DEF Steps
    <3>3. QED
      BY <1>3, <3>1, <3>2, ProxyCallList
  <2>4. QED
    BY <1>3, <2>1, <2>2, <2>3 DEF ProxyCalls
<1>4. CASE c[1] \notin ProxyCalls \cup {"RegisterObject", "RegisterClass"}
  <2>1. Steps(c) = <<c>>
    BY <1>4 DEF Steps, ProxyCalls
  <2>2. c \in StepSet
    BY <1>4 DEF IsCall, StepSet, ProxyCalls
  <2>3. c[1] \notin {"CountCall", "StoreObject", "RegisterObject", "RegisterClass"}
    BY <1>4 DEF IsCall
  <2>4. QED
    BY <1>4, <2>1, <2>2, <2>3, Singles DEF Begins, Counted
<1>5. QED
  BY <1>1, <1>2, <1>3, <1>4

LEMMA AppendOf ==
    ASSUME NEW S, NEW s \in Seq(S), NEW x \in S
    PROVE  /\ Append(s, x) \in Seq(S) /\ Len(Append(s, x)) = Len(s) + 1 /\ Len(s) \in Nat
           /\ Append(s, x)[Len(s) + 1] = x
           /\ \A i \in 1..Len(s) : Append(s, x)[i] = s[i]
  OBVIOUS

LEMMA AppendTwo ==
    ASSUME NEW S, NEW s \in Seq(S), NEW x \in S, NEW y \in S
    PROVE  s \o <<x, y>> = Append(Append(s, x), y)
  OBVIOUS

(* The arguments of a message. *)
LEMMA Parameters ==
    ASSUME NEW s \in StepSet
    PROVE  /\ s[1] \in {"ListClasses", "RegisterClass", "SetNamespace", "ConstructObject",
                        "CallStatic", "GetClassDef"} => Tail(s)[1] = s[2]
           /\ s[1] = "GetClassDef" => Tail(s)[2] = s[3]
           /\ s[1] \in {"CallStatic", "CallMethod"} => Tail(s)[Len(Tail(s))] \in Methods
<1>1. CASE \E k, x : s = <<k, x>> /\ (k = "CallMethod" => x \in Methods)
               /\ k \notin {"CallStatic", "GetClassDef"}
  <2>1. PICK k, x : s = <<k, x>> /\ (k = "CallMethod" => x \in Methods)
                    /\ k \notin {"CallStatic", "GetClassDef"}
    BY <1>1
  <2>2. Tail(<<k, x>>) = <<x>>
    BY Tails
  <2>3. Tail(s) = <<x>>
    BY <2>1, <2>2
  <2>4. QED
    BY <2>1, <2>3
<1>2. CASE \E k, x, y : s = <<k, x, y>> /\ (k = "CallStatic" => y \in Methods)
                       /\ k # "CallMethod"
  <2>1. PICK k, x, y : s = <<k, x, y>> /\ (k = "CallStatic" => y \in Methods)
                       /\ k # "CallMethod"
    BY <1>2
  <2>2. Tail(<<k, x, y>>) = <<x, y>>
    BY Tails
  <2>3. Tail(s) = <<x, y>>
    BY <2>1, <2>2
  <2>4. QED
    BY <2>1, <2>3
<1>3. CASE \E k : s = <<k>> /\ k \notin {"ListClasses", "RegisterClass", "SetNamespace",
               "ConstructObject", "CallStatic", "GetClassDef", "CallMethod"}
  BY <1>3
<1>4. QED
  BY <1>1, <1>2, <1>3 DEF StepSet

LEMMA ElementOf ==
    ASSUME NEW S, NEW s \in Seq(S), NEW i \in 1..Len(s)
    PROVE  s[i] \in S
  OBVIOUS

-----------------------------------------------------------------------------
(* What the steps have in common. *)

(* Thread a leaves the first step of its list, or ends its call. *)
LEMMA Advance ==
    ASSUME Types, StepInv, NEW a \in Actors, todo[a] # <<>>,
           NEW rest, todo' = [todo EXCEPT ![a] = rest],
           rest = Tail(todo[a]) \/ (a \notin Workers /\ rest = <<>>)
    PROVE  /\ todo' \in [Actors -> Seq(StepSet)] /\ todo'[a] = rest
           /\ \A b \in Actors \ {a} : todo'[b] = todo[b]
           /\ Linked(rest)
           /\ Step(a)[1] # "CountCall" /\ Counted(todo[a]) => Counted(rest)
           /\ rest # <<>> => Step(a)' \in StepSet /\ Follows(Step(a), Step(a)')
           /\ a \in Workers /\ rest # <<>> => EndsInAnswer(rest)
           /\ Step(a)[1] = "Answer" => rest = <<>>
<1>1. /\ todo[a] \in Seq(StepSet) /\ Linked(todo[a])
      /\ a \in Workers => EndsInAnswer(todo[a])
  BY DEF Types, StepInv
<1>2. /\ Len(todo[a]) \in Nat /\ Len(todo[a]) > 0 /\ Step(a) = todo[a][1]
      /\ Tail(todo[a]) \in Seq(StepSet) /\ Len(Tail(todo[a])) = Len(todo[a]) - 1
      /\ \A i \in 1..Len(Tail(todo[a])) : Tail(todo[a])[i] = todo[a][i + 1]
  BY <1>1, TailOf DEF Step
<1>3. rest \in Seq(StepSet) /\ Linked(rest)
  BY <1>1, <1>2, LinkedTail, Singles
<1>4. /\ todo' \in [Actors -> Seq(StepSet)] /\ todo'[a] = rest
      /\ \A b \in Actors \ {a} : todo'[b] = todo[b]
  BY <1>3 DEF Types
<1>5. ASSUME Step(a)[1] # "CountCall", Counted(todo[a])
      PROVE  Counted(rest)
  BY <1>1, <1>2, <1>5, CountedTail, Singles
<1>6. ASSUME rest # <<>>
      PROVE  /\ Step(a)' \in StepSet /\ Follows(Step(a), Step(a)')
             /\ a \in Workers => EndsInAnswer(rest)
             /\ Step(a)[1] # "Answer"
  <2>1. rest = Tail(todo[a]) /\ Len(rest) \in Nat /\ Len(rest) > 0
    BY <1>3, <1>6, TailOf
  <2>2. rest[1] = todo[a][2] /\ rest[Len(rest)] = todo[a][Len(todo[a])]
    BY <1>2, <2>1
  <2>3. Step(a)' = rest[1] /\ rest[1] \in StepSet
    BY <1>3, <1>4, <1>6, TailOf DEF Step
  <2>4. Follows(todo[a][1], todo[a][2])
    BY <1>1, <1>2, <2>1 DEF Linked
  <2>5. QED
    BY <1>1, <1>2, <2>1, <2>2, <2>3, <2>4 DEF EndsInAnswer, Follows
<1>7. QED
  BY <1>3, <1>4, <1>5, <1>6

(* What a thread that does not move keeps. *)
LEMMA Keeps ==
    ASSUME NEW b, todo'[b] = todo[b], cid'[b] = cid[b], own'[b] = own[b], ref'[b] = ref[b]
    PROVE  Step(b)' = Step(b) /\ Id(b)' = Id(b) /\ SlotName(b)' = SlotName(b)
<1>1. Step(b)' = Step(b)
  BY DEF Step
<1>2. Id(b)' = Id(b)
  BY <1>1 DEF Id
<1>3. SlotName(b)' = SlotName(b)
  BY <1>1, <1>2 DEF SlotName, ListSlot
<1>4. QED
  BY <1>1, <1>2, <1>3

LEMMA StaysReady ==
    ASSUME NEW b, Ready(b), todo'[b] = todo[b], tmp'[b] = tmp[b], own'[b] = own[b],
           ref'[b] = ref[b], raced => raced', regclasses \subseteq regclasses',
           Step(b)[1] = "CountCall" => raced' \/ callid' = callid,
           Step(b)[1] = "StoreObject" => raced' \/ objectid' = objectid
    PROVE  Ready(b)'
<1>1. Step(b)' = Step(b)
  BY DEF Step
<1>2. QED
  BY <1>1 DEF Ready

LEMMA ObjectsKept ==
    ASSUME ObjectInv, FreeInv, UNCHANGED <<regobjects, in, broker, objectid>>, raced => raced',
           \A b \in Actors : Unsent(b)' => Unsent(b) /\ own'[b] = own[b]
    PROVE  ObjectInv' /\ FreeInv'
<1>1. ObjectInv'
  BY DEF ObjectInv, broker
<1>2. FreeInv'
  BY DEF FreeInv, broker
<1>3. QED
  BY <1>1, <1>2

(* A thread that waits for no answer may move without those that wait.     *)
LEMMA Quiet ==
    ASSUME Types, WaitInv, MessageInv, OnceInv, NEW a \in Actors, slot[a] = <<>>,
           UNCHANGED <<slot, answer, in, job, objects>>, classes \subseteq classes',
           \A b \in Actors \ {a} : /\ todo'[b] = todo[b] /\ cid'[b] = cid[b]
                                   /\ own'[b] = own[b] /\ ref'[b] = ref[b],
           a \in Workers => todo[a] # <<>>
    PROVE  WaitInv' /\ MessageInv' /\ OnceInv'
<1>1. \A b \in Actors \ {a} : Step(b)' = Step(b) /\ Id(b)' = Id(b) /\ SlotName(b)' = SlotName(b)
  BY Keeps
<1>2. Refs' = Refs
  BY DEF Refs
<1>3. WaitInv'
  BY <1>1, <1>2 DEF WaitInv
<1>4. ASSUME NEW x \in MessageSet, Owed(x)
      PROVE  Owed(x)'
  <2>1. x.from \in Actors /\ x.from # a
    BY <1>4 DEF Owed, MessageSet, Answers, Forwards
  <2>2. QED
    BY <1>1, <1>4, <2>1 DEF Owed
<1>5. ASSUME NEW x, Sound(x)
      PROVE  Sound(x)'
  BY <1>2, <1>5 DEF Sound
<1>6. \A w \in Workers : todo'[w] # <<>> => todo[w] # <<>>
  BY DEF Actors
<1>7. \A i \in 1..Len(in) : in[i] \in MessageSet
  <2>1. in \in Seq(MessageSet)
    BY DEF Types
  <2>2. QED
    BY <2>1, ElementOf
<1>8. MessageInv'
  BY <1>4, <1>5, <1>6, <1>7 DEF MessageInv
<1>9. OnceInv'
  BY <1>6 DEF OnceInv
<1>10. QED
  BY <1>3, <1>8, <1>9

(* A step that is no message and not the last.                             *)
Inner == {"ReadCallID", "CountCall", "ReadObjectID", "StoreObject", "StoreClass", "Run"}

Lists == /\ \A b \in Actors : Linked(todo[b])
         /\ \A w \in Workers : todo[w] # <<>> => EndsInAnswer(todo[w])

LEMMA Inside ==
    ASSUME IInv, NEW a \in Actors, NEW k \in Inner, Do(a, k),
           UNCHANGED <<slot, answer, in, job, ref, broker>>, regclasses \subseteq regclasses',
           \A b \in Actors \ {a} : cid'[b] = cid[b] /\ own'[b] = own[b],
           k = "CountCall" => cid'[a] > 0,
           k # "CountCall" => cid'[a] = cid[a],
           own'[a] = own[a] \/ own'[a] # None,
           k = "StoreObject" => own'[a] # None
    PROVE  /\ todo' \in [Actors -> Seq(StepSet)]
           /\ todo[a] # <<>> /\ slot[a] = <<>> /\ Step(a)[1] = k
           /\ \A b \in Actors \ {a} : todo'[b] = todo[b] /\ Step(b)' = Step(b)
           /\ todo'[a] # <<>> => Follows(Step(a), Step(a)')
           /\ Lists' /\ \A b \in Actors : cid'[b] > 0 \/ Counted(todo'[b])
           /\ WaitInv' /\ MessageInv' /\ OnceInv' /\ ConstructInv' /\ ClassesStored'
           /\ \A b \in Actors \ {a} : Unsent(b)' => Unsent(b)
           /\ Unsent(a)' => k = "StoreObject"
<1>1. /\ todo[a] # <<>> /\ slot[a] = <<>> /\ Step(a)[1] = k
      /\ todo' = [todo EXCEPT ![a] = Tail(todo[a])]
  BY DEF Do, At, Step
<1>2. /\ todo' \in [Actors -> Seq(StepSet)] /\ todo'[a] = Tail(todo[a])
      /\ \A b \in Actors \ {a} : todo'[b] = todo[b]
      /\ Linked(todo'[a])
      /\ Step(a)[1] # "CountCall" /\ Counted(todo[a]) => Counted(todo'[a])
      /\ todo'[a] # <<>> => Follows(Step(a), Step(a)')
      /\ a \in Workers /\ todo'[a] # <<>> => EndsInAnswer(todo'[a])
  BY <1>1, Advance DEF IInv
<1>3. \A b \in Actors \ {a} : Step(b)' = Step(b)
  BY <1>2 DEF Step
<1>4. Lists' /\ \A b \in Actors : cid'[b] > 0 \/ Counted(todo'[b])
  <2>1. \A b \in Actors : Linked(todo'[b])
    BY <1>2 DEF IInv, StepInv
  <2>2. \A w \in Workers : todo'[w] # <<>> => EndsInAnswer(todo'[w])
    BY <1>2 DEF IInv, StepInv, Actors
  <2>3. \A b \in Actors : cid'[b] > 0 \/ Counted(todo'[b])
    BY <1>1, <1>2 DEF IInv, StepInv
  <2>4. QED
    BY <2>1, <2>2, <2>3 DEF Lists
<1>5. WaitInv' /\ MessageInv' /\ OnceInv'
  BY <1>1, <1>2, Quiet DEF IInv, broker
<1>6. ConstructInv'
  <2> SUFFICES ASSUME NEW w \in Workers, todo'[w] # <<>>, job[w].msg = "Construct"
               PROVE  Constructs(todo'[w]) /\ (Step(w)'[1] = "Answer" => own'[w] # None)
    BY DEF ConstructInv
  <2>1. CASE w # a
    BY <1>2, <1>3, <2>1 DEF IInv, ConstructInv, Actors
  <2>2. CASE w = a
    <3>1. Constructs(todo[a])
      BY <1>1, <2>2 DEF IInv, ConstructInv
    <3>2. todo[a] \in Seq(StepSet)
      BY DEF IInv, Types
    <3>3. QED
      BY <1>1, <1>2, <2>2, <3>1, <3>2, ConstructsTail DEF Step
  <2>3. QED
    BY <2>1, <2>2
<1>7. ClassesStored'
  BY DEF IInv, ClassesStored, broker
<1>8. \A b \in Actors \ {a} : Unsent(b)' => Unsent(b)
  BY <1>2, <1>3 DEF Unsent
<1>9. Unsent(a)' => k = "StoreObject"
  <2>1. CASE Step(a)'[1] = "RegisterObject"
    BY <1>1, <1>2, <2>1 DEF Unsent, Follows
  <2>2. CASE todo'[a] # <<>> /\ a \in Workers /\ Step(a)'[1] = "Answer"
             /\ job[a].msg = "Construct"
    <3>1. Constructs(todo[a])
      BY <1>1, <2>2 DEF IInv, ConstructInv
    <3>2. todo[a] \in Seq(StepSet)
      BY DEF IInv, Types
    <3>3. QED
      BY <1>1, <1>2, <2>2, <3>1, <3>2, ConstructsTail DEF Step
  <2>3. QED
    BY <2>1, <2>2 DEF Unsent
<1>10. QED
  BY <1>1, <1>2, <1>3, <1>4, <1>5, <1>6, <1>7, <1>8, <1>9

(* What a counter held when it was read is what it holds when it is        *)
(* stored, unless another thread has stored in between.                    *)
LEMMA ReadCallIDStep ==
    ASSUME IInv, NEW a \in Actors, ReadCallID(a)
    PROVE  IInv'
<1>1. /\ todo' \in [Actors -> Seq(StepSet)]
      /\ todo[a] # <<>> /\ slot[a] = <<>> /\ Step(a)[1] = "ReadCallID"
      /\ \A b \in Actors \ {a} : todo'[b] = todo[b] /\ Step(b)' = Step(b)
      /\ todo'[a] # <<>> => Follows(Step(a), Step(a)')
      /\ Lists' /\ \A b \in Actors : cid'[b] > 0 \/ Counted(todo'[b])
      /\ WaitInv' /\ MessageInv' /\ OnceInv' /\ ConstructInv' /\ ClassesStored'
      /\ \A b \in Actors : Unsent(b)' => Unsent(b)
  BY Inside DEF ReadCallID, Inner, tables, broker
<1>2. Types'
  BY <1>1 DEF IInv, Types, ReadCallID, Do, counters, tables, broker, Refs
<1>3. StepInv'
  <2>1. todo'[a] # <<>> => Ready(a)'
    BY <1>1 DEF ReadCallID, Follows, Ready, counters, IInv, Types
  <2>2. ASSUME NEW b \in Actors \ {a}, todo'[b] # <<>>
        PROVE  Ready(b)'
    <3>1. Ready(b) /\ tmp'[b] = tmp[b]
      BY <1>1, <2>2 DEF IInv, StepInv, Types, ReadCallID
    <3>2. QED
      BY <1>1, <3>1, StaysReady DEF ReadCallID, counters, tables
  <2>3. QED
    BY <1>1, <2>1, <2>2 DEF StepInv, Lists
<1>4. NumberInv'
  BY DEF IInv, NumberInv, ReadCallID, counters
<1>5. ObjectInv' /\ FreeInv'
  BY <1>1, ObjectsKept DEF IInv, ReadCallID, counters, tables
<1>6. RunInv' /\ FaultInv'
  BY <1>1 DEF IInv, RunInv, FaultInv, ReadCallID, counters, Actors
<1>7. QED
  BY <1>1, <1>2, <1>3, <1>4, <1>5, <1>6 DEF IInv

LEMMA ReadObjectIDStep ==
    ASSUME IInv, NEW a \in Actors, ReadObjectID(a)
    PROVE  IInv'
<1>1. /\ todo' \in [Actors -> Seq(StepSet)]
      /\ todo[a] # <<>> /\ slot[a] = <<>> /\ Step(a)[1] = "ReadObjectID"
      /\ \A b \in Actors \ {a} : todo'[b] = todo[b] /\ Step(b)' = Step(b)
      /\ todo'[a] # <<>> => Follows(Step(a), Step(a)')
      /\ Lists' /\ \A b \in Actors : cid'[b] > 0 \/ Counted(todo'[b])
      /\ WaitInv' /\ MessageInv' /\ OnceInv' /\ ConstructInv' /\ ClassesStored'
      /\ \A b \in Actors : Unsent(b)' => Unsent(b)
  BY Inside DEF ReadObjectID, Inner, tables, broker
<1>2. Types'
  BY <1>1 DEF IInv, Types, ReadObjectID, Do, counters, tables, broker, Refs
<1>3. StepInv'
  <2>1. todo'[a] # <<>> => Ready(a)'
    BY <1>1 DEF ReadObjectID, Follows, Ready, counters, IInv, Types
  <2>2. ASSUME NEW b \in Actors \ {a}, todo'[b] # <<>>
        PROVE  Ready(b)'
    <3>1. Ready(b) /\ tmp'[b] = tmp[b]
      BY <1>1, <2>2 DEF IInv, StepInv, Types, ReadObjectID
    <3>2. QED
      BY <1>1, <3>1, StaysReady DEF ReadObjectID, counters, tables
  <2>3. QED
    BY <1>1, <2>1, <2>2 DEF StepInv, Lists
<1>4. NumberInv'
  BY DEF IInv, NumberInv, ReadObjectID, counters
<1>5. ObjectInv' /\ FreeInv'
  BY <1>1, ObjectsKept DEF IInv, ReadObjectID, counters, tables
<1>6. RunInv' /\ FaultInv'
  BY <1>1 DEF IInv, RunInv, FaultInv, ReadObjectID, counters, Actors
<1>7. QED
  BY <1>1, <1>2, <1>3, <1>4, <1>5, <1>6 DEF IInv

LEMMA CountCallStep ==
    ASSUME IInv, NEW a \in Actors, CountCall(a)
    PROVE  IInv'
<1>1. callid \in Nat /\ tmp \in [Actors -> Nat] /\ cid \in [Actors -> Nat]
  BY DEF IInv, Types
<1>2. /\ todo' \in [Actors -> Seq(StepSet)]
      /\ todo[a] # <<>> /\ slot[a] = <<>> /\ Step(a)[1] = "CountCall"
      /\ \A b \in Actors \ {a} : todo'[b] = todo[b] /\ Step(b)' = Step(b)
      /\ todo'[a] # <<>> => Follows(Step(a), Step(a)')
      /\ Lists' /\ \A b \in Actors : cid'[b] > 0 \/ Counted(todo'[b])
      /\ WaitInv' /\ MessageInv' /\ OnceInv' /\ ConstructInv' /\ ClassesStored'
      /\ \A b \in Actors : Unsent(b)' => Unsent(b)
  BY <1>1, Inside DEF CountCall, Inner, tables, broker
<1>3. /\ callid' = tmp[a] + 1 /\ cid'[a] = callid'
      /\ \A b \in Actors \ {a} : cid'[b] = cid[b] /\ tmp'[b] = tmp[b]
      /\ raced => raced'
      /\ ~raced' => ~raced /\ callid' = callid + 1
  BY <1>1, <1>2 DEF IInv, StepInv, Ready, CountCall
<1>4. Types'
  <2>1. callid' \in Nat /\ tmp' \in [Actors -> Nat] /\ cid' \in [Actors -> Nat]
    BY <1>1 DEF CountCall
  <2>2. raced' \in BOOLEAN
    BY Zenon DEF CountCall
  <2>3. QED
    BY <1>2, <2>1, <2>2 DEF IInv, Types, CountCall, tables, broker, Refs
<1>5. StepInv'
  <2>1. todo'[a] # <<>> => Ready(a)'
    BY <1>2 DEF Follows, Ready
  <2>2. ASSUME NEW b \in Actors \ {a}, todo'[b] # <<>>
        PROVE  Ready(b)'
    <3>1. Ready(b)
      BY <1>2, <2>2 DEF IInv, StepInv
    <3>2. Step(b)[1] = "CountCall" => raced'
      BY <1>2, <2>2 DEF IInv, WaitInv, CountCall, At, Step, Messages, ProxyCalls
    <3>3. QED
      BY <1>2, <1>3, <3>1, <3>2, StaysReady DEF CountCall, tables
  <2>3. QED
    BY <1>2, <2>1, <2>2 DEF StepInv, Lists
<1>6. NumberInv'
  <2> SUFFICES ASSUME ~raced'
               PROVE  /\ \A b \in Actors : cid'[b] <= callid'
                      /\ \A b, c \in Actors : b # c /\ cid'[b] > 0 => cid'[b] # cid'[c]
    BY <1>3 DEF IInv, NumberInv, CountCall
  <2>1. \A b \in Actors : cid[b] <= callid
    BY <1>3 DEF IInv, NumberInv
  <2>2. \A b, c \in Actors : b # c /\ cid[b] > 0 => cid[b] # cid[c]
    BY <1>3 DEF IInv, NumberInv
  <2>3. QED
    BY <1>1, <1>3, <2>1, <2>2
<1>7. ObjectInv' /\ FreeInv'
  BY <1>2, <1>3, ObjectsKept DEF IInv, CountCall, tables
<1>8. RunInv' /\ FaultInv'
  BY <1>2, <1>3 DEF IInv, RunInv, FaultInv, CountCall, Actors
<1>9. QED
  BY <1>2, <1>4, <1>5, <1>6, <1>7, <1>8 DEF IInv

LEMMA StoreClassStep ==
    ASSUME IInv, NEW a \in Actors, StoreClass(a)
    PROVE  IInv'
<1>1. /\ todo' \in [Actors -> Seq(StepSet)]
      /\ todo[a] # <<>> /\ slot[a] = <<>> /\ Step(a)[1] = "StoreClass"
      /\ \A b \in Actors \ {a} : todo'[b] = todo[b] /\ Step(b)' = Step(b)
      /\ todo'[a] # <<>> => Follows(Step(a), Step(a)')
      /\ Lists' /\ \A b \in Actors : cid'[b] > 0 \/ Counted(todo'[b])
      /\ WaitInv' /\ MessageInv' /\ OnceInv' /\ ConstructInv' /\ ClassesStored'
      /\ \A b \in Actors : Unsent(b)' => Unsent(b)
  BY Inside DEF StoreClass, Inner, broker
<1>2. Step(a)[2] \in Names
  <2>1. todo[a] \in Seq(StepSet)
    BY DEF IInv, Types
  <2>2. Step(a) \in StepSet
    BY <1>1, <2>1, TailOf DEF Step
  <2>3. QED
    BY <1>1, <2>2, Kinds
<1>3. Types'
  BY <1>1, <1>2 DEF IInv, Types, StoreClass, Step, Do, counters, broker, Refs
<1>4. StepInv'
  <2>1. todo'[a] # <<>> => Ready(a)'
    BY <1>1 DEF StoreClass, Step, Follows, Ready
  <2>2. ASSUME NEW b \in Actors \ {a}, todo'[b] # <<>>
        PROVE  Ready(b)'
    <3>1. Ready(b)
      BY <1>1, <2>2 DEF IInv, StepInv
    <3>2. QED
      BY <1>1, <3>1, StaysReady DEF StoreClass, counters
  <2>3. QED
    BY <1>1, <2>1, <2>2 DEF StepInv, Lists
<1>5. NumberInv'
  BY DEF IInv, NumberInv, StoreClass, counters
<1>6. ObjectInv' /\ FreeInv'
  BY <1>1, ObjectsKept DEF IInv, StoreClass, counters
<1>7. RunInv' /\ FaultInv'
  BY <1>1 DEF IInv, RunInv, FaultInv, StoreClass, counters, Actors
<1>8. QED
  BY <1>1, <1>3, <1>4, <1>5, <1>6, <1>7 DEF IInv

LEMMA RunStep ==
    ASSUME IInv, NEW a \in Workers, Run(a)
    PROVE  IInv'
<1>1. /\ todo' \in [Actors -> Seq(StepSet)]
      /\ todo[a] # <<>> /\ slot[a] = <<>> /\ Step(a)[1] = "Run"
      /\ \A b \in Actors \ {a} : todo'[b] = todo[b] /\ Step(b)' = Step(b)
      /\ todo'[a] # <<>> => Follows(Step(a), Step(a)')
      /\ Lists' /\ \A b \in Actors : cid'[b] > 0 \/ Counted(todo'[b])
      /\ WaitInv' /\ MessageInv' /\ OnceInv' /\ ConstructInv' /\ ClassesStored'
      /\ \A b \in Actors : Unsent(b)' => Unsent(b)
  BY Inside DEF Run, Inner, tables, broker, Actors
<1>2. Types'
  BY <1>1 DEF IInv, Types, Run, Do, counters, tables, broker, Refs
<1>3. StepInv'
  <2>1. todo'[a] # <<>> => Ready(a)'
    BY <1>1 DEF Follows, Ready
  <2>2. ASSUME NEW b \in Actors \ {a}, todo'[b] # <<>>
        PROVE  Ready(b)'
    <3>1. Ready(b)
      BY <1>1, <2>2 DEF IInv, StepInv
    <3>2. QED
      BY <1>1, <3>1, StaysReady DEF Run, counters, tables
  <2>3. QED
    BY <1>1, <2>1, <2>2 DEF StepInv, Lists, Actors
<1>4. NumberInv'
  BY DEF IInv, NumberInv, Run, counters
<1>5. ObjectInv' /\ FreeInv'
  BY <1>1, ObjectsKept DEF IInv, Run, counters, tables
<1>6. RunInv' /\ FaultInv'
  BY <1>1 DEF IInv, RunInv, FaultInv, Run, Target, counters, Actors
<1>7. QED
  BY <1>1, <1>2, <1>3, <1>4, <1>5, <1>6 DEF IInv

(* An object the broker is about to be told of. *)
LEMMA Told ==
    ASSUME IInv, NEW b \in Actors, Unsent(b)
    PROVE  own[b] \in Owned
<1>1. own[b] # None
  BY DEF IInv, Unsent, StepInv, Ready, ConstructInv
<1>2. own[b] \in Owned \cup {None}
  BY DEF IInv, Types
<1>3. QED
  BY <1>1, <1>2

LEMMA StoreObjectStep ==
    ASSUME IInv, NEW a \in Actors, StoreObject(a)
    PROVE  IInv'
<1> DEFINE oid == tmp[a] + 1
           new == made + 1
<1>1. /\ objectid \in Nat /\ made \in Nat /\ tmp \in [Actors -> Nat]
      /\ own \in [Actors -> Owned \cup {None}]
      /\ DOMAIN regobjects \subseteq Nat
      /\ regobjects \in [DOMAIN regobjects -> 1..made \cup {None}]
  BY DEF IInv, Types
<1>2. /\ oid \in Nat /\ new \in Nat /\ objectid' = oid /\ made' = new
      /\ own' = [own EXCEPT ![a] = [oid |-> oid, obj |-> new]]
      /\ own'[a] = [oid |-> oid, obj |-> new]
      /\ \A b \in Actors \ {a} : own'[b] = own[b]
      /\ tmp' = [tmp EXCEPT ![a] = 0]
      /\ regobjects' = Put(regobjects, oid, new)
  BY <1>1 DEF StoreObject
<1>3. own'[a] # None /\ own'[a] \in Owned /\ new # None
  BY <1>2, ConstantsAssumption DEF Owned
<1>4. /\ todo' \in [Actors -> Seq(StepSet)]
      /\ todo[a] # <<>> /\ slot[a] = <<>> /\ Step(a)[1] = "StoreObject"
      /\ \A b \in Actors \ {a} : todo'[b] = todo[b] /\ Step(b)' = Step(b)
      /\ todo'[a] # <<>> => Follows(Step(a), Step(a)')
      /\ Lists' /\ \A b \in Actors : cid'[b] > 0 \/ Counted(todo'[b])
      /\ WaitInv' /\ MessageInv' /\ OnceInv' /\ ConstructInv' /\ ClassesStored'
      /\ \A b \in Actors \ {a} : Unsent(b)' => Unsent(b)
  BY <1>2, <1>3, Inside DEF StoreObject, Inner, broker
<1>5. /\ raced => raced'
      /\ ~raced' => ~raced /\ oid = objectid + 1
  BY <1>1, <1>4 DEF IInv, StepInv, Ready, StoreObject
<1>6. /\ DOMAIN regobjects' = DOMAIN regobjects \cup {oid}
      /\ regobjects'[oid] = new
      /\ \A o \in DOMAIN regobjects \ {oid} : regobjects'[o] = regobjects[o]
      /\ regobjects' = [o \in DOMAIN regobjects' |-> regobjects'[o]]
  BY <1>2 DEF Put
<1>7. Types'
  <2>1. own' \in [Actors -> Owned \cup {None}] /\ tmp' \in [Actors -> Nat]
    BY <1>1, <1>2, <1>3
  <2>2. raced' \in BOOLEAN
    BY Zenon DEF StoreObject
  <2>3. /\ DOMAIN regobjects' \subseteq Nat
        /\ regobjects' \in [DOMAIN regobjects' -> 1..made' \cup {None}]
    BY <1>1, <1>2, <1>6
  <2>4. QED
    BY <1>2, <1>4, <2>1, <2>2, <2>3 DEF IInv, Types, StoreObject, broker, Refs
<1>8. StepInv'
  <2>1. todo'[a] # <<>> => Ready(a)'
    BY <1>3, <1>4 DEF Follows, Ready
  <2>2. ASSUME NEW b \in Actors \ {a}, todo'[b] # <<>>
        PROVE  Ready(b)'
    <3>1. Ready(b)
      BY <1>4, <2>2 DEF IInv, StepInv
    <3>2. Step(b)[1] = "StoreObject" => raced'
      BY <1>4, <2>2 DEF IInv, WaitInv, StoreObject, At, Step, Messages, ProxyCalls
    <3>3. tmp'[b] = tmp[b]
      BY <1>1, <1>2
    <3>4. QED
      BY <1>2, <1>4, <1>5, <3>1, <3>2, <3>3, StaysReady DEF StoreObject
  <2>3. QED
    BY <1>4, <2>1, <2>2 DEF StepInv, Lists
<1>9. NumberInv'
  <2> SUFFICES ASSUME ~raced'
               PROVE  /\ \A b \in Actors : own'[b] # None => own'[b].oid <= objectid'
                      /\ \A b, c \in Actors : b # c /\ own'[b] # None /\ own'[c] # None =>
                                                 own'[b].oid # own'[c].oid
    BY <1>5 DEF IInv, NumberInv, StoreObject
  <2>1. \A b \in Actors : own[b] # None => own[b].oid \in Nat /\ own[b].oid <= objectid
    BY <1>1, <1>5 DEF IInv, NumberInv, Owned
  <2>2. \A b, c \in Actors : b # c /\ own[b] # None /\ own[c] # None =>
                                own[b].oid # own[c].oid
    BY <1>5 DEF IInv, NumberInv
  <2>3. QED
    BY <1>1, <1>2, <1>5, <2>1, <2>2
<1>10. ObjectInv' /\ FreeInv'
  <2> SUFFICES ASSUME ~raced'
               PROVE  ObjectInv' /\ FreeInv'
    BY DEF ObjectInv, FreeInv
  <2>1. UNCHANGED <<live, objects, in>>
    BY DEF StoreObject, broker
  <2>2. \A g \in 1..Len(objects) : objects[g].oid \in Nat /\ objects[g].oid <= objectid
    <3>1. objects \in Seq(Owned)
      BY DEF IInv, Types
    <3>2. \A g \in 1..Len(objects) : objects[g] \in Owned
      BY <3>1, ElementOf
    <3>3. QED
      BY <1>5, <3>2 DEF IInv, ObjectInv, Owned
  <2>3. \A o \in DOMAIN regobjects' : regobjects'[o] # None
    BY <1>3, <1>5, <1>6 DEF IInv, ObjectInv
  <2>4. live \subseteq 1..Len(objects)
    BY DEF IInv, Types
  <2>5. \A g \in live : /\ objects[g].oid \in DOMAIN regobjects'
                        /\ regobjects'[objects[g].oid] = objects[g].obj
    BY <1>1, <1>5, <1>6, <2>2, <2>4 DEF IInv, ObjectInv
  <2>6. \A g \in 1..Len(objects) : objects[g].oid <= objectid'
    BY <1>1, <1>2, <1>5, <2>2
  <2>7. ASSUME NEW b \in Actors, Unsent(b)'
        PROVE  /\ own'[b].oid \in DOMAIN regobjects' /\ regobjects'[own'[b].oid] = own'[b].obj
               /\ \A g \in 1..Len(objects) : objects[g].oid # own'[b].oid
    <3>1. CASE b = a
      BY <1>1, <1>2, <1>5, <1>6, <2>2, <3>1
    <3>2. CASE b # a
      <4>1. Unsent(b) /\ own'[b] = own[b] /\ own[b] \in Owned
        BY <1>2, <1>4, <2>7, <3>2, Told
      <4>2. own[b].oid <= objectid /\ own[b].oid \in Nat
        BY <1>5, <4>1, ConstantsAssumption DEF IInv, NumberInv, Owned
      <4>3. QED
        BY <1>1, <1>5, <1>6, <4>1, <4>2 DEF IInv, ObjectInv
    <3>3. QED
      BY <3>1, <3>2
  <2>8. ObjectInv'
    BY <1>5, <2>1, <2>3, <2>5, <2>6, <2>7 DEF IInv, ObjectInv
  <2>9. FreeInv'
    BY <1>5, <1>6, <2>1 DEF IInv, FreeInv
  <2>10. QED
    BY <2>8, <2>9
<1>11. RunInv' /\ FaultInv'
  BY <1>4, <1>5 DEF IInv, RunInv, FaultInv, StoreObject, Actors
<1>12. QED
  BY <1>4, <1>7, <1>8, <1>9, <1>10, <1>11 DEF IInv

-----------------------------------------------------------------------------
(* The beginning of a call, and the ends of the model. *)

LEMMA StartStep ==
    ASSUME IInv, NEW t \in Threads, NEW c \in UNION Range(Calls[t]),
           NEW g \in proxies \cup {None}, Start(t, c, g)
    PROVE  IInv'
<1>1. /\ todo[t] = <<>> /\ t \in Actors /\ t \notin Workers
      /\ slot[t] = <<>>
  BY ConstantsAssumption DEF Start, Actors, IInv, WaitInv
<1>2. Begins(Steps(c)) /\ (Steps(c)[1][1] = "ReleaseObject" => c[1] = "ReleaseObject")
  BY CallsAssumption, StepsList
<1>3. /\ todo' \in [Actors -> Seq(StepSet)] /\ todo'[t] = Steps(c)
      /\ \A b \in Actors \ {t} : todo'[b] = todo[b]
      /\ Step(t)' = Steps(c)[1]
  <2>1. todo \in [Actors -> Seq(StepSet)] /\ Steps(c) \in Seq(StepSet)
    BY <1>2 DEF Begins, IInv, Types
  <2>2. /\ todo' \in [Actors -> Seq(StepSet)] /\ todo'[t] = Steps(c)
        /\ \A b \in Actors \ {t} : todo'[b] = todo[b]
    BY <1>1, <2>1 DEF Start
  <2>3. QED
    BY <1>2, <2>1, <2>2, TailOf DEF Step, Begins
<1>4. /\ cid' = [cid EXCEPT ![t] = 0] /\ own' = [own EXCEPT ![t] = None]
      /\ ref' = [ref EXCEPT ![t] = g]
      /\ cid \in [Actors -> Nat] /\ own \in [Actors -> Owned \cup {None}]
      /\ ref \in [Actors -> Refs] /\ proxies \subseteq Refs \ {None}
  BY DEF Start, IInv, Types
<1>5. WaitInv' /\ MessageInv' /\ OnceInv'
  BY <1>1, <1>3, <1>4, Quiet DEF IInv, Start, broker
<1>6. Types'
  <2>1. cid' \in [Actors -> Nat] /\ own' \in [Actors -> Owned \cup {None}]
    BY <1>1, <1>4
  <2>2. ref' \in [Actors -> Refs] /\ proxies' \subseteq Refs \ {None}
    BY <1>1, <1>4 DEF Start, Refs
  <2>3. cnt' \in [Threads -> Nat]
    <3>1. cnt \in [Threads -> Nat] /\ cnt' = [cnt EXCEPT ![t] = cnt[t] + 1]
      BY DEF Start, IInv, Types
    <3>2. QED
      BY <3>1
  <2>4. QED
    BY <1>3, <2>1, <2>2, <2>3 DEF IInv, Types, Start, counters, tables, broker, Refs
<1>7. StepInv'
  <2>1. Linked(todo'[t]) /\ Counted(todo'[t])
    BY <1>2, <1>3 DEF Begins
  <2>2. Ready(t)'
    <3>1. c[1] = "ReleaseObject" => g # None
      BY <1>4 DEF Start, TakesProxy
    <3>2. ref'[t] = g
      BY <1>1, <1>4
    <3>3. QED
      BY <1>2, <1>3, <3>1, <3>2 DEF Begins, Ready
  <2>3. ASSUME NEW b \in Actors \ {t}
        PROVE  /\ Linked(todo'[b]) /\ (cid'[b] > 0 \/ Counted(todo'[b]))
               /\ todo'[b] # <<>> => Ready(b)'
    <3>1. cid'[b] = cid[b] /\ own'[b] = own[b] /\ ref'[b] = ref[b] /\ tmp'[b] = tmp[b]
      BY <1>4 DEF Start
    <3>2. todo'[b] # <<>> => Ready(b)'
      BY <1>3, <3>1, StaysReady DEF IInv, StepInv, Start, counters, tables
    <3>3. QED
      BY <1>3, <3>1, <3>2 DEF IInv, StepInv
  <2>4. \A w \in Workers : todo'[w] # <<>> => EndsInAnswer(todo'[w])
    BY <1>1, <1>3 DEF IInv, StepInv, Actors
  <2>5. QED
    BY <2>1, <2>2, <2>3, <2>4 DEF StepInv
<1>8. ConstructInv' /\ ClassesStored' /\ RunInv' /\ FaultInv'
  <2>1. \A w \in Workers : todo'[w] = todo[w] /\ Step(w)' = Step(w) /\ own'[w] = own[w]
    BY <1>1, <1>3, <1>4 DEF Actors, Step
  <2>2. QED
    BY <2>1 DEF IInv, ConstructInv, ClassesStored, RunInv, FaultInv, Start, counters, tables,
                broker
<1>9. NumberInv'
  <2> SUFFICES ASSUME ~raced'
               PROVE  /\ \A b \in Actors : cid'[b] <= callid /\ (own'[b] # None =>
                                                                own'[b].oid <= objectid)
                      /\ \A b, d \in Actors : b # d /\ cid'[b] > 0 => cid'[b] # cid'[d]
                      /\ \A b, d \in Actors : b # d /\ own'[b] # None /\ own'[d] # None =>
                                                  own'[b].oid # own'[d].oid
    BY DEF NumberInv, Start, counters
  <2>1. NumberInv /\ ~raced /\ callid \in Nat
    BY DEF IInv, Start, counters, Types
  <2>2. /\ cid'[t] = 0 /\ own'[t] = None
        /\ \A b \in Actors \ {t} : cid'[b] = cid[b] /\ own'[b] = own[b] /\ cid[b] \in Nat
    BY <1>1, <1>4
  <2>3. QED
    BY <2>1, <2>2 DEF NumberInv
<1>10. ObjectInv' /\ FreeInv'
  <2>1. ASSUME NEW b \in Actors, Unsent(b)'
        PROVE  Unsent(b) /\ own'[b] = own[b]
    <3>1. b # t
      BY <1>1, <1>2, <1>3, <2>1 DEF Unsent, Begins
    <3>2. QED
      BY <1>3, <1>4, <2>1, <3>1 DEF Unsent, Step, Start
  <2>2. QED
    BY <2>1, ObjectsKept DEF IInv, Start, counters, tables
<1>11. QED
  BY <1>5, <1>6, <1>7, <1>8, <1>9, <1>10 DEF IInv

(* Nothing but the reason to stop changes, or nothing at all. *)
LEMMA Stops ==
    ASSUME IInv, UNCHANGED <<threads, counters, tables, nsname, proxies, in, broker>>,
           fault' \in {fault, "race", "same number", "same question"}
    PROVE  IInv'
<1>1. UNCHANGED <<todo, cnt, slot, answer, tmp, cid, own, ref, job, obj, callid, objectid,
                  made, raced, regclasses, regobjects, proxies, in, classes, objects, live>>
  BY DEF threads, counters, tables, broker
<1>2. /\ \A a \in Actors : Step(a)' = Step(a) /\ Id(a)' = Id(a) /\ SlotName(a)' = SlotName(a)
      /\ Refs' = Refs
  BY <1>1, Keeps DEF Refs
<1>3. Types'
  BY <1>1, <1>2 DEF IInv, Types
<1>4. StepInv'
  <2>1. \A a \in Actors : Ready(a) => Ready(a)'
    BY <1>1, <1>2 DEF Ready
  <2>2. QED
    BY <1>1, <2>1 DEF IInv, StepInv
<1>5. ConstructInv' /\ ClassesStored' /\ RunInv' /\ FaultInv' /\ NumberInv'
  <2>1. ConstructInv'
    BY <1>1, <1>2 DEF IInv, ConstructInv, Actors
  <2>2. ClassesStored' /\ RunInv' /\ FaultInv'
    BY <1>1 DEF IInv, ClassesStored, RunInv, FaultInv
  <2>3. NumberInv'
    BY <1>1 DEF IInv, NumberInv
  <2>4. QED
    BY <2>1, <2>2, <2>3
<1>6. \A x : Owed(x)' = Owed(x) /\ Sound(x)' = Sound(x)
  BY <1>1, <1>2 DEF Owed, Sound, Step, Id
<1>7. MessageInv'
  BY <1>1, <1>6 DEF IInv, MessageInv
<1>8. WaitInv'
  BY <1>1, <1>2 DEF IInv, WaitInv
<1>9. OnceInv'
  BY <1>1 DEF IInv, OnceInv
<1>10. ObjectInv' /\ FreeInv'
  <2>1. \A a \in Actors : Unsent(a)' => Unsent(a) /\ own'[a] = own[a]
    BY <1>1, <1>2 DEF Unsent
  <2>2. QED
    BY <1>1, <2>1, ObjectsKept DEF IInv, broker
<1>11. QED
  BY <1>3, <1>4, <1>5, <1>7, <1>8, <1>9, <1>10 DEF IInv

LEMMA TableRaceStep ==
    ASSUME IInv, NEW a \in Actors, TableRace(a)
    PROVE  IInv'
  BY Stops DEF TableRace

(* Two calls that share a slot are the same question, or have the same     *)
(* number.                                                                 *)
LEMMA ClashStep ==
    ASSUME IInv, NEW a \in Actors, Clash(a)
    PROVE  IInv'
<1>1. PICK b \in Actors \ {a} :
         /\ slot[b] = SlotName(a)
         /\ fault' = IF SlotName(a)[1] \in {"Call", "RegisterObject"}
                     THEN IF raced THEN "same number" ELSE "clash"
                     ELSE IF Step(a) = Step(b) \/ Step(a)[1] = "SetNamespace"
                          THEN "same question"
                          ELSE "clash"
  BY DEF Clash, Sharing
<1>2. todo[a] # <<>> /\ Step(a)[1] \in Messages
  BY DEF Clash, At, Step
<1>3. SlotName(a) # <<>>
  BY <1>2 DEF SlotName, Messages, ListSlot
<1>4. todo[b] # <<>> /\ Step(b)[1] \in Messages /\ SlotName(b) = SlotName(a)
  BY <1>1, <1>3 DEF IInv, WaitInv
<1>5. Step(a) \in StepSet /\ Step(b) \in StepSet
  <2>1. todo[a] \in Seq(StepSet) /\ todo[b] \in Seq(StepSet)
    BY DEF IInv, Types
  <2>2. QED
    BY <1>2, <1>4, <2>1, TailOf DEF Step
<1>6. CASE SlotName(a)[1] = "RegisterObject"
  <2>1. /\ Step(a)[1] = "RegisterObject" /\ Step(b)[1] = "RegisterObject"
        /\ own[a].oid = own[b].oid
    BY <1>2, <1>4, <1>6 DEF SlotName, Id, ListSlot, Messages, ProxyCalls
  <2>2. own[a] # None /\ own[b] # None
    BY <1>2, <1>4, <2>1 DEF IInv, StepInv, Ready
  <2>3. raced
    BY <1>1, <2>1, <2>2 DEF IInv, NumberInv
  <2>4. QED
    BY <1>1, <1>6, <2>3, Stops DEF Clash
<1>7. CASE SlotName(a)[1] = "Call"
  <2>1. /\ Step(a)[1] \in ProxyCalls /\ Step(b)[1] \in ProxyCalls
        /\ cid[a] = cid[b]
    BY <1>2, <1>4, <1>7 DEF SlotName, Id, ListSlot, Messages, ProxyCalls
  <2>2. cid[a] > 0
    <3>1. todo[a] \in Seq(StepSet)
      BY DEF IInv, Types
    <3>2. ~Counted(todo[a])
      BY <1>2, <2>1, <3>1, TailOf DEF Counted, Step
    <3>3. QED
      BY <3>2 DEF IInv, StepInv
  <2>3. raced
    BY <1>1, <2>1, <2>2 DEF IInv, NumberInv
  <2>4. QED
    BY <1>1, <1>7, <2>3, Stops DEF Clash
<1>8. CASE SlotName(a)[1] \notin {"Call", "RegisterObject"}
  <2>1. Step(a) = Step(b) \/ Step(a)[1] = "SetNamespace"
    <3>1. /\ Step(a)[1] = SlotName(a)[1] /\ Step(b)[1] = SlotName(a)[1]
          /\ Step(a)[1] \in {"ListClasses", "RegisterClass"} => Step(a)[2] = Step(b)[2]
          /\ Step(a)[1] = "GetClassDef" =>
                Step(a)[2] = Step(b)[2] /\ Step(a)[3] = Step(b)[3]
      BY <1>2, <1>4, <1>8 DEF SlotName, ListSlot, Messages, ProxyCalls
    <3>2. Step(a)[1] \notin ProxyCalls
      BY <1>8, <3>1, <1>2 DEF SlotName, ProxyCalls
    <3>3. QED
      BY <1>2, <1>5, <3>1, <3>2, Kinds DEF Messages
  <2>2. QED
    BY <1>1, <1>8, <2>1, Stops DEF Clash
<1>9. QED
  BY <1>6, <1>7, <1>8

-----------------------------------------------------------------------------
(* Messages that the broker sends.                                         *)

LEMMA Delivered ==
    ASSUME MessageInv, OnceInv, in \in Seq(MessageSet), NEW y \in MessageSet,
           in' = Append(in, y), y.msg # "FreeObject", Owed(y)', Sound(y)',
           \A x \in MessageSet : Owed(x) => Owed(x)', \A x : Sound(x) => Sound(x)',
           \A i \in 1..Len(in) : in[i].msg # "FreeObject" => in[i].from # y.from,
           \A v \in Workers : todo'[v] # <<>> =>
               todo[v] # <<>> /\ job'[v] = job[v] /\ job[v].from # y.from
    PROVE  MessageInv' /\ OnceInv' /\ in' \in Seq(MessageSet)
<1>1. /\ in' \in Seq(MessageSet) /\ Len(in') = Len(in) + 1 /\ Len(in) \in Nat
      /\ in'[Len(in) + 1] = y
      /\ \A i \in 1..Len(in) : in'[i] = in[i] /\ in[i] \in MessageSet
  BY AppendOf, ElementOf
<1>2. \A i \in 1..Len(in') : i \in 1..Len(in) \/ i = Len(in) + 1
  BY <1>1
<1>3. MessageInv'
  <2>1. ASSUME NEW i \in 1..Len(in')
        PROVE  (IF in[i].msg = "FreeObject" THEN in[i].id \in Nat
                ELSE Owed(in[i]) /\ Sound(in[i]))'
    <3>1. CASE i = Len(in) + 1
      BY <1>1, <3>1
    <3>2. CASE i \in 1..Len(in)
      <4>1. PICK x : x = in[i]
        OBVIOUS
      <4>2. in'[i] = x /\ x \in MessageSet
        BY <1>1, <3>2, <4>1
      <4>3. IF x.msg = "FreeObject" THEN x.id \in Nat ELSE Owed(x) /\ Sound(x)
        BY <3>2, <4>1 DEF MessageInv
      <4>4. QED
        BY <4>2, <4>3
    <3>3. QED
      BY <1>2, <3>1, <3>2
  <2>2. ASSUME NEW w \in Workers, todo'[w] # <<>>
        PROVE  (job[w] \in MessageSet /\ job[w].msg \in Requests /\ Owed(job[w]))'
    <3>1. PICK x : x = job[w]
      OBVIOUS
    <3>2. job'[w] = x
      BY <2>2, <3>1
    <3>3. x \in MessageSet /\ x.msg \in Requests /\ Owed(x)
      BY <2>2, <3>1 DEF MessageInv
    <3>4. QED
      BY <3>2, <3>3
  <2>3. QED
    BY <2>1, <2>2 DEF MessageInv
<1>4. OnceInv'
  <2>1. ASSUME NEW i \in 1..Len(in'), NEW j \in 1..Len(in'), i # j,
               in'[i].msg # "FreeObject", in'[j].msg # "FreeObject"
        PROVE  in'[i].from # in'[j].from
    BY <1>1, <1>2, <2>1 DEF OnceInv
  <2>2. ASSUME NEW i \in 1..Len(in'), NEW w \in Workers,
               in'[i].msg # "FreeObject", todo'[w] # <<>>
        PROVE  in'[i].from # job'[w].from
    BY <1>1, <1>2, <2>2 DEF OnceInv
  <2>3. QED
    BY <2>1, <2>2 DEF OnceInv
<1>5. QED
  BY <1>1, <1>3, <1>4

(* A message that is passed on with another kind, id or value. *)
LEMMA Edited ==
    ASSUME NEW A, NEW B, NEW C, NEW D, NEW E,
           NEW r \in [msg : A, args : B, id : C, val : D, from : E], NEW m, NEW j, NEW v
    PROVE  /\ LET y == [r EXCEPT !.val = v] IN
              /\ y \in [msg : A, args : B, id : C, val : {v}, from : E]
              /\ y.msg = r.msg /\ y.args = r.args /\ y.id = r.id /\ y.val = v
              /\ y.from = r.from
           /\ LET y == [r EXCEPT !.msg = m, !.id = j] IN
              /\ y \in [msg : {m}, args : B, id : {j}, val : D, from : E]
              /\ y.msg = m /\ y.args = r.args /\ y.id = j /\ y.val = r.val
              /\ y.from = r.from
           /\ LET y == [r EXCEPT !.msg = m, !.id = j, !.val = v] IN
              /\ y \in [msg : {m}, args : B, id : {j}, val : {v}, from : E]
              /\ y.msg = m /\ y.args = r.args /\ y.id = j /\ y.val = v
              /\ y.from = r.from
  OBVIOUS

LEMMA FreedBefore ==
    ASSUME FreeInv, ObjectInv, in \in Seq(MessageSet), NEW y \in MessageSet,
           in' = Append(in, y), y.msg # "FreeObject",
           regobjects' = regobjects, raced' = raced, live \subseteq 1..Len(objects),
           \A g \in 1..Len(objects) : /\ g \in 1..Len(objects') /\ objects'[g] = objects[g]
                                      /\ g \notin live => g \notin live',
           y.msg = "MethodCall" => \E g \in live : y.val = objects[g].oid
    PROVE  FreeInv'
<1> SUFFICES ASSUME ~raced
             PROVE  FreeInv'
  BY DEF FreeInv
<1>1. /\ Len(in') = Len(in) + 1 /\ Len(in) \in Nat /\ in'[Len(in) + 1] = y
      /\ \A i \in 1..Len(in) : in'[i] = in[i]
  BY AppendOf
<1>2. ASSUME NEW i \in 1..Len(in')
      PROVE  /\ in'[i].msg = "FreeObject" =>
                    \E g \in 1..Len(objects') : g \notin live' /\ in'[i].id = objects'[g].oid
             /\ in'[i].msg = "MethodCall" =>
                    /\ in'[i].val \in DOMAIN regobjects
                    /\ \E g \in 1..Len(objects') : in'[i].val = objects'[g].oid
                    /\ \A j \in 1..Len(in') : j < i /\ in'[j].msg = "FreeObject" =>
                                                  in'[j].id # in'[i].val
  <2>1. CASE i <= Len(in)
    <3>1. i \in 1..Len(in) /\ in'[i] = in[i]
      BY <1>1, <1>2, <2>1
    <3>2. ASSUME in[i].msg = "FreeObject"
          PROVE  \E g \in 1..Len(objects') : g \notin live' /\ in[i].id = objects'[g].oid
      <4>1. PICK g \in 1..Len(objects) : g \notin live /\ in[i].id = objects[g].oid
        BY <3>1, <3>2 DEF FreeInv
      <4>2. QED
        BY <4>1
    <3>3. ASSUME in[i].msg = "MethodCall"
          PROVE  /\ in[i].val \in DOMAIN regobjects
                 /\ \E g \in 1..Len(objects') : in[i].val = objects'[g].oid
                 /\ \A j \in 1..Len(in) : j < i /\ in[j].msg = "FreeObject" =>
                                              in[j].id # in[i].val
      <4>1. PICK g \in 1..Len(objects) : in[i].val = objects[g].oid
        BY <3>1, <3>3 DEF FreeInv
      <4>2. QED
        BY <3>1, <3>3, <4>1 DEF FreeInv
    <3>4. \A j \in 1..Len(in') : j < i => j \in 1..Len(in) /\ in'[j] = in[j]
      BY <1>1, <3>1
    <3>5. QED
      BY <3>1, <3>2, <3>3, <3>4
  <2>2. CASE i = Len(in) + 1 /\ y.msg = "MethodCall"
    <3>1. PICK g \in live : y.val = objects[g].oid
      BY <2>2
    <3>2. y.val \in DOMAIN regobjects
      BY <3>1 DEF ObjectInv
    <3>3. ASSUME NEW j \in 1..Len(in), in[j].msg = "FreeObject"
          PROVE  in[j].id # y.val
      <4>1. PICK h \in 1..Len(objects) : h \notin live /\ in[j].id = objects[h].oid
        BY <3>3 DEF FreeInv
      <4>2. QED
        BY <3>1, <4>1 DEF ObjectInv
    <3>4. QED
      BY <1>1, <2>2, <3>1, <3>2, <3>3
  <2>3. CASE i = Len(in) + 1 /\ y.msg # "MethodCall"
    BY <1>1, <2>3
  <2>4. QED
    BY <1>1, <1>2, <2>1, <2>2, <2>3
<1>3. QED
  BY <1>2 DEF FreeInv

(* The broker is told of an object.                                        *)
LEMMA NewObject ==
    ASSUME IInv, NEW a \in Actors, Unsent(a), ~Unsent(a)',
           objects' = Append(objects, own[a]), live' = live \cup {Len(objects')},
           UNCHANGED <<regobjects, raced, objectid>>,
           \A b \in Actors \ {a} : Unsent(b)' => Unsent(b) /\ own'[b] = own[b]
    PROVE  /\ ObjectInv' /\ objects' \in Seq(Owned) /\ Len(objects') = Len(objects) + 1
           /\ Len(objects) \in Nat /\ live' \subseteq 1..Len(objects')
           /\ \A g \in 1..Len(objects) : /\ g \in 1..Len(objects') /\ objects'[g] = objects[g]
                                         /\ g \notin live => g \notin live'
<1>1. objects \in Seq(Owned) /\ live \subseteq 1..Len(objects) /\ own[a] \in Owned
  BY Told DEF IInv, Types
<1>2. /\ objects' \in Seq(Owned) /\ Len(objects') = Len(objects) + 1 /\ Len(objects) \in Nat
      /\ objects'[Len(objects) + 1] = own[a]
      /\ \A g \in 1..Len(objects) : objects'[g] = objects[g]
  BY <1>1, AppendOf
<1>3. /\ live' \subseteq 1..Len(objects')
      /\ \A g \in 1..Len(objects) : /\ g \in 1..Len(objects')
                                    /\ g \notin live => g \notin live'
  <2>1. /\ 1..Len(objects) \subseteq 1..Len(objects') /\ Len(objects') \in 1..Len(objects')
        /\ Len(objects') \notin 1..Len(objects)
    BY <1>2
  <2>2. QED
    BY <1>1, <2>1
<1>4. ASSUME ~raced
      PROVE  ObjectInv'
  <2>1. ObjectInv /\ own[a].oid <= objectid
    BY <1>1, <1>4, ConstantsAssumption DEF IInv, NumberInv, Owned
  <2>2. \A g \in live' : /\ objects'[g].oid \in DOMAIN regobjects'
                         /\ regobjects'[objects'[g].oid] = objects'[g].obj
    BY <1>1, <1>2, <1>4, <2>1 DEF ObjectInv
  <2>3. \A g \in 1..Len(objects') : objects'[g].oid <= objectid'
    BY <1>2, <1>4, <2>1 DEF ObjectInv
  <2>4. \A g, h \in 1..Len(objects') : g # h => objects'[g].oid # objects'[h].oid
    BY <1>2, <1>4, <2>1 DEF ObjectInv
  <2>5. ASSUME NEW b \in Actors, Unsent(b)'
        PROVE  /\ own'[b].oid \in DOMAIN regobjects' /\ regobjects'[own'[b].oid] = own'[b].obj
               /\ \A g \in 1..Len(objects') : objects'[g].oid # own'[b].oid
    <3>1. b # a /\ Unsent(b) /\ own'[b] = own[b]
      BY <2>5
    <3>2. own[b] # None /\ own[a] # None
      BY <1>1, <3>1, Told, ConstantsAssumption DEF Owned
    <3>3. own[b].oid # own[a].oid
      BY <1>4, <3>1, <3>2 DEF IInv, NumberInv
    <3>4. QED
      BY <1>2, <1>4, <2>1, <3>1, <3>3 DEF ObjectInv
  <2>6. QED
    BY <1>4, <2>1, <2>2, <2>3, <2>4, <2>5 DEF ObjectInv
<1>5. raced => ObjectInv'
  BY DEF ObjectInv
<1>6. QED
  BY <1>2, <1>3, <1>4, <1>5

-----------------------------------------------------------------------------
(* A thread sends a message and waits.                                     *)

(* The message x asks what thread a is about to ask. *)
Asked(a, x) ==
    /\ x.from = a /\ x.args = Tail(Step(a))
    /\ IF x.msg \in Requests
       THEN /\ x.id = <<Step(a)[1], Id(a)>>
            /\ Step(a)[1] \in ProxyCalls /\ x.msg = Forwarded[Step(a)[1]]
       ELSE x.msg = Step(a)[1] /\ x.id = Id(a)

LEMMA AskCommon ==
    ASSUME IInv, NEW a \in Actors, Ask(a), 1..Len(objects) \subseteq 1..Len(objects')
    PROVE  /\ todo[a] # <<>> /\ slot[a] = <<>> /\ Step(a)[1] \in Messages
           /\ Step(a) \in StepSet
           /\ WaitInv' /\ StepInv' /\ ConstructInv' /\ NumberInv' /\ RunInv' /\ FaultInv'
           /\ \A x \in MessageSet : Owed(x) => Owed(x)' /\ x.from # a
           /\ \A x : Asked(a, x) => Owed(x)'
           /\ classes \subseteq classes' => \A x : Sound(x) => Sound(x)'
           /\ ~Unsent(a)' /\ \A b \in Actors : Unsent(b)' => Unsent(b) /\ own'[b] = own[b]
           /\ in' \in Seq(MessageSet) /\ objects' \in Seq(Owned)
              /\ live' \subseteq 1..Len(objects') /\ classes' \subseteq Names => Types'
<1>1. /\ todo[a] # <<>> /\ slot[a] = <<>> /\ Step(a)[1] \in Messages
      /\ slot' = [slot EXCEPT ![a] = SlotName(a)] /\ Sharing(a) = {}
  BY DEF Ask, At, Step
<1>2. UNCHANGED <<todo, cnt, answer, tmp, cid, own, ref, job, obj, callid, objectid, made,
                  raced, regclasses, regobjects, proxies, fault>>
  BY DEF Ask, counters, tables
<1>3. \A b \in Actors : Step(b)' = Step(b) /\ Id(b)' = Id(b) /\ SlotName(b)' = SlotName(b)
  BY <1>2, Keeps
<1>4. /\ slot'[a] = SlotName(a) /\ slot'[a] # <<>>
      /\ \A b \in Actors \ {a} : slot'[b] = slot[b] /\ slot[b] # slot'[a]
      /\ slot' = [b \in Actors |-> slot'[b]]
  <2>1. SlotName(a) # <<>>
    BY <1>1 DEF SlotName, Messages, ListSlot
  <2>2. slot = [b \in Actors |-> slot[b]]
    BY DEF IInv, Types
  <2>3. QED
    BY <1>1, <2>1, <2>2 DEF Sharing
<1>5. Step(a) \in StepSet
  <2>1. todo[a] \in Seq(StepSet)
    BY DEF IInv, Types
  <2>2. QED
    BY <1>1, <2>1, TailOf DEF Step
<1>6. Refs \subseteq Refs'
  BY DEF Refs
<1>7. answer[a] = None
  BY <1>1 DEF IInv, WaitInv
<1>8. WaitInv'
  <2>1. ASSUME NEW b \in Actors
        PROVE  /\ slot'[b] # <<>> => todo[b] # <<>> /\ Step(b)[1] \in Messages
                                     /\ slot'[b] = SlotName(b)
               /\ answer[b] # None => /\ slot'[b] # <<>> /\ answer[b].from = b
                                      /\ answer[b].val \in Refs
    BY <1>1, <1>4, <1>7 DEF IInv, WaitInv
  <2>2. ASSUME NEW b \in Actors, NEW c \in Actors, b # c, slot'[b] # <<>>
        PROVE  slot'[b] # slot'[c]
    BY <1>4, <2>2 DEF IInv, WaitInv
  <2>3. QED
    BY <1>2, <1>3, <1>6, <2>1, <2>2 DEF WaitInv
<1>9. StepInv'
  <2>1. \A b \in Actors : Ready(b) => Ready(b)'
    BY <1>2, <1>3 DEF Ready
  <2>2. QED
    BY <1>2, <2>1 DEF IInv, StepInv
<1>10. ConstructInv' /\ NumberInv' /\ RunInv' /\ FaultInv'
  <2>1. ConstructInv'
    BY <1>2, <1>3 DEF IInv, ConstructInv, Actors
  <2>2. RunInv' /\ FaultInv'
    BY <1>2 DEF IInv, RunInv, FaultInv
  <2>3. NumberInv'
    BY <1>2 DEF IInv, NumberInv
  <2>4. QED
    BY <2>1, <2>2, <2>3
<1>11. ASSUME NEW x \in MessageSet, Owed(x)
       PROVE  Owed(x)' /\ x.from # a
  <2>1. x.from \in Actors /\ x.from # a
    BY <1>1, <1>11 DEF Owed, MessageSet, Answers, Forwards
  <2>2. QED
    BY <1>2, <1>3, <1>4, <1>11, <2>1 DEF Owed
<1>12. ASSUME NEW x, Asked(a, x)
       PROVE  Owed(x)'
  BY <1>2, <1>3, <1>4, <1>7, <1>12 DEF Owed, Asked
<1>13. ASSUME classes \subseteq classes', NEW x, Sound(x)
       PROVE  Sound(x)'
  BY <1>6, <1>13 DEF Sound
<1>14. ~Unsent(a)' /\ \A b \in Actors : Unsent(b)' => Unsent(b) /\ own'[b] = own[b]
  BY <1>2, <1>3, <1>4 DEF Unsent
<1>15. ASSUME in' \in Seq(MessageSet), objects' \in Seq(Owned),
              live' \subseteq 1..Len(objects'), classes' \subseteq Names
       PROVE  Types'
  <2>1. ref' \in [Actors -> Refs'] /\ proxies' \subseteq Refs' \ {None}
    BY <1>2, <1>6 DEF IInv, Types
  <2>2. QED
    BY <1>2, <1>4, <1>15, <2>1 DEF IInv, Types
<1>16. QED
  BY <1>1, <1>5, <1>8, <1>9, <1>10, <1>11, <1>12, <1>13, <1>14, <1>15

LEMMA Requested ==
    ASSUME IInv, NEW a \in Actors, todo[a] # <<>>, slot[a] = <<>>,
           Step(a) \in StepSet, Step(a)[1] \in Messages
    PROVE  /\ Id(a) \in Nat \cup {None} /\ Tail(Step(a)) \in Arguments
           /\ ref[a] \in Refs /\ ref[a] \in Nat \cup {None}
           /\ Step(a)[1] \in ProxyCalls => Id(a) \in Nat
           /\ Step(a)[1] = "RegisterObject" => Unsent(a) /\ own[a] \in Owned
           /\ \A i \in 1..Len(in) : in[i] \in MessageSet
           /\ in \in Seq(MessageSet) /\ objects \in Seq(Owned) /\ live \subseteq 1..Len(objects)
           /\ classes \subseteq Names
           /\ \A i \in 1..Len(in) : in[i].msg # "FreeObject" => Owed(in[i])
           /\ \A v \in Workers : todo[v] # <<>> => job[v] \in MessageSet /\ Owed(job[v])
<1>1. ref[a] \in Refs /\ cid[a] \in Nat /\ in \in Seq(MessageSet)
      /\ objects \in Seq(Owned) /\ live \subseteq 1..Len(objects) /\ classes \subseteq Names
  BY DEF IInv, Types
<1>2. ref[a] \in Nat \cup {None}
  BY <1>1 DEF Refs
<1>3. Tail(Step(a)) \in Arguments
  BY DEF Arguments
<1>4. Step(a)[1] = "RegisterObject" => Unsent(a) /\ own[a] \in Owned
  BY Told DEF Unsent
<1>5. Id(a) \in Nat \cup {None} /\ (Step(a)[1] \in ProxyCalls => Id(a) \in Nat)
  BY <1>1, <1>2, <1>4 DEF Id, Owned
<1>6. \A i \in 1..Len(in) : in[i] \in MessageSet
  BY <1>1, ElementOf
<1>7. /\ \A i \in 1..Len(in) : in[i].msg # "FreeObject" => Owed(in[i])
      /\ \A v \in Workers : todo[v] # <<>> => job[v] \in MessageSet /\ Owed(job[v])
  BY DEF IInv, MessageInv
<1>8. QED
  BY <1>1, <1>2, <1>3, <1>4, <1>5, <1>6, <1>7

(* ConstructObject, CallStatic, CallMethod.                                *)
LEMMA AskForwards ==
    ASSUME IInv, NEW a \in Actors, Ask(a), Step(a)[1] \in ProxyCalls
    PROVE  IInv'
<1>1. BrokerForwards(Request(a)) /\ UNCHANGED <<classes, objects, live>>
  <2>1. Request(a).msg = Step(a)[1] /\ Send(Request(a))
    BY DEF Ask, Request
  <2>2. BrokerForwards(Request(a))
    BY <2>1 DEF Send, ProxyCalls, Requests
  <2>3. QED
    BY <2>2 DEF BrokerForwards, broker
<1>2. /\ todo[a] # <<>> /\ slot[a] = <<>> /\ Step(a)[1] \in Messages
      /\ Step(a) \in StepSet
      /\ WaitInv' /\ StepInv' /\ ConstructInv' /\ NumberInv' /\ RunInv' /\ FaultInv'
      /\ \A x \in MessageSet : Owed(x) => Owed(x)' /\ x.from # a
      /\ \A x : Asked(a, x) => Owed(x)'
      /\ \A x : Sound(x) => Sound(x)'
      /\ \A b \in Actors : Unsent(b)' => Unsent(b) /\ own'[b] = own[b]
      /\ in' \in Seq(MessageSet) /\ objects' \in Seq(Owned)
         /\ live' \subseteq 1..Len(objects') /\ classes' \subseteq Names => Types'
  BY <1>1, AskCommon
<1>3. /\ Id(a) \in Nat /\ Tail(Step(a)) \in Arguments
      /\ ref[a] \in Refs /\ ref[a] \in Nat \cup {None}
      /\ \A i \in 1..Len(in) : in[i] \in MessageSet
      /\ in \in Seq(MessageSet) /\ objects \in Seq(Owned) /\ live \subseteq 1..Len(objects)
      /\ classes \subseteq Names
      /\ \A i \in 1..Len(in) : in[i].msg # "FreeObject" => Owed(in[i])
      /\ \A v \in Workers : todo[v] # <<>> => job[v] \in MessageSet /\ Owed(job[v])
  BY <1>2, Requested
<1>4. UNCHANGED <<todo, job, regobjects, regclasses, objectid, raced>>
  BY DEF Ask, counters, tables
<1> DEFINE known == IF Step(a)[1] = "CallMethod" THEN ref[a] \in live
                    ELSE Tail(Step(a))[1] \in classes
           value == IF Step(a)[1] = "CallMethod" THEN objects[ref[a]].oid ELSE ref[a]
<1>5. known => value \in Nat \cup {None} /\ (Step(a)[1] = "CallMethod" => value \in Nat)
  <2>1. ASSUME known, Step(a)[1] = "CallMethod"
        PROVE  objects[ref[a]] \in Owned
    BY <1>3, <2>1, ElementOf
  <2>2. QED
    BY <1>3, <2>1 DEF Owned
<1>6. Forwarded[Step(a)[1]] \in Requests
  BY DEF Forwarded, Requests, ProxyCalls
<1>7. PICK y : /\ in' = Append(in, y) /\ y \in MessageSet /\ y.msg # "FreeObject"
               /\ Asked(a, y)
               /\ known => y.msg = Forwarded[Step(a)[1]] /\ y.val = value
               /\ ~known => y.msg = Step(a)[1] /\ y.val = None
  <2>1. PICK r : r = Request(a)
    OBVIOUS
  <2>2. /\ r \in [msg : {Step(a)[1]}, args : Arguments, id : Nat, val : Nat \cup {None},
                  from : Actors]
        /\ r.msg = Step(a)[1] /\ r.args = Tail(Step(a)) /\ r.id = Id(a) /\ r.val = ref[a]
        /\ r.from = a
    BY <1>3, <2>1 DEF Request, ProxyCalls
  <2>3. CASE known
    <3>1. in' = Append(in, [r EXCEPT !.msg = Forwarded[Step(a)[1]],
                                     !.id = <<Step(a)[1], Id(a)>>, !.val = value])
      BY <1>1, <2>1, <2>2, <2>3 DEF BrokerForwards
    <3>2. PICK y : y = [r EXCEPT !.msg = Forwarded[Step(a)[1]],
                                 !.id = <<Step(a)[1], Id(a)>>, !.val = value]
      OBVIOUS
    <3> HIDE DEF value, known
    <3>3. /\ y \in [msg : {Forwarded[Step(a)[1]]}, args : Arguments,
                    id : {<<Step(a)[1], Id(a)>>}, val : {value}, from : Actors]
          /\ y.msg = Forwarded[Step(a)[1]] /\ y.args = r.args
          /\ y.id = <<Step(a)[1], Id(a)>> /\ y.val = value /\ y.from = r.from
      BY <2>2, <3>2, Edited
    <3>4. y \in MessageSet
      BY <1>3, <1>5, <1>6, <2>3, <3>3 DEF MessageSet, Forwards
    <3>5. y.msg # "FreeObject" /\ Asked(a, y)
      BY <1>6, <2>2, <3>3 DEF Asked, Requests
    <3>6. QED
      BY <2>3, <3>1, <3>2, <3>3, <3>4, <3>5
  <2>4. CASE ~known
    <3>1. in' = Append(in, [r EXCEPT !.val = None])
      BY <1>1, <2>1, <2>2, <2>4 DEF BrokerForwards
    <3>2. PICK y : y = [r EXCEPT !.val = None]
      OBVIOUS
    <3> HIDE DEF value, known
    <3>3. /\ y \in [msg : {Step(a)[1]}, args : Arguments, id : Nat, val : {None},
                    from : Actors]
          /\ y.msg = r.msg /\ y.args = r.args /\ y.id = r.id /\ y.val = None
          /\ y.from = r.from
      BY <2>2, <3>2, Edited
    <3>4. y \in MessageSet
      BY <1>2, <3>3 DEF MessageSet, Answers
    <3>5. y.msg # "FreeObject" /\ Asked(a, y)
      BY <2>2, <3>3 DEF Asked, Requests, ProxyCalls
    <3>6. QED
      BY <2>2, <2>4, <3>1, <3>2, <3>3, <3>4, <3>5
  <2>5. QED
    BY <2>3, <2>4
<1>8. y.from = a /\ y.args = Tail(Step(a))
  BY <1>7 DEF Asked
<1>9. Sound(y)
  <2>1. CASE ~known
    BY <1>7, <2>1 DEF Sound, Refs, Messages, ProxyCalls
  <2>2. CASE known /\ Step(a)[1] = "CallMethod"
    <3>1. y.msg = "MethodCall" /\ y.val \in Nat
      BY <1>5, <1>7, <2>2 DEF Forwarded
    <3>2. QED
      BY <3>1 DEF Sound, Messages, ProxyCalls
  <2>3. CASE known /\ Step(a)[1] # "CallMethod"
    <3>1. y.msg = Forwarded[Step(a)[1]] /\ y.val = ref[a] /\ y.args[1] \in classes
      BY <1>7, <1>8, <2>3
    <3>2. y.msg \in {"Construct", "StaticCall"}
      BY <2>3, <3>1 DEF Forwarded, ProxyCalls
    <3>3. QED
      BY <1>3, <3>1, <3>2 DEF Sound
  <2>4. QED
    BY <2>1, <2>2, <2>3
<1>10. MessageInv' /\ OnceInv' /\ in' \in Seq(MessageSet)
  <2>1. Owed(y)' /\ Sound(y)'
    BY <1>2, <1>7, <1>9
  <2>2. \A i \in 1..Len(in) : in[i].msg # "FreeObject" => in[i].from # y.from
    BY <1>2, <1>3, <1>8
  <2>3. \A v \in Workers : todo'[v] # <<>> =>
            todo[v] # <<>> /\ job'[v] = job[v] /\ job[v].from # y.from
    BY <1>2, <1>3, <1>4, <1>8
  <2>4. MessageInv /\ OnceInv
    BY DEF IInv
  <2> HIDE DEF known, value
  <2>5. QED
    BY <1>2, <1>3, <1>7, <2>1, <2>2, <2>3, <2>4, Delivered
<1>11. ObjectInv' /\ FreeInv'
  <2>1. ASSUME y.msg = "MethodCall"
        PROVE  \E g \in live : y.val = objects[g].oid
    <3>1. known
      BY <1>7, <2>1 DEF ProxyCalls
    <3>2. Step(a)[1] = "CallMethod"
      <4>1. Forwarded[Step(a)[1]] = "MethodCall"
        BY <1>7, <2>1, <3>1
      <4>2. QED
        BY <4>1 DEF Forwarded, ProxyCalls
    <3>3. ref[a] \in live /\ y.val = objects[ref[a]].oid
      BY <1>7, <3>1, <3>2
    <3>4. QED
      BY <3>3
  <2>2. FreeInv /\ ObjectInv
    BY DEF IInv
  <2> HIDE DEF known, value
  <2>3. ObjectInv'
    BY <1>1, <1>2, <1>4, <2>2 DEF ObjectInv
  <2>4. FreeInv'
    BY <1>1, <1>3, <1>4, <1>7, <2>1, <2>2, FreedBefore
  <2>5. QED
    BY <2>3, <2>4
<1>12. ClassesStored'
  BY <1>1, <1>4 DEF IInv, ClassesStored
<1>13. QED
  BY <1>1, <1>2, <1>3, <1>10, <1>11, <1>12 DEF IInv

LEMMA AskRegisters ==
    ASSUME IInv, NEW a \in Actors, Ask(a), Step(a)[1] = "RegisterObject"
    PROVE  IInv'
<1>1. /\ todo[a] # <<>> /\ slot[a] = <<>> /\ Step(a)[1] \in Messages
      /\ Step(a) \in StepSet
  <2>1. todo[a] # <<>> /\ slot[a] = <<>> /\ Step(a)[1] \in Messages
    BY DEF Ask, At, Step
  <2>2. todo[a] \in Seq(StepSet)
    BY DEF IInv, Types
  <2>3. QED
    BY <2>1, <2>2, TailOf DEF Step
<1>2. /\ Id(a) \in Nat \cup {None} /\ Tail(Step(a)) \in Arguments
      /\ Unsent(a) /\ own[a] \in Owned
      /\ \A i \in 1..Len(in) : in[i] \in MessageSet
      /\ in \in Seq(MessageSet) /\ objects \in Seq(Owned) /\ live \subseteq 1..Len(objects)
      /\ classes \subseteq Names
      /\ \A i \in 1..Len(in) : in[i].msg # "FreeObject" => Owed(in[i])
      /\ \A v \in Workers : todo[v] # <<>> => job[v] \in MessageSet /\ Owed(job[v])
  BY <1>1, Requested
<1>3. PICK r : r = Request(a)
  OBVIOUS
<1>4. /\ r \in [msg : {Step(a)[1]}, args : Arguments, id : Nat \cup {None}, val : Owned,
                from : Actors]
      /\ r.msg = Step(a)[1] /\ r.args = Tail(Step(a)) /\ r.id = Id(a) /\ r.val = own[a]
      /\ r.from = a
  BY <1>2, <1>3 DEF Request
<1>5. BrokerRegisters(r)
  <2>1. Send(r)
    BY <1>3 DEF Ask
  <2>2. QED
    BY <1>4, <2>1 DEF Send, ProxyCalls, Requests
<1>6. /\ objects' = Append(objects, own[a]) /\ live' = live \cup {Len(objects')}
      /\ UNCHANGED <<todo, job, regobjects, regclasses, objectid, raced, classes>>
  BY <1>4, <1>5 DEF BrokerRegisters, Ask, counters, tables
<1>7. 1..Len(objects) \subseteq 1..Len(objects')
  <2>1. Len(objects') = Len(objects) + 1 /\ Len(objects) \in Nat
    BY <1>2, <1>6, AppendOf
  <2>2. QED
    BY <2>1
<1>8. /\ WaitInv' /\ StepInv' /\ ConstructInv' /\ NumberInv' /\ RunInv' /\ FaultInv'
      /\ \A x \in MessageSet : Owed(x) => Owed(x)' /\ x.from # a
      /\ \A x : Asked(a, x) => Owed(x)'
      /\ \A x : Sound(x) => Sound(x)'
      /\ ~Unsent(a)' /\ \A b \in Actors : Unsent(b)' => Unsent(b) /\ own'[b] = own[b]
      /\ in' \in Seq(MessageSet) /\ objects' \in Seq(Owned)
         /\ live' \subseteq 1..Len(objects') /\ classes' \subseteq Names => Types'
  BY <1>6, <1>7, AskCommon
<1>9. /\ ObjectInv' /\ objects' \in Seq(Owned) /\ Len(objects') = Len(objects) + 1
      /\ Len(objects) \in Nat /\ live' \subseteq 1..Len(objects')
      /\ \A g \in 1..Len(objects) : /\ g \in 1..Len(objects') /\ objects'[g] = objects[g]
                                    /\ g \notin live => g \notin live'
  BY <1>2, <1>6, <1>8, NewObject
<1>10. PICK y : y = [r EXCEPT !.val = Len(objects')]
  OBVIOUS
<1>11. /\ y \in [msg : {Step(a)[1]}, args : Arguments, id : Nat \cup {None},
                 val : {Len(objects')}, from : Actors]
       /\ y.msg = r.msg /\ y.args = r.args /\ y.id = r.id /\ y.val = Len(objects')
       /\ y.from = r.from
  BY <1>4, <1>10, Edited
<1>12. in' = Append(in, y)
  BY <1>5, <1>10 DEF BrokerRegisters
<1>13. /\ y \in MessageSet /\ y.msg = "RegisterObject" /\ y.from = a
       /\ Asked(a, y)
  BY <1>4, <1>9, <1>11 DEF MessageSet, Answers, Messages, Asked, Requests
<1>14. Sound(y)'
  BY <1>9, <1>11, <1>13 DEF Sound, Refs
<1>15. MessageInv' /\ OnceInv' /\ in' \in Seq(MessageSet)
  <2>1. Owed(y)'
    BY <1>8, <1>13
  <2>2. \A i \in 1..Len(in) : in[i].msg # "FreeObject" => in[i].from # y.from
    BY <1>2, <1>8, <1>13
  <2>3. \A v \in Workers : todo'[v] # <<>> =>
            todo[v] # <<>> /\ job'[v] = job[v] /\ job[v].from # y.from
    BY <1>2, <1>6, <1>8, <1>13
  <2>4. MessageInv /\ OnceInv
    BY DEF IInv
  <2>5. QED
    BY <1>2, <1>8, <1>12, <1>13, <1>14, <2>1, <2>2, <2>3, <2>4, Delivered
<1>16. FreeInv'
  <2>1. FreeInv /\ ObjectInv
    BY DEF IInv
  <2>2. QED
    BY <1>2, <1>6, <1>9, <1>12, <1>13, <2>1, FreedBefore
<1>17. ClassesStored'
  BY <1>6 DEF IInv, ClassesStored
<1>18. QED
  BY <1>2, <1>6, <1>8, <1>9, <1>15, <1>16, <1>17 DEF IInv

(* All other messages are answered at once.                                *)
LEMMA AskAnswers ==
    ASSUME IInv, NEW a \in Actors, Ask(a),
           Step(a)[1] \notin ProxyCalls \cup {"RegisterObject", "ReleaseObject"}
    PROVE  IInv'
<1>1. /\ todo[a] # <<>> /\ slot[a] = <<>> /\ Step(a)[1] \in Messages
      /\ Step(a) \in StepSet
  <2>1. todo[a] # <<>> /\ slot[a] = <<>> /\ Step(a)[1] \in Messages
    BY DEF Ask, At, Step
  <2>2. todo[a] \in Seq(StepSet)
    BY DEF IInv, Types
  <2>3. QED
    BY <2>1, <2>2, TailOf DEF Step
<1>2. /\ Id(a) \in Nat \cup {None} /\ Tail(Step(a)) \in Arguments
      /\ ref[a] \in Refs /\ ref[a] \in Nat \cup {None}
      /\ \A i \in 1..Len(in) : in[i] \in MessageSet
      /\ in \in Seq(MessageSet) /\ objects \in Seq(Owned) /\ live \subseteq 1..Len(objects)
      /\ classes \subseteq Names
      /\ \A i \in 1..Len(in) : in[i].msg # "FreeObject" => Owed(in[i])
      /\ \A v \in Workers : todo[v] # <<>> => job[v] \in MessageSet /\ Owed(job[v])
  BY <1>1, Requested
<1>3. PICK y : y = Request(a)
  OBVIOUS
<1>4. /\ y \in [msg : {Step(a)[1]}, args : Arguments, id : Nat \cup {None},
                val : Nat \cup {None}, from : Actors]
      /\ y.msg = Step(a)[1] /\ y.args = Tail(Step(a)) /\ y.id = Id(a) /\ y.val = ref[a]
      /\ y.from = a
  BY <1>2, <1>3 DEF Request
<1>5. y \in MessageSet /\ y.msg \notin Requests \cup {"FreeObject"} /\ Asked(a, y)
  BY <1>1, <1>4 DEF MessageSet, Answers, Messages, Asked, Requests, ProxyCalls
<1>6. BrokerAnswers(y)
  <2>1. Send(y)
    BY <1>3 DEF Ask
  <2>2. QED
    BY <1>4, <1>5, <2>1 DEF Send, ProxyCalls, Requests
<1>7. /\ in' = Append(in, y)
      /\ classes' = IF y.msg = "RegisterClass" THEN classes \cup {y.args[1]} ELSE classes
      /\ UNCHANGED <<todo, job, regobjects, regclasses, objectid, raced, objects, live>>
  BY <1>6 DEF BrokerAnswers, Ask, counters, tables
<1>8. /\ WaitInv' /\ StepInv' /\ ConstructInv' /\ NumberInv' /\ RunInv' /\ FaultInv'
      /\ \A x \in MessageSet : Owed(x) => Owed(x)' /\ x.from # a
      /\ \A x : Asked(a, x) => Owed(x)'
      /\ \A x : Sound(x) => Sound(x)'
      /\ \A b \in Actors : Unsent(b)' => Unsent(b) /\ own'[b] = own[b]
      /\ in' \in Seq(MessageSet) /\ objects' \in Seq(Owned)
         /\ live' \subseteq 1..Len(objects') /\ classes' \subseteq Names => Types'
  BY <1>7, AskCommon
<1>9. Sound(y)
  BY <1>1, <1>2, <1>4 DEF Sound, Messages, ProxyCalls
<1>10. MessageInv' /\ OnceInv' /\ in' \in Seq(MessageSet)
  <2>1. Owed(y)' /\ Sound(y)'
    BY <1>5, <1>8, <1>9
  <2>2. \A i \in 1..Len(in) : in[i].msg # "FreeObject" => in[i].from # y.from
    BY <1>2, <1>4, <1>8
  <2>3. \A v \in Workers : todo'[v] # <<>> =>
            todo[v] # <<>> /\ job'[v] = job[v] /\ job[v].from # y.from
    BY <1>2, <1>4, <1>7, <1>8
  <2>4. MessageInv /\ OnceInv
    BY DEF IInv
  <2>5. QED
    BY <1>2, <1>5, <1>7, <1>8, <2>1, <2>2, <2>3, <2>4, Delivered
<1>11. ClassesStored' /\ classes' \subseteq Names
  <2>1. ASSUME y.msg = "RegisterClass"
        PROVE  y.args[1] \in regclasses
    <3>1. y.args[1] = Step(a)[2]
      BY <1>1, <1>4, <2>1, Parameters
    <3>2. QED
      BY <1>1, <1>4, <2>1, <3>1 DEF IInv, StepInv, Ready
  <2>2. regclasses \subseteq Names /\ classes \subseteq regclasses
    BY DEF IInv, Types, ClassesStored
  <2>3. QED
    BY <1>7, <2>1, <2>2 DEF ClassesStored
<1>12. ObjectInv' /\ FreeInv'
  <2>1. FreeInv /\ ObjectInv
    BY DEF IInv
  <2>2. y.msg # "MethodCall"
    BY <1>1, <1>4 DEF Messages, ProxyCalls
  <2>3. ObjectInv'
    BY <1>7, <1>8, <2>1 DEF ObjectInv
  <2>4. FreeInv'
    BY <1>2, <1>5, <1>7, <2>1, <2>2, FreedBefore
  <2>5. QED
    BY <2>3, <2>4
<1>13. QED
  BY <1>2, <1>7, <1>8, <1>10, <1>11, <1>12 DEF IInv

(* The answer to ReleaseObject is followed by FreeObject.                  *)
LEMMA AskReleases ==
    ASSUME IInv, NEW a \in Actors, Ask(a), Step(a)[1] = "ReleaseObject"
    PROVE  IInv'
<1>1. /\ todo[a] # <<>> /\ slot[a] = <<>> /\ Step(a)[1] \in Messages
      /\ Step(a) \in StepSet
  <2>1. todo[a] # <<>> /\ slot[a] = <<>> /\ Step(a)[1] \in Messages
    BY DEF Ask, At, Step
  <2>2. todo[a] \in Seq(StepSet)
    BY DEF IInv, Types
  <2>3. QED
    BY <2>1, <2>2, TailOf DEF Step
<1>2. /\ Tail(Step(a)) \in Arguments
      /\ ref[a] \in Refs /\ Id(a) = ref[a]
      /\ \A i \in 1..Len(in) : in[i] \in MessageSet
      /\ in \in Seq(MessageSet) /\ objects \in Seq(Owned) /\ live \subseteq 1..Len(objects)
      /\ classes \subseteq Names
      /\ \A i \in 1..Len(in) : in[i].msg # "FreeObject" => Owed(in[i])
      /\ \A v \in Workers : todo[v] # <<>> => job[v] \in MessageSet /\ Owed(job[v])
  BY <1>1, Requested DEF Id, ProxyCalls
<1>3. ref[a] \in 1..Len(objects) /\ ref[a] \in Nat
  <2>1. ref[a] # None
    BY <1>1 DEF IInv, StepInv, Ready
  <2>2. QED
    BY <1>2, <2>1 DEF Refs
<1>4. objects[ref[a]].oid \in Nat
  <2>1. objects[ref[a]] \in Owned
    BY <1>2, <1>3, ElementOf
  <2>2. QED
    BY <2>1 DEF Owned
<1>5. PICK x : x = Request(a)
  OBVIOUS
<1>6. /\ x \in [msg : {Step(a)[1]}, args : Arguments, id : Nat, val : Nat, from : Actors]
      /\ x.msg = "ReleaseObject" /\ x.args = Tail(Step(a)) /\ x.id = ref[a] /\ x.val = ref[a]
      /\ x.from = a
  BY <1>2, <1>3, <1>5 DEF Request
<1>7. BrokerReleases(x)
  <2>1. Send(x)
    BY <1>5 DEF Ask
  <2>2. QED
    BY <1>6, <2>1 DEF Send, ProxyCalls, Requests
<1>8. PICK y : y = [x EXCEPT !.msg = "FreeObject", !.id = objects[ref[a]].oid]
  OBVIOUS
<1>9. /\ y \in [msg : {"FreeObject"}, args : Arguments, id : {objects[ref[a]].oid}, val : Nat,
                from : Actors]
      /\ y.msg = "FreeObject" /\ y.id = objects[ref[a]].oid
  BY <1>6, <1>8, Edited
<1>10. /\ x \in MessageSet /\ y \in MessageSet /\ Asked(a, x)
  BY <1>2, <1>4, <1>6, <1>9 DEF MessageSet, Answers, Messages, Asked, Requests
<1>11. /\ in' = in \o <<x, y>> /\ live' = live \ {ref[a]}
       /\ UNCHANGED <<todo, job, regobjects, regclasses, objectid, raced, objects, classes>>
  BY <1>6, <1>7, <1>8 DEF BrokerReleases, Ask, counters, tables
<1>12. /\ in' \in Seq(MessageSet) /\ Len(in) \in Nat /\ Len(in') = Len(in) + 2
       /\ in'[Len(in) + 1] = x /\ in'[Len(in) + 2] = y
       /\ \A i \in 1..Len(in) : in'[i] = in[i]
  <2>1. PICK s : s = Append(in, x)
    OBVIOUS
  <2>2. /\ s \in Seq(MessageSet) /\ Len(s) = Len(in) + 1 /\ Len(in) \in Nat
        /\ s[Len(in) + 1] = x /\ \A i \in 1..Len(in) : s[i] = in[i]
    BY <1>2, <1>10, <2>1, AppendOf
  <2>3. in' = Append(s, y)
    BY <1>2, <1>10, <1>11, <2>1, AppendTwo
  <2>4. /\ in' \in Seq(MessageSet) /\ Len(in') = Len(s) + 1
        /\ in'[Len(s) + 1] = y /\ \A i \in 1..Len(s) : in'[i] = s[i]
    BY <1>10, <2>2, <2>3, AppendOf
  <2>5. QED
    BY <2>2, <2>4
<1>13. \A i \in 1..Len(in') : i \in 1..Len(in) \/ i = Len(in) + 1 \/ i = Len(in) + 2
  BY <1>12
<1>14. /\ WaitInv' /\ StepInv' /\ ConstructInv' /\ NumberInv' /\ RunInv' /\ FaultInv'
       /\ \A z \in MessageSet : Owed(z) => Owed(z)' /\ z.from # a
       /\ \A z : Asked(a, z) => Owed(z)'
       /\ \A z : Sound(z) => Sound(z)'
       /\ \A b \in Actors : Unsent(b)' => Unsent(b) /\ own'[b] = own[b]
       /\ in' \in Seq(MessageSet) /\ objects' \in Seq(Owned)
          /\ live' \subseteq 1..Len(objects') /\ classes' \subseteq Names => Types'
  BY <1>11, AskCommon
<1>15. Sound(x)
  BY <1>2, <1>6 DEF Sound
<1>16. MessageInv'
  <2>1. ASSUME NEW i \in 1..Len(in')
        PROVE  (IF in[i].msg = "FreeObject" THEN in[i].id \in Nat
                ELSE Owed(in[i]) /\ Sound(in[i]))'
    <3>1. CASE i = Len(in) + 1
      BY <1>6, <1>10, <1>12, <1>14, <1>15, <3>1
    <3>2. CASE i = Len(in) + 2
      BY <1>4, <1>9, <1>12, <3>2
    <3>3. CASE i \in 1..Len(in)
      <4>1. PICK z : z = in[i]
        OBVIOUS
      <4>2. in'[i] = z /\ z \in MessageSet
        BY <1>2, <1>12, <3>3, <4>1
      <4>3. IF z.msg = "FreeObject" THEN z.id \in Nat ELSE Owed(z) /\ Sound(z)
        BY <3>3, <4>1 DEF IInv, MessageInv
      <4>4. QED
        BY <1>14, <4>2, <4>3
    <3>4. QED
      BY <1>13, <3>1, <3>2, <3>3
  <2>2. ASSUME NEW w \in Workers, todo'[w] # <<>>
        PROVE  (job[w] \in MessageSet /\ job[w].msg \in Requests /\ Owed(job[w]))'
    <3>1. PICK z : z = job[w]
      OBVIOUS
    <3>2. job'[w] = z
      BY <1>11, <3>1
    <3>3. z \in MessageSet /\ z.msg \in Requests /\ Owed(z)
      BY <1>11, <2>2, <3>1 DEF IInv, MessageInv
    <3>4. QED
      BY <1>14, <3>2, <3>3
  <2>3. QED
    BY <2>1, <2>2 DEF MessageInv
<1>17. OnceInv'
  <2>1. \A i \in 1..Len(in) : in[i].msg # "FreeObject" => in[i].from # x.from
    BY <1>2, <1>6, <1>14
  <2>2. \A w \in Workers : todo[w] # <<>> => job[w].from # x.from
    BY <1>2, <1>6, <1>14
  <2>3. ASSUME NEW i \in 1..Len(in'), NEW j \in 1..Len(in'), i # j,
               in'[i].msg # "FreeObject", in'[j].msg # "FreeObject"
        PROVE  in'[i].from # in'[j].from
    BY <1>9, <1>12, <1>13, <2>1, <2>3 DEF IInv, OnceInv
  <2>4. ASSUME NEW i \in 1..Len(in'), NEW w \in Workers,
               in'[i].msg # "FreeObject", todo[w] # <<>>
        PROVE  in'[i].from # job[w].from
    BY <1>9, <1>12, <1>13, <2>2, <2>4 DEF IInv, OnceInv
  <2>5. QED
    BY <1>11, <2>3, <2>4 DEF IInv, OnceInv
<1>18. ObjectInv'
  BY <1>11, <1>14 DEF IInv, ObjectInv
<1>19. FreeInv'
  <2> SUFFICES ASSUME ~raced
               PROVE  FreeInv'
    BY <1>11 DEF FreeInv
  <2>1. ASSUME NEW i \in 1..Len(in'), in'[i].msg = "FreeObject"
        PROVE  \E g \in 1..Len(objects) : g \notin live' /\ in'[i].id = objects[g].oid
    <3>1. CASE i \in 1..Len(in)
      BY <1>11, <1>12, <2>1, <3>1 DEF IInv, FreeInv
    <3>2. CASE i = Len(in) + 2
      BY <1>3, <1>9, <1>11, <1>12, <3>2
    <3>3. QED
      BY <1>6, <1>12, <1>13, <2>1, <3>1, <3>2
  <2>2. ASSUME NEW i \in 1..Len(in'), in'[i].msg = "MethodCall"
        PROVE  /\ in'[i].val \in DOMAIN regobjects
               /\ \E g \in 1..Len(objects) : in'[i].val = objects[g].oid
               /\ \A j \in 1..Len(in') : j < i /\ in'[j].msg = "FreeObject" =>
                                             in'[j].id # in'[i].val
    <3>1. i \in 1..Len(in) /\ in'[i] = in[i]
      BY <1>6, <1>9, <1>12, <1>13, <2>2
    <3>2. \A j \in 1..Len(in') : j < i => j \in 1..Len(in) /\ in'[j] = in[j]
      BY <1>12, <3>1
    <3>3. QED
      BY <2>2, <3>1, <3>2 DEF IInv, FreeInv
  <2>3. QED
    BY <1>11, <2>1, <2>2 DEF FreeInv
<1>20. ClassesStored' /\ Types'
  <2>1. ClassesStored'
    BY <1>11 DEF IInv, ClassesStored
  <2>2. Types'
    BY <1>2, <1>11, <1>12, <1>14
  <2>3. QED
    BY <2>1, <2>2
<1>21. QED
  BY <1>14, <1>16, <1>17, <1>18, <1>19, <1>20 DEF IInv

LEMMA AskStep ==
    ASSUME IInv, NEW a \in Actors, Ask(a)
    PROVE  IInv'
  BY AskForwards, AskRegisters, AskReleases, AskAnswers

-----------------------------------------------------------------------------
(* A thread returns from a call to the broker.                             *)

LEMMA ReturnStep ==
    ASSUME IInv, NEW a \in Actors, Return(a)
    PROVE  IInv'
<1> DEFINE m == Step(a)[1]
           val == answer[a].val
           rest == IF val = None /\ Tail(todo[a]) = << <<"GetObjectDef">> >> THEN <<>>
                   ELSE Tail(todo[a])
<1>1. /\ answer[a] # None /\ slot[a] # <<>> /\ todo[a] # <<>> /\ m \in Messages
      /\ val \in Refs
  BY DEF Return, IInv, WaitInv
<1>2. /\ todo' = [todo EXCEPT ![a] = rest] /\ slot' = [slot EXCEPT ![a] = <<>>]
      /\ answer' = [answer EXCEPT ![a] = None]
      /\ ref' = IF m \in {"RegisterObject", "CallStatic", "CallMethod"}
                THEN [ref EXCEPT ![a] = val] ELSE ref
      /\ proxies' \subseteq proxies \cup ({val, ref[a]} \ {None})
      /\ UNCHANGED <<cnt, tmp, cid, own, job, obj, callid, objectid, made, raced, regclasses,
                     regobjects, in, classes, objects, live, fault>>
  BY DEF Return, counters, tables, broker
<1>3. /\ todo[a] \in Seq(StepSet) /\ ref \in [Actors -> Refs] /\ in \in Seq(MessageSet)
      /\ slot = [b \in Actors |-> slot[b]] /\ answer \in [Actors -> MessageSet \cup {None}]
  BY DEF IInv, Types
<1>4. rest = Tail(todo[a]) \/ (a \notin Workers /\ rest = <<>>)
  <2>1. ASSUME a \in Workers, Tail(todo[a]) = << <<"GetObjectDef">> >>
        PROVE  FALSE
    <3>1. EndsInAnswer(todo[a])
      BY <1>1, <2>1 DEF IInv, StepInv
    <3>2. PICK t : t = Tail(todo[a])
      OBVIOUS
    <3>3. t = << <<"GetObjectDef">> >>
      BY <2>1, <3>2
    <3>4. t # <<>> /\ t[Len(t)][1] = "GetObjectDef"
      BY <3>3
    <3>5. todo[a][Len(todo[a])] = t[Len(t)]
      BY <1>1, <1>3, <3>2, <3>4, LastOf
    <3>6. QED
      BY <3>1, <3>4, <3>5 DEF EndsInAnswer
  <2>2. QED
    BY <2>1
<1> HIDE DEF rest, val
<1>5. /\ todo' \in [Actors -> Seq(StepSet)] /\ todo'[a] = rest
      /\ \A b \in Actors \ {a} : todo'[b] = todo[b]
      /\ Linked(rest) /\ (Counted(todo[a]) => Counted(rest))
      /\ rest # <<>> => Step(a)' \in StepSet /\ Follows(Step(a), Step(a)')
      /\ a \in Workers /\ rest # <<>> => EndsInAnswer(rest)
  <2>1. m # "CountCall"
    BY <1>1 DEF Messages, ProxyCalls
  <2>2. QED
    BY <1>1, <1>2, <1>4, <2>1, Advance DEF IInv
<1>6. \A b \in Actors \ {a} : /\ slot'[b] = slot[b] /\ answer'[b] = answer[b]
                              /\ ref'[b] = ref[b] /\ cid'[b] = cid[b] /\ own'[b] = own[b]
  BY <1>2
<1>7. slot'[a] = <<>> /\ answer'[a] = None
  BY <1>2, <1>3
<1>8. /\ Refs' = Refs
      /\ \A b \in Actors \ {a} : Step(b)' = Step(b) /\ Id(b)' = Id(b) /\ SlotName(b)' = SlotName(b)
  BY <1>2, <1>5, <1>6, Keeps DEF Refs
<1>9. Types'
  <2>1. ref' \in [Actors -> Refs]
    BY <1>1, <1>2, <1>3
  <2>2. proxies' \subseteq Refs \ {None}
    <3>1. ref[a] \in Refs /\ proxies \subseteq Refs \ {None}
      BY DEF IInv, Types
    <3>2. QED
      BY <1>1, <1>2, <3>1
  <2>3. slot' = [b \in Actors |-> slot'[b]] /\ answer' \in [Actors -> MessageSet \cup {None}]
    BY <1>2, <1>3
  <2>4. QED
    BY <1>2, <1>5, <1>8, <2>1, <2>2, <2>3 DEF IInv, Types
<1>10. WaitInv'
  <2>1. ASSUME NEW b \in Actors
        PROVE  (/\ slot[b] # <<>> => todo[b] # <<>> /\ Step(b)[1] \in Messages
                                     /\ slot[b] = SlotName(b)
                /\ answer[b] # None => /\ slot[b] # <<>> /\ answer[b].from = b
                                       /\ answer[b].val \in Refs)'
    <3>1. CASE b = a
      BY <1>7, <3>1
    <3>2. CASE b # a
      BY <1>5, <1>6, <1>8, <3>2 DEF IInv, WaitInv
    <3>3. QED
      BY <3>1, <3>2
  <2>2. ASSUME NEW b \in Actors, NEW c \in Actors, b # c, slot'[b] # <<>>
        PROVE  slot'[b] # slot'[c]
    BY <1>6, <1>7, <2>2 DEF IInv, WaitInv
  <2>3. QED
    BY <2>1, <2>2 DEF WaitInv
<1>11. StepInv'
  <2>1. rest # <<>> => Ready(a)'
    BY <1>1, <1>5 DEF Follows, Ready, Messages, ProxyCalls
  <2>2. ASSUME NEW b \in Actors \ {a}, todo'[b] # <<>>
        PROVE  Ready(b)'
    <3>1. Ready(b)
      BY <1>5, <2>2 DEF IInv, StepInv
    <3>2. QED
      BY <1>2, <1>5, <1>6, <3>1, StaysReady
  <2>3. \A b \in Actors : Linked(todo'[b]) /\ (cid'[b] > 0 \/ Counted(todo'[b]))
    BY <1>2, <1>5 DEF IInv, StepInv
  <2>4. \A w \in Workers : todo'[w] # <<>> => EndsInAnswer(todo'[w])
    BY <1>5 DEF IInv, StepInv, Actors
  <2>5. QED
    BY <1>5, <2>1, <2>2, <2>3, <2>4 DEF StepInv
<1>12. ASSUME NEW x \in MessageSet, Owed(x)
       PROVE  Owed(x)'
  <2>1. x.from \in Actors /\ x.from # a
    BY <1>1, <1>12 DEF Owed, MessageSet, Answers, Forwards
  <2>2. QED
    BY <1>6, <1>8, <1>12, <2>1 DEF Owed
<1>13. \A x : Sound(x) => Sound(x)'
  BY <1>2, <1>8 DEF Sound
<1>14. \A w \in Workers : todo'[w] # <<>> => todo[w] # <<>>
  BY <1>1, <1>5 DEF Actors
<1>15. MessageInv' /\ OnceInv'
  <2>1. \A i \in 1..Len(in) : in[i] \in MessageSet
    BY <1>3, ElementOf
  <2>2. MessageInv'
    BY <1>2, <1>12, <1>13, <1>14, <2>1 DEF IInv, MessageInv
  <2>3. OnceInv'
    BY <1>2, <1>14 DEF IInv, OnceInv
  <2>4. QED
    BY <2>2, <2>3
<1>16. ConstructInv'
  <2> SUFFICES ASSUME NEW w \in Workers, todo'[w] # <<>>, job[w].msg = "Construct"
               PROVE  Constructs(todo'[w]) /\ (Step(w)'[1] = "Answer" => own[w] # None)
    BY <1>2 DEF ConstructInv
  <2>1. CASE w # a
    BY <1>5, <1>8, <2>1 DEF IInv, ConstructInv, Actors
  <2>2. CASE w = a
    <3>1. Constructs(todo[a])
      BY <1>1, <2>2 DEF IInv, ConstructInv
    <3>2. rest = Tail(todo[a]) /\ todo'[a] = rest /\ rest # <<>>
      BY <1>4, <1>5, <2>2
    <3>3. Constructs(rest) /\ Step(a)'[1] # "Answer"
      BY <1>1, <1>3, <3>1, <3>2, ConstructsTail DEF Step, Messages, ProxyCalls
    <3>4. QED
      BY <2>2, <3>2, <3>3
  <2>3. QED
    BY <2>1, <2>2
<1>17. NumberInv' /\ ClassesStored'
  BY <1>2 DEF IInv, NumberInv, ClassesStored
<1>18. ObjectInv' /\ FreeInv'
  <2>1. ASSUME NEW b \in Actors, Unsent(b)'
        PROVE  Unsent(b)
    <3>1. CASE b # a
      BY <1>2, <1>5, <1>6, <1>8, <2>1, <3>1 DEF Unsent
    <3>2. CASE b = a /\ Step(a)'[1] = "RegisterObject"
      BY <1>1, <1>5, <2>1, <3>2 DEF Unsent, Follows, Messages, ProxyCalls
    <3>3. CASE b = a /\ a \in Workers /\ Step(a)'[1] = "Answer" /\ job[a].msg = "Construct"
      <4>1. Constructs(todo[a])
        BY <1>1, <3>3 DEF IInv, ConstructInv
      <4>2. rest = Tail(todo[a]) /\ todo'[a] = rest /\ rest # <<>>
        BY <1>4, <1>5, <2>1, <3>3 DEF Unsent
      <4>3. Step(a)[1] = "StoreObject"
        BY <1>1, <1>3, <3>3, <4>1, <4>2, ConstructsTail DEF Step
      <4>4. QED
        BY <1>1, <4>3 DEF Messages, ProxyCalls
    <3>4. QED
      BY <1>2, <2>1, <3>1, <3>2, <3>3 DEF Unsent
  <2>2. QED
    BY <1>2, <2>1, ObjectsKept DEF IInv, broker
<1>19. RunInv' /\ FaultInv'
  BY <1>2, <1>14 DEF IInv, RunInv, FaultInv
<1>20. QED
  BY <1>9, <1>10, <1>11, <1>15, <1>16, <1>17, <1>18, <1>19 DEF IInv

-----------------------------------------------------------------------------
(* The receiver takes a message.                                           *)

LEMMA Taken ==
    ASSUME IInv, in # <<>>, in' = Tail(in), UNCHANGED <<classes, objects>>,
           NEW x, x = in[1],
           \A y \in MessageSet : Owed(y) /\ (x.msg = "FreeObject" \/ y.from # x.from) => Owed(y)'
    PROVE  /\ x \in MessageSet /\ Head(in) = x /\ in \in Seq(MessageSet)
           /\ in' \in Seq(MessageSet) /\ Len(in) \in Nat /\ 1 \in 1..Len(in)
           /\ IF x.msg = "FreeObject" THEN x.id \in Nat ELSE Owed(x) /\ Sound(x)
           /\ \A i \in 1..Len(in') : i + 1 \in 1..Len(in) /\ in'[i] = in[i + 1]
           /\ \A i \in 1..Len(in') : x.msg # "FreeObject" /\ in'[i].msg # "FreeObject" =>
                                        in'[i].from # x.from
           /\ \A i \in 1..Len(in') : (IF in[i].msg = "FreeObject" THEN in[i].id \in Nat
                                      ELSE Owed(in[i]) /\ Sound(in[i]))'
           /\ \A i, j \in 1..Len(in') :
                 i # j /\ in'[i].msg # "FreeObject" /\ in'[j].msg # "FreeObject" =>
                     in'[i].from # in'[j].from
<1>1. in \in Seq(MessageSet)
  BY DEF IInv, Types
<1>2. /\ in' \in Seq(MessageSet) /\ Len(in) \in Nat /\ 1 \in 1..Len(in) /\ Head(in) = x
      /\ x \in MessageSet
      /\ \A i \in 1..Len(in') : i \in Nat /\ i + 1 \in 1..Len(in) /\ in'[i] = in[i + 1]
  BY <1>1, TailOf
<1>3. IF x.msg = "FreeObject" THEN x.id \in Nat ELSE Owed(x) /\ Sound(x)
  BY <1>2 DEF IInv, MessageInv
<1>4. \A i \in 1..Len(in') : x.msg # "FreeObject" /\ in'[i].msg # "FreeObject" =>
                                in'[i].from # x.from
  BY <1>2 DEF IInv, OnceInv
<1>5. ASSUME NEW i \in 1..Len(in')
      PROVE  (IF in[i].msg = "FreeObject" THEN in[i].id \in Nat
              ELSE Owed(in[i]) /\ Sound(in[i]))'
  <2>1. PICK y : y = in[i + 1]
    OBVIOUS
  <2>2. in'[i] = y /\ y \in MessageSet
    BY <1>1, <1>2, <2>1, ElementOf
  <2>3. IF y.msg = "FreeObject" THEN y.id \in Nat ELSE Owed(y) /\ Sound(y)
    BY <1>2, <2>1 DEF IInv, MessageInv
  <2>4. Sound(y) => Sound(y)'
    BY DEF Sound, Refs
  <2>5. y.msg # "FreeObject" => Owed(y)'
    BY <1>4, <2>2, <2>3
  <2>6. QED
    BY <2>2, <2>3, <2>4, <2>5
<1>6. ASSUME NEW i \in 1..Len(in'), NEW j \in 1..Len(in'), i # j,
             in'[i].msg # "FreeObject", in'[j].msg # "FreeObject"
      PROVE  in'[i].from # in'[j].from
  <2>1. i + 1 \in 1..Len(in) /\ j + 1 \in 1..Len(in) /\ i + 1 # j + 1
    BY <1>2, <1>6
  <2>2. QED
    BY <1>2, <1>6, <2>1 DEF IInv, OnceInv
<1>7. QED
  BY <1>1, <1>2, <1>3, <1>4, <1>5, <1>6

(* The handler of an answer finds its caller.                              *)
LEMMA SameSlot ==
    ASSUME IInv, NEW x \in MessageSet, Owed(x), x.msg \in Messages
    PROVE  /\ x.from \in Actors /\ slot[x.from] # <<>> /\ answer[x.from] = None
           /\ RecvSlot(x) = slot[x.from]
<1>1. /\ x.from \in Actors /\ slot[x.from] # <<>> /\ answer[x.from] = None
      /\ x.args = Tail(Step(x.from)) /\ x.msg = Step(x.from)[1] /\ x.id = Id(x.from)
  BY DEF Owed, MessageSet, Answers, Forwards, Messages, Requests, ProxyCalls
<1>2. /\ todo[x.from] # <<>> /\ Step(x.from)[1] \in Messages
      /\ slot[x.from] = SlotName(x.from)
  BY <1>1 DEF IInv, WaitInv
<1>3. Step(x.from) \in StepSet
  <2>1. todo[x.from] \in Seq(StepSet)
    BY <1>1 DEF IInv, Types
  <2>2. QED
    BY <1>2, <2>1, TailOf DEF Step
<1>4. /\ x.msg \in {"ListClasses", "RegisterClass", "GetClassDef"} =>
             x.args[1] = Step(x.from)[2]
      /\ x.msg = "GetClassDef" => x.args[2] = Step(x.from)[3]
  BY <1>1, <1>3, Parameters
<1>5. RecvSlot(x) = SlotName(x.from)
  <2>1. CASE x.msg \in ProxyCalls
    BY <1>1, <2>1 DEF RecvSlot, SlotName, RecvCallSlot, ProxyCalls
  <2>2. CASE x.msg \in {"RegisterObject", "GetObjectDef", "ReleaseObject"}
    BY <1>1, <2>2 DEF RecvSlot, SlotName, RecvRegisterSlot, ProxyCalls
  <2>3. CASE x.msg \in {"ListClasses", "RegisterClass", "GetClassDef"}
    BY <1>1, <1>4, <2>3 DEF RecvSlot, SlotName, ListSlot, ProxyCalls
  <2>4. CASE x.msg \in {"BrokerDetails", "SetNamespace", "ListNamespaces"}
    BY <1>1, <2>4 DEF RecvSlot, SlotName, ProxyCalls
  <2>5. QED
    BY <2>1, <2>2, <2>3, <2>4 DEF Messages
<1>6. QED
  BY <1>1, <1>2, <1>5

LEMMA RecvAnswerStep ==
    ASSUME IInv, RecvAnswer
    PROVE  IInv'
<1>1. /\ in # <<>> /\ in' = Tail(in) /\ Head(in).msg \in Messages
      /\ UNCHANGED <<todo, cnt, slot, tmp, cid, own, ref, job, obj, callid, objectid, made,
                     raced, regclasses, regobjects, proxies, classes, objects, live>>
  BY DEF RecvAnswer, Recv, counters, tables, broker
<1>2. PICK x : x = Head(in)
  OBVIOUS
<1>3. in \in Seq(MessageSet)
  BY DEF IInv, Types
<1>4. x = in[1] /\ x \in MessageSet /\ x.msg \in Messages /\ Len(in) \in Nat /\ 1 \in 1..Len(in)
  BY <1>1, <1>2, <1>3, TailOf
<1>5. Owed(x) /\ Sound(x)
  BY <1>4 DEF IInv, MessageInv, Messages, ProxyCalls
<1>6. /\ x.from \in Actors /\ slot[x.from] # <<>> /\ answer[x.from] = None
      /\ RecvSlot(x) = slot[x.from]
  BY <1>4, <1>5, SameSlot
<1>7. {a \in Actors : slot[a] = RecvSlot(x) /\ answer[a] = None} = {x.from}
  BY <1>6 DEF IInv, WaitInv
<1>8. /\ answer' = [a \in Actors |-> IF a = x.from THEN x ELSE answer[a]]
      /\ fault' = fault
  <2>1. {a \in Actors : slot[a] = RecvSlot(x) /\ answer[a] = None} # {}
    BY <1>7
  <2>2. QED
    BY <1>2, <1>7, <2>1 DEF RecvAnswer
<1>9. /\ answer'[x.from] = x /\ \A a \in Actors \ {x.from} : answer'[a] = answer[a]
  BY <1>6, <1>8
<1>10. /\ Refs' = Refs
       /\ \A a \in Actors : Step(a)' = Step(a) /\ Id(a)' = Id(a) /\ SlotName(a)' = SlotName(a)
  BY <1>1, Keeps DEF Refs
<1>11. ASSUME NEW y \in MessageSet, Owed(y), y.from # x.from
       PROVE  Owed(y)'
  <2>1. y.from \in Actors
    BY DEF MessageSet, Answers, Forwards
  <2>2. QED
    BY <1>1, <1>9, <1>10, <1>11, <2>1 DEF Owed
<1>12. /\ in' \in Seq(MessageSet)
       /\ \A i \in 1..Len(in') : i + 1 \in 1..Len(in) /\ in'[i] = in[i + 1]
       /\ \A i \in 1..Len(in') : in'[i].msg # "FreeObject" => in'[i].from # x.from
       /\ \A i \in 1..Len(in') : (IF in[i].msg = "FreeObject" THEN in[i].id \in Nat
                                  ELSE Owed(in[i]) /\ Sound(in[i]))'
       /\ \A i, j \in 1..Len(in') :
             i # j /\ in'[i].msg # "FreeObject" /\ in'[j].msg # "FreeObject" =>
                 in'[i].from # in'[j].from
  <2>1. x.msg # "FreeObject"
    BY <1>4 DEF Messages, ProxyCalls
  <2>2. QED
    BY <1>1, <1>4, <1>11, <2>1, Taken
<1>13. Types'
  <2>1. answer' \in [Actors -> MessageSet \cup {None}]
    BY <1>4, <1>8 DEF IInv, Types
  <2>2. QED
    BY <1>1, <1>8, <1>10, <1>12, <2>1 DEF IInv, Types
<1>14. WaitInv'
  <2>1. x.val \in Refs
    BY <1>4, <1>5 DEF Sound
  <2>2. ASSUME NEW a \in Actors
        PROVE  (/\ slot[a] # <<>> => todo[a] # <<>> /\ Step(a)[1] \in Messages
                                     /\ slot[a] = SlotName(a)
                /\ answer[a] # None => /\ slot[a] # <<>> /\ answer[a].from = a
                                       /\ answer[a].val \in Refs)'
    BY <1>1, <1>6, <1>9, <1>10, <2>1 DEF IInv, WaitInv
  <2>3. \A a, b \in Actors : a # b /\ slot'[a] # <<>> => slot'[a] # slot'[b]
    BY <1>1 DEF IInv, WaitInv
  <2>4. QED
    BY <2>2, <2>3 DEF WaitInv
<1>15. StepInv' /\ ConstructInv'
  <2>1. \A a \in Actors : Ready(a) => Ready(a)'
    BY <1>1, <1>10 DEF Ready
  <2>2. StepInv'
    BY <1>1, <2>1 DEF IInv, StepInv
  <2>3. ConstructInv'
    BY <1>1, <1>10 DEF IInv, ConstructInv, Actors
  <2>4. QED
    BY <2>2, <2>3
<1>16. MessageInv' /\ OnceInv'
  <2>1. ASSUME NEW w \in Workers, todo'[w] # <<>>
        PROVE  (job[w] \in MessageSet /\ job[w].msg \in Requests /\ Owed(job[w]))'
    <3>1. PICK z : z = job[w]
      OBVIOUS
    <3>2. job'[w] = z /\ z.from # x.from
      BY <1>1, <1>4, <2>1, <3>1 DEF IInv, OnceInv, Messages, ProxyCalls
    <3>3. z \in MessageSet /\ z.msg \in Requests /\ Owed(z)
      BY <1>1, <2>1, <3>1 DEF IInv, MessageInv
    <3>4. QED
      BY <1>11, <3>2, <3>3
  <2>2. MessageInv'
    BY <1>12, <2>1 DEF MessageInv
  <2>3. OnceInv'
    BY <1>1, <1>12 DEF IInv, OnceInv
  <2>4. QED
    BY <2>2, <2>3
<1>17. NumberInv' /\ ClassesStored' /\ RunInv' /\ FaultInv'
  BY <1>1, <1>8 DEF IInv, NumberInv, ClassesStored, RunInv, FaultInv
<1>18. ObjectInv'
  BY <1>1, <1>10 DEF IInv, ObjectInv, Unsent
<1>19. FreeInv'
  BY <1>1, <1>3, <1>12 DEF IInv, FreeInv
<1>20. QED
  BY <1>13, <1>14, <1>15, <1>16, <1>17, <1>18, <1>19 DEF IInv

LEMMA RecvFreeObjectStep ==
    ASSUME IInv, RecvFreeObject
    PROVE  IInv'
<1>1. /\ in # <<>> /\ in' = Tail(in) /\ Head(in).msg = "FreeObject"
      /\ regobjects' = [o \in DOMAIN regobjects \ {Head(in).id} |-> regobjects[o]]
      /\ UNCHANGED <<todo, cnt, slot, answer, tmp, cid, own, ref, job, obj, callid, objectid,
                     made, raced, regclasses, proxies, classes, objects, live, fault>>
  BY DEF RecvFreeObject, Recv, counters, threads, broker
<1>2. PICK x : x = in[1]
  OBVIOUS
<1>3. /\ Refs' = Refs
      /\ \A a \in Actors : Step(a)' = Step(a) /\ Id(a)' = Id(a) /\ SlotName(a)' = SlotName(a)
  BY <1>1, Keeps DEF Refs
<1>4. ASSUME NEW y \in MessageSet, Owed(y)
      PROVE  Owed(y)'
  <2>1. y.from \in Actors
    BY DEF MessageSet, Answers, Forwards
  <2>2. QED
    BY <1>1, <1>3, <1>4, <2>1 DEF Owed
<1>5. /\ x \in MessageSet /\ Head(in) = x /\ in \in Seq(MessageSet)
      /\ in' \in Seq(MessageSet) /\ Len(in) \in Nat /\ 1 \in 1..Len(in)
      /\ \A i \in 1..Len(in') : i + 1 \in 1..Len(in) /\ in'[i] = in[i + 1]
      /\ \A i \in 1..Len(in') : (IF in[i].msg = "FreeObject" THEN in[i].id \in Nat
                                 ELSE Owed(in[i]) /\ Sound(in[i]))'
      /\ \A i, j \in 1..Len(in') :
            i # j /\ in'[i].msg # "FreeObject" /\ in'[j].msg # "FreeObject" =>
                in'[i].from # in'[j].from
  BY <1>1, <1>2, <1>4, Taken
<1>6. /\ DOMAIN regobjects' = DOMAIN regobjects \ {x.id}
      /\ \A o \in DOMAIN regobjects' : regobjects'[o] = regobjects[o]
      /\ regobjects' = [o \in DOMAIN regobjects' |-> regobjects'[o]]
  BY <1>1, <1>5
<1>7. Types'
  <2>1. /\ DOMAIN regobjects \subseteq Nat
        /\ regobjects \in [DOMAIN regobjects -> 1..made \cup {None}]
    BY DEF IInv, Types
  <2>2. /\ DOMAIN regobjects' \subseteq Nat
        /\ regobjects' \in [DOMAIN regobjects' -> 1..made' \cup {None}]
    BY <1>1, <1>6, <2>1
  <2>3. QED
    BY <1>1, <1>3, <1>5, <2>2 DEF IInv, Types
<1>8. WaitInv'
  BY <1>1, <1>3 DEF IInv, WaitInv
<1>9. StepInv' /\ ConstructInv'
  <2>1. \A a \in Actors : Ready(a) => Ready(a)'
    BY <1>1, <1>3 DEF Ready
  <2>2. StepInv'
    BY <1>1, <2>1 DEF IInv, StepInv
  <2>3. ConstructInv'
    BY <1>1, <1>3 DEF IInv, ConstructInv, Actors
  <2>4. QED
    BY <2>2, <2>3
<1>10. MessageInv' /\ OnceInv'
  <2>1. ASSUME NEW w \in Workers, todo'[w] # <<>>
        PROVE  (job[w] \in MessageSet /\ job[w].msg \in Requests /\ Owed(job[w]))'
    <3>1. PICK z : z = job[w]
      OBVIOUS
    <3>2. job'[w] = z
      BY <1>1, <3>1
    <3>3. z \in MessageSet /\ z.msg \in Requests /\ Owed(z)
      BY <1>1, <2>1, <3>1 DEF IInv, MessageInv
    <3>4. QED
      BY <1>4, <3>2, <3>3
  <2>2. MessageInv'
    BY <1>5, <2>1 DEF MessageInv
  <2>3. OnceInv'
    BY <1>1, <1>5 DEF IInv, OnceInv
  <2>4. QED
    BY <2>2, <2>3
<1>11. NumberInv' /\ ClassesStored' /\ RunInv' /\ FaultInv'
  BY <1>1 DEF IInv, NumberInv, ClassesStored, RunInv, FaultInv
<1>12. ObjectInv'
  <2> SUFFICES ASSUME ~raced
               PROVE  ObjectInv'
    BY <1>1 DEF ObjectInv
  <2>1. PICK g \in 1..Len(objects) : g \notin live /\ x.id = objects[g].oid
    BY <1>1, <1>2, <1>5 DEF IInv, FreeInv
  <2>2. live \subseteq 1..Len(objects) /\ ObjectInv
    BY DEF IInv, Types
  <2>3. \A h \in live : objects[h].oid # x.id
    BY <2>1, <2>2 DEF ObjectInv
  <2>4. \A a \in Actors : Unsent(a) => own[a].oid # x.id
    BY <2>1, <2>2 DEF ObjectInv
  <2>5. \A a \in Actors : Unsent(a)' = Unsent(a)
    BY <1>1, <1>3 DEF Unsent
  <2>6. QED
    BY <1>1, <1>6, <2>2, <2>3, <2>4, <2>5 DEF ObjectInv
<1>13. FreeInv'
  <2> SUFFICES ASSUME ~raced
               PROVE  FreeInv'
    BY <1>1 DEF FreeInv
  <2>1. ASSUME NEW i \in 1..Len(in'), in'[i].msg = "MethodCall"
        PROVE  /\ in'[i].val \in DOMAIN regobjects'
               /\ \E g \in 1..Len(objects) : in'[i].val = objects[g].oid
               /\ \A j \in 1..Len(in') : j < i /\ in'[j].msg = "FreeObject" =>
                                             in'[j].id # in'[i].val
    <3>1. i + 1 \in 1..Len(in) /\ in'[i] = in[i + 1] /\ 1 < i + 1
      BY <1>5
    <3>2. x.id # in'[i].val /\ in'[i].val \in DOMAIN regobjects
      BY <1>1, <1>2, <1>5, <2>1, <3>1 DEF IInv, FreeInv
    <3>3. \E g \in 1..Len(objects) : in'[i].val = objects[g].oid
      BY <2>1, <3>1 DEF IInv, FreeInv
    <3>4. ASSUME NEW j \in 1..Len(in'), j < i, in'[j].msg = "FreeObject"
          PROVE  in'[j].id # in'[i].val
      <4>1. j + 1 \in 1..Len(in) /\ in'[j] = in[j + 1] /\ j + 1 < i + 1
        BY <1>5, <3>4
      <4>2. QED
        BY <2>1, <3>1, <3>4, <4>1 DEF IInv, FreeInv
    <3>5. QED
      BY <1>6, <3>2, <3>3, <3>4
  <2>2. ASSUME NEW i \in 1..Len(in'), in'[i].msg = "FreeObject"
        PROVE  \E g \in 1..Len(objects) : g \notin live /\ in'[i].id = objects[g].oid
    BY <1>5, <2>2 DEF IInv, FreeInv
  <2>3. QED
    BY <1>1, <2>1, <2>2 DEF FreeInv
<1>14. QED
  BY <1>7, <1>8, <1>9, <1>10, <1>11, <1>12, <1>13 DEF IInv

(* The call thread that takes a request has the object the request is for. *)
LEMMA RecvRequestStep ==
    ASSUME IInv, RecvRequest
    PROVE  IInv'
<1> DEFINE w == CHOOSE v \in Workers : todo[v] = <<>>
<1>1. PICK x : x = in[1]
  OBVIOUS
<1>2. PICK u : u = w
  OBVIOUS
<1>3. u \in Workers /\ u \in Actors /\ todo[u] = <<>> /\ slot[u] = <<>>
  <2>1. \E v \in Workers : todo[v] = <<>>
    BY DEF RecvRequest
  <2>2. u \in Workers /\ todo[u] = <<>>
    BY <1>2, <2>1
  <2>3. QED
    BY <2>2 DEF Actors, IInv, WaitInv
<1>4. in \in Seq(MessageSet) /\ in # <<>> /\ in' = Tail(in) /\ Head(in).msg \in Requests
  BY DEF RecvRequest, Recv, IInv, Types
<1>5. Head(in) = x /\ x \in MessageSet /\ x.msg \in Requests /\ Len(in) \in Nat /\ 1 \in 1..Len(in)
  BY <1>1, <1>4, TailOf
<1>6. Owed(x) /\ Sound(x)
  BY <1>1, <1>5 DEF IInv, MessageInv, Requests
<1> DEFINE list == IF x.msg = "Construct" THEN RunConstruct ELSE RunCall(x.args[Len(x.args)])
           found == x.val \in DOMAIN regobjects
<1>7. /\ todo' = [todo EXCEPT ![u] = list]
      /\ job' = [job EXCEPT ![u] = x]
      /\ ref' = [ref EXCEPT ![u] = IF x.msg = "StaticCall" THEN x.val ELSE None]
      /\ obj' = [obj EXCEPT ![u] =
                     IF x.msg = "MethodCall" THEN IF found THEN regobjects[x.val] ELSE None
                     ELSE IF x.args[1] \in regclasses THEN x.args[1] ELSE None]
      /\ regobjects' = IF x.msg = "MethodCall" /\ ~found THEN Put(regobjects, x.val, None)
                       ELSE regobjects
      /\ UNCHANGED <<cnt, slot, answer, tmp, cid, own, callid, objectid, made, raced,
                     regclasses, proxies, classes, objects, live, fault>>
  BY <1>2, <1>5 DEF RecvRequest, counters, broker
<1>8. /\ Begins(list) /\ EndsInAnswer(list) /\ list # <<>>
      /\ list[1][1] \in {"Run", "GetObjectDef", "ReadObjectID"}
      /\ x.msg = "Construct" => Constructs(list)
  <2>1. CASE x.msg = "Construct"
    BY <2>1, RunConstructList DEF Begins
  <2>2. CASE x.msg # "Construct"
    <3>1. /\ x.from \in Actors /\ x.args = Tail(Step(x.from))
          /\ Step(x.from)[1] \in {"CallStatic", "CallMethod"}
          /\ todo[x.from] # <<>>
      BY <1>5, <1>6, <2>2 DEF Owed, MessageSet, Answers, Forwards, ProxyCalls, Forwarded, IInv,
                              WaitInv
    <3>2. Step(x.from) \in StepSet
      <4>1. todo[x.from] \in Seq(StepSet)
        BY <3>1 DEF IInv, Types
      <4>2. QED
        BY <3>1, <4>1, TailOf DEF Step
    <3>3. x.args[Len(x.args)] \in Methods
      BY <3>1, <3>2, Parameters
    <3>4. QED
      BY <2>2, <3>3, RunCallList DEF Begins
  <2>3. QED
    BY <2>1, <2>2
<1> HIDE DEF list, w
<1>9. /\ todo' \in [Actors -> Seq(StepSet)] /\ todo'[u] = list
      /\ \A b \in Actors \ {u} : todo'[b] = todo[b]
      /\ Step(u)' = list[1]
  <2>1. todo \in [Actors -> Seq(StepSet)] /\ list \in Seq(StepSet)
    BY <1>8 DEF IInv, Types, Begins
  <2>2. /\ todo' \in [Actors -> Seq(StepSet)] /\ todo'[u] = list
        /\ \A b \in Actors \ {u} : todo'[b] = todo[b]
    BY <1>3, <1>7, <2>1
  <2>3. QED
    BY <1>8, <2>1, <2>2, TailOf DEF Step
<1>10. /\ job'[u] = x /\ \A v \in Workers \ {u} : job'[v] = job[v] /\ obj'[v] = obj[v]
       /\ \A b \in Actors \ {u} : ref'[b] = ref[b]
       /\ obj'[u] = IF x.msg = "MethodCall" THEN IF found THEN regobjects[x.val] ELSE None
                    ELSE IF x.args[1] \in regclasses THEN x.args[1] ELSE None
       /\ job' \in [Workers -> MessageSet \cup {None}]
       /\ obj' = [v \in Workers |-> obj'[v]]
       /\ ref' \in [Actors -> Refs]
  <2>1. /\ job \in [Workers -> MessageSet \cup {None}] /\ obj = [v \in Workers |-> obj[v]]
        /\ ref \in [Actors -> Refs]
    BY DEF IInv, Types
  <2>2. (IF x.msg = "StaticCall" THEN x.val ELSE None) \in Refs
    BY <1>6 DEF Sound, Refs
  <2>3. QED
    BY <1>3, <1>5, <1>7, <2>1, <2>2
<1>11. /\ Refs' = Refs
       /\ \A b \in Actors \ {u} : Step(b)' = Step(b) /\ Id(b)' = Id(b) /\ SlotName(b)' = SlotName(b)
  BY <1>7, <1>9, <1>10, Keeps DEF Refs
<1>12. ASSUME NEW y \in MessageSet, Owed(y)
       PROVE  Owed(y)'
  <2>1. y.from \in Actors /\ y.from # u
    BY <1>3, <1>12 DEF Owed, MessageSet, Answers, Forwards
  <2>2. QED
    BY <1>7, <1>11, <1>12, <2>1 DEF Owed
<1>13. /\ in' \in Seq(MessageSet)
       /\ \A i \in 1..Len(in') : i + 1 \in 1..Len(in) /\ in'[i] = in[i + 1]
       /\ \A i \in 1..Len(in') : in'[i].msg # "FreeObject" => in'[i].from # x.from
       /\ \A i \in 1..Len(in') : (IF in[i].msg = "FreeObject" THEN in[i].id \in Nat
                                  ELSE Owed(in[i]) /\ Sound(in[i]))'
       /\ \A i, j \in 1..Len(in') :
             i # j /\ in'[i].msg # "FreeObject" /\ in'[j].msg # "FreeObject" =>
                 in'[i].from # in'[j].from
  <2>1. x.msg # "FreeObject"
    BY <1>5 DEF Requests
  <2>2. QED
    BY <1>1, <1>4, <1>7, <1>12, <2>1, Taken
<1>14. /\ x.msg = "MethodCall" => x.val \in Nat
       /\ ~raced => regobjects' = regobjects /\ obj'[u] # None
  <2>1. x.msg = "MethodCall" => x.val \in Nat
    BY <1>6 DEF Sound
  <2>2. ASSUME ~raced, x.msg = "MethodCall"
        PROVE  regobjects' = regobjects /\ obj'[u] # None
    <3>1. found
      BY <1>1, <1>5, <2>2 DEF IInv, FreeInv
    <3>2. regobjects[x.val] # None
      BY <2>2, <3>1 DEF IInv, ObjectInv
    <3>3. QED
      BY <1>7, <1>10, <2>2, <3>1, <3>2
  <2>3. ASSUME x.msg # "MethodCall"
        PROVE  regobjects' = regobjects /\ obj'[u] # None
    <3>1. x.msg \in {"Construct", "StaticCall"}
      BY <1>5, <2>3 DEF Requests
    <3>2. x.args[1] \in classes
      BY <1>6, <3>1 DEF Sound
    <3>3. x.args[1] \in regclasses /\ x.args[1] \in Names
      BY <3>2 DEF IInv, ClassesStored, Types
    <3>4. None \notin Names
      BY ConstantsAssumption
    <3>5. QED
      BY <1>7, <1>10, <2>3, <3>3, <3>4
  <2>4. QED
    BY <2>1, <2>2, <2>3
<1>15. Types'
  <2>1. /\ DOMAIN regobjects \subseteq Nat
        /\ regobjects \in [DOMAIN regobjects -> 1..made \cup {None}]
    BY DEF IInv, Types
  <2>2. /\ DOMAIN regobjects' \subseteq Nat
        /\ regobjects' \in [DOMAIN regobjects' -> 1..made' \cup {None}]
    <3>1. CASE x.msg = "MethodCall" /\ ~found
      <4>1. /\ regobjects' = Put(regobjects, x.val, None) /\ x.val \in Nat /\ made' = made
        BY <1>7, <1>14, <3>1
      <4>2. QED
        BY <2>1, <4>1 DEF Put
    <3>2. CASE ~(x.msg = "MethodCall" /\ ~found)
      BY <1>7, <2>1, <3>2
    <3>3. QED
      BY <3>1, <3>2
  <2>3. QED
    BY <1>7, <1>9, <1>10, <1>11, <1>13, <2>2 DEF IInv, Types
<1>16. WaitInv'
  BY <1>3, <1>7, <1>9, <1>10, <1>11 DEF IInv, WaitInv
<1>17. StepInv'
  <2>1. Linked(list) /\ Counted(list) /\ Ready(u)'
    BY <1>8, <1>9 DEF Begins, Ready
  <2>2. ASSUME NEW b \in Actors \ {u}
        PROVE  /\ Linked(todo'[b]) /\ (cid'[b] > 0 \/ Counted(todo'[b]))
               /\ todo'[b] # <<>> => Ready(b)'
    <3>1. todo'[b] # <<>> => Ready(b)'
      BY <1>7, <1>9, <1>10, StaysReady DEF IInv, StepInv
    <3>2. QED
      BY <1>7, <1>9, <3>1 DEF IInv, StepInv
  <2>3. \A v \in Workers : todo'[v] # <<>> => EndsInAnswer(todo'[v])
    BY <1>8, <1>9 DEF IInv, StepInv, Actors
  <2>4. QED
    BY <1>9, <2>1, <2>2, <2>3 DEF StepInv
<1>18. MessageInv' /\ OnceInv'
  <2>1. \A v \in Workers \ {u} : todo'[v] = todo[v] /\ job'[v] = job[v]
    BY <1>9, <1>10 DEF Actors
  <2>2. ASSUME NEW v \in Workers, todo'[v] # <<>>
        PROVE  (job[v] \in MessageSet /\ job[v].msg \in Requests /\ Owed(job[v]))'
    <3>1. CASE v = u
      BY <1>5, <1>6, <1>10, <1>12, <3>1
    <3>2. CASE v # u
      <4>1. PICK z : z = job[v]
        OBVIOUS
      <4>2. job'[v] = z
        BY <2>1, <3>2, <4>1
      <4>3. z \in MessageSet /\ z.msg \in Requests /\ Owed(z)
        BY <2>1, <2>2, <3>2, <4>1 DEF IInv, MessageInv
      <4>4. QED
        BY <1>12, <4>2, <4>3
    <3>3. QED
      BY <3>1, <3>2
  <2>3. MessageInv'
    BY <1>13, <2>2 DEF MessageInv
  <2>4. ASSUME NEW i \in 1..Len(in'), NEW v \in Workers, in'[i].msg # "FreeObject",
               todo'[v] # <<>>
        PROVE  in'[i].from # job'[v].from
    <3>1. CASE v = u
      BY <1>10, <1>13, <2>4, <3>1
    <3>2. CASE v # u
      BY <1>13, <2>1, <2>4, <3>2 DEF IInv, OnceInv
    <3>3. QED
      BY <3>1, <3>2
  <2>5. ASSUME NEW v \in Workers \ {u}, todo[v] # <<>>
        PROVE  job[v].from # x.from
    BY <1>1, <1>5, <2>5 DEF IInv, OnceInv, Requests
  <2>6. \A v, z \in Workers : v # z /\ todo'[v] # <<>> /\ todo'[z] # <<>> =>
                                  job'[v].from # job'[z].from
    BY <1>10, <2>1, <2>5 DEF IInv, OnceInv
  <2>7. OnceInv'
    BY <1>13, <2>4, <2>6 DEF OnceInv
  <2>8. QED
    BY <2>3, <2>7
<1>19. ConstructInv'
  <2>1. Step(u)'[1] # "Answer"
    BY <1>8, <1>9
  <2>2. QED
    BY <1>7, <1>8, <1>9, <1>10, <1>11, <2>1 DEF IInv, ConstructInv, Actors
<1>20. NumberInv' /\ ClassesStored' /\ FaultInv'
  BY <1>7 DEF IInv, NumberInv, ClassesStored, FaultInv
<1>21. RunInv'
  BY <1>7, <1>9, <1>10, <1>14 DEF IInv, RunInv, Actors
<1>22. ObjectInv'
  <2>1. ASSUME NEW b \in Actors, Unsent(b)'
        PROVE  Unsent(b)
    <3>1. b # u
      BY <1>8, <1>9, <2>1 DEF Unsent
    <3>2. QED
      BY <1>7, <1>9, <1>10, <1>11, <2>1, <3>1 DEF Unsent
  <2>2. QED
    BY <1>7, <1>14, <2>1 DEF IInv, ObjectInv
<1>23. FreeInv'
  <2> SUFFICES ASSUME ~raced
               PROVE  FreeInv'
    BY <1>7 DEF FreeInv
  <2>1. regobjects' = regobjects
    BY <1>14
  <2>2. ASSUME NEW i \in 1..Len(in'), in'[i].msg = "MethodCall"
        PROVE  /\ in'[i].val \in DOMAIN regobjects
               /\ \E g \in 1..Len(objects) : in'[i].val = objects[g].oid
               /\ \A j \in 1..Len(in') : j < i /\ in'[j].msg = "FreeObject" =>
                                             in'[j].id # in'[i].val
    <3>1. i + 1 \in 1..Len(in) /\ in'[i] = in[i + 1]
      BY <1>13
    <3>2. /\ in'[i].val \in DOMAIN regobjects
          /\ \E g \in 1..Len(objects) : in'[i].val = objects[g].oid
      BY <2>2, <3>1 DEF IInv, FreeInv
    <3>3. ASSUME NEW j \in 1..Len(in'), j < i, in'[j].msg = "FreeObject"
          PROVE  in'[j].id # in'[i].val
      <4>1. j + 1 \in 1..Len(in) /\ in'[j] = in[j + 1] /\ j + 1 < i + 1
        BY <1>13, <3>3
      <4>2. QED
        BY <2>2, <3>1, <3>3, <4>1 DEF IInv, FreeInv
    <3>4. QED
      BY <3>2, <3>3
  <2>3. ASSUME NEW i \in 1..Len(in'), in'[i].msg = "FreeObject"
        PROVE  \E g \in 1..Len(objects) : g \notin live /\ in'[i].id = objects[g].oid
    BY <1>13, <2>3 DEF IInv, FreeInv
  <2>4. QED
    BY <1>7, <2>1, <2>2, <2>3 DEF FreeInv
<1>24. QED
  BY <1>15, <1>16, <1>17, <1>18, <1>19, <1>20, <1>21, <1>22, <1>23 DEF IInv

-----------------------------------------------------------------------------
(* A call thread answers; the broker answers the caller it forwarded for.  *)

LEMMA AnswerStep ==
    ASSUME IInv, NEW w \in Workers, Answer(w)
    PROVE  IInv'
<1>1. w \in Actors /\ todo[w] # <<>> /\ slot[w] = <<>> /\ Step(w)[1] = "Answer"
      /\ todo' = [todo EXCEPT ![w] = Tail(todo[w])]
  BY DEF Answer, Do, At, Step, Actors
<1>2. /\ todo' \in [Actors -> Seq(StepSet)] /\ todo'[w] = <<>>
      /\ \A b \in Actors \ {w} : todo'[b] = todo[b]
  BY <1>1, Advance DEF IInv
<1>3. PICK r : r = job[w]
  OBVIOUS
<1>4. r \in MessageSet /\ r.msg \in Requests /\ Owed(r)
  BY <1>1, <1>3 DEF IInv, MessageInv
<1>5. /\ r.from \in Actors /\ r.from # w
      /\ r.args = Tail(Step(r.from)) /\ r.id = <<Step(r.from)[1], Id(r.from)>>
      /\ Step(r.from)[1] \in ProxyCalls
  BY <1>1, <1>4 DEF Owed, MessageSet, Answers, Forwards
<1>6. r \in Forwards /\ r.args \in Arguments /\ r.id[1] \in ProxyCalls /\ r.id[2] \in Nat
  BY <1>4 DEF MessageSet, Answers, Forwards, Messages, Requests, ProxyCalls
<1>7. /\ in \in Seq(MessageSet) /\ objects \in Seq(Owned) /\ live \subseteq 1..Len(objects)
      /\ own \in [Actors -> Owned \cup {None}] /\ ref \in [Actors -> Refs]
      /\ cid \in [Actors -> Nat] /\ job \in [Workers -> MessageSet \cup {None}]
      /\ obj = [v \in Workers |-> obj[v]]
  BY DEF IInv, Types
<1> DEFINE value == IF r.msg = "Construct" THEN own[w] ELSE ref[w]
           new == r.msg = "Construct"
           last == IF new THEN Len(objects') ELSE ref[w]
<1>8. PICK y : y = [r EXCEPT !.val = value]
  OBVIOUS
<1>9. BrokerReturns(y) /\ y.msg = r.msg /\ y.args = r.args /\ y.id = r.id /\ y.val = value
      /\ y.from = r.from
      /\ y \in [msg : Requests, args : Arguments, id : ProxyCalls \X Nat, val : {value},
                from : Actors]
  <2>1. /\ y.msg = r.msg /\ y.args = r.args /\ y.id = r.id /\ y.val = value
        /\ y.from = r.from
        /\ y \in [msg : Requests, args : Arguments, id : ProxyCalls \X Nat, val : {value},
                  from : Actors]
    <3> HIDE DEF value
    <3>1. QED
      BY <1>6, <1>8, Edited DEF Forwards
  <2>2. Send(y)
    BY <1>3, <1>8 DEF Answer
  <2>3. BrokerReturns(y)
    BY <1>4, <2>1, <2>2 DEF Send, ProxyCalls, Requests
  <2>4. QED
    BY <2>1, <2>3
<1>10. PICK z : z = [y EXCEPT !.msg = y.id[1], !.id = y.id[2], !.val = last]
  OBVIOUS
<1>11. /\ objects' = IF new THEN Append(objects, own[w]) ELSE objects
       /\ live' = IF new THEN live \cup {Len(objects')} ELSE live
       /\ in' = Append(in, z) /\ classes' = classes
  BY <1>9, <1>10 DEF BrokerReturns
<1>12. /\ z.msg = r.id[1] /\ z.args = r.args /\ z.id = r.id[2] /\ z.val = last
       /\ z.from = r.from
       /\ z \in [msg : {r.id[1]}, args : Arguments, id : {r.id[2]}, val : {last}, from : Actors]
  <2> HIDE DEF value, last, new
  <2>1. QED
    BY <1>9, <1>10, Edited
<1>13. /\ UNCHANGED <<cnt, slot, answer, tmp, callid, objectid, made, raced, regclasses,
                      regobjects, proxies, fault>>
       /\ cid' = [cid EXCEPT ![w] = 0] /\ own' = [own EXCEPT ![w] = None]
       /\ ref' = [ref EXCEPT ![w] = None] /\ job' = [job EXCEPT ![w] = None]
       /\ obj' = [obj EXCEPT ![w] = None]
  BY DEF Answer, counters, tables
<1>14. /\ \A b \in Actors \ {w} : cid'[b] = cid[b] /\ own'[b] = own[b] /\ ref'[b] = ref[b]
       /\ \A v \in Workers \ {w} : job'[v] = job[v] /\ obj'[v] = obj[v]
       /\ cid'[w] = 0 /\ own'[w] = None /\ ref'[w] = None
  BY <1>1, <1>7, <1>13
<1>15. /\ ~Unsent(w)' /\ \A b \in Actors \ {w} : Unsent(b)' => Unsent(b) /\ own'[b] = own[b]
       /\ \A b \in Actors \ {w} : Step(b)' = Step(b) /\ Id(b)' = Id(b) /\ SlotName(b)' = SlotName(b)
  <2>1. \A b \in Actors \ {w} : Step(b)' = Step(b) /\ Id(b)' = Id(b) /\ SlotName(b)' = SlotName(b)
    BY <1>2, <1>14, Keeps
  <2>2. QED
    BY <1>2, <1>13, <1>14, <2>1 DEF Unsent
<1>16. /\ ObjectInv' /\ objects' \in Seq(Owned) /\ Len(objects) \in Nat
       /\ live' \subseteq 1..Len(objects') /\ 1..Len(objects) \subseteq 1..Len(objects')
       /\ new => Len(objects') \in 1..Len(objects')
       /\ \A g \in 1..Len(objects) : /\ g \in 1..Len(objects') /\ objects'[g] = objects[g]
                                     /\ g \notin live => g \notin live'
  <2>1. CASE new
    <3>1. Unsent(w)
      BY <1>1, <1>3, <2>1 DEF Unsent
    <3>2. /\ ObjectInv' /\ objects' \in Seq(Owned) /\ Len(objects') = Len(objects) + 1
          /\ Len(objects) \in Nat /\ live' \subseteq 1..Len(objects')
          /\ \A g \in 1..Len(objects) : /\ g \in 1..Len(objects') /\ objects'[g] = objects[g]
                                        /\ g \notin live => g \notin live'
      BY <1>1, <1>11, <1>13, <1>15, <2>1, <3>1, NewObject
    <3>3. QED
      BY <3>2
  <2>2. CASE ~new
    <3>1. ObjectInv'
      <4>1. \A b \in Actors : Unsent(b)' => Unsent(b) /\ own'[b] = own[b]
        BY <1>15
      <4>2. /\ regobjects' = regobjects /\ raced' = raced /\ objectid' = objectid
            /\ objects' = objects /\ live' = live /\ ObjectInv
        BY <1>11, <1>13, <2>2 DEF IInv
      <4>3. QED
        BY <4>1, <4>2 DEF ObjectInv
    <3>2. QED
      BY <1>7, <1>11, <2>2, <3>1
  <2>3. QED
    BY <2>1, <2>2
<1>17. Refs \subseteq Refs' /\ last \in Refs' /\ Refs' \subseteq Nat \cup {None}
  BY <1>1, <1>7, <1>16 DEF Refs
<1> HIDE DEF last, value
<1>18. z \in MessageSet /\ z.msg \in ProxyCalls
  BY <1>6, <1>12, <1>17 DEF MessageSet, Answers, Messages
<1>19. ASSUME NEW q \in MessageSet, Owed(q)
       PROVE  Owed(q)' /\ q.from # w
  <2>1. q.from \in Actors /\ q.from # w
    BY <1>1, <1>19 DEF Owed, MessageSet, Answers, Forwards
  <2>2. QED
    BY <1>13, <1>15, <1>19, <2>1 DEF Owed
<1>20. Owed(z)'
  <2>1. slot[r.from] # <<>> /\ answer[r.from] = None
    BY <1>4 DEF Owed
  <2>2. z.msg \notin Requests
    BY <1>18 DEF Requests, ProxyCalls
  <2>3. z.from = r.from /\ z.args = Tail(Step(r.from)) /\ z.msg = Step(r.from)[1]
        /\ z.id = Id(r.from)
    BY <1>5, <1>12
  <2>4. QED
    BY <1>5, <1>13, <1>15, <2>1, <2>2, <2>3 DEF Owed
<1>21. Sound(z)' /\ \A q : Sound(q) => Sound(q)'
  BY <1>11, <1>12, <1>17, <1>18 DEF Sound, ProxyCalls
<1>22. MessageInv' /\ OnceInv' /\ in' \in Seq(MessageSet)
  <2>1. \A i \in 1..Len(in) : in[i].msg # "FreeObject" => in[i].from # z.from
    BY <1>1, <1>3, <1>12 DEF IInv, OnceInv
  <2>2. ASSUME NEW v \in Workers, todo'[v] # <<>>
        PROVE  todo[v] # <<>> /\ job'[v] = job[v] /\ job[v].from # z.from
    <3>1. v # w /\ todo[v] # <<>>
      BY <1>2, <2>2 DEF Actors
    <3>2. QED
      BY <1>1, <1>3, <1>12, <1>14, <3>1 DEF IInv, OnceInv
  <2>3. MessageInv /\ OnceInv /\ z.msg # "FreeObject"
    BY <1>18 DEF IInv, ProxyCalls
  <2>4. QED
    BY <1>7, <1>11, <1>18, <1>19, <1>20, <1>21, <2>1, <2>2, <2>3, Delivered
<1>23. FreeInv'
  <2>1. FreeInv /\ ObjectInv /\ z.msg # "FreeObject" /\ z.msg # "MethodCall"
    BY <1>18 DEF IInv, ProxyCalls
  <2>2. QED
    BY <1>7, <1>11, <1>13, <1>16, <1>18, <2>1, FreedBefore
<1>24. Types'
  <2>1. /\ cid' \in [Actors -> Nat] /\ own' \in [Actors -> Owned \cup {None}]
        /\ job' \in [Workers -> MessageSet \cup {None}] /\ obj' = [v \in Workers |-> obj'[v]]
    BY <1>7, <1>13
  <2>2. ref' \in [Actors -> Refs']
    BY <1>7, <1>13, <1>17 DEF Refs
  <2>3. proxies' \subseteq Refs' \ {None}
    BY <1>13, <1>17 DEF IInv, Types
  <2>4. QED
    BY <1>2, <1>11, <1>13, <1>16, <1>22, <2>1, <2>2, <2>3 DEF IInv, Types
<1>25. WaitInv'
  <2>1. ASSUME NEW b \in Actors
        PROVE  (/\ slot[b] # <<>> => todo[b] # <<>> /\ Step(b)[1] \in Messages
                                     /\ slot[b] = SlotName(b)
                /\ answer[b] # None => /\ slot[b] # <<>> /\ answer[b].from = b
                                       /\ answer[b].val \in Refs)'
    <3>1. CASE b = w
      BY <1>1, <1>13, <3>1 DEF IInv, WaitInv
    <3>2. CASE b # w
      BY <1>2, <1>13, <1>15, <1>17, <3>2 DEF IInv, WaitInv
    <3>3. QED
      BY <3>1, <3>2
  <2>2. \A a, b \in Actors : a # b /\ slot'[a] # <<>> => slot'[a] # slot'[b]
    BY <1>13 DEF IInv, WaitInv
  <2>3. QED
    BY <2>1, <2>2 DEF WaitInv
<1>26. StepInv'
  <2>1. Linked(todo'[w]) /\ Counted(todo'[w])
    BY <1>2, Singles
  <2>2. ASSUME NEW b \in Actors \ {w}
        PROVE  /\ Linked(todo'[b]) /\ (cid'[b] > 0 \/ Counted(todo'[b]))
               /\ todo'[b] # <<>> => Ready(b)'
    <3>1. todo'[b] # <<>> => Ready(b)'
      BY <1>2, <1>13, <1>14, StaysReady DEF IInv, StepInv
    <3>2. QED
      BY <1>2, <1>14, <3>1 DEF IInv, StepInv
  <2>3. \A v \in Workers : todo'[v] # <<>> => EndsInAnswer(todo'[v])
    BY <1>2 DEF IInv, StepInv, Actors
  <2>4. QED
    BY <1>2, <2>1, <2>2, <2>3 DEF StepInv
<1>27. ConstructInv' /\ RunInv'
  BY <1>2, <1>13, <1>14, <1>15 DEF IInv, ConstructInv, RunInv, Actors
<1>28. NumberInv'
  <2> SUFFICES ASSUME ~raced'
               PROVE  /\ \A b \in Actors : cid'[b] <= callid /\ (own'[b] # None =>
                                                                own'[b].oid <= objectid)
                      /\ \A b, d \in Actors : b # d /\ cid'[b] > 0 => cid'[b] # cid'[d]
                      /\ \A b, d \in Actors : b # d /\ own'[b] # None /\ own'[d] # None =>
                                                  own'[b].oid # own'[d].oid
    BY <1>13 DEF NumberInv
  <2>1. NumberInv /\ ~raced /\ callid \in Nat
    BY <1>13 DEF IInv, Types
  <2>2. \A b \in Actors : cid[b] \in Nat
    BY <1>7
  <2>3. QED
    BY <1>14, <2>1, <2>2 DEF NumberInv
<1>29. ClassesStored' /\ FaultInv'
  BY <1>11, <1>13 DEF IInv, ClassesStored, FaultInv
<1>30. QED
  BY <1>16, <1>22, <1>23, <1>24, <1>25, <1>26, <1>27, <1>28, <1>29 DEF IInv

-----------------------------------------------------------------------------
(* The theorems.                                                           *)

LEMMA Initially == Init => IInv
<1> SUFFICES ASSUME Init
             PROVE  IInv
  OBVIOUS
<1>1. \A a \in Actors : todo[a] = <<>> /\ slot[a] = <<>> /\ answer[a] = None
                        /\ cid[a] = 0 /\ own[a] = None /\ ref[a] = None
  BY DEF Init
<1>2. \A w \in Workers : todo[w] = <<>>
  BY <1>1 DEF Actors
<1>3. Types
  <2>1. todo \in [Actors -> Seq(StepSet)] /\ in \in Seq(MessageSet) /\ objects \in Seq(Owned)
    BY DEF Init
  <2>2. /\ slot = [a \in Actors |-> slot[a]] /\ obj = [w \in Workers |-> obj[w]]
    BY DEF Init
  <2>3. DOMAIN regobjects = {} /\ regobjects \in [DOMAIN regobjects -> 1..made \cup {None}]
    BY DEF Init
  <2>4. objectid \in Nat
    BY ConstantsAssumption DEF Init
  <2>5. QED
    BY <2>1, <2>2, <2>3, <2>4 DEF Init, Types, Refs
<1>4. StepInv
  BY <1>1, <1>2, Singles DEF StepInv
<1>5. WaitInv /\ MessageInv /\ OnceInv /\ ConstructInv
  <2>1. in = <<>>
    BY DEF Init
  <2>2. WaitInv
    BY <1>1 DEF WaitInv
  <2>3. MessageInv /\ OnceInv /\ ConstructInv
    BY <1>2, <2>1 DEF MessageInv, OnceInv, ConstructInv
  <2>4. QED
    BY <2>2, <2>3
<1>6. ClassesStored /\ RunInv /\ FaultInv
  BY <1>2 DEF Init, ClassesStored, RunInv, FaultInv
<1>7. NumberInv
  BY <1>1 DEF Init, NumberInv
<1>8. ObjectInv /\ FreeInv
  <2>1. DOMAIN regobjects = {} /\ live = {} /\ objects = <<>> /\ in = <<>>
    BY DEF Init
  <2>2. ObjectInv
    BY <1>1, <2>1 DEF ObjectInv, Unsent
  <2>3. FreeInv
    BY <2>1 DEF FreeInv
  <2>4. QED
    BY <2>2, <2>3
<1>9. QED
  BY <1>3, <1>4, <1>5, <1>6, <1>7, <1>8 DEF IInv

LEMMA Inductive == IInv /\ [Next]_vars => IInv'
<1> SUFFICES ASSUME IInv, [Next]_vars
             PROVE  IInv'
  OBVIOUS
<1>1. ASSUME NEW t \in Threads, NEW c \in UNION Range(Calls[t]),
             NEW g \in proxies \cup {None}, Start(t, c, g)
      PROVE  IInv'
  BY <1>1, StartStep
<1>2. ASSUME NEW a \in Actors, Continue(a)
      PROVE  IInv'
  <2>1. CASE ReadCallID(a)
    BY <2>1, ReadCallIDStep
  <2>2. CASE CountCall(a)
    BY <2>2, CountCallStep
  <2>3. CASE ReadObjectID(a)
    BY <2>3, ReadObjectIDStep
  <2>4. CASE StoreObject(a)
    BY <2>4, StoreObjectStep
  <2>5. CASE StoreClass(a)
    BY <2>5, StoreClassStep
  <2>6. CASE Ask(a)
    BY <2>6, AskStep
  <2>7. CASE Clash(a)
    BY <2>7, ClashStep
  <2>8. CASE Return(a)
    BY <2>8, ReturnStep
  <2>9. CASE a \in Workers /\ Run(a)
    BY <2>9, RunStep
  <2>10. CASE a \in Workers /\ Answer(a)
    BY <2>10, AnswerStep
  <2>11. QED
    BY <1>2, <2>1, <2>2, <2>3, <2>4, <2>5, <2>6, <2>7, <2>8, <2>9, <2>10 DEF Continue
<1>3. ASSUME NEW a \in Actors, TableRace(a)
      PROVE  IInv'
  BY <1>3, TableRaceStep
<1>4. CASE Reciever
  BY <1>4, RecvAnswerStep, RecvRequestStep, RecvFreeObjectStep DEF Reciever
<1>5. CASE UNCHANGED vars
  BY <1>5, Stops DEF vars
<1>6. QED
  BY <1>1, <1>2, <1>3, <1>4, <1>5 DEF Next

(* The inductive invariant holds throughout.                               *)
THEOREM Invariance == Spec => []IInv
  BY Initially, Inductive, PTL DEF Spec

(* The variables keep their types: no thread holds the ObjectID of an      *)
(* object the broker was not told of, no message has arguments of another  *)
(* kind; and _regobjects holds no null pointer unless two threads have     *)
(* raced for an ObjectID (Recv_ReqMethodCall's operator[] finds what it    *)
(* looks for).                                                             *)
THEOREM TypeCorrect == Spec => []TypeOK
<1>1. IInv => TypeOK
  BY DEF IInv, TypeOK, ObjectInv
<1>2. QED
  BY <1>1, Invariance, PTL

(* Every call of an application or call thread gets the broker's answer to *)
(* itself, however many calls are nested in or concurrent with it          *)
(* (SetupReply, PutReply and GetReply, connection.cpp:126-150).             *)
THEOREM AnswersAreOwn == Spec => []OwnAnswer
<1>1. IInv => OwnAnswer
  BY DEF IInv, WaitInv, OwnAnswer
<1>2. QED
  BY <1>1, Invariance, PTL

(* The slot name that the handler of an answer makes is the one its caller *)
(* made, and the caller still waits: operator[] of replymap never makes a  *)
(* null slot that the handler then writes through.                         *)
THEOREM HandlersFindCallers == Spec => []SlotsAgree
<1>1. IInv => SlotsAgree
  BY DEF IInv, FaultInv, SlotsAgree
<1>2. QED
  BY <1>1, Invariance, PTL

(* Two calls under one slot name ask the same question, or two threads     *)
(* have raced for a CallID or an ObjectID.                                 *)
THEOREM ClashesAreExplained == Spec => []OnlySameQuestionsClash
<1>1. IInv => OnlySameQuestionsClash
  BY DEF IInv, FaultInv, OnlySameQuestionsClash
<1>2. QED
  BY <1>1, Invariance, PTL

(* A class the broker knows is in _regclasses: RegisterClass stores it     *)
(* before it sends (connection.cpp:232).                                   *)
THEOREM ClassesAreStored == Spec => []ClassesStored
<1>1. IInv => ClassesStored
  BY DEF IInv
<1>2. QED
  BY <1>1, Invariance, PTL

(* An object the broker may ask for is in _regobjects under the ObjectID   *)
(* the broker was told, until FreeObject, unless two threads have raced    *)
(* for an ObjectID.                                                        *)
THEOREM ObjectsAreFound == Spec => []ObjectsFound
<1>1. IInv => ObjectsFound
  BY DEF IInv, ObjectInv, ObjectsFound
<1>2. QED
  BY <1>1, Invariance, PTL

(* A call thread runs its method on a class or object that was found,      *)
(* whatever is released or freed while it is under way, unless two threads *)
(* have raced for an ObjectID (runcall.cpp).                               *)
THEOREM MethodsRunOnObjects == Spec => []RunsOnObject
<1>1. IInv => RunsOnObject
  BY DEF IInv, FaultInv, RunsOnObject
<1>2. QED
  BY <1>1, Invariance, PTL
=============================================================================
