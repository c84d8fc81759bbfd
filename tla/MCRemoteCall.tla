--------------------------- MODULE MCRemoteCall ---------------------------
(***************************************************************************)
(* Instances of RemoteCall.  A method of one parameter is called with a    *)
(* value of its type, with one of the type its proxy reports and with a    *)
(* mistyped one.                                                           *)
(***************************************************************************)
EXTENDS RemoteCall, Codec, TLC

(* The code's own wire format. *)
WireWrite(c, d) == LET written == Serialize(c, d) IN written
WireRead(c, in) == LET read == Deserialize(c, in) IN read

Plainly == <<"int8_t", "int16_t", "int32_t", "int64_t", "uint8_t", "uint16_t",
             "uint32_t", "uint64_t", "char", "wchar_t", "float", "double", "bool",
             "string", "wstring">>

Single(names) == [i \in 1..Len(names) |-> <<names[i]>>]
Vector(names) == [i \in 1..Len(names) |-> <<"vector", names[i]>>]

(* Data of each C++ type; a string of two characters, a Hash that holds    *)
(* values of several types, one of them a Hash. *)
SampleHash ==
    (<<3>> :> <<<<"int8_t">>, 5>>) @@ (<<4>> :> <<<<"vector", "wstring">>, <<<<7, 7>>>>>>)
    @@ (<<5>> :> <<<<"Hash">>, <<6>> :> <<<<"string">>, <<>>>>>>)

Data(c) == IF c \in {"string", "wstring"} THEN <<7, 8>>
           ELSE IF c = "Hash" THEN SampleHash
           ELSE IF c = "MetaObject" THEN 0
           ELSE 1

Value(c) == IF c[1] = "vector" THEN <<c, <<Data(c[2]), Data(c[2])>>>> ELSE <<c, Data(c[1])>>

Method(i, static, ret, params) ==
    [name |-> <<10 + i>>, static |-> static, ret |-> ret, params |-> params]

Echoes(types) == [i \in 1..Len(types) |-> Method(i, i % 2, types[i], <<types[i]>>)]

(* Every type that Serialize writes takes part as parameter and as result; *)
(* there are a method without either and one with two parameters.  Not     *)
(* among them: the vectors in Overlooked, and parameters of type NullType. *)
Plain == Echoes(Single(Plainly) \o Vector(Plainly) \o Single(<<"Hash", "MetaObject">>))
         \o <<Method(90, 1, <<"NullType">>, <<>>),
              Method(91, 0, <<"wstring">>, <<<<"string">>, <<"uint16_t">>>>)>>

(* Types that have a protocol type, but that TypeToTypeInfo or Serialize   *)
(* does not know, and two that both know. *)
Overlooked ==
    LET types == Single(<<"float", "double", "int8_t">>)
                 \o Vector(<<"float", "double", "Hash", "MetaObject", "string">>) IN
    [i \in 1..Len(types) |-> Method(i, 1, <<"string">>, <<types[i]>>)]

Mistyped == <<<<"vector", "void">>, <<>>>>

ArgsOf(class) == [m \in DOMAIN class |->
    LET params == class[m].params IN
    {[i \in DOMAIN params |-> Value(params[i])]}
    \cup {<<v>> : v \in IF Len(params) # 1 THEN {}
                        ELSE {Mistyped, Value(TypeToTypeInfo(MapType(params[1])))}}]

ResultsOf(class) == [m \in DOMAIN class |-> Value(class[m].ret)]

PlainArgs == ArgsOf(Plain)
PlainResults == ResultsOf(Plain)
OverlookedArgs == ArgsOf(Overlooked)
OverlookedResults == ResultsOf(Overlooked)

(* The items that Codec writes: numbers, characters, lengths, MessageIDs   *)
(* and type names. *)
TypeNames == {<<n>> : n \in DOMAIN CppOf \cup {"Void"}} \cup {<<"*", n>> : n \in DOMAIN CppOf}
WireItems == ({"1", "2", "4", "8"} \X (0..127)) \cup ({"type"} \X TypeNames)

(* Codec keeps the contract, with nothing, one item or a Hash after what   *)
(* is read. *)
Rests == {<<>>, Serialize(<<"Hash">>, SampleHash)} \cup {<<x>> : x \in WireItems}
WireKeepsContract == CodecContract(Rests)
RoundTrip == proxied # None => WireKeepsContract
=============================================================================
