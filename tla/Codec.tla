------------------------------- MODULE Codec -------------------------------
(***************************************************************************)
(* The wire format (serialize.hpp, serialize.cpp).                         *)
(***************************************************************************)
EXTENDS Stream, SequencesExt

-----------------------------------------------------------------------------
(* Writing. *)

(* sizeof, of the types that Serialize writes as they lie in memory. *)
Width == [int8_t |-> "1", int16_t |-> "2", int32_t |-> "4", int64_t |-> "8",
          uint8_t |-> "1", uint16_t |-> "2", uint32_t |-> "4", uint64_t |-> "8",
          char |-> "1", wchar_t |-> "4", float |-> "4", double |-> "8",
          bool |-> "1", Type_t |-> "type"]

RECURSIVE Serialize(_, _)

(* Mutant: a wide string's length and its characters do not agree. *)
NarrowText(c, d) ==
    <<<<"4", Len(d)>>>> \o [i \in 1..Len(d) |-> <<"1", d[i]>>]

(* The length and the characters, without a terminator. *)
SerializeText(c, d) ==
    LET char == IF c = "string" THEN "char" ELSE "wchar_t" IN
    <<<<"4", Len(d)>>>> \o [i \in 1..Len(d) |-> <<Width[char], d[i]>>]

SerializeVector(c, d) ==
    <<<<"4", Len(d)>>>> \o FlattenSeq([i \in 1..Len(d) |-> Serialize(c, d[i])])

(* Entries in the order of their keys; the type of each value is that of   *)
(* the any that holds it. *)
SerializeHash(h) ==
    LET keys == SetToSortSeq(DOMAIN h, LAMBDA a, b : a[1] < b[1]) IN
    <<<<"4", Len(keys)>>>> \o FlattenSeq([i \in 1..Len(keys) |->
        Serialize(<<"string">>, keys[i])
            \o Serialize(<<"TypedVal">>,
                         [type |-> MapType(h[keys[i]][1]), val |-> h[keys[i]]])])

SerializeMethodInfo(i) ==
    Serialize(<<"string">>, i.MethodName) \o Serialize(<<"bool">>, i.IsStatic)
        \o Serialize(<<"Type_t">>, i.ReturnType)
        \o Serialize(<<"vector", "Type_t">>, i.ParamTypes)

SerializeClassInfo(i) ==
    Serialize(<<"string">>, i.ClassName)
        \o Serialize(<<"vector", "MethodInfo">>, i.Methods)

(* any_cast throws when the any holds another type. *)
SerializeAny(c, a) == IF a[1] = c THEN Serialize(c, a[2]) ELSE <<Throw>>

(* Nothing, alone or in an array, is written as nothing; a type that is    *)
(* cast to none throws.  The type is in the stream by then. *)
SerializeTypedVal(v) ==
    <<<<"type", v.type>>>> \o
        IF WrittenAs(v.type) # <<>> THEN SerializeAny(WrittenAs(v.type), v.val)
        ELSE IF v.type \in {<<"Void">>, <<"*", "Void">>} THEN <<>> ELSE <<Throw>>

(* The overloads of Serialize. *)
Serialize(c, d) ==
    CASE c[1] = "vector" -> SerializeVector(Tail(c), d)
      [] c[1] \in {"string", "wstring"} -> SerializeText(c[1], d)
      [] c[1] = "Hash" -> SerializeHash(d)
      [] c[1] = "MethodInfo" -> SerializeMethodInfo(d)
      [] c[1] = "ClassInfo" -> SerializeClassInfo(d)
      [] c[1] = "TypedVal" -> SerializeTypedVal(d)
      [] OTHER -> <<<<Width[c[1]], d>>>>

-----------------------------------------------------------------------------
(* Reading: the value and the rest of the stream.  A throw is noted like a *)
(* read that is lost. *)

RECURSIVE Deserialize(_, _)

(* Reads n values one after the other with Step(values so far, stream). *)
Repeat(n, Step(_, _), none, in) ==
    LET upto[i \in 0..n] ==
            IF i = 0 THEN [val |-> none, in |-> in]
            ELSE LET acc == upto[i - 1] IN Step(acc.val, acc.in) IN
    upto[n]

DeserializeText(c, in) ==
    LET char == IF c = "string" THEN "char" ELSE "wchar_t"
        size == Item("4", in)
        Step(text, rest) == LET x == Item(Width[char], rest) IN
                            [val |-> Append(text, x.val), in |-> x.in] IN
    Repeat(size.val, Step, <<>>, size.in)

DeserializeVector(c, in) ==
    LET size == Item("4", in)
        Step(vec, rest) == LET x == Deserialize(c, rest) IN
                           [val |-> Append(vec, x.val), in |-> x.in] IN
    Repeat(size.val, Step, <<>>, size.in)

(* v[key]=val.val: the entries lose the types they were sent with. *)
DeserializeHash(in) ==
    LET size == Item("4", in)
        Step(h, rest) == LET key == Deserialize(<<"string">>, rest)
                             val == Deserialize(<<"TypedVal">>, key.in) IN
                         [val |-> (key.val :> val.val.val) @@ h, in |-> val.in] IN
    Repeat(size.val, Step, <<>>, size.in)

DeserializeMethodInfo(in) ==
    LET name == Deserialize(<<"string">>, in)
        static == Deserialize(<<"bool">>, name.in)
        return == Deserialize(<<"Type_t">>, static.in)
        params == Deserialize(<<"vector", "Type_t">>, return.in) IN
    [val |-> [MethodName |-> name.val, IsStatic |-> static.val,
              ReturnType |-> return.val, ParamTypes |-> params.val],
     in |-> params.in]

DeserializeClassInfo(in) ==
    LET name == Deserialize(<<"string">>, in)
        methods == Deserialize(<<"vector", "MethodInfo">>, name.in) IN
    [val |-> [ClassName |-> name.val, Methods |-> methods.val], in |-> methods.in]

(* v.val=val: the any holds the C++ type that was read. *)
DeserializeAny(t, c, in) ==
    LET x == Deserialize(c, in) IN
    [val |-> [type |-> t, val |-> <<c, x.val>>], in |-> x.in]

(* The test for an array of arrays looks at v.type, which is an array, and *)
(* so throws for every element type not listed before it. *)
DeserializeArray(t, in) ==
    LET e == ArrayElementType(t) IN
    IF Named(e, DOMAIN CppOf) THEN DeserializeAny(t, <<"vector", CppOf[e[1]]>>, in)
    ELSE [val |-> [type |-> t, val |-> Empty], in |-> <<Throw>>]

DeserializeTypedVal(in) ==
    LET t == Item("type", in)
        without(rest) == [val |-> [type |-> t.val, val |-> Empty], in |-> rest] IN
    IF Failed(t.in) THEN without(t.in)
    ELSE IF Named(t.val, DOMAIN CppOf)
         THEN DeserializeAny(t.val, <<CppOf[t.val[1]]>>, t.in)
    ELSE IF IsArray(t.val) THEN DeserializeArray(t.val, t.in)
    ELSE IF t.val = <<"Void">> THEN without(t.in) ELSE without(<<Throw>>)

Deserialize(c, in) ==
    CASE c[1] = "vector" -> DeserializeVector(Tail(c), in)
      [] c[1] \in {"string", "wstring"} -> DeserializeText(c[1], in)
      [] c[1] = "Hash" -> DeserializeHash(in)
      [] c[1] = "MethodInfo" -> DeserializeMethodInfo(in)
      [] c[1] = "ClassInfo" -> DeserializeClassInfo(in)
      [] c[1] = "TypedVal" -> DeserializeTypedVal(in)
      [] OTHER -> Item(Width[c[1]], in)
=============================================================================
