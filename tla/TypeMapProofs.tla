--------------------------- MODULE TypeMapProofs ---------------------------
(***************************************************************************)
(* Theorems about the type mappings: how the three tables, which are       *)
(* written independently of one another, agree and where they do not.      *)
(***************************************************************************)
EXTENDS TypeMap, TLAPS

Cpp == DOMAIN NameOf

Floats == {"float", "double"}

(* How the tables agree, name by name. *)
LEMMA NamesDiffer == \A c, d \in Cpp : NameOf[c] = NameOf[d] => c = d
  BY DEF Cpp, NameOf

LEMMA NamesCast ==
    /\ \A c \in Cpp \ {"MetaObject", "NullType"} :
          NameOf[c] \in DOMAIN CppOf /\ CppOf[NameOf[c]] = c
    /\ NameOf["MetaObject"] = "Object" /\ NameOf["NullType"] = "Void"
    /\ NameOf["Hash"] = "Hash"
    /\ "Object" \in DOMAIN CppOf /\ CppOf["Object"] = "uint32_t"
    /\ {"MetaObject", "NullType", "Hash"} \subseteq Cpp
  BY DEF Cpp, NameOf, CppOf

LEMMA NamesReported ==
    /\ \A c \in Cpp \ (Floats \cup {"NullType"}) :
          NameOf[c] \in DOMAIN MetaCpp /\ MetaCpp[NameOf[c]] = c
    /\ "Void" \notin DOMAIN MetaCpp
  BY DEF Cpp, Floats, NameOf, MetaCpp

(* No type has the name of the array prefix or that of no type. *)
LEMMA NoPrefix ==
    /\ "*" \notin DOMAIN CppOf /\ "*" \notin DOMAIN MetaCpp
    /\ \A c \in Cpp : NameOf[c] # "*" /\ NameOf[c] # "Unknown"
    /\ \A c \in Cpp : c # "vector"
  BY DEF Cpp, NameOf, CppOf, MetaCpp

LEMMA Tuples ==
    /\ \A x, y, z : <<x>> # <<y, z>>
    /\ \A x, y : <<x>> = <<y>> => x = y
    /\ \A w, x, y, z : <<w, x>> = <<y, z>> => x = z
<1>1. ASSUME NEW x, NEW y, NEW z
      PROVE  <<x>> # <<y, z>>
  <2>1. Len(<<x>>) = 1 /\ Len(<<y, z>>) = 2
    OBVIOUS
  <2>2. QED
    BY <2>1
<1>2. \A x, y : <<x>> = <<y>> => x = y
  OBVIOUS
<1>3. \A w, x, y, z : <<w, x>> = <<y, z>> => x = z
  OBVIOUS
<1>4. QED
  BY <1>1, <1>2, <1>3

(* A C++ type is the name of one or a vector of it. *)
LEMMA Types ==
    /\ \A n \in Cpp : MapType(<<n>>) = <<NameOf[n]>>
    /\ \A n \in Cpp : MapType(<<"vector", n>>) = <<"*", NameOf[n]>>
    /\ \A c \in CppTypes : \E n \in Cpp : c = <<n>> \/ c = <<"vector", n>>
<1>1. \A n \in Cpp : MapType(<<n>>) = <<NameOf[n]>>
  BY DEF Cpp, MapType
<1>2. \A n \in Cpp : MapType(<<"vector", n>>) = <<"*", NameOf[n]>>
  <2> TAKE n \in Cpp
  <2>1. MapType(<<"vector", n>>) = MapArrayType(<<"vector", n>>)
    BY DEF MapType
  <2>2. QED
    BY <2>1 DEF MapArrayType, Cpp
<1>3. \A c \in CppTypes : \E n \in Cpp : c = <<n>> \/ c = <<"vector", n>>
  BY DEF Cpp, CppTypes
<1>4. QED
  BY <1>1, <1>2, <1>3

(* What the other two mappings make of a name and of an array of it. *)
LEMMA OfNames ==
    /\ \A n \in DOMAIN CppOf : WrittenAs(<<n>>) = <<CppOf[n]>>
    /\ \A n \in DOMAIN CppOf \ {"Hash"} : WrittenAs(<<"*", n>>) = <<"vector", CppOf[n]>>
    /\ WrittenAs(<<"*", "Hash">>) = <<>>
    /\ \A n \in DOMAIN MetaCpp : TypeToTypeInfo(<<n>>) = <<MetaCpp[n]>>
    /\ \A n \in DOMAIN MetaCpp : TypeToTypeInfo(<<"*", n>>) = <<"vector", MetaCpp[n]>>
    /\ TypeToTypeInfo(<<"Void">>) = <<"NullType">>
    /\ TypeToTypeInfo(<<"*", "Void">>) = <<"vector", "NullType">>
<1>1. \A n : IsArray(<<"*", n>>) /\ ArrayElementType(<<"*", n>>) = <<n>>
  BY DEF IsArray, ArrayElementType
<1>2. /\ \A n, S : Named(<<n>>, S) <=> n \in S
      /\ \A m, n, S : ~Named(<<m, n>>, S)
  BY DEF Named
<1>3. \A n \in DOMAIN CppOf : WrittenAs(<<n>>) = <<CppOf[n]>>
  BY <1>2 DEF WrittenAs
<1>4. \A n \in DOMAIN CppOf \ {"Hash"} : WrittenAs(<<"*", n>>) = <<"vector", CppOf[n]>>
  <2> TAKE n \in DOMAIN CppOf \ {"Hash"}
  <2>1. /\ IsArray(<<"*", n>>) /\ ~Named(<<"*", n>>, DOMAIN CppOf)
        /\ Named(ArrayElementType(<<"*", n>>), DOMAIN CppOf \ {"Hash"})
    BY <1>1, <1>2
  <2>2. ArrayElementType(<<"*", n>>)[1] = n
    BY <1>1
  <2>3. QED
    BY <2>1, <2>2 DEF WrittenAs
<1>5. WrittenAs(<<"*", "Hash">>) = <<>>
  BY <1>1, <1>2 DEF WrittenAs
<1>6. \A n \in DOMAIN MetaCpp : TypeToTypeInfo(<<n>>) = <<MetaCpp[n]>>
  BY <1>2 DEF TypeToTypeInfo
<1>7. \A n \in DOMAIN MetaCpp : TypeToTypeInfo(<<"*", n>>) = <<"vector", MetaCpp[n]>>
  <2> TAKE n \in DOMAIN MetaCpp
  <2>1. /\ IsArray(<<"*", n>>) /\ ~Named(<<"*", n>>, DOMAIN MetaCpp)
        /\ Named(ArrayElementType(<<"*", n>>), DOMAIN MetaCpp)
    BY <1>1, <1>2
  <2>2. ArrayElementType(<<"*", n>>)[1] = n
    BY <1>1
  <2>3. ArrayTypeToTypeInfo(<<"*", n>>) = <<"vector", MetaCpp[n]>>
    BY <2>1, <2>2 DEF ArrayTypeToTypeInfo
  <2>4. QED
    BY <2>1, <2>3 DEF TypeToTypeInfo
<1>8. ~IsArray(<<"Void">>)
  BY DEF IsArray
<1>9. TypeToTypeInfo(<<"Void">>) = <<"NullType">>
  BY <1>2, <1>8, NamesReported DEF TypeToTypeInfo
<1>10. TypeToTypeInfo(<<"*", "Void">>) = <<"vector", "NullType">>
  BY <1>1, <1>2, NamesReported DEF TypeToTypeInfo, ArrayTypeToTypeInfo
<1>11. QED
  BY <1>3, <1>4, <1>5, <1>6, <1>7, <1>9, <1>10

(* The types that Serialize casts to something else than what MapType was  *)
(* given: an object, which COFnWrap::Call has replaced by its ObjectID;    *)
(* nothing, which is not cast; and the two vectors below. *)
Uncast == {<<"MetaObject">>, <<"NullType">>, <<"vector", "NullType">>,
           <<"vector", "MetaObject">>, <<"vector", "Hash">>}

(* A value of every other type, vectors included, is written as what it    *)
(* is: serialize.cpp casts it to the type that typemap.cpp was given.  A   *)
(* vector of objects is cast to a vector of numbers, and a vector of       *)
(* Hashes to nothing at all.                                               *)
THEOREM WrittenAsTyped ==
    /\ \A c \in CppTypes \ Uncast : WrittenAs(MapType(c)) = c
    /\ WrittenAs(MapType(<<"MetaObject">>)) = <<"uint32_t">>
    /\ WrittenAs(MapType(<<"vector", "MetaObject">>)) = <<"vector", "uint32_t">>
    /\ WrittenAs(MapType(<<"vector", "Hash">>)) = <<>>
<1>1. ASSUME NEW c \in CppTypes \ Uncast
      PROVE  WrittenAs(MapType(c)) = c
  <2>1. PICK n \in Cpp : c = <<n>> \/ c = <<"vector", n>>
    BY Types
  <2>2. n \notin {"MetaObject", "NullType"}
    BY <2>1 DEF Uncast
  <2>3. NameOf[n] \in DOMAIN CppOf /\ CppOf[NameOf[n]] = n
    BY <2>2, NamesCast
  <2>4. CASE c = <<n>>
    BY <2>3, <2>4, Types, OfNames
  <2>5. CASE c = <<"vector", n>>
    <3>1. n # "Hash"
      BY <2>5 DEF Uncast
    <3>2. NameOf[n] # "Hash"
      BY <3>1, NamesCast, NamesDiffer
    <3>3. QED
      BY <2>3, <2>5, <3>2, Types, OfNames
  <2>6. QED
    BY <2>1, <2>4, <2>5
<1>2. WrittenAs(MapType(<<"MetaObject">>)) = <<"uint32_t">>
  BY NamesCast, Types, OfNames
<1>3. WrittenAs(MapType(<<"vector", "MetaObject">>)) = <<"vector", "uint32_t">>
  <2>1. NameOf["MetaObject"] \in DOMAIN CppOf \ {"Hash"}
    BY NamesCast
  <2>2. QED
    BY <2>1, NamesCast, Types, OfNames
<1>4. WrittenAs(MapType(<<"vector", "Hash">>)) = <<>>
  BY NamesCast, Types, OfNames
<1>5. QED
  BY <1>1, <1>2, <1>3, <1>4

(* A proxy (metaext.cpp) reports every type that its method was published  *)
(* with (typemap.cpp), but not a floating point number or a vector of      *)
(* them.                                                                   *)
THEOREM ProxyTypes ==
    \A c \in CppTypes : c[Len(c)] \notin Floats => TypeToTypeInfo(MapType(c)) = c
<1> SUFFICES ASSUME NEW c \in CppTypes, c[Len(c)] \notin Floats
             PROVE  TypeToTypeInfo(MapType(c)) = c
  OBVIOUS
<1>1. PICK n \in Cpp : c = <<n>> \/ c = <<"vector", n>>
  BY Types
<1>2. n \notin Floats
  <2>1. /\ Len(<<n>>) = 1 /\ <<n>>[1] = n
        /\ Len(<<"vector", n>>) = 2 /\ <<"vector", n>>[2] = n
    OBVIOUS
  <2>2. CASE c = <<n>>
    BY <2>1, <2>2
  <2>3. CASE c = <<"vector", n>>
    BY <2>1, <2>3
  <2>4. QED
    BY <1>1, <2>2, <2>3
<1>3. CASE n = "NullType"
  BY <1>1, <1>3, NamesCast, Types, OfNames
<1>4. CASE n # "NullType"
  <2>1. NameOf[n] \in DOMAIN MetaCpp /\ MetaCpp[NameOf[n]] = n
    BY <1>2, <1>4, NamesReported
  <2>2. CASE c = <<n>>
    BY <2>1, <2>2, Types, OfNames
  <2>3. CASE c = <<"vector", n>>
    BY <2>1, <2>3, Types, OfNames
  <2>4. QED
    BY <1>1, <2>2, <2>3
<1>5. QED
  BY <1>3, <1>4

(* No two C++ types are published, or sent, under the same protocol type. *)
THEOREM TypesDiffer == \A c, d \in CppTypes : MapType(c) = MapType(d) => c = d
<1> SUFFICES ASSUME NEW c \in CppTypes, NEW d \in CppTypes, MapType(c) = MapType(d)
             PROVE  c = d
  OBVIOUS
<1>1. PICK m \in Cpp : c = <<m>> \/ c = <<"vector", m>>
  BY Types
<1>2. PICK n \in Cpp : d = <<n>> \/ d = <<"vector", n>>
  BY Types
<1>3. CASE c = <<m>> /\ d = <<n>>
  <2>1. <<NameOf[m]>> = <<NameOf[n]>>
    BY <1>3, Types
  <2>2. QED
    BY <1>3, <2>1, Tuples, NamesDiffer
<1>4. CASE c = <<"vector", m>> /\ d = <<"vector", n>>
  <2>1. <<"*", NameOf[m]>> = <<"*", NameOf[n]>>
    BY <1>4, Types
  <2>2. QED
    BY <1>4, <2>1, Tuples, NamesDiffer
<1>5. CASE c = <<m>> /\ d = <<"vector", n>>
  <2>1. <<NameOf[m]>> = <<"*", NameOf[n]>>
    BY <1>5, Types
  <2>2. QED
    BY <2>1, Tuples
<1>6. CASE c = <<"vector", m>> /\ d = <<n>>
  <2>1. <<NameOf[n]>> = <<"*", NameOf[m]>>
    BY <1>6, Types
  <2>2. QED
    BY <2>1, Tuples
<1>7. QED
  BY <1>1, <1>2, <1>3, <1>4, <1>5, <1>6

(* Only objects are sent as objects, and only nothing as nothing, among    *)
(* all types, those without a protocol type included. *)
LEMMA ObjectAndVoid ==
    ASSUME NEW c \in Seq(STRING)
    PROVE  /\ MapType(c) = <<"Object">> <=> c = <<"MetaObject">>
           /\ MapType(c) = <<"Void">> <=> c = <<"NullType">>
<1>1. CASE Len(c) = 1 /\ c[1] \in Cpp
  <2>1. PICK n \in Cpp : c = <<n>>
    BY <1>1
  <2>2. MapType(c) = <<NameOf[n]>>
    BY <2>1, Types
  <2>3. /\ NameOf[n] = "Object" <=> n = "MetaObject"
        /\ NameOf[n] = "Void" <=> n = "NullType"
    BY NamesCast, NamesDiffer
  <2>4. QED
    BY <2>1, <2>2, <2>3, Tuples
<1>2. CASE ~(Len(c) = 1 /\ c[1] \in Cpp)
  <2>1. c # <<"MetaObject">> /\ c # <<"NullType">>
    BY <1>2, NamesCast
  <2>2. MapType(c) = MapArrayType(c)
    BY <1>2 DEF MapType, Cpp
  <2>3. MapArrayType(c) = <<"Unknown">> \/ \E n : MapArrayType(c) = <<"*", n>>
    BY DEF MapArrayType
  <2>4. MapType(c) # <<"Object">> /\ MapType(c) # <<"Void">>
    BY <2>2, <2>3, Tuples
  <2>5. QED
    BY <2>1, <2>4
<1>3. QED
  BY <1>1, <1>2
=============================================================================
