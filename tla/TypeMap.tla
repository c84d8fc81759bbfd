------------------------------ MODULE TypeMap ------------------------------
(***************************************************************************)
(* The mappings between C++ types and protocol types.  There are three of  *)
(* them, written independently of one another: MapType (typemap.cpp), with *)
(* which a class is published and a result is written; the types to which  *)
(* Serialize casts a value (serialize.cpp); and TypeToTypeInfo             *)
(* (metaext.cpp), with which a proxy says what its parameters and its      *)
(* result are.                                                             *)
(*                                                                         *)
(* A protocol type is the string the code builds, as a sequence: any       *)
(* number of array prefixes "*" before a name.  A C++ type is a sequence   *)
(* too: <<"vector", "int8_t">>.                                            *)
(***************************************************************************)
EXTENDS Naturals, Sequences

(* MapType and MapArrayType: the name of each C++ type, alone or as the    *)
(* element of a vector. *)
NameOf == [int8_t |-> "Int8", int16_t |-> "Int16", int32_t |-> "Int32",
           int64_t |-> "Int64", uint8_t |-> "UInt8", uint16_t |-> "UInt16",
           uint32_t |-> "UInt32", uint64_t |-> "UInt64", char |-> "UTF8",
           wchar_t |-> "UTF16", float |-> "Float32", double |-> "Float64",
           string |-> "String", wstring |-> "WString", bool |-> "Bool",
           MetaObject |-> "Object", Hash |-> "Hash", NullType |-> "Void"]

(* Serialize and Deserialize: the C++ type in which an any keeps a value   *)
(* of a protocol type. *)
CppOf == [Int8 |-> "int8_t", Int16 |-> "int16_t", Int32 |-> "int32_t",
          Int64 |-> "int64_t", UInt8 |-> "uint8_t", UInt16 |-> "uint16_t",
          UInt32 |-> "uint32_t", UInt64 |-> "uint64_t", UTF8 |-> "char",
          UTF16 |-> "wchar_t", Float32 |-> "float", Float64 |-> "double",
          String |-> "string", WString |-> "wstring", Bool |-> "bool",
          Object |-> "uint32_t", Hash |-> "Hash"]

(* TypeToTypeInfo and ArrayTypeToTypeInfo: the C++ type a proxy reports,   *)
(* alone or as the element of a vector. *)
MetaCpp == [Int8 |-> "int8_t", Int16 |-> "int16_t", Int32 |-> "int32_t",
            Int64 |-> "int64_t", UInt8 |-> "uint8_t", UInt16 |-> "uint16_t",
            UInt32 |-> "uint32_t", UInt64 |-> "uint64_t", UTF8 |-> "char",
            UTF16 |-> "wchar_t", String |-> "string", WString |-> "wstring",
            Bool |-> "bool", Object |-> "MetaObject", Hash |-> "Hash"]

MapArrayType(c) ==
    IF Len(c) = 2 /\ c[1] = "vector" /\ c[2] \in DOMAIN NameOf
    THEN <<"*", NameOf[c[2]]>>
    ELSE <<"Unknown">>

MapType(c) ==
    IF Len(c) = 1 /\ c[1] \in DOMAIN NameOf THEN <<NameOf[c[1]]>>
    ELSE MapArrayType(c)

IsArray(t) == t # <<>> /\ t[1] = "*"

ArrayElementType(t) == Tail(t)

Named(t, names) == Len(t) = 1 /\ t[1] \in names

(* The C++ type to which Serialize and SerializeArray cast a value of type *)
(* t; <<>> when they cast it to none. *)
WrittenAs(t) ==
    IF Named(t, DOMAIN CppOf) THEN <<CppOf[t[1]]>>
    ELSE IF IsArray(t) /\ Named(ArrayElementType(t), DOMAIN CppOf \ {"Hash"})
         THEN <<"vector", CppOf[ArrayElementType(t)[1]]>>
    ELSE <<>>

(* The C++ type a proxy reports for a protocol type. *)
ArrayTypeToTypeInfo(t) ==
    LET e == ArrayElementType(t) IN
    <<"vector", IF Named(e, DOMAIN MetaCpp) THEN MetaCpp[e[1]] ELSE "NullType">>

TypeToTypeInfo(t) ==
    IF Named(t, DOMAIN MetaCpp) THEN <<MetaCpp[t[1]]>>
    ELSE IF IsArray(t) THEN ArrayTypeToTypeInfo(t)
    ELSE <<"NullType">>

-----------------------------------------------------------------------------

(* The C++ types that have a protocol type. *)
CppTypes == {<<n>> : n \in DOMAIN NameOf} \cup {<<"vector", n>> : n \in DOMAIN NameOf}
=============================================================================
