-------------------------- MODULE MCConnection --------------------------
(***************************************************************************)
(* Instances of Connection: two threads that use the whole API.            *)
(***************************************************************************)
EXTENDS Connection

CONSTANTS t1, t2, w1, w2, w3, w4

TwoThreads == {t1, t2}
FourWorkers == {w1, w2, w3, w4}
AllNames == {"n1", "n2", "c"}

Plain == { <<"BrokerDetails">>, <<"SetNamespace", "n1">>, <<"ListNamespaces">>,
           <<"ListClasses", "n2">>, <<"GetClassDef", "n1", "c">> }
WithProxy == { <<"CallStatic", "c", "callhello", "proxy">>, <<"CallMethod", "hello">> }

(* One thread registers its class, gets an object and uses it; the other   *)
(* makes any one call meanwhile.                                           *)
Program == [t \in TwoThreads |->
    IF t = t1
    THEN << { <<"RegisterClass", "c">> },
            { <<"ConstructObject", "c">>, <<"CallStatic", "c", "getobject", "none">>,
              <<"CallStatic", "c", "callhello", "new">>, <<"ListClasses", "n1">> },
            WithProxy \cup { <<"SetNamespace", "n2">> } >>
    ELSE << Plain \cup
            { <<"CallStatic", "c", "callhello", "proxy">>, <<"CallMethod", "hello">>,
              <<"RegisterObject">>, <<"ConstructObject", "c">>, <<"ReleaseObject">> } >>]
FirstObjectIDs == {0, 5}
=============================================================================
