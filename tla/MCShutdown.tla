--------------------------- MODULE MCShutdown ---------------------------
(***************************************************************************)
(* Instances of Shutdown: an application thread and the destructor, a      *)
(* socket that holds one message.                                          *)
(***************************************************************************)
EXTENDS Shutdown

CONSTANTS c1

TwoClients == {c1, Destructor}
=============================================================================
