------------------------------- MODULE Stream -------------------------------
(***************************************************************************)
(* What is read and written (serialize.hpp).                               *)
(*                                                                         *)
(* A boost::any is a pair of a C++ type and its data: a number; a sequence *)
(* for a string or a vector; a function from strings to anys for a Hash; a *)
(* record for a structure.                                                 *)
(*                                                                         *)
(* A stream is a sequence of items <<width, datum>>, so that reading what  *)
(* was written with another width is noticed.  The string that names a     *)
(* type is one item.  An exception thrown while writing is the item Throw: *)
(* what is written goes to a local stringstream first, so an output with a *)
(* Throw in it never reaches the socket.                                   *)
(***************************************************************************)
EXTENDS TypeMap, Naturals, Sequences

Throw == <<"Throw", 0>>      \* an exception has left the function
Lost  == <<"Lost", 0>>       \* the reader no longer reads what was written

Failed(s) == \E i \in DOMAIN s : s[i] \in {Throw, Lost}

(* An any that holds nothing. *)
Empty == <<<<"void">>, 0>>

(* Reading a datum: the value and the rest of the stream.  A read that     *)
(* does not meet what it expects is lost. *)
Item(w, in) ==
    IF in # <<>> /\ Head(in)[1] = w THEN [val |-> Head(in)[2], in |-> Tail(in)]
    ELSE [val |-> 0, in |-> <<Lost>>]
=============================================================================
