----------------------------- MODULE Channel -----------------------------
(***************************************************************************)
(* What Connection::Send promises: the messages reach the broker whole,    *)
(* once each and in the order in which they were queued.                   *)
(***************************************************************************)
EXTENDS Naturals, Sequences

CONSTANT Messages

VARIABLES sent,       \* messages given to Send, oldest first
          delivered   \* messages the broker has received

vars == <<sent, delivered>>

Init == sent = <<>> /\ delivered = <<>>

Push(m) ==
    /\ \A i \in 1..Len(sent) : sent[i] # m
    /\ sent' = Append(sent, m)
    /\ UNCHANGED delivered

Deliver ==
    /\ Len(delivered) < Len(sent)
    /\ delivered' = Append(delivered, sent[Len(delivered) + 1])
    /\ UNCHANGED sent

Next == Deliver \/ \E m \in Messages : Push(m)

Spec == Init /\ [][Next]_vars
=============================================================================
