-------------------------- MODULE ShutdownProofs --------------------------
(***************************************************************************)
(* Proofs about Shutdown: with the receiver, the destructor and the used   *)
(* objects around it the sender still is that of SendQueue, and neither    *)
(* thread does more than one thing once *_term is set.                     *)
(***************************************************************************)
EXTENDS Shutdown, SendQueueProofs

-----------------------------------------------------------------------------
(* Shutdown restricts SendQueue: every step of it is a step of SendQueue   *)
(* or leaves the queue alone.                                              *)

LEMMA StepsOfSendQueue == [ShutdownNext]_allvars => [Next]_vars
<1> SUFFICES ASSUME [ShutdownNext]_allvars PROVE [Next]_vars
  OBVIOUS
<1> Destructor \in Clients
  BY ShutdownAssumption
<1>1. CASE UNCHANGED allvars
  BY <1>1 DEF allvars
<1>2. ASSUME NEW c \in Clients \ {Destructor}, Application(c) PROVE Next
  BY <1>2 DEF Application, Next
<1>3. ASSUME NEW c \in Clients, Sends(c) PROVE Next
  BY <1>3 DEF Sends, Next
<1>4. CASE Sending \/ Waking
  BY <1>4 DEF Sending, Waking, Next
<1>5. CASE ReceiverStarts \/ BrokerAnswers
  BY <1>5 DEF ReceiverStarts, BrokerAnswers, Next
<1>6. CASE ReceiverTests \/ ReceiverReads
  BY <1>6 DEF ReceiverTests, ReceiverReads
<1>7. CASE SetsTerm \/ Interrupts
  BY <1>7 DEF SetsTerm, Interrupts, Next
<1>8. CASE ReleaseObject
  BY <1>8 DEF ReleaseObject, Next
<1> QED
  BY <1>1, <1>2, <1>3, <1>4, <1>5, <1>6, <1>7, <1>8 DEF ShutdownNext

(* A Connection that is being destroyed with handles left in _usedobjects  *)
(* uses its queue as SendQueue says (connection.cpp:27-51, 119-124).       *)
THEOREM ShutdownKeepsTheQueue == ShutdownSpec => Spec
<1>1. ShutdownInit => Init
  BY DEF ShutdownInit
<1> QED
  BY <1>1, StepsOfSendQueue, PTL DEF ShutdownSpec, Spec

-----------------------------------------------------------------------------
(* At most one more message is written and one handled.                    *)

LEMMA EndInit == ShutdownInit => EndInv
BY DEF ShutdownInit, Init, EndInv

LEMMA SendingKeepsEndInv ==
    ASSUME EndInv, Sending PROVE EndInv'
<1> USE DEF EndInv
<1> UNCHANGED <<rpc, handled>> /\ UNCHANGED term
  BY DEF Sending, SenderStep, Spin, TestTerm, Lock, GoOn, FoundEmpty, Wait, Relock, Write,
         Pop, Stray
<1>1. CASE Write
  <2>1. spc = "front" /\ spc' = "pop"
    BY <1>1 DEF Write, SGoto
  <2>2. written = 0 /\ written' \in 0..1
    BY <2>1 DEF Sending
  <2>3. ~term => written' = 0
    BY <2>2 DEF Sending
  <2> QED
    BY <2>1, <2>2, <2>3
<1>2. CASE Pop \/ Spin
  BY <1>2 DEF Pop, Spin, SGoto, Sending
<1>3. CASE TestTerm
  BY <1>3 DEF TestTerm, SGoto, Sending
<1>4. CASE Lock \/ GoOn \/ FoundEmpty \/ Wait \/ Relock \/ Stray
  BY <1>4 DEF Lock, GoOn, FoundEmpty, Wait, Relock, Stray, SGoto, Sending
<1> QED
  BY <1>1, <1>2, <1>3, <1>4 DEF Sending, SenderStep

LEMMA EndStep == EndInv /\ [ShutdownNext]_allvars => EndInv'
<1> SUFFICES ASSUME EndInv, [ShutdownNext]_allvars PROVE EndInv'
  OBVIOUS
<1> USE DEF EndInv
<1>1. CASE UNCHANGED allvars
  BY <1>1 DEF allvars, vars, ending
<1>2. ASSUME NEW c \in Clients \ {Destructor}, Application(c) PROVE EndInv'
  BY <1>2 DEF Application, SendCall, ending
<1>3. ASSUME NEW c \in Clients, Sends(c) PROVE EndInv'
  BY <1>3 DEF Sends, Push, ending
<1>4. CASE Sending
  BY <1>4, SendingKeepsEndInv
<1>5. CASE Waking
  BY <1>5 DEF Waking, SpuriousWake, SGoto, ending
<1>6. CASE ReceiverStarts
  BY <1>6 DEF ReceiverStarts, Welcome
<1>7. CASE ReceiverTests
  BY <1>7 DEF ReceiverTests, vars
<1>8. CASE ReceiverReads
  BY <1>8 DEF ReceiverReads, vars
<1>9. CASE BrokerAnswers
  BY <1>9 DEF BrokerAnswers, BrokerRead
<1>10. CASE SetsTerm \/ Interrupts
  BY <1>10 DEF SetsTerm, SetTerm, Interrupts, Interrupt, ending
<1>11. CASE ReleaseObject
  BY <1>11 DEF ReleaseObject, SendCall, ending
<1> QED
  BY <1>1, <1>2, <1>3, <1>4, <1>5, <1>6, <1>7, <1>8, <1>9, <1>10, <1>11 DEF ShutdownNext

(* Once ~Connection has set *_term the sender writes at most one message   *)
(* and the receiver handles at most one (connection.cpp:29, 40, 60).       *)
THEOREM ThreadsFinishWhatTheyDo == ShutdownSpec => []AtMostOneMore
<1>1. EndInv => AtMostOneMore
  BY DEF EndInv, AtMostOneMore
<1> QED
  BY EndInit, EndStep, <1>1, PTL DEF ShutdownSpec

-----------------------------------------------------------------------------
(* What is proved of the queue therefore holds while it is taken down.     *)

(* Nothing is written before the welcome, and the sender finds the queue   *)
(* as it tested it, until the end (connection.cpp:35-51).                  *)
THEOREM QueueConsistentToTheEnd == ShutdownSpec => []IInv
BY ShutdownKeepsTheQueue, SendQueueConsistent, PTL
=============================================================================
