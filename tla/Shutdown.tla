---------------------------- MODULE Shutdown ----------------------------
(***************************************************************************)
(* The end of a Connection (connection.cpp:27-33) with both of its         *)
(* threads: SendQueue, composed with the receiver's loop (53-117), the     *)
(* destructor, and the handles of _usedobjects, each of which calls        *)
(* ReleaseObject (362-372) when the table is destroyed.                    *)
(*                                                                         *)
(* ~Connection sets *_term, interrupts both threads and sleeps a second,   *)
(* which orders nothing.  The threads are detached and the members         *)
(* destroyed, last declared first: _usedobjects while the slots, the queue *)
(* and the socket still exist.  The receiver is not at a point of          *)
(* interruption when it reads the socket.  No application thread uses the  *)
(* Connection any longer.                                                  *)
(***************************************************************************)
EXTENDS SendQueue

CONSTANTS Destructor,   \* the thread in ~Connection
          MaxHandles    \* bound on the entries of _usedobjects

ASSUME ShutdownAssumption ==
    /\ Destructor \in Clients
    /\ Closes
    /\ MaxHandles \in 0..MaxSends

VARIABLES rpc,       \* where the receiver thread is
          answers,   \* whose requests the broker has answered, oldest first
          handles,   \* handles left in _usedobjects
          written,   \* messages written since *_term was set
          handled    \* messages handled since then

ending == <<rpc, answers, handles, written, handled>>
allvars == <<vars, ending>>

ShutdownInit ==
    /\ Init
    /\ rpc = "welcome"
    /\ answers = <<>>
    /\ handles = 0
    /\ written = 0 /\ handled = 0

Application(c) ==
    /\ ~term
    /\ SendCall(c)
    /\ UNCHANGED ending

Sends(c) == Push(c) /\ UNCHANGED ending

Sending ==
    /\ SenderStep
    /\ written' = IF term /\ socket' # socket THEN written + 1 ELSE written
    /\ UNCHANGED <<rpc, answers, handles, handled>>

Waking == SpuriousWake /\ UNCHANGED ending

(* The welcome, and the receiver's loop. *)
ReceiverStarts ==
    /\ Welcome
    /\ rpc = "welcome" /\ rpc' = "test"
    /\ UNCHANGED <<answers, handles, written, handled>>

(* Mutant: the flag is not looked at. *)
ReceiverTestsNothing ==
    /\ rpc = "test" /\ rpc' = "read"
    /\ UNCHANGED <<vars, answers, handles, written, handled>>

ReceiverTests ==
    /\ rpc = "test" /\ rpc' = IF term THEN "exit" ELSE "read"
    /\ UNCHANGED <<vars, answers, handles, written, handled>>

(* An answer to the destructor lets ReleaseObject return; one to the       *)
(* application may define an object, whose handle enters _usedobjects.     *)
ReceiverReads ==
    /\ rpc = "read" /\ rpc' = "test"
    /\ answers # <<>> /\ answers' = Tail(answers)
    /\ \/ Head(answers) = Destructor /\ handles' = handles - 1
       \/ Head(answers) # Destructor /\ UNCHANGED handles
       \/ /\ Head(answers) # Destructor /\ ~term /\ handles < MaxHandles
          /\ handles' = handles + 1
    /\ handled' = IF term THEN handled + 1 ELSE handled
    /\ UNCHANGED <<vars, written>>

(* The broker: external. *)
BrokerAnswers ==
    /\ BrokerRead
    /\ answers' = Append(answers, Head(socket)[1])
    /\ UNCHANGED <<rpc, handles, written, handled>>

(* ~Connection. *)
SetsTerm == SetTerm /\ UNCHANGED ending

Interrupts == Interrupt /\ UNCHANGED ending

(* Messages of the destructor that have no answer yet. *)
Releasing ==
    LET mine(s) == {i \in 1..Len(s) : s[i][1] = Destructor} IN
    \/ cpc[Destructor] = "send"
    \/ mine(sendqueue) # {} \/ mine(socket) # {}
    \/ \E i \in 1..Len(answers) : answers[i] = Destructor

(* ~ObjectHandle: ReleaseObject, one handle after the other. *)
ReleaseObject ==
    /\ interrupted /\ handles > 0
    /\ ~Releasing
    /\ SendCall(Destructor)
    /\ UNCHANGED ending

ShutdownNext ==
    \/ \E c \in Clients \ {Destructor} : Application(c)
    \/ \E c \in Clients : Sends(c)
    \/ Sending \/ Waking
    \/ ReceiverStarts \/ ReceiverTests \/ ReceiverReads
    \/ BrokerAnswers
    \/ SetsTerm \/ Interrupts \/ ReleaseObject

ShutdownSpec == ShutdownInit /\ [][ShutdownNext]_allvars

(* All threads go on when they can, the broker reads and answers; the      *)
(* destructor, once it has begun, goes on too.                             *)
FairShutdown ==
    /\ ShutdownSpec
    /\ WF_allvars(Sending)
    /\ \A c \in Clients : WF_allvars(Sends(c))
    /\ WF_allvars(ReceiverStarts \/ ReceiverTests \/ ReceiverReads)
    /\ WF_allvars(BrokerAnswers)
    /\ WF_allvars(Interrupts) /\ WF_allvars(ReleaseObject)

-----------------------------------------------------------------------------
(* Properties. *)

(* Once *_term is set each thread finishes at most what it was at: one     *)
(* message is written and one handled.                                     *)
AtMostOneMore == written <= 1 /\ handled <= 1

(* A sender that waits for messages, or is about to, when ~Connection      *)
(* interrupts it ends: the interruption is not lost between the test of    *)
(* the queue and the wait.  (A sender that is not at the wait may instead  *)
(* find *_term set and the queue empty, and stray.)                        *)
InterruptEndsWait == interrupted /\ spc \in {"sleep", "wait", "woken"} ~> spc = "exit"

(* A handle's "Destructor - releases object" (connection.hpp:215), also    *)
(* that of a handle in _usedobjects when ~Connection destroys the table.   *)
HandlesReleased == term ~> (handles = 0 \/ spc = "stray")

(* What makes AtMostOneMore inductive: a thread that has done its one more *)
(* is on its way to the test of *_term.                                    *)
EndInv ==
    /\ written \in 0..1 /\ handled \in 0..1
    /\ ~term => written = 0 /\ handled = 0
    /\ written = 1 => spc \in {"pop", "test", "exit"}
    /\ handled = 1 => rpc \in {"test", "exit"}
=============================================================================
