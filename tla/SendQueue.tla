---------------------------- MODULE SendQueue ----------------------------
(***************************************************************************)
(* The outgoing half of a Connection: Send (connection.cpp:119-124), the   *)
(* sender thread (35-51), the flag _sendready the receiver thread sets     *)
(* when it has read the broker's welcome (56-59), and ~Connection (27-33), *)
(* at the granularity of _sqmut and _sendcond.                             *)
(*                                                                         *)
(* The sender keeps _sqmut while it writes, so a socket whose buffers are  *)
(* full keeps every Send waiting.  The socket is a bounded FIFO from which *)
(* the broker reads.                                                       *)
(***************************************************************************)
EXTENDS Naturals, Sequences

CONSTANTS Clients,      \* threads that call Send
          MaxSends,     \* bound on the messages of one client
          SocketCap,    \* messages the socket's buffers hold
          MaxSpurious,  \* bound on the sender's spurious wakeups
          Closes,       \* TRUE if the Connection may be destroyed
          Sender,       \* the sender thread
          Free          \* nobody holds _sqmut

ASSUME ConstantsAssumption ==
    /\ MaxSends \in Nat /\ SocketCap \in Nat \ {0} /\ MaxSpurious \in Nat
    /\ Closes \in BOOLEAN
    /\ Sender # Free

VARIABLES spc,          \* where the sender thread is
          cpc,          \* where each client is
          cnt,          \* Sends each client has begun
          sendready,    \* _sendready
          sqmut,        \* owner of _sqmut
          sendqueue,    \* _sendqueue
          socket,       \* written and not yet read by the broker
          received,     \* read by the broker (history)
          spurious,     \* spurious wakeups so far
          term,         \* *_term
          interrupted   \* _sendthread.interrupt() was called

vars == <<spc, cpc, cnt, sendready, sqmut, sendqueue, socket, received, spurious,
          term, interrupted>>

Messages == Clients \X (1..MaxSends)

Init ==
    /\ spc = "spin"
    /\ cpc = [c \in Clients |-> "idle"]
    /\ cnt = [c \in Clients |-> 0]
    /\ sendready = FALSE
    /\ sqmut = Free
    /\ sendqueue = <<>> /\ socket = <<>> /\ received = <<>>
    /\ spurious = 0
    /\ term = FALSE /\ interrupted = FALSE

SGoto(from, to) == /\ spc = from
                   /\ spc' = to

CGoto(c, from, to) == /\ cpc[c] = from
                      /\ cpc' = [cpc EXCEPT ![c] = to]

-----------------------------------------------------------------------------
(* Send, called by client c. *)

SendCall(c) ==
    /\ cnt[c] < MaxSends
    /\ cnt' = [cnt EXCEPT ![c] = @ + 1]
    /\ CGoto(c, "idle", "send")
    /\ UNCHANGED <<spc, sendready, sqmut, sendqueue, socket, received, spurious,
                   term, interrupted>>

(* Mutant: the sender is not woken. *)
PushSilently(c) ==
    /\ sqmut = Free
    /\ CGoto(c, "send", "idle")
    /\ sendqueue' = Append(sendqueue, <<c, cnt[c]>>)
    /\ UNCHANGED <<spc, cnt, sendready, sqmut, socket, received, spurious, term,
                   interrupted>>

(* The whole of Send holds _sqmut.  notify_one wakes the sender, the only  *)
(* thread that waits on _sendcond.                                         *)
Push(c) ==
    /\ sqmut = Free
    /\ CGoto(c, "send", "idle")
    /\ sendqueue' = Append(sendqueue, <<c, cnt[c]>>)
    /\ spc' = IF spc = "wait" THEN "woken" ELSE spc
    /\ UNCHANGED <<cnt, sendready, sqmut, socket, received, spurious, term, interrupted>>

-----------------------------------------------------------------------------
(* Sender. *)

(* Mutant: the sender does not wait for the welcome. *)
SpinNot ==
    /\ SGoto("spin", "test")
    /\ UNCHANGED <<cpc, cnt, sendready, sqmut, sendqueue, socket, received, spurious,
                   term, interrupted>>

(* while(!_sendready); looks neither at *term nor for an interruption. *)
Spin ==
    /\ sendready
    /\ SGoto("spin", "test")
    /\ UNCHANGED <<cpc, cnt, sendready, sqmut, sendqueue, socket, received, spurious,
                   term, interrupted>>

(* Mutant: the flag is not looked at. *)
TestNothing ==
    /\ SGoto("test", "lock")
    /\ UNCHANGED <<cpc, cnt, sendready, sqmut, sendqueue, socket, received, spurious,
                   term, interrupted>>

(* while(!*term) *)
TestTerm ==
    /\ \/ ~term /\ SGoto("test", "lock")
       \/ term /\ SGoto("test", "exit")
    /\ UNCHANGED <<cpc, cnt, sendready, sqmut, sendqueue, socket, received, spurious,
                   term, interrupted>>

Lock ==
    /\ sqmut = Free /\ sqmut' = Sender
    /\ SGoto("lock", "check")
    /\ UNCHANGED <<cpc, cnt, sendready, sendqueue, socket, received, spurious, term,
                   interrupted>>

(* while(_sendqueue.empty() && !*term): go on to the front of the queue,   *)
GoOn ==
    /\ sendqueue # <<>> \/ term
    /\ SGoto("check", "front")
    /\ UNCHANGED <<cpc, cnt, sendready, sqmut, sendqueue, socket, received, spurious,
                   term, interrupted>>

(* or wait.  The Connection may be destroyed between the test and the wait. *)
FoundEmpty ==
    /\ sendqueue = <<>> /\ ~term
    /\ SGoto("check", "sleep")
    /\ UNCHANGED <<cpc, cnt, sendready, sqmut, sendqueue, socket, received, spurious,
                   term, interrupted>>

(* The wait releases _sqmut.  It is a point of interruption.               *)
Wait ==
    /\ \/ ~interrupted /\ SGoto("sleep", "wait")
       \/ interrupted /\ SGoto("sleep", "exit")
    /\ sqmut' = Free
    /\ UNCHANGED <<cpc, cnt, sendready, sendqueue, socket, received, spurious, term,
                   interrupted>>

SpuriousWake ==
    /\ spurious < MaxSpurious
    /\ spurious' = spurious + 1
    /\ SGoto("wait", "woken")
    /\ UNCHANGED <<cpc, cnt, sendready, sqmut, sendqueue, socket, received, term,
                   interrupted>>

(* Mutant: "if" instead of "while" before the front of the queue. *)
RelockOnce ==
    /\ sqmut = Free /\ sqmut' = Sender
    /\ SGoto("woken", "front")
    /\ UNCHANGED <<cpc, cnt, sendready, sendqueue, socket, received, spurious, term,
                   interrupted>>

(* The end of the wait takes _sqmut again; an interrupted thread throws,   *)
(* which releases it and ends the thread.                                  *)
Relock ==
    /\ sqmut = Free
    /\ \/ ~interrupted /\ SGoto("woken", "check") /\ sqmut' = Sender
       \/ interrupted /\ SGoto("woken", "exit") /\ UNCHANGED sqmut
    /\ UNCHANGED <<cpc, cnt, sendready, sendqueue, socket, received, spurious, term,
                   interrupted>>

(* _sout.write and flush of _sendqueue.front(): blocks while the socket's  *)
(* buffers are full.  front() of an empty queue is undefined: see Stray.   *)
Write ==
    /\ sendqueue # <<>>
    /\ Len(socket) < SocketCap
    /\ SGoto("front", "pop")
    /\ socket' = Append(socket, Head(sendqueue))
    /\ UNCHANGED <<cpc, cnt, sendready, sqmut, sendqueue, received, spurious, term,
                   interrupted>>

(* Mutant: the queue is emptied. *)
PopAll ==
    /\ SGoto("pop", "test")
    /\ sendqueue' = <<>>
    /\ sqmut' = Free
    /\ UNCHANGED <<cpc, cnt, sendready, socket, received, spurious, term, interrupted>>

(* Mutant: the lock is kept. *)
PopLocked ==
    /\ SGoto("pop", "test")
    /\ sendqueue' = Tail(sendqueue)
    /\ UNCHANGED <<cpc, cnt, sendready, sqmut, socket, received, spurious, term, interrupted>>

(* pop, and the end of the loop's body, which releases _sqmut. *)
Pop ==
    /\ SGoto("pop", "test")
    /\ sendqueue' = Tail(sendqueue)
    /\ sqmut' = Free
    /\ UNCHANGED <<cpc, cnt, sendready, socket, received, spurious, term, interrupted>>

(* front() of an empty queue: the process is lost. *)
Stray ==
    /\ sendqueue = <<>>
    /\ SGoto("front", "stray")
    /\ UNCHANGED <<cpc, cnt, sendready, sqmut, sendqueue, socket, received, spurious,
                   term, interrupted>>

-----------------------------------------------------------------------------
(* The receiver thread, the destructor and the broker. *)

Welcome ==
    /\ ~sendready
    /\ sendready' = TRUE
    /\ UNCHANGED <<spc, cpc, cnt, sqmut, sendqueue, socket, received, spurious, term,
                   interrupted>>

SetTerm ==
    /\ Closes /\ ~term
    /\ term' = TRUE
    /\ UNCHANGED <<spc, cpc, cnt, sendready, sqmut, sendqueue, socket, received,
                   spurious, interrupted>>

(* Mutant: a waiting sender is not woken. *)
InterruptLater ==
    /\ term /\ ~interrupted
    /\ interrupted' = TRUE
    /\ UNCHANGED <<spc, cpc, cnt, sendready, sqmut, sendqueue, socket, received, spurious,
                   term>>

(* interrupt() wakes a waiting thread. *)
Interrupt ==
    /\ term /\ ~interrupted
    /\ interrupted' = TRUE
    /\ spc' = IF spc = "wait" THEN "woken" ELSE spc
    /\ UNCHANGED <<cpc, cnt, sendready, sqmut, sendqueue, socket, received, spurious,
                   term>>

BrokerRead ==
    /\ socket # <<>>
    /\ socket' = Tail(socket)
    /\ received' = Append(received, Head(socket))
    /\ UNCHANGED <<spc, cpc, cnt, sendready, sqmut, sendqueue, spurious, term,
                   interrupted>>

-----------------------------------------------------------------------------

SenderStep == \/ Spin \/ TestTerm \/ Lock \/ GoOn \/ FoundEmpty \/ Wait \/ Relock
              \/ Write \/ Pop \/ Stray

Next == \/ \E c \in Clients : SendCall(c) \/ Push(c)
        \/ SenderStep \/ SpuriousWake
        \/ Welcome \/ SetTerm \/ Interrupt \/ BrokerRead

Spec == Init /\ [][Next]_vars

(* The sender and a Send that has begun go on when they can; the broker    *)
(* welcomes the client and keeps reading.                                  *)
FairSpec == /\ Spec
            /\ WF_vars(SenderStep)
            /\ \A c \in Clients : WF_vars(Push(c))
            /\ WF_vars(Welcome) /\ WF_vars(BrokerRead)

-----------------------------------------------------------------------------
(* Properties. *)

(* Type correctness of the queue, the socket and the threads' states. *)
TypeOK ==
    /\ spc \in {"spin", "test", "lock", "check", "sleep", "wait", "woken", "front",
                "pop", "exit", "stray"}
    /\ cpc \in [Clients -> {"idle", "send"}]
    /\ cnt \in [Clients -> 0..MaxSends]
    /\ sendready \in BOOLEAN
    /\ sqmut \in {Sender, Free}
    /\ sendqueue \in Seq(Messages)
    /\ socket \in Seq(Messages) /\ Len(socket) <= SocketCap
    /\ received \in Seq(Messages)
    /\ spurious \in 0..MaxSpurious
    /\ term \in BOOLEAN /\ interrupted \in BOOLEAN

(* Only ~Connection makes the sender read the front of an empty queue,     *)
(* whatever spurious wakeups and Sends do.                                 *)
FrontOfNonEmpty == spc \in {"front", "pop"} => sendqueue # <<>> \/ (term /\ spc = "front")

(* The broker gets nothing before its welcome has been read, although      *)
(* clients may queue messages as soon as the Connection exists.            *)
WelcomeFirst == socket # <<>> \/ received # <<>> => sendready

(* The sender sleeps only while there is nothing to send.                  *)
SleepsOnlyWhenEmpty == spc \in {"sleep", "wait"} => sendqueue = <<>>

(* A message that was queued reaches the broker, if the Connection lives.  *)
Delivered ==
    \A m \in Messages :
        (\E i \in 1..Len(sendqueue) : sendqueue[i] = m)
            ~> ((\E i \in 1..Len(received) : received[i] = m) \/ term)

(* Send keeps its caller only while the broker does not read: the sender   *)
(* writes with _sqmut held.                                                *)
SendReturns == \A c \in Clients : cpc[c] = "send" ~> (cpc[c] = "idle" \/ spc = "stray")

(* While the sender writes, the head of the queue is in the socket too. *)
Queued == IF spc = "pop" THEN Tail(sendqueue) ELSE sendqueue

(* What the broker reads is what was given to Send, in order. *)
Abstract == INSTANCE Channel WITH
    sent <- received \o socket \o Queued, delivered <- received

ImplementsChannel == Abstract!Spec

-----------------------------------------------------------------------------
(* The inductive invariant behind the safety properties. *)

SenderHolds == spc \in {"check", "sleep", "front", "pop", "stray"}

IInv ==
    /\ TypeOK
    /\ SenderHolds <=> sqmut = Sender
    /\ FrontOfNonEmpty
    /\ SleepsOnlyWhenEmpty
    /\ spc # "spin" => sendready
    /\ WelcomeFirst
    /\ spc = "stray" => term
    /\ interrupted => term
=============================================================================
