-------------------------- MODULE SendQueueProofs --------------------------
(***************************************************************************)
(* Theorems about SendQueue, for any clients, messages and bounds.         *)
(***************************************************************************)
EXTENDS SendQueue, SequenceTheorems, TLAPS

LEMMA SeqFacts ==
    ASSUME NEW S, NEW s \in Seq(S), NEW e \in S
    PROVE  /\ Append(s, e) \in Seq(S) /\ Append(s, e) # <<>>
           /\ Len(Append(s, e)) = Len(s) + 1 /\ Len(s) \in Nat
           /\ s # <<>> => Head(s) \in S /\ Tail(s) \in Seq(S) /\ Len(Tail(s)) = Len(s) - 1
  BY AppendProperties, HeadTailProperties, LenProperties

(* A client in Send has counted the call. *)
TypeInv == TypeOK /\ \A c \in Clients : cpc[c] = "send" => cnt[c] > 0

SafeInv == TypeInv /\ IInv

LEMMA SafeInit == Init => SafeInv
<1>1. 0 \in 0..MaxSends /\ 0 \in 0..MaxSpurious /\ 0 <= SocketCap
  BY ConstantsAssumption DEF ConstantsAssumption
<1>2. <<>> \in Seq(Messages) /\ Len(<<>>) = 0
  OBVIOUS
<1>3. QED
  BY <1>1, <1>2, ConstantsAssumption
     DEF ConstantsAssumption, Init, SafeInv, TypeInv, TypeOK, IInv, SenderHolds,
         FrontOfNonEmpty, SleepsOnlyWhenEmpty, WelcomeFirst

LEMMA SendCallStep ==
    ASSUME SafeInv, NEW c \in Clients, SendCall(c)
    PROVE  SafeInv'
<1>1. /\ cnt' = [cnt EXCEPT ![c] = cnt[c] + 1]
      /\ cpc' = [cpc EXCEPT ![c] = "send"]
      /\ UNCHANGED <<spc, sendready, sqmut, sendqueue, socket, received, spurious,
                     term, interrupted>>
  BY DEF SendCall, CGoto
<1>2. cnt[c] + 1 \in 0..MaxSends /\ cnt[c] + 1 > 0
  <2>1. cnt[c] \in 0..MaxSends /\ MaxSends \in Nat /\ cnt[c] < MaxSends
    BY ConstantsAssumption DEF ConstantsAssumption, SendCall, SafeInv, TypeInv, TypeOK
  <2>2. QED
    BY <2>1
<1>3. TypeInv'
  BY <1>1, <1>2 DEF SafeInv, TypeInv, TypeOK
<1>4. QED
  BY <1>1, <1>3 DEF SafeInv, TypeInv, IInv, SenderHolds, FrontOfNonEmpty,
                    SleepsOnlyWhenEmpty, WelcomeFirst

LEMMA PushStep ==
    ASSUME SafeInv, NEW c \in Clients, Push(c)
    PROVE  SafeInv'
<1> DEFINE m == <<c, cnt[c]>>
<1>1. /\ sqmut = Free /\ cpc[c] = "send"
      /\ cpc' = [cpc EXCEPT ![c] = "idle"]
      /\ sendqueue' = Append(sendqueue, m)
      /\ spc' = IF spc = "wait" THEN "woken" ELSE spc
      /\ UNCHANGED <<cnt, sendready, sqmut, socket, received, spurious, term, interrupted>>
  BY DEF Push, CGoto
<1>2. m \in Messages
  <2>1. cnt[c] \in 0..MaxSends /\ MaxSends \in Nat /\ cnt[c] > 0
    BY <1>1, ConstantsAssumption DEF ConstantsAssumption, SafeInv, TypeInv, TypeOK
  <2>2. cnt[c] \in 1..MaxSends
    BY <2>1
  <2>3. QED
    BY <2>2 DEF Messages
<1>3. sendqueue' \in Seq(Messages) /\ sendqueue' # <<>>
  BY <1>1, <1>2, SeqFacts DEF SafeInv, TypeInv, TypeOK
<1>4. TypeInv'
  BY <1>1, <1>3 DEF SafeInv, TypeInv, TypeOK
<1>5. QED
  BY <1>1, <1>3, <1>4, ConstantsAssumption
     DEF ConstantsAssumption, SafeInv, TypeInv, IInv, SenderHolds, FrontOfNonEmpty,
         SleepsOnlyWhenEmpty, WelcomeFirst

LEMMA SenderKeeps ==
    ASSUME SafeInv, SenderStep
    PROVE  SafeInv'
<1> USE ConstantsAssumption
    DEF ConstantsAssumption, SafeInv, TypeInv, TypeOK, IInv, SenderHolds,
        FrontOfNonEmpty, SleepsOnlyWhenEmpty, WelcomeFirst, SGoto
<1>1. CASE Spin
  BY <1>1 DEF Spin
<1>2. CASE TestTerm
  BY <1>2 DEF TestTerm
<1>3. CASE Lock
  BY <1>3 DEF Lock
<1>4. CASE GoOn
  BY <1>4 DEF GoOn
<1>5. CASE FoundEmpty \/ Wait
  BY <1>5 DEF FoundEmpty, Wait
<1>6. CASE Relock
  BY <1>6 DEF Relock
<1>7. CASE Write
  <2>1. /\ socket' \in Seq(Messages) /\ Len(socket') = Len(socket) + 1
        /\ Len(socket) \in Nat
    BY <1>7, SeqFacts DEF Write
  <2>2. Len(socket') <= SocketCap
    BY <1>7, <2>1 DEF Write
  <2>3. QED
    BY <1>7, <2>1, <2>2 DEF Write
<1>8. CASE Pop
  <2>1. sendqueue # <<>> /\ Head(sendqueue) \in Messages
    BY <1>8, SeqFacts DEF Pop
  <2>2. Tail(sendqueue) \in Seq(Messages)
    BY <2>1, SeqFacts
  <2>3. QED
    BY <1>8, <2>2 DEF Pop
<1>9. CASE Stray
  BY <1>9 DEF Stray
<1>10. QED
  BY <1>1, <1>2, <1>3, <1>4, <1>5, <1>6, <1>7, <1>8, <1>9 DEF SenderStep

LEMMA OthersKeep ==
    ASSUME SafeInv, SpuriousWake \/ Welcome \/ SetTerm \/ Interrupt \/ BrokerRead
    PROVE  SafeInv'
<1> USE ConstantsAssumption
    DEF ConstantsAssumption, SafeInv, TypeInv, TypeOK, IInv, SenderHolds,
        FrontOfNonEmpty, SleepsOnlyWhenEmpty, WelcomeFirst, SGoto
<1>1. CASE SpuriousWake
  <2>1. spurious + 1 \in 0..MaxSpurious
    BY <1>1 DEF SpuriousWake
  <2>2. QED
    BY <1>1, <2>1 DEF SpuriousWake
<1>2. CASE Welcome
  BY <1>2 DEF Welcome
<1>3. CASE SetTerm
  BY <1>3 DEF SetTerm
<1>4. CASE Interrupt
  BY <1>4 DEF Interrupt
<1>5. CASE BrokerRead
  <2>1. socket # <<>> /\ Head(socket) \in Messages
    BY <1>5 DEF BrokerRead
  <2>2. /\ Tail(socket) \in Seq(Messages) /\ Len(Tail(socket)) = Len(socket) - 1
        /\ Len(socket) \in Nat /\ received' \in Seq(Messages)
    BY <1>5, <2>1, SeqFacts DEF BrokerRead
  <2>3. Len(socket') <= SocketCap
    BY <1>5, <2>2 DEF BrokerRead
  <2>4. QED
    BY <1>5, <2>1, <2>2, <2>3 DEF BrokerRead
<1>6. QED
  BY <1>1, <1>2, <1>3, <1>4, <1>5

LEMMA SafeStep == SafeInv /\ [Next]_vars => SafeInv'
<1> SUFFICES ASSUME SafeInv, [Next]_vars
             PROVE  SafeInv'
  OBVIOUS
<1>1. CASE UNCHANGED vars
  BY <1>1 DEF vars, SafeInv, TypeInv, TypeOK, IInv, SenderHolds, FrontOfNonEmpty,
              SleepsOnlyWhenEmpty, WelcomeFirst
<1>2. QED
  BY <1>1, SendCallStep, PushStep, SenderKeeps, OthersKeep DEF Next

(* The queue's locks and flags agree in every reachable state, destructor  *)
(* included. *)
THEOREM SendQueueConsistent == Spec => []IInv
<1>1. SafeInv => IInv
  BY DEF SafeInv
<1>2. QED
  BY SafeInit, SafeStep, <1>1, PTL DEF Spec

(* The sender writes the front of an empty queue only if the Connection is *)
(* being destroyed. *)
THEOREM FrontExists == Spec => []FrontOfNonEmpty
<1>1. IInv => FrontOfNonEmpty
  BY DEF IInv
<1>2. QED
  BY SendQueueConsistent, <1>1, PTL

(* No message precedes the broker's welcome. *)
THEOREM NothingBeforeWelcome == Spec => []WelcomeFirst
<1>1. IInv => WelcomeFirst
  BY DEF IInv
<1>2. QED
  BY SendQueueConsistent, <1>1, PTL

(* The sender never sleeps on a message. *)
THEOREM NeverSleepsOnAMessage == Spec => []SleepsOnlyWhenEmpty
<1>1. IInv => SleepsOnlyWhenEmpty
  BY DEF IInv
<1>2. QED
  BY SendQueueConsistent, <1>1, PTL
-----------------------------------------------------------------------------
(* The refinement of Channel: moving a message along does not change what  *)
(* was sent, and no message is sent twice. *)

Sent == received \o socket \o Queued

LEMMA MoveHead ==
    ASSUME NEW S, NEW s \in Seq(S), NEW t \in Seq(S), t # <<>>
    PROVE  Append(s, Head(t)) \o Tail(t) = s \o t
<1> DEFINE l == Append(s, Head(t)) \o Tail(t)
           r == s \o t
<1>1. /\ Head(t) \in S /\ Tail(t) \in Seq(S) /\ Len(Tail(t)) = Len(t) - 1
      /\ \A i \in 1..Len(Tail(t)) : Tail(t)[i] = t[i + 1]
      /\ Len(s) \in Nat /\ Len(t) \in Nat /\ Len(t) > 0 /\ Head(t) = t[1]
  BY HeadTailProperties, LenProperties, EmptySeq
<1>2. /\ Append(s, Head(t)) \in Seq(S) /\ Len(Append(s, Head(t))) = Len(s) + 1
      /\ \A i \in 1..Len(s) : Append(s, Head(t))[i] = s[i]
      /\ Append(s, Head(t))[Len(s) + 1] = Head(t)
  BY <1>1, AppendProperties
<1>3. /\ l \in Seq(S) /\ Len(l) = Len(s) + Len(t)
      /\ \A i \in 1..(Len(s) + Len(t)) :
            l[i] = IF i <= Len(s) + 1 THEN Append(s, Head(t))[i]
                                      ELSE Tail(t)[i - (Len(s) + 1)]
  <2>1. (Len(s) + 1) + (Len(t) - 1) = Len(s) + Len(t)
    BY <1>1
  <2>2. QED
    BY <1>1, <1>2, <2>1, ConcatProperties
<1>4. /\ r \in Seq(S) /\ Len(r) = Len(s) + Len(t)
      /\ \A i \in 1..(Len(s) + Len(t)) :
            r[i] = IF i <= Len(s) THEN s[i] ELSE t[i - Len(s)]
  BY ConcatProperties
<1>5. ASSUME NEW i \in 1..Len(l)
      PROVE  l[i] = r[i]
  <2>1. i \in 1..(Len(s) + Len(t))
    BY <1>3
  <2>2. CASE i <= Len(s)
    BY <1>1, <1>2, <1>3, <1>4, <2>1, <2>2
  <2>3. CASE i = Len(s) + 1
    BY <1>1, <1>2, <1>3, <1>4, <2>1, <2>3
  <2>4. CASE i > Len(s) + 1
    <3>1. /\ i - (Len(s) + 1) \in 1..Len(Tail(t))
          /\ (i - (Len(s) + 1)) + 1 = i - Len(s)
      BY <1>1, <2>1, <2>4
    <3>2. Tail(t)[i - (Len(s) + 1)] = t[i - Len(s)]
      BY <1>1, <3>1
    <3>3. QED
      BY <1>1, <1>3, <1>4, <2>1, <2>4, <3>2
  <2>5. QED
    BY <1>1, <2>1, <2>2, <2>3, <2>4
<1>6. QED
  BY <1>3, <1>4, <1>5, SeqEqual

LEMMA SentTypes ==
    ASSUME SafeInv
    PROVE  /\ received \in Seq(Messages) /\ socket \in Seq(Messages)
           /\ sendqueue \in Seq(Messages) /\ Queued \in Seq(Messages)
           /\ received \o socket \in Seq(Messages) /\ Sent \in Seq(Messages)
<1>1. /\ received \in Seq(Messages) /\ socket \in Seq(Messages)
      /\ sendqueue \in Seq(Messages)
  BY DEF SafeInv, TypeInv, TypeOK
<1>2. spc = "pop" => sendqueue # <<>>
  BY DEF SafeInv, IInv, FrontOfNonEmpty
<1>3. Queued \in Seq(Messages)
  BY <1>1, <1>2, HeadTailProperties DEF Queued
<1>4. received \o socket \in Seq(Messages)
  BY <1>1, ConcatProperties
<1>5. QED
  BY <1>1, <1>3, <1>4, ConcatProperties DEF Sent

(* What each message that was sent says of its client. *)
Counted(m) == m[2] <= cnt[m[1]] /\ (cpc[m[1]] = "send" => m[2] # cnt[m[1]])

Fresh == \A i \in 1..Len(Sent) : Counted(Sent[i])

LEMMA PushSends ==
    ASSUME SafeInv, NEW c \in Clients, Push(c)
    PROVE  Sent' = Append(Sent, <<c, cnt[c]>>) /\ <<c, cnt[c]>> \in Messages
<1> DEFINE m == <<c, cnt[c]>>
<1>1. m \in Messages
  <2>1. cnt[c] \in 0..MaxSends /\ MaxSends \in Nat /\ cnt[c] > 0
    BY ConstantsAssumption
       DEF ConstantsAssumption, Push, CGoto, SafeInv, TypeInv, TypeOK
  <2>2. cnt[c] \in 1..MaxSends
    BY <2>1
  <2>3. QED
    BY <2>2 DEF Messages
<1>2. spc # "pop" /\ spc' # "pop"
  BY ConstantsAssumption
     DEF ConstantsAssumption, Push, SafeInv, IInv, SenderHolds
<1>3. Queued' = Append(Queued, m)
  BY <1>2 DEF Push, Queued
<1>4. Sent' = (received \o socket) \o (Queued \o <<m>>)
  BY <1>1, <1>3, SentTypes, AppendIsConcat DEF Push, Sent
<1>5. <<m>> \in Seq(Messages)
  BY <1>1
<1>6. Sent' = Sent \o <<m>>
  BY <1>4, <1>5, SentTypes, ConcatAssociative DEF Sent
<1>7. QED
  BY <1>1, <1>6, SentTypes, AppendIsConcat

LEMMA OthersSendNothing ==
    ASSUME SafeInv, [Next]_vars, \A c \in Clients : ~Push(c), ~BrokerRead
    PROVE  Sent' = Sent /\ received' = received
<1>1. CASE Write
  <2>1. /\ sendqueue # <<>> /\ spc = "front" /\ spc' = "pop"
        /\ socket' = Append(socket, Head(sendqueue))
        /\ received' = received /\ sendqueue' = sendqueue
    BY <1>1 DEF Write, SGoto
  <2>2. /\ Head(sendqueue) \in Messages /\ Tail(sendqueue) \in Seq(Messages)
        /\ Append(socket, Head(sendqueue)) \in Seq(Messages)
    BY <2>1, SentTypes, HeadTailProperties, AppendProperties
  <2>3. Sent' = (received \o Append(socket, Head(sendqueue))) \o Tail(sendqueue)
    BY <2>1 DEF Sent, Queued
  <2>8. /\ received \in Seq(Messages) /\ socket \in Seq(Messages)
        /\ sendqueue \in Seq(Messages)
    BY SentTypes
  <2>4. Sent' = received \o (Append(socket, Head(sendqueue)) \o Tail(sendqueue))
    <3> DEFINE s == Append(socket, Head(sendqueue))
               t == Tail(sendqueue)
    <3>1. s \in Seq(Messages) /\ t \in Seq(Messages)
      BY <2>2
    <3>2. Sent' = (received \o s) \o t
      BY <2>3
    <3> HIDE DEF s, t
    <3>3. (received \o s) \o t = received \o (s \o t)
      BY <2>8, <3>1, ConcatAssociative
    <3>4. Sent' = received \o (s \o t)
      BY <3>2, <3>3
    <3>5. QED
      BY <3>4 DEF s, t
  <2>5. Sent' = received \o (socket \o sendqueue)
    BY <2>1, <2>4, SentTypes, MoveHead
  <2>6. Sent = (received \o socket) \o sendqueue
    BY <2>1 DEF Sent, Queued
  <2>7. QED
    <3>1. (received \o socket) \o sendqueue = received \o (socket \o sendqueue)
      BY <2>8, ConcatAssociative
    <3>2. QED
      BY <2>1, <2>5, <2>6, <3>1
<1>2. CASE Pop
  BY <1>2 DEF Pop, SGoto, Sent, Queued
<1>3. CASE UNCHANGED <<received, socket, sendqueue>> /\ spc # "pop" /\ spc' # "pop"
  BY <1>3 DEF Sent, Queued
<1>4. CASE UNCHANGED <<received, socket, sendqueue, spc>>
  BY <1>4 DEF Sent, Queued
<1>5. QED
  BY <1>1, <1>2, <1>3, <1>4
     DEF Next, SendCall, SenderStep, Spin, TestTerm, Lock, GoOn, FoundEmpty, Wait, Relock, Stray,
         SpuriousWake, Welcome, SetTerm, Interrupt, SGoto, vars

LEMMA BrokerReadDelivers ==
    ASSUME SafeInv, BrokerRead
    PROVE  /\ Sent' = Sent /\ Len(received) < Len(Sent)
           /\ received' = Append(received, Sent[Len(received) + 1])
<1>1. /\ socket # <<>> /\ socket' = Tail(socket)
      /\ received' = Append(received, Head(socket))
      /\ Queued' = Queued
  BY DEF BrokerRead, Queued
<1>2. received' \o socket' = received \o socket
  BY <1>1, SentTypes, MoveHead
<1>3. Sent' = Sent
  BY <1>1, <1>2 DEF Sent
<1>4. /\ Len(received) \in Nat /\ Len(socket) \in Nat /\ Len(socket) > 0
      /\ Len(Queued) \in Nat /\ Head(socket) = socket[1]
  BY <1>1, SentTypes, LenProperties, EmptySeq
<1>5. /\ Len(received \o socket) = Len(received) + Len(socket)
      /\ (received \o socket)[Len(received) + 1] = socket[1]
  <2>1. Len(received) + 1 \in 1..(Len(received) + Len(socket))
        /\ (Len(received) + 1) - Len(received) = 1 /\ ~(Len(received) + 1 <= Len(received))
    BY <1>4
  <2>2. QED
    BY <2>1, SentTypes, ConcatProperties
<1>6. /\ Len(Sent) = Len(received) + Len(socket) + Len(Queued)
      /\ Sent[Len(received) + 1] = socket[1]
  <2>1. /\ Len(received) + 1 \in 1..(Len(received \o socket) + Len(Queued))
        /\ Len(received) + 1 <= Len(received \o socket)
    BY <1>4, <1>5
  <2>2. QED
    BY <1>5, <2>1, SentTypes, ConcatProperties DEF Sent
<1>7. QED
  BY <1>1, <1>3, <1>4, <1>6

LEMMA FreshStep == SafeInv /\ Fresh /\ [Next]_vars => Fresh'
<1> SUFFICES ASSUME SafeInv, Fresh, [Next]_vars
             PROVE  Fresh'
  OBVIOUS
<1>1. ASSUME NEW i \in 1..Len(Sent)
      PROVE  Sent[i][1] \in Clients /\ Sent[i][2] \in Nat /\ Counted(Sent[i])
  <2>1. Sent[i] \in Messages
    BY SentTypes, ElementOfSeq
  <2>2. QED
    BY <2>1, ConstantsAssumption DEF ConstantsAssumption, Messages, Fresh
<1>2. ASSUME NEW c \in Clients, Push(c)
      PROVE  Fresh'
  <2>1. /\ Sent' = Append(Sent, <<c, cnt[c]>>) /\ <<c, cnt[c]>> \in Messages
        /\ Len(Sent') = Len(Sent) + 1 /\ Len(Sent) \in Nat
        /\ \A i \in 1..Len(Sent) : Sent'[i] = Sent[i]
        /\ Sent'[Len(Sent) + 1] = <<c, cnt[c]>>
    <3>1. Sent' = Append(Sent, <<c, cnt[c]>>) /\ <<c, cnt[c]>> \in Messages
      BY <1>2, PushSends
    <3>2. Sent \in Seq(Messages)
      BY SentTypes
    <3>3. QED
      BY <3>1, <3>2, AppendProperties, LenProperties
  <2>2. cnt' = cnt /\ cpc' = [cpc EXCEPT ![c] = "idle"]
    BY <1>2 DEF Push, CGoto
  <2>3. ASSUME NEW i \in 1..Len(Sent')
        PROVE  Counted(Sent[i])'
    <3>1. CASE i \in 1..Len(Sent)
      BY <1>1, <2>1, <2>2, <3>1 DEF Counted, SafeInv, TypeInv, TypeOK
    <3>2. CASE i = Len(Sent) + 1
      <4>1. cnt[c] \in Nat
        BY ConstantsAssumption DEF ConstantsAssumption, SafeInv, TypeInv, TypeOK
      <4>2. QED
        BY <2>1, <2>2, <3>2, <4>1 DEF Counted, SafeInv, TypeInv, TypeOK
    <3>3. QED
      BY <2>1, <3>1, <3>2
  <2>4. QED
    BY <2>3 DEF Fresh
<1>3. ASSUME NEW c \in Clients, SendCall(c)
      PROVE  Fresh'
  <2>1. Sent' = Sent
    BY <1>3 DEF SendCall, Sent, Queued
  <2>2. /\ cnt' = [cnt EXCEPT ![c] = cnt[c] + 1] /\ cpc' = [cpc EXCEPT ![c] = "send"]
        /\ cpc[c] = "idle"
    BY <1>3 DEF SendCall, CGoto
  <2>3. cnt[c] \in Nat
    BY ConstantsAssumption DEF ConstantsAssumption, SafeInv, TypeInv, TypeOK
  <2>4. ASSUME NEW i \in 1..Len(Sent)
        PROVE  Counted(Sent[i])'
    BY <1>1, <2>1, <2>2, <2>3 DEF Counted, SafeInv, TypeInv, TypeOK
  <2>5. QED
    BY <2>1, <2>4 DEF Fresh
<1>4. CASE /\ \A c \in Clients : ~Push(c) /\ ~SendCall(c)
  <2>1. Sent' = Sent
    BY <1>4, OthersSendNothing, BrokerReadDelivers
  <2>2. cnt' = cnt /\ cpc' = cpc
    BY <1>4 DEF Next, SenderStep, Spin, TestTerm, Lock, GoOn, FoundEmpty, Wait, Relock, Write, Pop,
                Stray, SpuriousWake, Welcome, SetTerm, Interrupt, BrokerRead, vars
  <2>3. QED
    BY <2>1, <2>2 DEF Fresh, Counted
<1>5. QED
  BY <1>2, <1>3, <1>4

LEMMA RefinesStep ==
    SafeInv /\ Fresh /\ [Next]_vars => [Abstract!Next]_(<<Sent, received>>)
<1> SUFFICES ASSUME SafeInv, Fresh, [Next]_vars
             PROVE  Abstract!Next \/ UNCHANGED <<Sent, received>>
  OBVIOUS
<1>1. ASSUME NEW c \in Clients, Push(c)
      PROVE  Abstract!Push(<<c, cnt[c]>>) /\ <<c, cnt[c]>> \in Messages
  <2>1. cpc[c] = "send" /\ received' = received
    BY <1>1 DEF Push, CGoto
  <2>2. \A i \in 1..Len(Sent) : Sent[i] # <<c, cnt[c]>>
    BY <2>1 DEF Fresh, Counted
  <2>3. QED
    BY <1>1, <2>1, <2>2, PushSends DEF Abstract!Push, Sent
<1>2. ASSUME BrokerRead
      PROVE  Abstract!Deliver
  BY <1>2, BrokerReadDelivers DEF Abstract!Deliver, Sent
<1>3. QED
  BY <1>1, <1>2, OthersSendNothing DEF Abstract!Next

(* Send's messages reach the broker whole, once and in order, also while   *)
(* the Connection is being destroyed. *)
THEOREM SendQueueImplementsChannel == Spec => ImplementsChannel
<1>1. Init => Abstract!Init
  BY ConcatEmptySeq, EmptySeq DEF Init, Abstract!Init, Queued
<1>2. Init => Fresh
  <2> SUFFICES ASSUME Init
               PROVE  Fresh
    OBVIOUS
  <2>1. Sent = <<>>
    BY ConcatEmptySeq, EmptySeq DEF Init, Sent, Queued
  <2>2. QED
    BY <2>1, EmptySeq DEF Fresh
<1>3. Spec => [](SafeInv /\ Fresh)
  BY SafeInit, SafeStep, <1>2, FreshStep, PTL DEF Spec
<1>4. SafeInv /\ Fresh /\ [Next]_vars => [Abstract!Next]_(<<received \o socket \o Queued, received>>)
  BY RefinesStep DEF Sent
<1>5. QED
  BY <1>1, <1>3, <1>4, PTL DEF Spec, ImplementsChannel, Abstract!Spec, Abstract!vars
=============================================================================
