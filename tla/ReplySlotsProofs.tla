------------------------- MODULE ReplySlotsProofs -------------------------
(***************************************************************************)
(* Theorems about ReplySlots, for any threads, names and number of calls.  *)
(***************************************************************************)
EXTENDS ReplySlots, TLAPS

(* What TypeOK needs to be inductive: a thread in a call has a slot name,  *)
(* the Future it copies from exists, and so does the one PutReply sets.    *)
TypeInv ==
    /\ TypeOK
    /\ \A t \in Threads : InCall(t) => cnt[t] > 0 /\ name[Cur(t)] \in Names
    /\ \A t \in Threads : pc[t] \in {"get", "copy"} => ptr[t] # Absent
    /\ \A t \in Threads : pc[t] = "copy" => ptr[t] # Null
    /\ rpc # "read" => rcur \in Calls /\ rfut \in Calls

LEMMA CntNat ==
    ASSUME NEW t \in Threads, TypeOK
    PROVE  cnt[t] \in Nat
<1>1. MaxCalls \in Nat /\ cnt[t] \in 0..MaxCalls
  BY ConstantsAssumption DEF ConstantsAssumption, TypeOK
<1>2. QED
  BY <1>1

LEMMA CurInCalls ==
    ASSUME NEW t \in Threads, TypeOK, cnt[t] > 0
    PROVE  Cur(t) \in Calls
<1>1. MaxCalls \in Nat /\ cnt[t] \in 0..MaxCalls
  BY ConstantsAssumption DEF ConstantsAssumption, TypeOK
<1>2. cnt[t] \in 1..MaxCalls
  BY <1>1
<1>3. QED
  BY <1>2 DEF Cur, Calls

LEMMA NextInCalls ==
    ASSUME NEW t \in Threads, TypeOK, cnt[t] < MaxCalls
    PROVE  cnt[t] + 1 \in 1..MaxCalls /\ <<t, cnt[t] + 1>> \in Calls
<1>1. MaxCalls \in Nat /\ cnt[t] \in 0..MaxCalls
  BY ConstantsAssumption DEF ConstantsAssumption, TypeOK
<1>2. cnt[t] + 1 \in 1..MaxCalls
  BY <1>1
<1>3. QED
  BY <1>2 DEF Calls

LEMMA TypeInit == Init => TypeInv
  BY ConstantsAssumption DEF ConstantsAssumption, Init, TypeInv, TypeOK, InCall

LEMMA TypeStep == TypeInv /\ [Next]_vars => TypeInv'
<1> SUFFICES ASSUME TypeInv, [Next]_vars
             PROVE  TypeInv'
  OBVIOUS
<1> USE DEF TypeInv, InCall, Goto
<1>1. ASSUME NEW t \in Threads, NEW nm \in Names, SetupReply(t, nm)
      PROVE  TypeInv'
  <2> DEFINE c == <<t, cnt[t] + 1>>
  <2>1. /\ c \in Calls
        /\ cnt[t] + 1 \in 0..MaxCalls /\ cnt[t] + 1 > 0
    <3>1. cnt[t] < MaxCalls /\ cnt[t] \in 0..MaxCalls /\ MaxCalls \in Nat
      BY <1>1, ConstantsAssumption DEF ConstantsAssumption, SetupReply, TypeOK
    <3>2. QED
      BY <3>1, NextInCalls
  <2>2. /\ pc' = [pc EXCEPT ![t] = "send"]
        /\ cnt' = [cnt EXCEPT ![t] = cnt[t] + 1]
        /\ name' = [name EXCEPT ![c] = nm]
        /\ replymap' = [replymap EXCEPT ![nm] = c]
        /\ UNCHANGED <<ptr, ret, avail, result, requests, rpc, rcur, rfut,
                        returned, fault>>
    BY <1>1 DEF SetupReply, futures, receiver
  <2>3. TypeOK'
    BY <2>1, <2>2 DEF TypeOK
  <2>4. ASSUME NEW u \in Threads, (pc[u] # "idle")'
        PROVE  (cnt[u] > 0 /\ name[Cur(u)] \in Names)'
    <3>1. CASE u = t
      BY <2>1, <2>2, <3>1 DEF TypeOK, Cur
    <3>2. CASE u # t
      <4>1. Cur(u) # c /\ cnt'[u] = cnt[u] /\ pc[u] # "idle"
        BY <2>2, <2>4, <3>2 DEF TypeOK, Cur
      <4>2. Cur(u) \in Calls
        BY <4>1, CurInCalls
      <4>3. QED
        BY <2>2, <4>1, <4>2 DEF TypeOK, Cur
    <3>3. QED
      BY <3>1, <3>2
  <2>5. QED
    BY <2>2, <2>3, <2>4 DEF TypeOK
<1>2. ASSUME NEW t \in Threads, Continue(t)
      PROVE  TypeInv'
  <2>1. CASE Send(t)
    BY <2>1, CurInCalls DEF Send, TypeOK, Cur, futures, receiver
  <2>2. CASE GetReplyLookup(t)
    BY <2>2, CurInCalls, ConstantsAssumption
    DEF ConstantsAssumption, GetReplyLookup, TypeOK, Cur, futures, receiver
  <2>3. CASE GetReplyWait(t)
    BY <2>3, CurInCalls DEF GetReplyWait, TypeOK, Cur, futures, receiver
  <2>4. CASE GetReplyCopy(t)
    BY <2>4, CurInCalls DEF GetReplyCopy, TypeOK, Cur, futures, receiver
  <2>5. CASE GetReplyEraseBegin(t)
    BY <2>5, CurInCalls DEF GetReplyEraseBegin, TypeOK, Cur, futures, receiver
  <2>6. CASE GetReplyEraseEnd(t)
    BY <2>6, CurInCalls DEF GetReplyEraseEnd, TypeOK, Cur, futures, receiver
  <2>7. CASE GetReplyNull(t)
    BY <2>7 DEF GetReplyNull, Fault, TypeOK, Cur, callers, futures, receiver
  <2>8. QED
    BY <1>2, <2>1, <2>2, <2>3, <2>4, <2>5, <2>6, <2>7 DEF Continue
<1>3. ASSUME NEW t \in Threads, MapRace(t)
      PROVE  TypeInv'
  BY <1>3 DEF MapRace, Fault, TypeOK, Cur, callers, futures, receiver
<1>4. ASSUME Reciever
      PROVE  TypeInv'
  <2>1. ASSUME NEW c \in Calls, PutReplyLookup(c)
        PROVE  TypeInv'
    BY <2>1 DEF PutReplyLookup, After, TypeOK, Cur, callers, futures
  <2>2. ASSUME NEW c \in Calls, PutReplyNull(c)
        PROVE  TypeInv'
    BY <2>2 DEF PutReplyNull, Fault, TypeOK, Cur, callers, futures, receiver
  <2>3. CASE SetResult
    BY <2>3 DEF SetResult, After, TypeOK, Cur, callers
  <2>4. CASE SetAvail
    BY <2>4 DEF SetAvail, After, TypeOK, Cur, callers
  <2>5. CASE Notify
    BY <2>5 DEF Notify, After, TypeOK, Cur, callers, futures
  <2>6. QED
    BY <1>4, <2>1, <2>2, <2>3, <2>4, <2>5 DEF Reciever
<1>5. CASE DeadFuture
  BY <1>5 DEF DeadFuture, Fault, TypeOK, Cur, callers, futures, receiver
<1>6. CASE UNCHANGED vars
  BY <1>6 DEF vars, TypeOK, Cur, callers, futures, receiver
<1>7. QED
  BY <1>1, <1>2, <1>3, <1>4, <1>5, <1>6 DEF Next

(* The slot map, the Futures and the threads' local state keep their types *)
(* whatever names the threads use.                                         *)
THEOREM TypeCorrect == Spec => []TypeOK
<1>1. Spec => []TypeInv
  BY TypeInit, TypeStep, PTL DEF Spec
<1>2. TypeInv => TypeOK
  BY DEF TypeInv
<1>3. QED
  BY <1>1, <1>2, PTL
-----------------------------------------------------------------------------
(* When no name is shared, IInv is inductive. *)

LEMMA IInvTypes ==
    ASSUME IInv
    PROVE  TypeInv
<1>1. \A t \in Threads : InCall(t) => cnt[t] > 0 /\ name[Cur(t)] \in Names
  BY ConstantsAssumption DEF ConstantsAssumption, IInv, SlotInv
<1>2. \A t \in Threads : pc[t] \in {"get", "copy"} => ptr[t] \in Calls
  BY CurInCalls, <1>1 DEF IInv, ReaderInv, InCall
<1>3. rpc # "read" => rcur \in Calls /\ rfut \in Calls
  BY DEF IInv, AnswerInv
<1>4. QED
  BY <1>1, <1>2, <1>3, ConstantsAssumption DEF ConstantsAssumption, TypeInv, IInv

(* Two threads in a call hold different slots. *)
LEMMA SlotsDiffer ==
    ASSUME DisjointUses, SlotInv,
           NEW t \in Threads, NEW u \in Threads, t # u, InCall(u),
           NEW nm \in Uses[t]
    PROVE  name[Cur(u)] # nm
  BY DEF DisjointUses, SlotInv

LEMMA CallFields ==
    ASSUME NEW c \in Calls
    PROVE  c[1] \in Threads /\ c[2] \in 1..MaxCalls /\ c = <<c[1], c[2]>>
  BY DEF Calls

LEMMA InvInit == Init => IInv
<1> SUFFICES ASSUME Init
             PROVE  IInv
  OBVIOUS
<1>1. TypeOK
  BY TypeInit DEF TypeInv
<1>2. SlotInv
  BY DEF Init, SlotInv, InCall
<1>3. ReaderInv
  BY DEF Init, ReaderInv
<1>4. AnswerInv
  BY DEF Init, AnswerInv
<1>5. FutureInv
  BY DEF Init, FutureInv, InCall
<1>6. QED
  BY <1>1, <1>2, <1>3, <1>4, <1>5 DEF Init, IInv
LEMMA SetupReplyStep ==
    ASSUME IInv, TypeOK', DisjointUses,
           NEW t \in Threads, NEW nm \in Uses[t], SetupReply(t, nm)
    PROVE  IInv'
<1> DEFINE c == <<t, cnt[t] + 1>>
<1> USE DEF InCall
<1>1. /\ pc[t] = "idle" /\ pc' = [pc EXCEPT ![t] = "send"]
      /\ cnt' = [cnt EXCEPT ![t] = cnt[t] + 1]
      /\ name' = [name EXCEPT ![c] = nm]
      /\ replymap' = [replymap EXCEPT ![nm] = c]
      /\ rpc = "read" /\ fault = "none"
      /\ UNCHANGED <<ptr, ret, avail, result, requests, rpc, rcur, rfut,
                     returned, fault>>
  BY DEF SetupReply, Goto, Running, RpmutFree, futures, receiver
<1>2. /\ nm \in Names
      /\ cnt[t] \in Nat /\ c \in Calls
      /\ TypeOK
  <2>1. cnt[t] < MaxCalls /\ cnt[t] \in 0..MaxCalls /\ MaxCalls \in Nat
    BY ConstantsAssumption DEF ConstantsAssumption, SetupReply, IInv, TypeOK
  <2>2. TypeOK
    BY DEF IInv
  <2>3. c \in Calls
    BY <2>1, <2>2, NextInCalls
  <2>4. nm \in Names
    BY ConstantsAssumption DEF ConstantsAssumption
  <2>5. QED
    BY <2>1, <2>2, <2>3, <2>4
<1>3. /\ Cur(t)' = c
      /\ \A u \in Threads : u # t => Cur(u)' = Cur(u) /\ Cur(u) # c
      /\ Cur(t) # c
  BY <1>1, <1>2 DEF TypeOK, Cur
<1>4. \A u \in Threads : InCall(u) => Cur(u) \in Calls
  BY CurInCalls DEF IInv, SlotInv
<1>5. \A u \in Threads : u # t => pc'[u] = pc[u] /\ cnt'[u] = cnt[u]
  BY <1>1, <1>2 DEF TypeOK
<1>6. pc'[t] = "send" /\ cnt'[t] = cnt[t] + 1 /\ name'[c] = nm /\ replymap'[nm] = c
  BY <1>1, <1>2 DEF TypeOK
<1>7. SlotInv'
  <2>1. ASSUME NEW u \in Threads, (pc[u] # "idle")'
        PROVE  (cnt[u] > 0 /\ name[Cur(u)] \in Uses[u]
                /\ replymap[name[Cur(u)]] = Cur(u))'
    <3>1. CASE u = t
      BY <1>2, <1>3, <1>6, <3>1
    <3>2. CASE u # t
      <4>1. /\ InCall(u) /\ Cur(u)' = Cur(u) /\ Cur(u) \in Calls /\ Cur(u) # c
            /\ cnt'[u] = cnt[u]
        BY <1>3, <1>4, <1>5, <2>1, <3>2
      <4> HIDE DEF InCall
      <4>2. /\ cnt[u] > 0 /\ name[Cur(u)] \in Uses[u]
            /\ replymap[name[Cur(u)]] = Cur(u)
        BY <4>1 DEF IInv, SlotInv
      <4>6. name[Cur(u)] # nm
        BY <4>1, <3>2, SlotsDiffer DEF IInv
      <4>3. name'[Cur(u)] = name[Cur(u)]
        BY <1>1, <1>2, <4>1 DEF TypeOK
      <4>4. replymap'[name[Cur(u)]] = replymap[name[Cur(u)]]
        BY <1>1, <1>2, <4>2, <4>6, ConstantsAssumption DEF ConstantsAssumption, TypeOK
      <4>5. QED
        BY <4>1, <4>2, <4>3, <4>4
    <3>3. QED
      BY <3>1, <3>2
  <2>2. ASSUME NEW n \in Names, replymap'[n] # Absent
        PROVE  (\E u \in Threads : InCall(u) /\ replymap[n] = Cur(u) /\ name[Cur(u)] = n)'
    <3>1. CASE n = nm
      BY <1>3, <1>6, <3>1
    <3>2. CASE n # nm
      <4>1. replymap'[n] = replymap[n]
        BY <1>1, <1>2, <3>2 DEF TypeOK
      <4>2. PICK u \in Threads : InCall(u) /\ replymap[n] = Cur(u) /\ name[Cur(u)] = n
        BY <2>2, <4>1 DEF IInv, SlotInv
      <4>3. u # t
        BY <1>1, <4>2
      <4>4. name'[Cur(u)] = name[Cur(u)]
        BY <1>1, <1>2, <1>3, <1>4, <4>2, <4>3 DEF TypeOK
      <4>5. QED
        BY <4>1, <4>2, <4>3, <4>4, <1>3, <1>5
    <3>3. QED
      BY <3>1, <3>2
  <2>3. QED
    BY <2>1, <2>2 DEF SlotInv
<1>8. ReaderInv'
  BY <1>1, <1>3, <1>5, <1>6 DEF IInv, ReaderInv
<1>9. AnswerInv'
  <2>1. ASSUME NEW d \in Calls, Waiting(d)
        PROVE  Waiting(d)'
    <3>1. d[1] \in Threads /\ d[1] # t
      BY <1>1, <2>1, CallFields DEF Waiting
    <3>2. QED
      BY <3>1, <2>1, <1>1, <1>3, <1>5 DEF Waiting
  <2>2. QED
    BY <1>1, <1>2, <2>1 DEF IInv, AnswerInv, TypeOK
<1>10. FutureInv'
  <2>1. ~avail[c] /\ returned[c] = Absent
    <3>1. c[1] = t /\ c[2] = cnt[t] + 1
      OBVIOUS
    <3>2. c[2] > cnt[c[1]]
      BY <1>2, <3>1
    <3>3. QED
      BY <1>2, <3>2 DEF IInv, FutureInv
  <2>2. ASSUME NEW d \in Calls, d[2] > cnt'[d[1]]
        PROVE  d[2] > cnt[d[1]]
    <3>1. d[1] \in Threads /\ d[2] \in Nat
      BY CallFields, ConstantsAssumption DEF ConstantsAssumption
    <3>2. CASE d[1] = t
      BY <1>2, <1>6, <2>2, <3>1, <3>2
    <3>3. CASE d[1] # t
      BY <1>5, <2>2, <3>1, <3>3
    <3>4. QED
      BY <3>2, <3>3
  <2>3. QED
    BY <1>1, <1>3, <1>5, <1>6, <2>1, <2>2 DEF IInv, FutureInv
<1>11. QED
  BY <1>1, <1>7, <1>8, <1>9, <1>10 DEF IInv

(* An action of a thread in a call that leaves the map, the names and the  *)
(* Futures alone. *)
LEMMA SlotInvKept ==
    ASSUME IInv, NEW t \in Threads, NEW s, InCall(t), s # "idle",
           pc' = [pc EXCEPT ![t] = s], UNCHANGED <<cnt, name, replymap>>
    PROVE  /\ SlotInv'
           /\ \A u \in Threads : Cur(u)' = Cur(u) /\ (InCall(u)' <=> InCall(u))
           /\ \A u \in Threads : u # t => pc'[u] = pc[u]
           /\ pc'[t] = s
<1>1. /\ \A u \in Threads : u # t => pc'[u] = pc[u]
      /\ pc'[t] = s
  BY DEF IInv, TypeOK
<1>2. \A u \in Threads : Cur(u)' = Cur(u) /\ (InCall(u)' <=> InCall(u))
  BY <1>1 DEF Cur, InCall
<1>3. /\ \A u \in Threads : (pc'[u] # "idle") <=> (pc[u] # "idle")
      /\ cnt' = cnt /\ name' = name /\ replymap' = replymap
  BY <1>1 DEF InCall
<1>4. SlotInv
  BY DEF IInv
<1>5. SlotInv'
  BY <1>3, <1>4 DEF SlotInv, InCall, Cur
<1>6. QED
  BY <1>1, <1>2, <1>5
(* The steps of a call between SetupReply and the erase, one by one. *)

LEMMA SendStep ==
    ASSUME IInv, NEW t \in Threads, Send(t)
    PROVE  SlotInv' /\ ReaderInv' /\ AnswerInv' /\ FutureInv'
<1>1. /\ pc[t] = "send" /\ pc' = [pc EXCEPT ![t] = "lookup"]
      /\ requests' = requests \cup {Cur(t)}
      /\ UNCHANGED <<cnt, ptr, ret, name, replymap, avail, result, rpc, rcur, rfut,
                     returned, fault>>
  BY DEF Send, Goto, futures, receiver
<1>2. /\ SlotInv'
      /\ \A u \in Threads : Cur(u)' = Cur(u) /\ (InCall(u)' <=> InCall(u))
      /\ \A u \in Threads : u # t => pc'[u] = pc[u]
      /\ pc'[t] = "lookup"
  BY <1>1, SlotInvKept DEF InCall
<1>3. Cur(t) \in Calls /\ ~avail[Cur(t)]
  BY <1>1, CurInCalls DEF IInv, SlotInv, FutureInv, InCall
<1>4. ReaderInv'
  BY <1>1, <1>2 DEF IInv, ReaderInv
<1>5. AnswerInv'
  <2>1. ASSUME NEW c \in Calls, Waiting(c)
        PROVE  Waiting(c)' /\ c # Cur(t)
    BY <1>1, <1>2, <2>1, CallFields DEF Waiting, Cur
  <2>2. Waiting(Cur(t))'
    BY <1>1, <1>2, <1>3 DEF Waiting, Cur
  <2>3. ASSUME NEW c \in requests'
        PROVE  Waiting(c)'
    <3>1. CASE c = Cur(t)
      BY <1>2, <2>2, <3>1 DEF Waiting
    <3>2. CASE c # Cur(t)
      <4>1. c \in Calls /\ Waiting(c)
        BY <1>1, <3>2 DEF IInv, AnswerInv, TypeOK
      <4>2. QED
        BY <2>1, <4>1
    <3>3. QED
      BY <3>1, <3>2
  <2>4. rpc \in {"result", "avail"} => Waiting(rcur)'
    BY <1>1, <2>1 DEF IInv, AnswerInv, Waiting
  <2>5. rpc # "read" => rcur # Cur(t)
    BY <1>3, <2>1 DEF IInv, AnswerInv, TypeOK
  <2>6. QED
    BY <1>1, <2>3, <2>4, <2>5 DEF IInv, AnswerInv
<1>6. FutureInv'
  BY <1>1, <1>2 DEF IInv, FutureInv
<1>7. QED
  BY <1>2, <1>4, <1>5, <1>6
LEMMA LookupStep ==
    ASSUME IInv, NEW t \in Threads, GetReplyLookup(t)
    PROVE  SlotInv' /\ ReaderInv' /\ AnswerInv' /\ FutureInv'
<1>1. /\ pc[t] = "lookup" /\ pc' = [pc EXCEPT ![t] = "get"]
      /\ rpc = "read"
      /\ UNCHANGED <<cnt, ret, name, avail, result, requests, rpc, rcur, rfut,
                     returned, fault>>
  BY DEF GetReplyLookup, Goto, RpmutFree, futures, receiver
<1>2. /\ cnt[t] > 0 /\ name[Cur(t)] \in Names /\ Cur(t) \in Calls
      /\ replymap[name[Cur(t)]] = Cur(t) /\ Cur(t) # Absent
  BY <1>1, IInvTypes, CurInCalls, ConstantsAssumption
     DEF ConstantsAssumption, IInv, SlotInv, InCall, TypeInv
<1>3. ptr' = [ptr EXCEPT ![t] = Cur(t)] /\ replymap' = replymap
  BY <1>2 DEF GetReplyLookup, IInv, TypeOK
<1>4. /\ SlotInv'
      /\ \A u \in Threads : Cur(u)' = Cur(u) /\ (InCall(u)' <=> InCall(u))
      /\ \A u \in Threads : u # t => pc'[u] = pc[u]
      /\ pc'[t] = "get"
  BY <1>1, <1>3, SlotInvKept DEF InCall
<1>5. ReaderInv'
  BY <1>1, <1>3, <1>4 DEF IInv, ReaderInv, TypeOK
<1>6. AnswerInv'
  <2>1. ASSUME NEW c \in Calls, Waiting(c)
        PROVE  Waiting(c)'
    BY <1>1, <1>4, <2>1, CallFields DEF Waiting, Cur
  <2>2. requests \subseteq Calls
    BY DEF IInv, TypeOK
  <2>3. QED
    BY <1>1, <2>1, <2>2 DEF IInv, AnswerInv
<1>7. FutureInv'
  BY <1>1, <1>4 DEF IInv, FutureInv
<1>8. QED
  BY <1>4, <1>5, <1>6, <1>7

LEMMA WaitStep ==
    ASSUME IInv, NEW t \in Threads, GetReplyWait(t)
    PROVE  SlotInv' /\ ReaderInv' /\ AnswerInv' /\ FutureInv'
<1>1. /\ pc[t] = "get" /\ pc' = [pc EXCEPT ![t] = "copy"]
      /\ avail[ptr[t]]
      /\ UNCHANGED <<cnt, ptr, ret, name, replymap, avail, result, requests, rpc,
                     rcur, rfut, returned, fault>>
  BY DEF GetReplyWait, Goto, futures, receiver
<1>2. /\ SlotInv'
      /\ \A u \in Threads : Cur(u)' = Cur(u) /\ (InCall(u)' <=> InCall(u))
      /\ \A u \in Threads : u # t => pc'[u] = pc[u]
      /\ pc'[t] = "copy"
  BY <1>1, SlotInvKept DEF InCall
<1>3. ptr[t] = Cur(t) /\ avail[Cur(t)]
  BY <1>1 DEF IInv, ReaderInv
<1>4. ReaderInv'
  BY <1>1, <1>2, <1>3 DEF IInv, ReaderInv
<1>5. AnswerInv'
  <2>1. ASSUME NEW c \in Calls, Waiting(c)
        PROVE  Waiting(c)'
    <3>1. c[1] \in Threads /\ c[1] # t
      BY <1>3, <2>1, CallFields DEF Waiting
    <3>2. QED
      BY <1>1, <1>2, <2>1, <3>1 DEF Waiting
  <2>2. requests \subseteq Calls
    BY DEF IInv, TypeOK
  <2>3. QED
    BY <1>1, <2>1, <2>2 DEF IInv, AnswerInv
<1>6. FutureInv'
  BY <1>1, <1>2 DEF IInv, FutureInv
<1>7. QED
  BY <1>2, <1>4, <1>5, <1>6

(* A thread past its wait owes nothing to AnswerInv and FutureInv. *)
LEMMA ReadingStep ==
    ASSUME IInv, NEW t \in Threads, NEW s \in {"erase", "erasing"},
           pc[t] \in {"copy", "erase"},
           pc' = [pc EXCEPT ![t] = s],
           UNCHANGED <<cnt, name, replymap, avail, result, requests, rpc, rcur,
                       rfut, returned>>
    PROVE  SlotInv' /\ AnswerInv' /\ FutureInv'
<1>1. /\ SlotInv'
      /\ \A u \in Threads : Cur(u)' = Cur(u) /\ (InCall(u)' <=> InCall(u))
      /\ \A u \in Threads : u # t => pc'[u] = pc[u]
      /\ pc'[t] = s
  BY SlotInvKept DEF InCall
<1>2. AnswerInv'
  <2>1. ASSUME NEW c \in Calls, Waiting(c)
        PROVE  Waiting(c)'
    <3>1. c[1] \in Threads /\ c[1] # t
      BY <2>1, CallFields DEF Waiting
    <3>2. QED
      BY <1>1, <2>1, <3>1 DEF Waiting
  <2>2. requests \subseteq Calls
    BY DEF IInv, TypeOK
  <2>3. QED
    BY <2>1, <2>2 DEF IInv, AnswerInv
<1>3. FutureInv'
  BY <1>1 DEF IInv, FutureInv, InCall
<1>4. QED
  BY <1>1, <1>2, <1>3

LEMMA CopyStep ==
    ASSUME IInv, NEW t \in Threads, GetReplyCopy(t)
    PROVE  SlotInv' /\ ReaderInv' /\ AnswerInv' /\ FutureInv'
<1>1. /\ pc[t] = "copy" /\ pc' = [pc EXCEPT ![t] = "erase"]
      /\ ret' = [ret EXCEPT ![t] = result[ptr[t]]]
      /\ UNCHANGED <<cnt, ptr, name, replymap, avail, result, requests, rpc, rcur,
                     rfut, returned, fault>>
  BY DEF GetReplyCopy, Goto, futures, receiver
<1>2. SlotInv' /\ AnswerInv' /\ FutureInv'
  BY <1>1, ReadingStep
<1>3. /\ ptr[t] = Cur(t) /\ avail[Cur(t)] /\ Cur(t) \in Calls
  BY <1>1, CurInCalls DEF IInv, ReaderInv, SlotInv, InCall
<1>4. ret' = [ret EXCEPT ![t] = Cur(t)]
  BY <1>1, <1>3 DEF IInv, FutureInv
<1>5. ReaderInv'
  BY <1>1, <1>3, <1>4 DEF IInv, ReaderInv, TypeOK, Cur
<1>6. QED
  BY <1>2, <1>5

LEMMA EraseBeginStep ==
    ASSUME IInv, NEW t \in Threads, GetReplyEraseBegin(t)
    PROVE  SlotInv' /\ ReaderInv' /\ AnswerInv' /\ FutureInv'
<1>1. /\ pc[t] = "erase" /\ pc' = [pc EXCEPT ![t] = "erasing"]
      /\ UNCHANGED <<cnt, ptr, ret, name, replymap, avail, result, requests, rpc,
                     rcur, rfut, returned, fault>>
  BY DEF GetReplyEraseBegin, Goto, futures, receiver
<1>2. SlotInv' /\ AnswerInv' /\ FutureInv'
  BY <1>1, ReadingStep
<1>3. ReaderInv'
  BY <1>1 DEF IInv, ReaderInv, TypeOK, Cur
<1>4. QED
  BY <1>2, <1>3
LEMMA EraseEndStep ==
    ASSUME IInv, DisjointUses, NEW t \in Threads, GetReplyEraseEnd(t)
    PROVE  SlotInv' /\ ReaderInv' /\ AnswerInv' /\ FutureInv'
<1> DEFINE nm == name[Cur(t)]
<1>1. /\ pc[t] = "erasing" /\ pc' = [pc EXCEPT ![t] = "idle"]
      /\ replymap' = [replymap EXCEPT ![nm] = Absent]
      /\ ptr' = [ptr EXCEPT ![t] = Absent]
      /\ returned' = [returned EXCEPT ![Cur(t)] = ret[t]]
      /\ UNCHANGED <<cnt, ret, name, avail, result, requests, rpc, rcur, rfut, fault>>
  BY DEF GetReplyEraseEnd, Goto, futures, receiver
<1>2. /\ nm \in Names /\ nm \in Uses[t]
      /\ Cur(t) \in Calls /\ replymap[nm] = Cur(t) /\ ret[t] = Cur(t)
      /\ ptr[t] = Cur(t)
  BY <1>1, CurInCalls, ConstantsAssumption
     DEF ConstantsAssumption, IInv, SlotInv, ReaderInv, InCall
<1>3. /\ pc'[t] = "idle"
      /\ \A u \in Threads : u # t => pc'[u] = pc[u] /\ ptr'[u] = ptr[u]
      /\ \A u \in Threads : Cur(u)' = Cur(u)
  BY <1>1 DEF IInv, TypeOK, Cur
<1>4. SlotInv'
  <2>1. ASSUME NEW u \in Threads, (pc[u] # "idle")'
        PROVE  (cnt[u] > 0 /\ name[Cur(u)] \in Uses[u]
                /\ replymap[name[Cur(u)]] = Cur(u))'
    <3>1. u # t /\ InCall(u)
      BY <1>3, <2>1 DEF InCall
    <3>2. /\ cnt[u] > 0 /\ name[Cur(u)] \in Uses[u]
          /\ replymap[name[Cur(u)]] = Cur(u)
      BY <3>1 DEF IInv, SlotInv
    <3>3. name[Cur(u)] # nm
      BY <1>2, <3>1, SlotsDiffer DEF IInv
    <3>4. name[Cur(u)] \in Names
      BY <3>2, ConstantsAssumption DEF ConstantsAssumption
    <3>5. QED
      BY <1>1, <1>3, <3>2, <3>3, <3>4 DEF IInv, TypeOK
  <2>2. ASSUME NEW n \in Names, replymap'[n] # Absent
        PROVE  (\E u \in Threads : InCall(u) /\ replymap[n] = Cur(u) /\ name[Cur(u)] = n)'
    <3>1. n # nm /\ replymap'[n] = replymap[n]
      BY <1>1, <1>2, <2>2 DEF IInv, TypeOK
    <3>2. PICK u \in Threads : InCall(u) /\ replymap[n] = Cur(u) /\ name[Cur(u)] = n
      BY <2>2, <3>1 DEF IInv, SlotInv
    <3>3. QED
      BY <1>1, <1>3, <3>1, <3>2 DEF InCall
  <2>3. QED
    BY <2>1, <2>2 DEF SlotInv, InCall
<1>5. ReaderInv'
  BY <1>1, <1>3 DEF IInv, ReaderInv
<1>6. AnswerInv'
  <2>1. ASSUME NEW c \in Calls, Waiting(c)
        PROVE  Waiting(c)'
    <3>1. c[1] \in Threads /\ c[1] # t
      BY <1>1, <2>1, CallFields DEF Waiting
    <3>2. QED
      BY <1>1, <1>3, <2>1, <3>1 DEF Waiting
  <2>2. requests \subseteq Calls
    BY DEF IInv, TypeOK
  <2>3. QED
    BY <1>1, <2>1, <2>2 DEF IInv, AnswerInv
<1>7. FutureInv'
  <2>1. \A c \in Calls : returned'[c] = IF c = Cur(t) THEN c ELSE returned[c]
    BY <1>1, <1>2 DEF IInv, TypeOK
  <2>2. \A u \in Threads : u # t => Cur(u) # Cur(t)
    BY DEF Cur
  <2>3. \A u \in Threads : InCall(u)' => u # t /\ InCall(u)
    BY <1>3 DEF InCall
  <2>4. \A u \in Threads : InCall(u) => Cur(u) \in Calls
    BY CurInCalls DEF IInv, SlotInv
  <2>5. \A u \in Threads : InCall(u)' => returned'[Cur(u)] = Absent
    BY <2>1, <2>2, <2>3, <2>4 DEF IInv, FutureInv
  <2>6. \A c \in Calls : c[2] > cnt[c[1]] => returned'[c] = Absent
    <3>1. ~(Cur(t)[2] > cnt[Cur(t)[1]])
      <4>1. cnt[t] \in Nat
        BY CntNat DEF IInv
      <4>2. QED
        BY <4>1 DEF Cur
    <3>2. QED
      BY <2>1, <3>1 DEF IInv, FutureInv
  <2>7. \A c \in Calls : returned'[c] \in {c, Absent}
    BY <2>1 DEF IInv, FutureInv
  <2>8. QED
    BY <1>1, <1>3, <2>5, <2>6, <2>7 DEF IInv, FutureInv
<1>8. QED
  BY <1>4, <1>5, <1>6, <1>7

(* PutReply finds the slot of the call it answers. *)
LEMMA AnswerFindsSlot ==
    ASSUME IInv, NEW c \in requests
    PROVE  c \in Calls /\ Waiting(c) /\ replymap[name[c]] = c
<1>1. c \in Calls /\ Waiting(c)
  BY DEF IInv, AnswerInv, TypeOK
<1>2. c[1] \in Threads /\ InCall(c[1]) /\ c = Cur(c[1])
  BY <1>1, CallFields DEF Waiting, InCall
<1>3. replymap[name[Cur(c[1])]] = Cur(c[1])
  BY <1>2 DEF IInv, SlotInv
<1>4. QED
  BY <1>1, <1>2, <1>3

(* A step of the receiver leaves the callers where they are. *)
LEMMA RecieverKeeps ==
    ASSUME IInv, UNCHANGED <<callers, replymap>>,
           \A c \in Calls : avail[c] => avail'[c]
    PROVE  SlotInv' /\ ReaderInv'
<1>1. UNCHANGED <<pc, cnt, ptr, ret, name, replymap>>
  BY DEF callers
<1>2. SlotInv'
  BY <1>1 DEF IInv, SlotInv, InCall, Cur
<1>3. \A t \in Threads : InCall(t) => Cur(t) \in Calls
  BY CurInCalls DEF IInv, SlotInv
<1>4. ReaderInv'
  BY <1>1, <1>3 DEF IInv, ReaderInv, Cur, InCall
<1>5. QED
  BY <1>2, <1>4

LEMMA PutReplyLookupStep ==
    ASSUME IInv, NEW c \in Calls, PutReplyLookup(c)
    PROVE  SlotInv' /\ ReaderInv' /\ AnswerInv' /\ FutureInv'
<1>1. /\ c \in requests /\ requests' = requests \ {c}
      /\ rpc' = "result" /\ rcur' = c
      /\ rfut' = replymap[name[c]]
      /\ UNCHANGED <<pc, cnt, ptr, ret, name, replymap, avail, result, returned, fault>>
  BY DEF PutReplyLookup, After, callers, futures
<1>2. rfut' = c /\ Waiting(c)
  BY <1>1, AnswerFindsSlot
<1>3. SlotInv' /\ ReaderInv'
  BY <1>1, RecieverKeeps DEF callers
<1>4. AnswerInv'
  BY <1>1, <1>2 DEF IInv, AnswerInv, Waiting, Cur
<1>5. FutureInv'
  BY <1>1 DEF IInv, FutureInv, InCall, Cur
<1>6. QED
  BY <1>3, <1>4, <1>5

LEMMA SetResultStep ==
    ASSUME IInv, SetResult
    PROVE  SlotInv' /\ ReaderInv' /\ AnswerInv' /\ FutureInv'
<1>1. /\ rpc = "result" /\ rpc' = "avail"
      /\ result' = [result EXCEPT ![rfut] = rcur]
      /\ UNCHANGED <<pc, cnt, ptr, ret, name, replymap, avail, requests, rcur, rfut,
                     returned, fault>>
  BY DEF SetResult, After, callers
<1>2. SlotInv' /\ ReaderInv'
  BY <1>1, RecieverKeeps DEF callers
<1>3. rfut = rcur /\ rcur \in Calls /\ Waiting(rcur)
  BY <1>1 DEF IInv, AnswerInv
<1>4. AnswerInv'
  BY <1>1, <1>3 DEF IInv, AnswerInv, Waiting, Cur, TypeOK
<1>5. FutureInv'
  BY <1>1, <1>3 DEF IInv, FutureInv, InCall, Cur, TypeOK
<1>6. QED
  BY <1>2, <1>4, <1>5

LEMMA SetAvailStep ==
    ASSUME IInv, SetAvail
    PROVE  SlotInv' /\ ReaderInv' /\ AnswerInv' /\ FutureInv'
<1>1. /\ rpc = "avail" /\ rpc' = "notify"
      /\ avail' = [avail EXCEPT ![rfut] = TRUE]
      /\ UNCHANGED <<pc, cnt, ptr, ret, name, replymap, result, requests, rcur, rfut,
                     returned, fault>>
  BY DEF SetAvail, After, callers
<1>2. /\ rfut = rcur /\ rcur \in Calls /\ Waiting(rcur) /\ rcur \notin requests
      /\ result[rcur] = rcur
  BY <1>1 DEF IInv, AnswerInv
<1>3. \A c \in Calls : avail'[c] <=> avail[c] \/ c = rcur
  BY <1>1, <1>2 DEF IInv, TypeOK
<1>4. SlotInv' /\ ReaderInv'
  BY <1>1, <1>3, RecieverKeeps DEF callers
<1>5. AnswerInv'
  <2>1. ASSUME NEW c \in requests
        PROVE  Waiting(c)'
    <3>1. c \in Calls /\ c # rcur /\ Waiting(c)
      BY <1>2 DEF IInv, AnswerInv, TypeOK
    <3>2. QED
      BY <1>1, <1>3, <3>1 DEF Waiting, Cur
  <2>2. QED
    BY <1>1, <1>2, <1>3, <2>1 DEF IInv, AnswerInv
<1>6. FutureInv'
  <2>1. /\ rcur[1] \in Threads /\ rcur = Cur(rcur[1])
        /\ pc[rcur[1]] \in {"lookup", "get"}
        /\ ~(rcur[2] > cnt[rcur[1]])
    <3>1. /\ rcur[1] \in Threads /\ rcur = Cur(rcur[1])
          /\ pc[rcur[1]] \in {"lookup", "get"}
      BY <1>2, CallFields DEF Waiting
    <3>2. cnt[rcur[1]] \in Nat
      BY <3>1, CntNat DEF IInv
    <3>3. rcur[2] = cnt[rcur[1]]
      BY <3>1 DEF Cur
    <3>4. QED
      BY <3>1, <3>2, <3>3
  <2>2. \A t \in Threads : pc[t] = "send" => Cur(t) \in Calls /\ Cur(t) # rcur
    <3>1. \A t \in Threads : pc[t] = "send" => Cur(t) \in Calls
      BY CurInCalls DEF IInv, SlotInv, InCall
    <3>2. \A t \in Threads : Cur(t)[1] = t
      BY DEF Cur
    <3>3. QED
      BY <2>1, <3>1, <3>2
  <2>3. \A c \in Calls : c[2] > cnt[c[1]] => c # rcur
    BY <2>1
  <2>4. \A t \in Threads : pc'[t] = "send" => ~avail'[Cur(t)]
    BY <1>1, <1>3, <2>2 DEF IInv, FutureInv
  <2>5. QED
    BY <1>1, <1>2, <1>3, <2>3, <2>4 DEF IInv, FutureInv, InCall, Cur
<1>7. QED
  BY <1>4, <1>5, <1>6

LEMMA NotifyStep ==
    ASSUME IInv, Notify
    PROVE  SlotInv' /\ ReaderInv' /\ AnswerInv' /\ FutureInv'
<1>1. /\ rpc' = "read"
      /\ UNCHANGED <<pc, cnt, ptr, ret, name, replymap, avail, result, requests,
                     rcur, rfut, returned, fault>>
  BY DEF Notify, After, callers, futures
<1>2. SlotInv' /\ ReaderInv'
  BY <1>1, RecieverKeeps DEF callers
<1>3. AnswerInv'
  BY <1>1 DEF IInv, AnswerInv, Waiting, Cur
<1>4. FutureInv'
  BY <1>1 DEF IInv, FutureInv, InCall, Cur
<1>5. QED
  BY <1>2, <1>3, <1>4
(* The four parts of IInv besides its types, and the absence of the null   *)
(* slot, survive every step. *)
LEMMA InvStep == DisjointUses /\ IInv /\ [Next]_vars => IInv'
<1> SUFFICES ASSUME DisjointUses, IInv, [Next]_vars
             PROVE  IInv'
  OBVIOUS
<1>1. TypeInv' /\ TypeOK'
  BY IInvTypes, TypeStep DEF TypeInv
<1>2. SUFFICES (SlotInv /\ ReaderInv /\ AnswerInv /\ FutureInv)'
               /\ fault' # "null slot"
  BY <1>1 DEF IInv
<1>3. ASSUME NEW t \in Threads, NEW nm \in Names, nm \in Uses[t], SetupReply(t, nm)
      PROVE  (SlotInv /\ ReaderInv /\ AnswerInv /\ FutureInv)'
             /\ fault' # "null slot"
  BY <1>1, <1>3, SetupReplyStep DEF IInv
<1>4. ASSUME NEW t \in Threads, Continue(t)
      PROVE  (SlotInv /\ ReaderInv /\ AnswerInv /\ FutureInv)'
             /\ fault' # "null slot"
  <2>1. CASE Send(t)
    BY <2>1, SendStep DEF Send, IInv
  <2>2. CASE GetReplyLookup(t)
    BY <2>2, LookupStep DEF GetReplyLookup, IInv
  <2>3. CASE GetReplyWait(t)
    BY <2>3, WaitStep DEF GetReplyWait, IInv
  <2>4. CASE GetReplyCopy(t)
    BY <2>4, CopyStep DEF GetReplyCopy, IInv
  <2>5. CASE GetReplyEraseBegin(t)
    BY <2>5, EraseBeginStep DEF GetReplyEraseBegin, IInv
  <2>6. CASE GetReplyEraseEnd(t)
    BY <2>6, EraseEndStep DEF GetReplyEraseEnd, IInv
  <2>7. CASE GetReplyNull(t)
    <3>1. pc[t] = "get" /\ ptr[t] = Null
      BY <2>7 DEF GetReplyNull
    <3>2. Cur(t) \in Calls /\ ptr[t] = Cur(t)
      BY <3>1, CurInCalls DEF IInv, SlotInv, ReaderInv, InCall
    <3>3. QED
      BY <3>1, <3>2, ConstantsAssumption DEF ConstantsAssumption
  <2>8. QED
    BY <1>4, <2>1, <2>2, <2>3, <2>4, <2>5, <2>6, <2>7 DEF Continue
<1>5. ASSUME Reciever
      PROVE  (SlotInv /\ ReaderInv /\ AnswerInv /\ FutureInv)'
             /\ fault' # "null slot"
  <2>1. ASSUME NEW c \in Calls, PutReplyLookup(c)
        PROVE  (SlotInv /\ ReaderInv /\ AnswerInv /\ FutureInv)'
               /\ fault' # "null slot"
    BY <2>1, PutReplyLookupStep DEF PutReplyLookup, IInv
  <2>2. ASSUME NEW c \in Calls, PutReplyNull(c)
        PROVE  FALSE
    BY <2>2, AnswerFindsSlot DEF PutReplyNull
  <2>3. CASE SetResult
    BY <2>3, SetResultStep DEF SetResult, IInv
  <2>4. CASE SetAvail
    BY <2>4, SetAvailStep DEF SetAvail, IInv
  <2>5. CASE Notify
    BY <2>5, NotifyStep DEF Notify, IInv
  <2>6. QED
    BY <1>5, <2>1, <2>2, <2>3, <2>4, <2>5 DEF Reciever
<1>6. ASSUME UNCHANGED <<callers, replymap, futures, requests, receiver, returned>>
      PROVE  (SlotInv /\ ReaderInv /\ AnswerInv /\ FutureInv)'
  <2>1. UNCHANGED <<pc, cnt, ptr, ret, name, replymap, avail, result, requests, rpc,
                    rcur, rfut, returned>>
    BY <1>6 DEF callers, futures, receiver
  <2>2. SlotInv' /\ ReaderInv'
    BY <2>1, RecieverKeeps DEF callers
  <2>3. AnswerInv'
    BY <2>1 DEF IInv, AnswerInv, Waiting, Cur
  <2>4. FutureInv'
    BY <2>1 DEF IInv, FutureInv, InCall, Cur
  <2>5. QED
    BY <2>2, <2>3, <2>4
<1>7. ASSUME NEW t \in Threads, MapRace(t)
      PROVE  (SlotInv /\ ReaderInv /\ AnswerInv /\ FutureInv)'
             /\ fault' # "null slot"
  BY <1>6, <1>7 DEF MapRace, Fault
<1>8. ASSUME DeadFuture
      PROVE  (SlotInv /\ ReaderInv /\ AnswerInv /\ FutureInv)'
             /\ fault' # "null slot"
  BY <1>6, <1>8 DEF DeadFuture, Fault
<1>9. ASSUME UNCHANGED vars
      PROVE  (SlotInv /\ ReaderInv /\ AnswerInv /\ FutureInv)'
             /\ fault' # "null slot"
  BY <1>6, <1>9 DEF vars, IInv
<1>10. QED
  BY <1>3, <1>4, <1>5, <1>7, <1>8, <1>9 DEF Next

-----------------------------------------------------------------------------
(* Theorems for threads that share no slot name. *)

(* The slot map, the waiting readers, the answers owed and the Futures     *)
(* agree in every reachable state. *)
THEOREM SlotsConsistent == DisjointUses /\ Spec => []IInv
<1> SUFFICES ASSUME DisjointUses
             PROVE  Spec => []IInv
  OBVIOUS
<1>1. IInv /\ [Next]_vars => IInv'
  BY InvStep
<1>2. QED
  BY InvInit, <1>1, PTL DEF Spec

(* Every call of GetReply returns the answer to its own request. *)
THEOREM EachGetsItsReply == DisjointUses /\ Spec => []OwnReply
<1>1. IInv => OwnReply
  BY DEF IInv, ReaderInv, FutureInv, OwnReply
<1>2. QED
  BY <1>1, SlotsConsistent, PTL

(* The receiver finds the caller's own, unset Future for every answer, and *)
(* nobody dereferences the null pointer of a missing slot. *)
THEOREM AnswersFindTheirSlot == DisjointUses /\ Spec => []SlotsHeld
<1>1. IInv => SlotsHeld
  <2> SUFFICES ASSUME IInv
               PROVE  SlotsHeld
    OBVIOUS
  <2>1. \A c \in requests : replymap[name[c]] = c /\ ~avail[c]
    BY AnswerFindsSlot DEF Waiting
  <2>2. QED
    BY <2>1 DEF IInv, ReaderInv, SlotsHeld
<1>2. QED
  BY <1>1, SlotsConsistent, PTL

(* _replymap holds the slots of the calls in progress and nothing else. *)
THEOREM SlotsAreErased == DisjointUses /\ Spec => []NoSlotLeak
<1>1. IInv => NoSlotLeak
  BY DEF IInv, SlotInv, InCall, NoSlotLeak
<1>2. QED
  BY <1>1, SlotsConsistent, PTL

(* PutReply assigns the members of a Future that some pointer keeps alive. *)
THEOREM SetsLiveFuture == DisjointUses /\ Spec => []SetWritesLiveFuture
<1>1. IInv => SetWritesLiveFuture
  <2> SUFFICES ASSUME IInv, rpc \in {"result", "avail"}
               PROVE  Alive(rfut)
    BY DEF SetWritesLiveFuture
  <2>1. rfut = rcur /\ rcur \in Calls /\ Waiting(rcur)
    BY DEF IInv, AnswerInv
  <2>2. rcur[1] \in Threads /\ InCall(rcur[1]) /\ rcur = Cur(rcur[1])
    BY <2>1, CallFields DEF Waiting, InCall
  <2>3. name[rcur] \in Names /\ replymap[name[rcur]] = rcur
    BY <2>2, ConstantsAssumption DEF ConstantsAssumption, IInv, SlotInv
  <2>4. QED
    BY <2>1, <2>3 DEF Alive
<1>2. QED
  BY <1>1, SlotsConsistent, PTL

(* A Future never changes once it is available. *)
THEOREM FuturesSetOnce == DisjointUses /\ Spec => SetOnce
<1>1. IInv /\ [Next]_vars =>
        [\A c \in Calls : avail[c] => avail'[c] /\ result'[c] = result[c]]_vars
  <2> SUFFICES ASSUME IInv, Next, NEW c \in Calls, avail[c]
               PROVE  avail'[c] /\ result'[c] = result[c]
    BY DEF IInv
  <2>1. CASE SetResult
    <3>1. rfut # c
      BY <2>1 DEF SetResult, IInv, AnswerInv, Waiting
    <3>2. QED
      BY <2>1, <3>1 DEF SetResult, IInv, TypeOK
  <2>2. CASE SetAvail
    BY <2>2 DEF SetAvail, IInv, TypeOK
  <2>3. CASE UNCHANGED futures
    BY <2>3 DEF futures
  <2>4. Next => SetResult \/ SetAvail \/ UNCHANGED futures
    BY DEF Next, SetupReply, Continue, Send, GetReplyLookup, GetReplyWait,
           GetReplyCopy, GetReplyEraseBegin, GetReplyEraseEnd, GetReplyNull,
           MapRace, Reciever, PutReplyLookup, PutReplyNull, Notify, DeadFuture,
           Fault
  <2>5. QED
    BY <2>1, <2>2, <2>3, <2>4
<1>2. QED
  BY <1>1, SlotsConsistent, PTL DEF Spec, SetOnce

-----------------------------------------------------------------------------
(* The refinement of Rpc. *)

LEMMA StatusOf ==
    ASSUME NEW c \in Calls
    PROVE  Status[c] = IF c[2] > cnt[c[1]] THEN "new"
                       ELSE IF c # Cur(c[1]) \/ pc[c[1]] = "idle" THEN "returned"
                       ELSE IF avail[c] THEN "answered" ELSE "pending"
  BY DEF Status

LEMMA RefinesInit == Init => Abstract!Init
<1> SUFFICES ASSUME Init
             PROVE  Abstract!Init
  OBVIOUS
<1>1. ASSUME NEW c \in Calls
      PROVE  Status[c] = "new"
  <2>1. c[1] \in Threads /\ c[2] > 0
    BY CallFields, ConstantsAssumption DEF ConstantsAssumption
  <2>2. QED
    BY <2>1, StatusOf DEF Init
<1>2. Status = [c \in Calls |-> "new"]
  BY <1>1 DEF Status
<1>3. QED
  BY <1>2 DEF Abstract!Init, Abstract!Calls, Calls, Init

(* A step that leaves the calls' counters, the threads in or out of a call *)
(* and the availability of the Futures alone is a stutter of Rpc. *)
LEMMA StutterStep ==
    ASSUME UNCHANGED <<cnt, avail, returned>>,
           \A t \in Threads : pc'[t] = "idle" <=> pc[t] = "idle"
    PROVE  UNCHANGED <<Status, returned>>
<1>1. ASSUME NEW c \in Calls
      PROVE  Status[c]' = Status[c]
  BY CallFields DEF Status, Cur
<1>2. QED
  BY <1>1 DEF Status

LEMMA SetupReplyInvokes ==
    ASSUME IInv, NEW t \in Threads, NEW nm \in Names, SetupReply(t, nm)
    PROVE  \E c \in Calls : Abstract!Invoke(c)
<1> DEFINE c == <<t, cnt[t] + 1>>
<1>1. /\ pc[t] = "idle" /\ pc' = [pc EXCEPT ![t] = "send"]
      /\ cnt' = [cnt EXCEPT ![t] = cnt[t] + 1]
      /\ UNCHANGED <<avail, returned>>
  BY DEF SetupReply, Goto, futures
<1>2. cnt[t] \in Nat /\ c \in Calls
  BY NextInCalls, CntNat DEF IInv, SetupReply
<1>3. /\ pc'[t] = "send" /\ cnt'[t] = cnt[t] + 1
      /\ \A u \in Threads : u # t => pc'[u] = pc[u] /\ cnt'[u] = cnt[u]
  BY <1>1 DEF IInv, TypeOK
<1>4. Status[c] = "new" /\ Status'[c] = "pending"
  <2>1. ~avail[c]
    <3>1. c[2] > cnt[c[1]]
      BY <1>2
    <3>2. QED
      BY <1>2, <3>1 DEF IInv, FutureInv
  <2>2. QED
    BY <1>1, <1>2, <1>3, <2>1 DEF Status, Cur
<1>5. ASSUME NEW k \in 1..cnt[t]
      PROVE  <<t, k>> \in Calls /\ Status[<<t, k>>] = "returned"
  <2>1. <<t, k>> \in Calls /\ ~(k > cnt[t])
    BY <1>2, ConstantsAssumption DEF ConstantsAssumption, Calls
  <2>2. QED
    BY <1>1, <2>1 DEF Status
<1>6. ASSUME NEW d \in Calls, d # c
      PROVE  Status'[d] = Status[d]
  <2>1. d[1] \in Threads /\ d[2] \in Nat /\ d = <<d[1], d[2]>>
    BY CallFields, ConstantsAssumption DEF ConstantsAssumption
  <2>2. CASE d[1] # t
    BY <1>1, <1>3, <2>1, <2>2 DEF Status, Cur
  <2>3. CASE d[1] = t
    <3>1. d[2] # cnt[t] + 1
      BY <1>6, <2>1, <2>3
    <3>2. CASE d[2] > cnt[t]
      BY <1>2, <1>3, <2>1, <2>3, <3>1, <3>2 DEF Status
    <3>3. CASE ~(d[2] > cnt[t])
      BY <1>1, <1>2, <1>3, <2>1, <2>3, <3>1, <3>3 DEF Status, Cur
    <3>4. QED
      BY <3>2, <3>3
  <2>4. QED
    BY <2>2, <2>3
<1>7. Status' = [Status EXCEPT ![c] = "pending"]
  BY <1>2, <1>4, <1>6 DEF Status
<1>8. Abstract!Invoke(c)
  <2>1. \A k \in 1..(c[2] - 1) : Status[<<c[1], k>>] = "returned"
    BY <1>2, <1>5
  <2>2. QED
    BY <1>1, <1>4, <1>7, <2>1 DEF Abstract!Invoke
<1>9. QED
  BY <1>2, <1>8
LEMMA SetAvailAnswers ==
    ASSUME IInv, SetAvail
    PROVE  \E c \in Calls : Abstract!Answer(c)
<1>1. /\ rpc = "avail"
      /\ avail' = [avail EXCEPT ![rfut] = TRUE]
      /\ UNCHANGED <<pc, cnt, returned>>
  BY DEF SetAvail, callers
<1>2. rfut = rcur /\ rcur \in Calls /\ Waiting(rcur)
  BY <1>1 DEF IInv, AnswerInv
<1>3. /\ rcur = Cur(rcur[1]) /\ rcur[1] \in Threads
      /\ pc[rcur[1]] # "idle" /\ ~avail[rcur]
  BY <1>2, CallFields DEF Waiting
<1>4. ~(rcur[2] > cnt[rcur[1]])
  <2>1. cnt[rcur[1]] \in Nat
    BY <1>3, CntNat DEF IInv
  <2>2. rcur[2] = cnt[rcur[1]]
    BY <1>3 DEF Cur
  <2>3. QED
    BY <2>1, <2>2
<1>5. Status[rcur] = "pending" /\ Status'[rcur] = "answered"
  BY <1>1, <1>2, <1>3, <1>4 DEF Status, Cur, IInv, TypeOK
<1>6. \A d \in Calls : d # rcur => Status'[d] = Status[d]
  BY <1>1, <1>2 DEF Status, Cur, IInv, TypeOK
<1>7. Status' = [Status EXCEPT ![rcur] = "answered"]
  BY <1>2, <1>5, <1>6 DEF Status
<1>8. QED
  BY <1>1, <1>2, <1>5, <1>7 DEF Abstract!Answer

LEMMA EraseEndReturns ==
    ASSUME IInv, NEW t \in Threads, GetReplyEraseEnd(t)
    PROVE  \E c \in Calls : Abstract!Return(c)
<1> DEFINE c == Cur(t)
<1>1. /\ pc[t] = "erasing" /\ pc' = [pc EXCEPT ![t] = "idle"]
      /\ returned' = [returned EXCEPT ![c] = ret[t]]
      /\ UNCHANGED <<cnt, avail>>
  BY DEF GetReplyEraseEnd, Goto, futures
<1>2. c \in Calls /\ avail[c] /\ ret[t] = c
  BY <1>1, CurInCalls DEF IInv, SlotInv, ReaderInv, InCall
<1>3. /\ c = <<t, cnt[t]>> /\ ~(cnt[t] > cnt[t]) /\ Cur(t)' = c
      /\ pc'[t] = "idle" /\ \A u \in Threads : u # t => pc'[u] = pc[u]
  <2>1. cnt[t] \in Nat
    BY CntNat DEF IInv
  <2>2. ~(cnt[t] > cnt[t])
    BY <2>1
  <2>3. QED
    BY <1>1, <2>2 DEF Cur, IInv, TypeOK
<1>4. Status[c] = "answered" /\ Status'[c] = "returned"
  BY <1>1, <1>2, <1>3 DEF Status
<1>5. ASSUME NEW d \in Calls, d # c
      PROVE  Status'[d] = Status[d]
  <2>1. d[1] \in Threads
    BY CallFields
  <2>2. CASE d[1] # t
    BY <1>1, <1>3, <2>1, <2>2 DEF Status, Cur
  <2>3. CASE d[1] = t
    BY <1>1, <1>3, <1>5, <2>3 DEF Status, Cur
  <2>4. QED
    BY <2>2, <2>3
<1>6. Status' = [Status EXCEPT ![c] = "returned"]
  <2>1. Status = [d \in Calls |-> Status[d]] /\ Status' = [d \in Calls |-> Status'[d]]
    BY DEF Status
  <2>2. QED
    BY <1>2, <1>4, <1>5, <2>1
<1>7. returned' = [returned EXCEPT ![c] = c]
  BY <1>1, <1>2
<1>8. QED
  BY <1>2, <1>4, <1>6, <1>7 DEF Abstract!Return

LEMMA RefinesStep ==
    DisjointUses /\ IInv /\ [Next]_vars => [Abstract!Next]_(<<Status, returned>>)
<1> SUFFICES ASSUME DisjointUses, IInv, [Next]_vars
             PROVE  Abstract!Next \/ UNCHANGED <<Status, returned>>
  OBVIOUS
<1>1. ASSUME NEW t \in Threads, NEW nm \in Names, SetupReply(t, nm)
      PROVE  Abstract!Next
  BY <1>1, SetupReplyInvokes DEF Abstract!Next, Abstract!Calls, Calls
<1>2. ASSUME NEW t \in Threads, GetReplyEraseEnd(t)
      PROVE  Abstract!Next
  BY <1>2, EraseEndReturns DEF Abstract!Next, Abstract!Calls, Calls
<1>3. ASSUME SetAvail
      PROVE  Abstract!Next
  BY <1>3, SetAvailAnswers DEF Abstract!Next, Abstract!Calls, Calls
<1>4. ASSUME NEW t \in Threads, NEW s, InCall(t), s # "idle",
             pc' = [pc EXCEPT ![t] = s], UNCHANGED <<cnt, avail, returned>>
      PROVE  UNCHANGED <<Status, returned>>
  <2>1. \A u \in Threads : pc'[u] = "idle" <=> pc[u] = "idle"
    BY <1>4 DEF IInv, TypeOK, InCall
  <2>2. QED
    BY <1>4, <2>1, StutterStep
<1>5. ASSUME UNCHANGED <<pc, cnt, avail, returned>>
      PROVE  UNCHANGED <<Status, returned>>
  BY <1>5, StutterStep
<1>6. ASSUME NEW t \in Threads, Continue(t)
      PROVE  Abstract!Next \/ UNCHANGED <<Status, returned>>
  <2>1. CASE Send(t)
    BY <2>1, <1>4 DEF Send, Goto, InCall, futures
  <2>2. CASE GetReplyLookup(t)
    BY <2>2, <1>4 DEF GetReplyLookup, Goto, InCall, futures
  <2>3. CASE GetReplyWait(t)
    BY <2>3, <1>4 DEF GetReplyWait, Goto, InCall, futures
  <2>4. CASE GetReplyCopy(t)
    BY <2>4, <1>4 DEF GetReplyCopy, Goto, InCall, futures
  <2>5. CASE GetReplyEraseBegin(t)
    BY <2>5, <1>4 DEF GetReplyEraseBegin, Goto, InCall, futures
  <2>6. CASE GetReplyEraseEnd(t)
    BY <2>6, <1>2
  <2>7. CASE GetReplyNull(t)
    BY <2>7, <1>5 DEF GetReplyNull, Fault, callers, futures
  <2>8. QED
    BY <1>6, <2>1, <2>2, <2>3, <2>4, <2>5, <2>6, <2>7 DEF Continue
<1>7. ASSUME Reciever
      PROVE  Abstract!Next \/ UNCHANGED <<Status, returned>>
  BY <1>7, <1>3, <1>5
     DEF Reciever, PutReplyLookup, PutReplyNull, SetResult, Notify, Fault,
         callers, futures
<1>8. ASSUME NEW t \in Threads, MapRace(t)
      PROVE  UNCHANGED <<Status, returned>>
  BY <1>8, <1>5 DEF MapRace, Fault, callers, futures
<1>9. ASSUME DeadFuture
      PROVE  UNCHANGED <<Status, returned>>
  BY <1>9, <1>5 DEF DeadFuture, Fault, callers, futures
<1>10. ASSUME UNCHANGED vars
       PROVE  UNCHANGED <<Status, returned>>
  BY <1>10, <1>5 DEF vars, callers, futures
<1>11. QED
  BY <1>1, <1>6, <1>7, <1>8, <1>9, <1>10 DEF Next

(* To its callers the Connection is Rpc: a call returns once, after its    *)
(* own request has been answered, with that answer. *)
THEOREM ReplySlotsImplementRpc == DisjointUses /\ Spec => ImplementsRpc
<1> SUFFICES ASSUME DisjointUses
             PROVE  Spec => ImplementsRpc
  OBVIOUS
<1>1. IInv /\ [Next]_vars => [Abstract!Next]_(<<Status, returned>>)
  BY RefinesStep
<1>2. Spec => []IInv
  BY SlotsConsistent
<1>3. QED
  BY RefinesInit, <1>1, <1>2, PTL DEF Spec, ImplementsRpc, Abstract!Spec, Abstract!vars

-----------------------------------------------------------------------------
(* Slot names, shared or not: NameInv is inductive with the types. *)

LEMMA CurBegun ==
    ASSUME TypeInv, NEW t \in Threads, InCall(t)
    PROVE  Begun(Cur(t)) /\ name[Cur(t)] \in Names
<1>1. TypeOK /\ cnt[t] > 0 /\ name[Cur(t)] \in Names
  BY DEF TypeInv
<1>2. Cur(t) \in Calls /\ cnt[t] \in Nat
  BY <1>1, CurInCalls, CntNat
<1>3. QED
  BY <1>1, <1>2 DEF Begun, Cur

LEMMA NameInit == Init => NameInv
<1> SUFFICES ASSUME Init
             PROVE  NameInv
  OBVIOUS
<1>1. \A c \in Calls : ~ Begun(c)
  <2> SUFFICES ASSUME NEW c \in Calls
               PROVE  ~ (c[2] <= cnt[c[1]])
    BY DEF Begun
  <2>1. c[1] \in Threads /\ c[2] \in 1..MaxCalls /\ MaxCalls \in Nat
    BY CallFields, ConstantsAssumption DEF ConstantsAssumption
  <2>2. cnt[c[1]] = 0
    BY <2>1 DEF Init
  <2>3. QED
    BY <2>1, <2>2
<1>2. QED
  BY <1>1, ConstantsAssumption DEF ConstantsAssumption, Init, NameInv

(* SetupReply: the new call takes its name; the calls begun before it keep *)
(* theirs. *)
LEMMA NameSetup ==
    ASSUME TypeInv, NameInv, NEW t \in Threads, NEW nm \in Names, SetupReply(t, nm)
    PROVE  NameInv'
<1>0. PICK c : c = <<t, cnt[t] + 1>>
  OBVIOUS
<1>1. /\ pc[t] = "idle" /\ pc' = [pc EXCEPT ![t] = "send"]
      /\ cnt' = [cnt EXCEPT ![t] = cnt[t] + 1]
      /\ name' = [name EXCEPT ![c] = nm]
      /\ replymap' = [replymap EXCEPT ![nm] = c]
      /\ rpc = "read"
      /\ UNCHANGED <<ptr, ret, avail, result, requests, rpc, rcur, rfut, returned>>
  BY <1>0 DEF SetupReply, Goto, RpmutFree, futures, receiver
<1>2. TypeOK /\ cnt[t] < MaxCalls
  BY DEF TypeInv, SetupReply
<1>3. cnt[t] \in Nat /\ c \in Calls
  BY <1>0, <1>2, CntNat, NextInCalls
<1>4. /\ \A u \in Threads \ {t} : pc'[u] = pc[u] /\ cnt'[u] = cnt[u] /\ Cur(u)' = Cur(u)
      /\ pc'[t] = "send" /\ cnt'[t] = cnt[t] + 1 /\ name'[c] = nm /\ replymap'[nm] = c
      /\ \A d \in Calls : d # c => name'[d] = name[d]
      /\ \A n \in Names : n # nm => replymap'[n] = replymap[n]
  BY <1>0, <1>1, <1>2, <1>3 DEF TypeOK, Cur
<1>5. ASSUME NEW d, Begun(d)
      PROVE  Begun(d)' /\ d # c /\ name'[d] = name[d]
  <2>1. d \in Calls /\ d[1] \in Threads /\ d[2] \in Nat /\ d[2] <= cnt[d[1]]
    BY <1>5, CallFields, ConstantsAssumption DEF Begun, ConstantsAssumption
  <2>2. d # c /\ d[2] <= cnt'[d[1]]
    <3>1. c[1] = t /\ c[2] = cnt[t] + 1
      BY <1>0
    <3>2. CASE d[1] = t
      BY <1>3, <1>4, <2>1, <3>1, <3>2
    <3>3. CASE d[1] # t
      BY <1>4, <2>1, <3>1, <3>3
    <3>4. QED
      BY <3>2, <3>3
  <2>3. QED
    BY <1>4, <2>1, <2>2 DEF Begun
<1>6. Begun(c)' /\ Under(c, nm)'
  BY <1>0, <1>3, <1>4 DEF Begun, Under
<1>7. \A d \in Calls : Begun(d)' => d = c \/ Begun(d)
  <2> SUFFICES ASSUME NEW d \in Calls, d[2] <= cnt'[d[1]], d # c
               PROVE  d[2] <= cnt[d[1]]
    BY DEF Begun
  <2>1. d[1] \in Threads /\ d[2] \in Nat /\ d = <<d[1], d[2]>>
    BY CallFields, ConstantsAssumption DEF ConstantsAssumption
  <2>2. CASE d[1] = t
    BY <1>0, <1>3, <1>4, <2>1, <2>2
  <2>3. CASE d[1] # t
    BY <1>4, <2>1, <2>3
  <2>4. QED
    BY <2>2, <2>3
<1>8. \A d, n : Under(d, n) => Under(d, n)'
  BY <1>5 DEF Under
<1>9. (\A d \in Calls : Begun(d) => name[d] \in Names)'
  BY <1>4, <1>5, <1>7 DEF NameInv
<1>10. (\A n \in Names : replymap[n] \in Calls => Under(replymap[n], n))'
  <2> SUFFICES ASSUME NEW n \in Names, NEW d \in Calls, d = replymap'[n]
               PROVE  Under(d, n)'
    BY DEF Under, Begun
  <2>1. CASE n = nm
    BY <1>4, <1>6, <2>1
  <2>2. CASE n # nm
    <3>1. replymap[n] = d
      BY <1>4, <2>2
    <3>2. Under(d, n)
      BY <3>1 DEF NameInv
    <3>3. QED
      BY <1>8, <3>2
  <2>3. QED
    BY <2>1, <2>2
<1>11. (\A d \in requests : Begun(d))'
  BY <1>1, <1>5 DEF NameInv
<1>12. (\A d \in Calls : result[d] # Absent => Begun(d) /\ Under(result[d], name[d]))'
  <2> SUFFICES ASSUME NEW d \in Calls, NEW e, e = result[d], e # Absent
               PROVE  Begun(d)' /\ Under(e, name[d])'
    BY <1>1 DEF Under, Begun
  <2>1. Begun(d) /\ Under(e, name[d])
    BY DEF NameInv
  <2>2. QED
    BY <1>5, <2>1 DEF Under
<1>13. (\A d \in Calls : returned[d] # Absent => Begun(d) /\ Under(returned[d], name[d]))'
  <2> SUFFICES ASSUME NEW d \in Calls, NEW e, e = returned[d], e # Absent
               PROVE  Begun(d)' /\ Under(e, name[d])'
    BY <1>1 DEF Under, Begun
  <2>1. Begun(d) /\ Under(e, name[d])
    BY DEF NameInv
  <2>2. QED
    BY <1>5, <2>1 DEF Under
<1>14. ASSUME NEW u \in Threads, InCall(u)
       PROVE  u # t /\ InCall(u)' /\ name'[Cur(u)'] = name[Cur(u)]
  <2>1. u # t
    BY <1>1, <1>14 DEF InCall
  <2>2. QED
    BY <1>4, <1>5, <1>14, <2>1, CurBegun DEF InCall
<1>15. (\A u \in Threads : ptr[u] \in Calls => InCall(u) /\ Under(ptr[u], name[Cur(u)]))'
  <2> SUFFICES ASSUME NEW u \in Threads, NEW e \in Calls, e = ptr[u]
               PROVE  InCall(u)' /\ Under(e, name[Cur(u)])'
    BY <1>1 DEF Under, Begun
  <2>1. InCall(u) /\ Under(e, name[Cur(u)])
    BY DEF NameInv
  <2>2. QED
    BY <1>5, <1>14, <2>1 DEF Under
<1>16. (\A u \in Threads : pc[u] \in {"erase", "erasing"} /\ ret[u] # Absent =>
          Under(ret[u], name[Cur(u)]))'
  <2> SUFFICES ASSUME NEW u \in Threads, NEW e, e = ret[u], e # Absent,
                      pc'[u] \in {"erase", "erasing"}
               PROVE  Under(e, name[Cur(u)])'
    BY <1>1 DEF Under, Begun
  <2>1. u # t /\ pc'[u] = pc[u]
    BY <1>4
  <2>2. Under(e, name[Cur(u)]) /\ InCall(u)
    BY <2>1 DEF NameInv, InCall
  <2>3. QED
    BY <1>5, <1>14, <2>2 DEF Under
<1>17. QED
  BY <1>1, <1>9, <1>10, <1>11, <1>12, <1>13, <1>15, <1>16 DEF NameInv

(* A step of thread t in its call, which the receiver and the Futures do   *)
(* not see. *)
LEMMA NameCall ==
    ASSUME TypeInv, NameInv, NEW t \in Threads, Continue(t)
    PROVE  NameInv'
<1> USE DEF Goto, InCall, futures, receiver
<1>1. TypeOK
  BY DEF TypeInv
<1>2. ASSUME NEW s, InCall(t), s # "idle", pc' = [pc EXCEPT ![t] = s],
             UNCHANGED <<cnt, name, replymap, ptr, result, rpc, rcur, rfut, returned>>,
             \A c \in requests' : Begun(c),
             s \in {"erase", "erasing"} /\ ret'[t] # Absent => Under(ret'[t], name[Cur(t)]),
             \A u \in Threads : u # t => ret'[u] = ret[u]
      PROVE  NameInv'
  <2>1. /\ \A u \in Threads : u # t => pc'[u] = pc[u]
        /\ pc'[t] = s
    BY <1>1, <1>2 DEF TypeOK
  <2>2. (\A u \in Threads : pc[u] \in {"erase", "erasing"} /\ ret[u] # Absent =>
          Under(ret[u], name[Cur(u)]))'
    <3> SUFFICES ASSUME NEW u \in Threads, NEW e, e = ret'[u], e # Absent,
                        pc'[u] \in {"erase", "erasing"}
                 PROVE  Under(e, name[Cur(u)])'
      BY DEF Under, Begun
    <3>1. Under(e, name[Cur(u)])
      BY <1>2, <2>1 DEF NameInv
    <3>2. QED
      BY <1>2, <3>1 DEF Under, Begun, Cur
  <2>3. \A u \in Threads : InCall(u) => pc'[u] # "idle"
    BY <1>2, <2>1
  <2>4. QED
    BY <1>2, <2>2, <2>3 DEF NameInv, Begun, Under, Cur
<1>3. CASE Send(t)
  BY <1>2, <1>3, CurBegun DEF Send, NameInv
<1>4. CASE GetReplyWait(t)
  BY <1>2, <1>4 DEF GetReplyWait, NameInv
<1>5. CASE GetReplyCopy(t)
  <2>1. ptr[t] \in Calls /\ ret'[t] = result[ptr[t]]
    BY <1>1, <1>5 DEF GetReplyCopy, TypeInv, TypeOK
  <2>2. Under(ptr[t], name[Cur(t)])
    BY <2>1 DEF NameInv
  <2>3. result[ptr[t]] # Absent => Under(result[ptr[t]], name[ptr[t]])
    BY <2>1 DEF NameInv
  <2>4. ret'[t] # Absent => Under(ret'[t], name[Cur(t)])
    BY <2>1, <2>2, <2>3 DEF Under
  <2>5. QED
    BY <1>1, <1>2, <1>5, <2>4 DEF GetReplyCopy, NameInv, TypeOK
<1>6. CASE GetReplyEraseBegin(t)
  BY <1>2, <1>6 DEF GetReplyEraseBegin, NameInv
<1>7. CASE GetReplyLookup(t)
  <2>1. PICK nm, found :
          /\ nm = name[Cur(t)]
          /\ found = IF replymap[nm] = Absent THEN Null ELSE replymap[nm]
          /\ ptr' = [ptr EXCEPT ![t] = found]
          /\ replymap' = [replymap EXCEPT ![nm] = found]
    BY <1>7 DEF GetReplyLookup
  <2>2. /\ pc[t] = "lookup" /\ pc' = [pc EXCEPT ![t] = "get"]
        /\ UNCHANGED <<cnt, name, ret, result, requests, rpc, rcur, rfut, returned>>
        /\ nm \in Names
    BY <1>7, <2>1 DEF GetReplyLookup, TypeInv
  <2>3. found \in Calls => found = replymap[nm] /\ Under(found, nm)
    BY <2>1, <2>2, ConstantsAssumption DEF ConstantsAssumption, NameInv
  <2>4. /\ \A u \in Threads \ {t} : pc'[u] = pc[u] /\ ptr'[u] = ptr[u]
        /\ pc'[t] = "get" /\ ptr'[t] = found /\ replymap'[nm] = found
        /\ \A n \in Names : n # nm => replymap'[n] = replymap[n]
    BY <1>1, <2>1, <2>2 DEF TypeOK
  <2>5. (\A n \in Names : replymap[n] \in Calls => Under(replymap[n], n))'
    <3> SUFFICES ASSUME NEW n \in Names, NEW d \in Calls, d = replymap'[n]
                 PROVE  Under(d, n)'
      BY DEF Under, Begun
    <3>1. Under(d, n)
      BY <2>3, <2>4 DEF NameInv
    <3>2. QED
      BY <2>2, <3>1 DEF Under, Begun, Cur
  <2>6. (\A u \in Threads : ptr[u] \in Calls => InCall(u) /\ Under(ptr[u], name[Cur(u)]))'
    <3> SUFFICES ASSUME NEW u \in Threads, NEW d \in Calls, d = ptr'[u]
                 PROVE  (InCall(u) /\ Under(d, name[Cur(u)]))'
      BY DEF Under, Begun
    <3>1. pc'[u] # "idle" /\ Under(d, name[Cur(u)])
      BY <2>1, <2>3, <2>4 DEF NameInv
    <3>2. QED
      BY <2>2, <3>1 DEF Under, Begun, Cur
  <2>7. (\A u \in Threads : pc[u] \in {"erase", "erasing"} /\ ret[u] # Absent =>
          Under(ret[u], name[Cur(u)]))'
    BY <2>2, <2>4 DEF NameInv, Under, Begun, Cur
  <2>8. QED
    BY <2>2, <2>5, <2>6, <2>7 DEF NameInv, Begun, Under, Cur
<1>8. CASE GetReplyEraseEnd(t)
  <2>1. PICK nm, own :
          /\ nm = name[Cur(t)] /\ own = Cur(t)
          /\ replymap' = [replymap EXCEPT ![nm] = Absent]
          /\ returned' = [returned EXCEPT ![own] = ret[t]]
    BY <1>8 DEF GetReplyEraseEnd
  <2>2. /\ pc[t] = "erasing" /\ pc' = [pc EXCEPT ![t] = "idle"]
        /\ ptr' = [ptr EXCEPT ![t] = Absent]
        /\ UNCHANGED <<cnt, name, ret, result, requests, rpc, rcur, rfut>>
    BY <1>8 DEF GetReplyEraseEnd
  <2>3. nm \in Names /\ Begun(own) /\ own \in Calls
    BY <2>1, <2>2, CurBegun DEF Begun
  <2>4. /\ \A u \in Threads \ {t} : pc'[u] = pc[u] /\ ptr'[u] = ptr[u]
        /\ pc'[t] = "idle" /\ ptr'[t] = Absent
        /\ \A n \in Names : replymap'[n] \in {replymap[n], Absent}
        /\ returned'[own] = ret[t]
        /\ \A d \in Calls : d # own => returned'[d] = returned[d]
    BY <1>1, <2>1, <2>2, <2>3 DEF TypeOK
  <2>5. (\A n \in Names : replymap[n] \in Calls => Under(replymap[n], n))'
    <3> SUFFICES ASSUME NEW n \in Names, NEW d \in Calls, d = replymap'[n]
                 PROVE  Under(d, n)'
      BY DEF Under, Begun
    <3>1. Under(d, n)
      BY <2>4, ConstantsAssumption DEF ConstantsAssumption, NameInv
    <3>2. QED
      BY <2>2, <3>1 DEF Under, Begun, Cur
  <2>6. (\A u \in Threads : ptr[u] \in Calls => InCall(u) /\ Under(ptr[u], name[Cur(u)]))'
    <3> SUFFICES ASSUME NEW u \in Threads, NEW d \in Calls, d = ptr'[u]
                 PROVE  (InCall(u) /\ Under(d, name[Cur(u)]))'
      BY DEF Under, Begun
    <3>1. pc'[u] # "idle" /\ Under(d, name[Cur(u)])
      BY <2>4, ConstantsAssumption DEF ConstantsAssumption, NameInv
    <3>2. QED
      BY <2>2, <3>1 DEF Under, Begun, Cur
  <2>7. (\A d \in Calls : returned[d] # Absent => Begun(d) /\ Under(returned[d], name[d]))'
    <3> SUFFICES ASSUME NEW d \in Calls, NEW e, e = returned'[d], e # Absent
                 PROVE  (Begun(d) /\ Under(e, name[d]))'
      BY DEF Under, Begun
    <3>1. Begun(d) /\ Under(e, name[d])
      <4>1. CASE d = own
        BY <2>1, <2>2, <2>3, <2>4, <4>1 DEF NameInv
      <4>2. CASE d # own
        BY <2>4, <4>2 DEF NameInv
      <4>3. QED
        BY <4>1, <4>2
    <3>2. QED
      BY <2>2, <3>1 DEF Under, Begun, Cur
  <2>8. (\A u \in Threads : pc[u] \in {"erase", "erasing"} /\ ret[u] # Absent =>
          Under(ret[u], name[Cur(u)]))'
    BY <2>2, <2>4 DEF NameInv, Under, Begun, Cur
  <2>9. QED
    BY <2>2, <2>5, <2>6, <2>7, <2>8 DEF NameInv, Begun, Under, Cur
<1>9. CASE GetReplyNull(t)
  BY <1>9 DEF GetReplyNull, Fault, callers, NameInv, Begun, Under, Cur
<1>10. QED
  BY <1>3, <1>4, <1>5, <1>6, <1>7, <1>8, <1>9 DEF Continue

(* The receiver delivers an answer under the name of its request. *)
LEMMA NameReceiver ==
    ASSUME TypeInv, NameInv, Reciever
    PROVE  NameInv'
<1> USE DEF callers, futures, receiver, After
<1>1. ASSUME NEW c \in Calls, PutReplyLookup(c)
      PROVE  NameInv'
  <2>1. /\ UNCHANGED <<pc, cnt, ptr, ret, name, replymap, result, returned>>
        /\ requests' \subseteq requests /\ rcur' = c /\ rfut' = replymap[name[c]]
        /\ rfut' \in Calls /\ c \in requests
    BY <1>1 DEF PutReplyLookup
  <2>2. Begun(c) /\ name[c] \in Names
    BY <2>1 DEF NameInv
  <2>3. Under(rfut', name[rcur'])
    BY <2>1, <2>2 DEF NameInv
  <2>4. (rpc # "read" => Begun(rcur) /\ Under(rfut, name[rcur]))'
    BY <2>1, <2>2, <2>3 DEF Begun, Under
  <2>5. QED
    BY <2>1, <2>4 DEF NameInv, Begun, Under, InCall, Cur
<1>2. CASE SetResult
  <2>1. /\ UNCHANGED <<pc, cnt, ptr, ret, name, replymap, requests, rcur, rfut, returned>>
        /\ rpc = "result" /\ rfut \in Calls
        /\ result' = [result EXCEPT ![rfut] = rcur]
    BY <1>2 DEF SetResult, TypeInv
  <2>2. /\ result'[rfut] = rcur
        /\ \A d \in Calls : d # rfut => result'[d] = result[d]
    BY <2>1 DEF TypeInv, TypeOK
  <2>3. Begun(rfut) /\ Under(rcur, name[rfut])
    BY <2>1 DEF NameInv, Under
  <2>4. (\A d \in Calls : result[d] # Absent => Begun(d) /\ Under(result[d], name[d]))'
    <3> SUFFICES ASSUME NEW d \in Calls, NEW e, e = result'[d], e # Absent
                 PROVE  (Begun(d) /\ Under(e, name[d]))'
      BY DEF Under, Begun
    <3>1. Begun(d) /\ Under(e, name[d])
      BY <2>2, <2>3 DEF NameInv
    <3>2. QED
      BY <2>1, <3>1 DEF Under, Begun, Cur
  <2>5. QED
    BY <2>1, <2>4 DEF NameInv, Begun, Under, InCall, Cur
<1>3. CASE SetAvail
  BY <1>3 DEF SetAvail, NameInv, Begun, Under, InCall, Cur
<1>4. CASE Notify
  BY <1>4 DEF Notify, NameInv, Begun, Under, InCall, Cur
<1>5. ASSUME NEW c \in Calls, PutReplyNull(c)
      PROVE  NameInv'
  BY <1>5 DEF PutReplyNull, Fault, NameInv, Begun, Under, InCall, Cur
<1>6. QED
  BY <1>1, <1>2, <1>3, <1>4, <1>5 DEF Reciever

LEMMA NameStep == TypeInv /\ NameInv /\ [Next]_vars => NameInv'
<1> SUFFICES ASSUME TypeInv, NameInv, [Next]_vars
             PROVE  NameInv'
  OBVIOUS
<1>1. ASSUME UNCHANGED <<callers, replymap, futures, requests, receiver, returned>>
      PROVE  NameInv'
  BY <1>1 DEF callers, futures, receiver, NameInv, Begun, Under, InCall, Cur
<1>2. ASSUME NEW t \in Threads, MapRace(t)
      PROVE  NameInv'
  BY <1>1, <1>2 DEF MapRace, Fault
<1>3. CASE DeadFuture
  BY <1>1, <1>3 DEF DeadFuture, Fault
<1>4. CASE UNCHANGED vars
  BY <1>1, <1>4 DEF vars
<1>5. QED
  BY <1>2, <1>3, <1>4, NameSetup, NameCall, NameReceiver DEF Next

(* Whatever names the threads use, shared or not, what GetReply returns    *)
(* was sent in answer to a request made under the same slot name: sharing  *)
(* a name can mix up the calls made under it and no others.                *)
THEOREM NamesIsolate == Spec => []NameIsolation
<1>1. Spec => [](TypeInv /\ NameInv)
  BY TypeInit, TypeStep, NameInit, NameStep, PTL DEF Spec
<1>2. TypeInv /\ NameInv => NameIsolation
  BY DEF NameInv, NameIsolation, Under
<1>3. QED
  BY <1>1, <1>2, PTL
=============================================================================
