-------------------------- MODULE BlockingListsProofs -------------------------
(***************************************************************************)
(* Theorems about BlockingLists, for every set of connections, lists,      *)
(* values, channels and commands, and whether or not the log can fail.     *)
(***************************************************************************)
EXTENDS BlockingLists, SequenceTheorems, FiniteSetTheorems, TLAPS

-------------------------------------------------------------------------------
(* Sequences.                                                              *)

LEMMA BackwardsType == ASSUME NEW S, NEW s \in Seq(S) PROVE Backwards(s) \in Seq(S)
<1>1. \A i \in 1 .. Len(s) : Len(s) + 1 - i \in 1 .. Len(s)
  OBVIOUS
<1>2. Backwards(s) = [i \in 1 .. Len(s) |-> s[Len(s) + 1 - i]] /\ Len(s) \in Nat
  BY DEF Backwards
<1>3. \A i \in 1 .. Len(s) : s[Len(s) + 1 - i] \in S
  BY <1>1
<1> QED
  BY <1>2, <1>3

LEMMA WithoutElements ==
  ASSUME NEW S, NEW s \in Seq(S), NEW i \in DOMAIN s
  PROVE  /\ Without(s, i) \in Seq(S)
         /\ \A j \in DOMAIN Without(s, i) :
              /\ (IF j < i THEN j ELSE j + 1) \in DOMAIN s \ {i}
              /\ Without(s, i)[j] = s[IF j < i THEN j ELSE j + 1]
<1>1. Len(s) \in Nat /\ DOMAIN s = 1 .. Len(s) /\ Len(s) # 0
  OBVIOUS
<1>2. Without(s, i) = [j \in 1 .. Len(s) - 1 |-> IF j < i THEN s[j] ELSE s[j + 1]]
  BY DEF Without
<1>3. \A j \in 1 .. Len(s) - 1 : (IF j < i THEN j ELSE j + 1) \in DOMAIN s \ {i}
  BY <1>1
<1>4. \A j \in 1 .. Len(s) - 1 : (IF j < i THEN s[j] ELSE s[j + 1]) \in S
  BY <1>1, <1>3
<1>5. Without(s, i) \in Seq(S)
  BY <1>1, <1>2, <1>4
<1> QED
  BY <1>2, <1>3, <1>5

LEMMA TailElements ==
  ASSUME NEW S, NEW s \in Seq(S), s # <<>>
  PROVE  /\ Head(s) \in S /\ Head(s) = s[1] /\ 1 \in DOMAIN s
         /\ Tail(s) \in Seq(S)
         /\ \A j \in DOMAIN Tail(s) : j + 1 \in DOMAIN s /\ j + 1 # 1 /\ Tail(s)[j] = s[j + 1]
<1>1. /\ Head(s) \in S /\ Tail(s) \in Seq(S) /\ Len(Tail(s)) = Len(s) - 1
      /\ \A i \in 1 .. Len(Tail(s)) : Tail(s)[i] = s[i + 1]
  BY HeadTailProperties
<1>2. Len(s) \in Nat \ {0} /\ DOMAIN s = 1 .. Len(s) /\ DOMAIN Tail(s) = 1 .. Len(Tail(s))
  BY <1>1, EmptySeq
<1> QED
  BY <1>1, <1>2

LEMMA AppendElements ==
  ASSUME NEW S, NEW s \in Seq(S), NEW e \in S
  PROVE  /\ Append(s, e) \in Seq(S)
         /\ \A j \in DOMAIN Append(s, e) : \/ j \in DOMAIN s /\ Append(s, e)[j] = s[j]
                                           \/ j = Len(s) + 1 /\ Append(s, e)[j] = e
BY AppendProperties

LEMMA PoppedType ==
  ASSUME NEW S, NEW s \in Seq(S), NEW n \in Nat
  PROVE  SubSeq(s, n + 1, Len(s)) \in Seq(S) /\ SubSeq(s, 1, Len(s) - 1) \in Seq(S)
<1>1. \A i \in n + 1 .. Len(s) : s[i] \in S
  OBVIOUS
<1>2. \A i \in 1 .. Len(s) - 1 : s[i] \in S
  OBVIOUS
<1>3. n + 1 \in Int /\ Len(s) \in Int /\ Len(s) - 1 \in Int /\ 1 \in Int
  OBVIOUS
<1> QED
  BY <1>1, <1>2, <1>3, SubSeqProperties

-------------------------------------------------------------------------------
(* Types.                                                                  *)

LEMMA CallType ==
  ASSUME NEW cl \in Calls
  PROVE  cl.op \in Ops /\ cl.key \in Keys /\ cl.vals \in Seq(Values) /\ cl.cnt \in Nat \ {0}
BY CallsAssumption

\* The command of a handler that is not idle.
LEMMA Busy ==
  ASSUME TypeOK, NEW c \in Conns, pc[c] # "idle"
  PROVE  call[c] \in Calls /\ K(c) \in Keys
<1>1. call[c] \in Calls
  BY DEF TypeOK
<1> QED
  BY <1>1, CallType DEF K

\* What leaves the Store, for a client or for nobody, keeps the histories' types.
LEMMA DeliverType ==
  ASSUME TypeOK, NEW vs \in SUBSET Values, Deliver(vs) \/ Lose(vs)
  PROVE  taken' \in [Values -> 0 .. 2] /\ lost' \in SUBSET Values
<1>1. CASE Deliver(vs)
  BY <1>1 DEF TypeOK, Deliver
<1>2. CASE Lose(vs)
  BY <1>2 DEF TypeOK, Lose
<1> QED
  BY <1>1, <1>2

LEMMA ElemsType == ASSUME NEW S, NEW s \in Seq(S) PROVE Elems(s) \subseteq S
BY DEF Elems

LEMMA InitType == Init => TypeOK
BY DEF Init, TypeOK, PCs

LEMMA ClientType ==
  ASSUME TypeOK, NEW c \in Conns, Client(c)
  PROVE  TypeOK'
<1>1. CASE PushLock(c)
  <2>1. PICK cl \in Calls : /\ pc[c] = "idle" /\ mu' = c
                            /\ local' = [local EXCEPT ![c] = cl.vals]
                            /\ sent' = sent \union Elems(cl.vals)
                            /\ Begin(c, cl, "handoff")
                            /\ UNCHANGED <<store, chan, taken, lost, raced>>
    BY <1>1 DEF PushLock
  <2>2. cl.vals \in Seq(Values) /\ Elems(cl.vals) \subseteq Values /\ cl # None
    BY CallType, ElemsType, NoneAssumption
  <2> QED
    BY <2>1, <2>2 DEF TypeOK, Begin, PCs, store
<1>2. CASE PopGet(c)
  <2>1. PICK cl \in Calls : /\ pc[c] = "idle"
                            /\ local' = [local EXCEPT ![c] = list[cl.key]]
                            /\ Begin(c, cl, "set")
                            /\ UNCHANGED <<store, mu, chan, ghost>>
    BY <1>2 DEF PopGet
  <2>2. list[cl.key] \in Seq(Values)
    BY CallType DEF TypeOK
  <2> QED
    BY <2>1, <2>2, NoneAssumption DEF TypeOK, Begin, PCs, store, ghost
<1>3. CASE BlpopTake(c)
  <2>1. PICK cl \in Calls : /\ list[cl.key] # <<>>
                            /\ list' = [list EXCEPT ![cl.key] = Tail(@)]
                            /\ \/ Deliver({Head(list[cl.key])}) /\ UNCHANGED mu
                               \/ AofMayFail /\ mu' = c /\ Lose({Head(list[cl.key])})
                            /\ UNCHANGED <<waiters, buf, proc, sent, raced>>
    BY <1>3 DEF BlpopTake
  <2>2. list[cl.key] \in Seq(Values) /\ Tail(list[cl.key]) \in Seq(Values)
    BY <2>1, CallType, TailElements DEF TypeOK
  <2>3. {Head(list[cl.key])} \in SUBSET Values
    BY <2>1, <2>2, TailElements
  <2>4. taken' \in [Values -> 0 .. 2] /\ lost' \in SUBSET Values /\ mu' \in Conns \union {None}
    BY <2>1, <2>3, DeliverType DEF TypeOK
  <2> QED
    BY <2>1, <2>2, <2>4 DEF TypeOK, proc
<1>4. CASE BlpopPark(c)
  <2>1. PICK cl \in Calls, ch \in Chans \ InUse :
          /\ pc[c] = "idle"
          /\ waiters' = [waiters EXCEPT ![cl.key] = Append(@, ch)]
          /\ buf' = [buf EXCEPT ![ch] = None] /\ chan' = [chan EXCEPT ![c] = ch]
          /\ Begin(c, cl, "parked")
          /\ UNCHANGED <<list, mu, local, ghost>>
    BY <1>4 DEF BlpopPark
  <2>2. cl.key \in Keys /\ Append(waiters[cl.key], ch) \in Seq(Chans) /\ ch # None
    BY CallType, AppendElements, NoneAssumption DEF TypeOK
  <2>3. /\ waiters' \in [Keys -> Seq(Chans)] /\ buf' \in [Chans -> Values \union {None}]
        /\ chan' \in [Conns -> Chans \union {None}]
    BY <2>1, <2>2 DEF TypeOK
  <2>4. /\ pc' \in [Conns -> PCs] /\ call' \in [Conns -> Calls \union {None}]
        /\ \A d \in Conns : (call'[d] = None) <=> (pc'[d] = "idle")
    BY <2>1, NoneAssumption DEF TypeOK, Begin, PCs
  <2>5. \A d \in Conns : (chan'[d] = None) <=> (pc'[d] \notin {"parked", "cleanup"})
    BY <2>1, <2>2 DEF TypeOK, Begin
  <2> QED
    BY <2>1, <2>3, <2>4, <2>5 DEF TypeOK, ghost
<1> QED
  BY <1>1, <1>2, <1>3, <1>4 DEF Client

\* A handler that returns or moves on keeps call and pc in step.
LEMMA GotoType ==
  ASSUME TypeOK, NEW c \in Conns, NEW at \in PCs \ {"idle"}, pc[c] # "idle", Goto(c, at)
  PROVE  /\ pc' \in [Conns -> PCs] /\ call' \in [Conns -> Calls \union {None}]
         /\ \A d \in Conns : (call'[d] = None) <=> (pc'[d] = "idle")
BY DEF TypeOK, Goto

LEMMA ReturnType ==
  ASSUME TypeOK, NEW c \in Conns, Return(c)
  PROVE  /\ pc' \in [Conns -> PCs] /\ call' \in [Conns -> Calls \union {None}]
         /\ \A d \in Conns : (call'[d] = None) <=> (pc'[d] = "idle")
         /\ pc'[c] = "idle"
BY DEF TypeOK, Return, Begin, PCs

\* So do the handlers that wait on no channel, or stop doing so, with chan.
LEMMA ChanType ==
  ASSUME TypeOK, NEW c \in Conns, Return(c) \/ (\E at \in PCs : Goto(c, at)),
         \/ chan' = [chan EXCEPT ![c] = None] /\ pc'[c] \notin {"parked", "cleanup"}
         \/ /\ UNCHANGED chan
            /\ pc[c] \in {"parked", "cleanup"} <=> pc'[c] \in {"parked", "cleanup"}
  PROVE  /\ chan' \in [Conns -> Chans \union {None}]
         /\ \A d \in Conns : (chan'[d] = None) <=> (pc'[d] \notin {"parked", "cleanup"})
BY DEF TypeOK, Return, Begin, Goto

LEMMA RunningType ==
  ASSUME TypeOK, NEW c \in Conns, Running(c)
  PROVE  TypeOK'
<1>1. CASE HandOver(c)
  <2>1. pc[c] # "idle" /\ local[c] # <<>> /\ waiters[K(c)] # <<>>
    BY <1>1 DEF HandOver
  <2>2. K(c) \in Keys /\ waiters[K(c)] \in Seq(Chans) /\ local[c] \in Seq(Values)
    BY <2>1, Busy DEF TypeOK
  <2>3. /\ Head(waiters[K(c)]) \in Chans /\ Tail(waiters[K(c)]) \in Seq(Chans)
        /\ Head(local[c]) \in Values /\ Tail(local[c]) \in Seq(Values)
    BY <2>1, <2>2, TailElements
  <2> QED
    BY <1>1, <2>3 DEF TypeOK, HandOver, ghost
<1>2. CASE PushUnlock(c)
  <2>1. pc[c] = "handoff" /\ (Return(c) \/ Goto(c, "store"))
    BY <1>2 DEF PushUnlock
  <2>2. pc'[c] \in {"idle", "store"}
    BY <2>1 DEF TypeOK, Return, Begin, Goto
  <2>3. /\ pc' \in [Conns -> PCs] /\ call' \in [Conns -> Calls \union {None}]
        /\ \A d \in Conns : (call'[d] = None) <=> (pc'[d] = "idle")
    BY <2>1, GotoType, ReturnType DEF PCs
  <2>4. /\ chan' \in [Conns -> Chans \union {None}]
        /\ \A d \in Conns : (chan'[d] = None) <=> (pc'[d] \notin {"parked", "cleanup"})
    BY <1>2, <2>1, <2>2, ChanType DEF PushUnlock, PCs
  <2> QED
    BY <1>2, <2>3, <2>4 DEF TypeOK, PushUnlock, store, ghost
<1>3. CASE BlpopWake(c)
  <2>1. /\ Return(c) /\ chan' = [chan EXCEPT ![c] = None]
        /\ taken' \in [Values -> 0 .. 2] /\ lost' \in SUBSET Values
    <3>1. {buf[chan[c]]} \in SUBSET Values
      BY <1>3 DEF TypeOK, BlpopWake
    <3> QED
      BY <1>3, <3>1, DeliverType DEF BlpopWake
  <2>2. /\ pc' \in [Conns -> PCs] /\ call' \in [Conns -> Calls \union {None}] /\ pc'[c] = "idle"
        /\ \A d \in Conns : (call'[d] = None) <=> (pc'[d] = "idle")
    BY <2>1, ReturnType
  <2>3. /\ chan' \in [Conns -> Chans \union {None}]
        /\ \A d \in Conns : (chan'[d] = None) <=> (pc'[d] \notin {"parked", "cleanup"})
    BY <2>1, <2>2, ChanType
  <2> QED
    BY <1>3, <2>1, <2>2, <2>3 DEF TypeOK, BlpopWake
<1>4. CASE BlpopTimeout(c)
  <2>1. Goto(c, "cleanup") /\ pc[c] = "parked" /\ UNCHANGED chan
    BY <1>4 DEF BlpopTimeout
  <2>2. /\ pc' \in [Conns -> PCs] /\ call' \in [Conns -> Calls \union {None}]
        /\ \A d \in Conns : (call'[d] = None) <=> (pc'[d] = "idle")
    BY <2>1, GotoType DEF PCs
  <2>3. pc'[c] = "cleanup"
    BY <2>1 DEF TypeOK, Goto
  <2>4. /\ chan' \in [Conns -> Chans \union {None}]
        /\ \A d \in Conns : (chan'[d] = None) <=> (pc'[d] \notin {"parked", "cleanup"})
    BY <2>1, <2>3, ChanType DEF PCs
  <2> QED
    BY <1>4, <2>2, <2>4 DEF TypeOK, BlpopTimeout, store, ghost
<1> QED
  BY <1>1, <1>2, <1>3, <1>4 DEF Running

LEMMA LockingType ==
  ASSUME TypeOK, NEW c \in Conns, Locking(c)
  PROVE  TypeOK'
<1>1. /\ Return(c) /\ pc[c] # "idle" /\ K(c) \in Keys
      /\ call[c] \in Calls /\ call[c].cnt \in Nat
  <2>1. Return(c) /\ pc[c] # "idle"
    BY DEF Locking, PushStore, PopSet, CleanUpExpiredKeyWaiter
  <2> QED
    BY <2>1, Busy, CallType
<1>2. /\ pc' \in [Conns -> PCs] /\ call' \in [Conns -> Calls \union {None}] /\ pc'[c] = "idle"
      /\ \A d \in Conns : (call'[d] = None) <=> (pc'[d] = "idle")
  BY <1>1, ReturnType
<1>3. /\ chan' \in [Conns -> Chans \union {None}]
      /\ \A d \in Conns : (chan'[d] = None) <=> (pc'[d] \notin {"parked", "cleanup"})
  <2>1. CASE PushStore(c) \/ PopSet(c)
    BY <1>1, <1>2, <2>1, ChanType DEF PushStore, PopSet
  <2>2. CASE CleanUpExpiredKeyWaiter(c)
    BY <1>1, <1>2, <2>2, ChanType DEF CleanUpExpiredKeyWaiter
  <2> QED
    BY <2>1, <2>2 DEF Locking
<1>4. CASE PushStore(c)
  <2>1. /\ local[c] \in Seq(Values) /\ list[K(c)] \in Seq(Values)
        /\ Backwards(local[c]) \in Seq(Values)
    BY <1>1, BackwardsType DEF TypeOK
  <2>2. Backwards(local[c]) \o list[K(c)] \in Seq(Values) /\ list[K(c)] \o local[c] \in Seq(Values)
    BY <2>1, ConcatProperties
  <2>3. list' \in [Keys -> Seq(Values)]
    BY <1>4, <2>2 DEF TypeOK, PushStore
  <2> QED
    BY <1>2, <1>3, <1>4, <2>3 DEF TypeOK, PushStore, ghost
<1>5. CASE PopSet(c)
  <2>1. Rest(c) \in Seq(Values)
    <3>1. local[c] \in Seq(Values) /\ Count(c) \in Nat
      BY <1>1 DEF TypeOK, Count
    <3> QED
      BY <3>1, PoppedType DEF Rest
  <2>2. Popped(c) \in SUBSET Values
    BY DEF TypeOK, Popped
  <2>3. /\ list' \in [Keys -> Seq(Values)]
        /\ taken' \in [Values -> 0 .. 2] /\ lost' \in SUBSET Values
    BY <1>5, <2>1, <2>2, DeliverType DEF TypeOK, PopSet
  <2> QED
    BY <1>2, <1>3, <1>5, <2>3 DEF TypeOK, PopSet
<1>6. CASE CleanUpExpiredKeyWaiter(c)
  <2>1. waiters' \in [Keys -> Seq(Chans)]
    <3>1. waiters[K(c)] \in Seq(Chans)
      BY <1>1 DEF TypeOK
    <3>2. \A i \in DOMAIN waiters[K(c)] : Without(waiters[K(c)], i) \in Seq(Chans)
      BY <3>1, WithoutElements
    <3>3. UNCHANGED waiters \/ \E i \in DOMAIN waiters[K(c)] :
                                 waiters' = [waiters EXCEPT ![K(c)] = Without(@, i)]
      BY <1>6 DEF CleanUpExpiredKeyWaiter
    <3> QED
      BY <3>2, <3>3 DEF TypeOK
  <2>2. taken' \in [Values -> 0 .. 2] /\ lost' \in SUBSET Values
    <3>1. chan[c] \in Chans /\ {buf[chan[c]]} \ {None} \in SUBSET Values
      BY <1>6 DEF TypeOK, CleanUpExpiredKeyWaiter
    <3> QED
      BY <1>6, <3>1, DeliverType DEF CleanUpExpiredKeyWaiter
  <2> QED
    BY <1>2, <1>3, <1>6, <2>1, <2>2 DEF TypeOK, CleanUpExpiredKeyWaiter
<1> QED
  BY <1>4, <1>5, <1>6 DEF Locking

LEMMA NextType == TypeOK /\ [Next]_vars => TypeOK'
<1> SUFFICES ASSUME TypeOK, [Next]_vars PROVE TypeOK'
  OBVIOUS
<1>1. CASE \E c \in Conns : Client(c) \/ Running(c) \/ Locking(c)
  BY <1>1, ClientType, RunningType, LockingType
<1>2. CASE UNCHANGED vars
  BY <1>2 DEF TypeOK, vars, store, proc, ghost
<1> QED
  BY <1>1, <1>2 DEF Next

\* A handler has a command exactly while it runs one, and a channel exactly while
\* it is in a BLPOP that found nothing.
THEOREM TypeCorrect == Spec => []TypeOK
BY InitType, NextType, PTL DEF Spec

-------------------------------------------------------------------------------
(* The queues of waiters.                                                  *)

\* WaitersAreParked is not inductive: that the next push finds an empty channel
\* needs that no two calls have been given the same one.
OneOwner == \A c, d \in Conns : chan[c] # None /\ chan[c] = chan[d] => c = d

QueueInv == WaitersAreParked /\ OneOwner

\* Who owns a queued channel.
LEMMA Owner ==
  ASSUME TypeOK, QueueInv, NEW k \in Keys, NEW i \in DOMAIN waiters[k], NEW c \in Conns,
         chan[c] = waiters[k][i]
  PROVE  pc[c] \in {"parked", "cleanup"} /\ K(c) = k /\ buf[chan[c]] = None
<1>1. waiters[k][i] \in Chans /\ waiters[k][i] # None
  BY NoneAssumption DEF TypeOK
<1> QED
  BY <1>1 DEF QueueInv, WaitersAreParked, OneOwner

\* Steps that leave the queues, the channels and their owners alone.
LEMMA AloofQueues ==
  ASSUME TypeOK, QueueInv, UNCHANGED <<waiters, buf, chan>>,
         \A d \in Conns : pc[d] \in {"parked", "cleanup"} =>
                            pc'[d] \in {"parked", "cleanup"} /\ call'[d] = call[d]
  PROVE  QueueInv'
<1>1. ASSUME NEW k \in Keys, NEW i \in DOMAIN waiters'[k]
      PROVE  /\ buf'[waiters'[k][i]] = None
             /\ \A j \in DOMAIN waiters'[k] : waiters'[k][j] = waiters'[k][i] => i = j
             /\ \E c \in Conns : /\ chan'[c] = waiters'[k][i]
                                 /\ pc'[c] \in {"parked", "cleanup"} /\ K(c)' = k
  BY <1>1 DEF QueueInv, WaitersAreParked, K
<1> QED
  BY <1>1 DEF QueueInv, WaitersAreParked, OneOwner

LEMMA ClientQueues ==
  ASSUME TypeOK, QueueInv, NEW c \in Conns, Client(c)
  PROVE  QueueInv'
<1>1. CASE PushLock(c) \/ PopGet(c)
  <2>1. UNCHANGED <<waiters, buf, chan>> /\ pc[c] = "idle"
    BY <1>1 DEF PushLock, PopGet, store
  <2>2. \A d \in Conns \ {c} : pc'[d] = pc[d] /\ call'[d] = call[d]
    BY <1>1 DEF TypeOK, PushLock, PopGet, Begin
  <2> QED
    BY <2>1, <2>2, AloofQueues
<1>2. CASE BlpopTake(c)
  BY <1>2, AloofQueues DEF BlpopTake, proc
<1>3. CASE BlpopPark(c)
  <2>1. PICK cl \in Calls, ch \in Chans \ InUse :
          /\ pc[c] = "idle"
          /\ waiters' = [waiters EXCEPT ![cl.key] = Append(@, ch)]
          /\ buf' = [buf EXCEPT ![ch] = None] /\ chan' = [chan EXCEPT ![c] = ch]
          /\ Begin(c, cl, "parked")
    BY <1>3 DEF BlpopPark
  <2>2. cl.key \in Keys /\ ch # None
    BY CallType, NoneAssumption
  <2>3. /\ \A k \in Keys : \A i \in DOMAIN waiters[k] : waiters[k][i] # ch
        /\ \A d \in Conns : chan[d] # ch
    <3>1. ASSUME NEW k \in Keys, NEW i \in DOMAIN waiters[k] PROVE waiters[k][i] \in InUse
      <4>1. waiters[k][i] \in Elems(waiters[k]) /\ Elems(waiters[k]) \in {Elems(waiters[l]) : l \in Keys}
        BY DEF Elems
      <4> QED
        BY <4>1 DEF InUse
    <3>2. ASSUME NEW d \in Conns PROVE chan[d] \in InUse
      <4>1. chan[d] \in {chan[e] : e \in Conns}
        OBVIOUS
      <4> QED
        BY <4>1 DEF InUse
    <3> QED
      BY <3>1, <3>2
  <2>4. /\ pc'[c] = "parked" /\ chan'[c] = ch /\ K(c)' = cl.key
        /\ \A d \in Conns \ {c} : pc'[d] = pc[d] /\ chan'[d] = chan[d] /\ K(d)' = K(d)
    BY <2>1 DEF TypeOK, Begin, K
  <2>5. OneOwner'
    BY <2>3, <2>4 DEF QueueInv, OneOwner
  <2>6. ASSUME NEW k \in Keys, NEW i \in DOMAIN waiters[k]
        PROVE  /\ buf'[waiters[k][i]] = None
               /\ \E d \in Conns : /\ chan'[d] = waiters[k][i]
                                   /\ pc'[d] \in {"parked", "cleanup"} /\ K(d)' = k
    <3>1. waiters[k][i] \in Chans /\ buf[waiters[k][i]] = None
      BY DEF TypeOK, QueueInv, WaitersAreParked
    <3>2. PICK d \in Conns : chan[d] = waiters[k][i] /\ pc[d] \in {"parked", "cleanup"} /\ K(d) = k
      BY DEF QueueInv, WaitersAreParked
    <3>3. d # c
      BY <2>1, <3>2
    <3>4. chan'[d] = waiters[k][i] /\ pc'[d] \in {"parked", "cleanup"} /\ K(d)' = k
      BY <2>4, <3>2, <3>3
    <3> QED
      BY <2>1, <3>1, <3>4 DEF TypeOK
  <2>7. ASSUME NEW k \in Keys, NEW i \in DOMAIN waiters'[k]
        PROVE  /\ buf'[waiters'[k][i]] = None
               /\ \A j \in DOMAIN waiters'[k] : waiters'[k][j] = waiters'[k][i] => i = j
               /\ \E d \in Conns : /\ chan'[d] = waiters'[k][i]
                                   /\ pc'[d] \in {"parked", "cleanup"} /\ K(d)' = k
    <3>1. CASE k # cl.key
      <4>1. waiters'[k] = waiters[k]
        BY <2>1, <3>1 DEF TypeOK
      <4> QED
        BY <2>6, <4>1 DEF QueueInv, WaitersAreParked
    <3>2. CASE k = cl.key
      <4>1. waiters'[k] = Append(waiters[k], ch) /\ waiters[k] \in Seq(Chans)
        BY <2>1, <3>2 DEF TypeOK
      <4>2. \A j \in DOMAIN waiters'[k] :
              \/ j \in DOMAIN waiters[k] /\ waiters'[k][j] = waiters[k][j]
              \/ j = Len(waiters[k]) + 1 /\ waiters'[k][j] = ch
        BY <4>1, AppendElements
      <4>3. buf'[ch] = None
        BY <2>1 DEF TypeOK
      <4>4. \A j \in DOMAIN waiters'[k] : waiters'[k][j] = waiters'[k][i] => i = j
        BY <2>3, <4>2 DEF QueueInv, WaitersAreParked
      <4>5. CASE waiters'[k][i] = ch
        BY <2>4, <3>2, <4>3, <4>4, <4>5
      <4>6. CASE i \in DOMAIN waiters[k] /\ waiters'[k][i] = waiters[k][i]
        BY <2>6, <4>4, <4>6
      <4> QED
        BY <4>2, <4>5, <4>6
    <3> QED
      BY <3>1, <3>2
  <2> QED
    BY <2>5, <2>7 DEF QueueInv, WaitersAreParked
<1> QED
  BY <1>1, <1>2, <1>3 DEF Client

\* The sender of the push loop finds the channel at the head of the queue empty.
LEMMA RunningQueues ==
  ASSUME TypeOK, QueueInv, NEW c \in Conns, Running(c)
  PROVE  QueueInv'
<1>1. CASE HandOver(c)
  <2> DEFINE q == K(c)
             h == Head(waiters[q])
  <2>1. /\ pc[c] = "handoff" /\ waiters[q] # <<>>
        /\ buf' = [buf EXCEPT ![h] = Head(local[c])]
        /\ waiters' = [waiters EXCEPT ![q] = Tail(@)]
        /\ UNCHANGED <<pc, call, chan>>
    BY <1>1 DEF HandOver
  <2>2. q \in Keys /\ waiters[q] \in Seq(Chans)
    BY <2>1, Busy DEF TypeOK
  <2>3. /\ h = waiters[q][1] /\ 1 \in DOMAIN waiters[q]
        /\ \A j \in DOMAIN Tail(waiters[q]) : j + 1 \in DOMAIN waiters[q] /\ j + 1 # 1
                                              /\ Tail(waiters[q])[j] = waiters[q][j + 1]
    BY <2>1, <2>2, TailElements
  <2>4. PICK o \in Conns : chan[o] = h /\ K(o) = q
    BY <2>2, <2>3 DEF QueueInv, WaitersAreParked
  <2>5. ASSUME NEW k \in Keys, NEW i \in DOMAIN waiters[k], k # q \/ i # 1
        PROVE  waiters[k][i] # h
    <3>1. CASE k = q
      BY <2>2, <2>3, <2>5, <3>1 DEF QueueInv, WaitersAreParked
    <3>2. CASE k # q
      BY <2>4, <3>2, Owner
    <3> QED
      BY <3>1, <3>2
  <2>6. ASSUME NEW k \in Keys, NEW i \in DOMAIN waiters[k], waiters[k][i] # h
        PROVE  /\ buf'[waiters[k][i]] = None
               /\ \E d \in Conns : /\ chan'[d] = waiters[k][i]
                                   /\ pc'[d] \in {"parked", "cleanup"} /\ K(d)' = k
    <3>1. waiters[k][i] \in Chans
      BY DEF TypeOK
    <3> HIDE DEF h
    <3> QED
      BY <2>1, <2>6, <3>1 DEF TypeOK, QueueInv, WaitersAreParked, K
  <2>7. ASSUME NEW k \in Keys, NEW i \in DOMAIN waiters'[k]
        PROVE  /\ buf'[waiters'[k][i]] = None
               /\ \A j \in DOMAIN waiters'[k] : waiters'[k][j] = waiters'[k][i] => i = j
               /\ \E d \in Conns : /\ chan'[d] = waiters'[k][i]
                                   /\ pc'[d] \in {"parked", "cleanup"} /\ K(d)' = k
    <3>1. CASE k # q
      <4>1. waiters'[k] = waiters[k]
        BY <2>1, <2>2, <3>1 DEF TypeOK
      <4>2. waiters[k][i] # h
        BY <2>5, <3>1, <4>1
      <4> QED
        BY <2>6, <4>1, <4>2 DEF QueueInv, WaitersAreParked
    <3>2. CASE k = q
      <4>1. waiters'[k] = Tail(waiters[q])
        BY <2>1, <2>2, <3>2 DEF TypeOK
      <4>2. /\ i + 1 \in DOMAIN waiters[q] /\ i + 1 # 1 /\ waiters'[k][i] = waiters[q][i + 1]
            /\ i \in Int
        BY <2>2, <2>3, <4>1
      <4>3. waiters[q][i + 1] # h
        BY <2>2, <2>5, <4>2
      <4>4. /\ buf'[waiters[q][i + 1]] = None
            /\ \E d \in Conns : /\ chan'[d] = waiters[q][i + 1]
                                /\ pc'[d] \in {"parked", "cleanup"} /\ K(d)' = q
        BY <2>2, <2>6, <4>2, <4>3
      <4>5. \A j \in DOMAIN waiters'[k] : waiters'[k][j] = waiters'[k][i] => i = j
        <5>1. ASSUME NEW j \in DOMAIN waiters'[k], waiters'[k][j] = waiters'[k][i] PROVE i = j
          <6>1. j + 1 \in DOMAIN waiters[q] /\ waiters'[k][j] = waiters[q][j + 1] /\ j \in Int
            BY <2>2, <2>3, <4>1
          <6>2. \A m, n \in DOMAIN waiters[q] : waiters[q][m] = waiters[q][n] => m = n
            BY <2>2 DEF QueueInv, WaitersAreParked
          <6>3. waiters[q][j + 1] = waiters[q][i + 1]
            BY <4>2, <5>1, <6>1
          <6>4. i + 1 = j + 1
            BY <4>2, <6>1, <6>2, <6>3
          <6> QED
            BY <4>2, <6>1, <6>4
        <5> QED
          BY <5>1
      <4> QED
        BY <3>2, <4>2, <4>4, <4>5
    <3> QED
      BY <3>1, <3>2
  <2> QED
    BY <2>1, <2>7 DEF QueueInv, WaitersAreParked, OneOwner
<1>2. CASE PushUnlock(c)
  <2>1. UNCHANGED <<waiters, buf, chan>> /\ pc[c] = "handoff"
    BY <1>2 DEF PushUnlock, store
  <2>2. \A d \in Conns \ {c} : pc'[d] = pc[d] /\ call'[d] = call[d]
    BY <1>2 DEF TypeOK, PushUnlock, Return, Begin, Goto
  <2> QED
    BY <2>1, <2>2, AloofQueues
<1>3. CASE BlpopWake(c)
  <2>1. /\ pc[c] = "parked" /\ buf[chan[c]] # None
        /\ buf' = [buf EXCEPT ![chan[c]] = None] /\ chan' = [chan EXCEPT ![c] = None]
        /\ Return(c) /\ UNCHANGED waiters
    BY <1>3 DEF BlpopWake
  <2>2. \A d \in Conns \ {c} : pc'[d] = pc[d] /\ chan'[d] = chan[d] /\ K(d)' = K(d)
    BY <2>1 DEF TypeOK, Return, Begin, K
  <2>3. chan'[c] = None
    BY <2>1 DEF TypeOK
  <2>4. OneOwner'
    BY <2>2, <2>3 DEF QueueInv, OneOwner
  <2>5. ASSUME NEW k \in Keys, NEW i \in DOMAIN waiters[k]
        PROVE  /\ buf'[waiters[k][i]] = None
               /\ \A j \in DOMAIN waiters[k] : waiters[k][j] = waiters[k][i] => i = j
               /\ \E d \in Conns : /\ chan'[d] = waiters[k][i]
                                   /\ pc'[d] \in {"parked", "cleanup"} /\ K(d)' = k
    <3>1. PICK d \in Conns : chan[d] = waiters[k][i] /\ pc[d] \in {"parked", "cleanup"} /\ K(d) = k
      BY DEF QueueInv, WaitersAreParked
    <3>2. d # c /\ waiters[k][i] \in Chans /\ buf[waiters[k][i]] = None
      BY <2>1, <3>1 DEF TypeOK, QueueInv, WaitersAreParked
    <3>3. buf'[waiters[k][i]] = None
      BY <2>1, <3>2 DEF TypeOK
    <3> QED
      BY <2>2, <3>1, <3>2, <3>3 DEF QueueInv, WaitersAreParked
  <2> QED
    BY <2>1, <2>4, <2>5 DEF QueueInv, WaitersAreParked
<1>4. CASE BlpopTimeout(c)
  <2>1. UNCHANGED <<waiters, buf, chan, call>> /\ Goto(c, "cleanup")
    BY <1>4 DEF BlpopTimeout, store, Goto
  <2>2. \A d \in Conns : pc'[d] = pc[d] \/ pc'[d] = "cleanup"
    BY <2>1 DEF TypeOK, Goto
  <2> QED
    BY <2>1, <2>2, AloofQueues
<1> QED
  BY <1>1, <1>2, <1>3, <1>4 DEF Running

LEMMA LockingQueues ==
  ASSUME TypeOK, QueueInv, NEW c \in Conns, Locking(c)
  PROVE  QueueInv'
<1>1. Return(c) /\ pc[c] # "idle" /\ K(c) \in Keys
  <2>1. Return(c) /\ pc[c] # "idle"
    BY DEF Locking, PushStore, PopSet, CleanUpExpiredKeyWaiter
  <2> QED
    BY <2>1, Busy
<1>2. \A d \in Conns \ {c} : pc'[d] = pc[d] /\ call'[d] = call[d] /\ K(d)' = K(d)
  BY <1>1 DEF TypeOK, Return, Begin, K
<1>3. CASE PushStore(c) \/ PopSet(c)
  <2>1. UNCHANGED <<waiters, buf, chan>> /\ pc[c] \in {"store", "set"}
    BY <1>3 DEF PushStore, PopSet
  <2> QED
    BY <1>2, <2>1, AloofQueues
<1>4. CASE CleanUpExpiredKeyWaiter(c)
  <2> DEFINE q == K(c)
             h == chan[c]
  <2>1. /\ pc[c] = "cleanup" /\ h \in Chans /\ h # None
        /\ chan' = [chan EXCEPT ![c] = None] /\ buf' = [buf EXCEPT ![h] = None]
    BY <1>4, NoneAssumption DEF TypeOK, CleanUpExpiredKeyWaiter
  <2>2. q \in Keys /\ waiters[q] \in Seq(Chans)
    BY <1>1 DEF TypeOK
  <2>3. chan'[c] = None /\ \A d \in Conns \ {c} : chan'[d] = chan[d]
    BY <2>1 DEF TypeOK
  <2>4. OneOwner'
    BY <2>3 DEF QueueInv, OneOwner
  \* What is queued, but not the channel of c, still has its owner.
  <2>5. ASSUME NEW k \in Keys, NEW i \in DOMAIN waiters[k], waiters[k][i] # h
        PROVE  /\ buf'[waiters[k][i]] = None
               /\ \E d \in Conns : /\ chan'[d] = waiters[k][i]
                                   /\ pc'[d] \in {"parked", "cleanup"} /\ K(d)' = k
    <3>1. PICK d \in Conns : chan[d] = waiters[k][i] /\ pc[d] \in {"parked", "cleanup"} /\ K(d) = k
      BY DEF QueueInv, WaitersAreParked
    <3>2. d # c
      BY <2>5, <3>1
    <3>3. waiters[k][i] \in Chans /\ buf[waiters[k][i]] = None
      BY DEF TypeOK, QueueInv, WaitersAreParked
    <3>4. buf'[waiters[k][i]] = None
      BY <2>1, <3>3 DEF TypeOK
    <3> QED
      BY <1>2, <2>3, <3>1, <3>2, <3>4
  \* The queues afterwards: h is in none of them, the rest is as it was.
  <2>6. ASSUME NEW k \in Keys, NEW i \in DOMAIN waiters[k], k # q
        PROVE  waiters[k][i] # h
    BY <2>6, Owner
  <2>7. ASSUME UNCHANGED waiters, \A i \in DOMAIN waiters[q] : waiters[q][i] # h
        PROVE  WaitersAreParked'
    BY <2>5, <2>6, <2>7 DEF QueueInv, WaitersAreParked
  <2>8. ASSUME NEW i \in DOMAIN waiters[q], waiters[q][i] = h,
               waiters' = [waiters EXCEPT ![q] = Without(@, i)]
        PROVE  WaitersAreParked'
    <3> DEFINE w == Without(waiters[q], i)
               at(j) == IF j < i THEN j ELSE j + 1
    <3>1. \A m, n \in DOMAIN waiters[q] : waiters[q][m] = waiters[q][n] => m = n
      BY <2>2 DEF QueueInv, WaitersAreParked
    <3>2. \A j \in DOMAIN w : at(j) \in DOMAIN waiters[q] \ {i} /\ w[j] = waiters[q][at(j)]
      BY <2>2, WithoutElements
    <3>3. \A j \in DOMAIN w : w[j] # h
      BY <2>8, <3>1, <3>2
    <3>4. DOMAIN w \subseteq Int /\ i \in Int
      BY <2>2 DEF Without
    <3>5. ASSUME NEW m \in DOMAIN w, NEW n \in DOMAIN w, w[m] = w[n] PROVE m = n
      <4>1. at(m) = at(n)
        BY <3>1, <3>2, <3>5
      <4>2. m \in Int /\ n \in Int
        BY <3>4
      <4> QED
        BY <3>4, <4>1, <4>2
    <3>6. waiters'[q] = w /\ \A k \in Keys \ {q} : waiters'[k] = waiters[k]
      BY <2>2, <2>8 DEF TypeOK
    <3>7. ASSUME NEW k \in Keys, NEW j \in DOMAIN waiters'[k]
          PROVE  /\ buf'[waiters'[k][j]] = None
                 /\ \A n \in DOMAIN waiters'[k] : waiters'[k][n] = waiters'[k][j] => j = n
                 /\ \E d \in Conns : /\ chan'[d] = waiters'[k][j]
                                     /\ pc'[d] \in {"parked", "cleanup"} /\ K(d)' = k
      <4>1. CASE k # q
        BY <2>5, <2>6, <3>6, <4>1 DEF QueueInv, WaitersAreParked
      <4>2. CASE k = q
        <5>1. /\ at(j) \in DOMAIN waiters[q] /\ w[j] = waiters[q][at(j)]
              /\ waiters[q][at(j)] # h
          BY <3>2, <3>3, <3>6, <4>2
        <5>2. /\ buf'[waiters[q][at(j)]] = None
              /\ \E d \in Conns : /\ chan'[d] = waiters[q][at(j)]
                                  /\ pc'[d] \in {"parked", "cleanup"} /\ K(d)' = q
          BY <2>2, <2>5, <5>1
        <5> QED
          BY <3>5, <3>6, <4>2, <5>1, <5>2
      <4> QED
        BY <4>1, <4>2
    <3> QED
      BY <3>7 DEF WaitersAreParked
  <2>9. \/ UNCHANGED waiters /\ \A i \in DOMAIN waiters[q] : waiters[q][i] # h
        \/ \E i \in DOMAIN waiters[q] : /\ waiters[q][i] = h
                                        /\ waiters' = [waiters EXCEPT ![q] = Without(@, i)]
    BY <1>4 DEF CleanUpExpiredKeyWaiter, Elems
  <2> QED
    BY <2>4, <2>7, <2>8, <2>9 DEF QueueInv
<1> QED
  BY <1>3, <1>4 DEF Locking

LEMMA NextQueues ==
  ASSUME TypeOK, QueueInv, [Next]_vars
  PROVE  QueueInv'
<1>1. CASE \E c \in Conns : Client(c) \/ Running(c) \/ Locking(c)
  BY <1>1, ClientQueues, RunningQueues, LockingQueues
<1>2. CASE UNCHANGED vars
  BY <1>2, AloofQueues DEF vars, store, proc
<1> QED
  BY <1>1, <1>2 DEF Next

LEMMA QueuesInvariant == Spec => []QueueInv
<1>1. Init => QueueInv
  BY DEF Init, QueueInv, WaitersAreParked, OneOwner
<1>2. TypeOK /\ QueueInv /\ [Next]_vars => QueueInv'
  BY NextQueues
<1> QED
  BY <1>1, <1>2, TypeCorrect, PTL DEF Spec

\* Every queued channel is empty and belongs to a BLPOP still waiting on that key.
THEOREM QueuedChannelsAreParked == Spec => []WaitersAreParked
<1>1. QueueInv => WaitersAreParked
  BY DEF QueueInv
<1> QED
  BY <1>1, QueuesInvariant, PTL

\* The send that handleLPUSH and handleRPUSH make with the mutex held.
SendNeverBlocks ==
  \A c \in Conns : pc[c] = "handoff" /\ waiters[K(c)] # <<>> => buf[Head(waiters[K(c)])] = None

\* As long as only BLPOP queues channels, a push never sleeps with the Store's
\* mutex in its hands, whatever the pushes, pops, BLPOPs and timeouts around it.
THEOREM PushNeverBlocks == Spec => []SendNeverBlocks
<1>1. TypeOK /\ QueueInv => SendNeverBlocks
  <2> SUFFICES ASSUME TypeOK, QueueInv, NEW c \in Conns, pc[c] = "handoff", waiters[K(c)] # <<>>
               PROVE  buf[Head(waiters[K(c)])] = None
    BY DEF SendNeverBlocks
  <2>1. K(c) \in Keys /\ waiters[K(c)] \in Seq(Chans)
    BY Busy DEF TypeOK
  <2>2. Head(waiters[K(c)]) = waiters[K(c)][1] /\ 1 \in DOMAIN waiters[K(c)]
    BY <2>1, TailElements
  <2> QED
    BY <2>1, <2>2 DEF QueueInv, WaitersAreParked
<1> QED
  BY <1>1, TypeCorrect, QueuesInvariant, PTL

-------------------------------------------------------------------------------
(* Each value is in one place: occurrences in sequences.                   *)

Has(s, v)    == \E i \in DOMAIN s : s[i] = v
Single(s, v) == \A i, j \in DOMAIN s : s[i] = v /\ s[j] = v => i = j

LEMMA HasTail ==
  ASSUME NEW S, NEW s \in Seq(S), s # <<>>, NEW v, Single(s, v)
  PROVE  /\ Single(Tail(s), v)
         /\ Has(Tail(s), v) <=> Has(s, v) /\ Head(s) # v
         /\ Has(s, Head(s))
<1>1. /\ Head(s) = s[1] /\ 1 \in DOMAIN s
      /\ \A j \in DOMAIN Tail(s) : j + 1 \in DOMAIN s /\ j + 1 # 1 /\ Tail(s)[j] = s[j + 1]
  BY TailElements
<1>2. DOMAIN Tail(s) \subseteq Int /\ DOMAIN s \subseteq Int
  BY TailElements
<1>3. \A i \in DOMAIN s : i # 1 => i - 1 \in DOMAIN Tail(s) /\ Tail(s)[i - 1] = s[i]
  <2>1. Len(Tail(s)) = Len(s) - 1 /\ Tail(s) \in Seq(S)
    BY HeadTailProperties
  <2>2. DOMAIN s = 1 .. Len(s) /\ DOMAIN Tail(s) = 1 .. Len(s) - 1 /\ Len(s) \in Nat
    BY <2>1
  <2>3. ASSUME NEW i \in DOMAIN s, i # 1 PROVE i - 1 \in DOMAIN Tail(s) /\ (i - 1) + 1 = i
    BY <2>2, <2>3
  <2> QED
    BY <1>1, <2>3
<1>4. Single(Tail(s), v)
  <2> SUFFICES ASSUME NEW i \in DOMAIN Tail(s), NEW j \in DOMAIN Tail(s),
                      Tail(s)[i] = v, Tail(s)[j] = v
               PROVE  i = j
    BY DEF Single
  <2>1. i + 1 = j + 1
    BY <1>1 DEF Single
  <2> QED
    BY <1>2, <2>1
<1>5. Has(Tail(s), v) => Has(s, v) /\ Head(s) # v
  <2> SUFFICES ASSUME NEW j \in DOMAIN Tail(s), Tail(s)[j] = v PROVE Has(s, v) /\ Head(s) # v
    BY DEF Has
  <2> QED
    BY <1>1 DEF Has, Single
<1>6. Has(s, v) /\ Head(s) # v => Has(Tail(s), v)
  BY <1>1, <1>3 DEF Has
<1> QED
  BY <1>1, <1>4, <1>5, <1>6 DEF Has

LEMMA HasConcat ==
  ASSUME NEW S, NEW s \in Seq(S), NEW t \in Seq(S), NEW v,
         Single(s, v), Single(t, v), ~(Has(s, v) /\ Has(t, v))
  PROVE  Single(s \o t, v) /\ (Has(s \o t, v) <=> Has(s, v) \/ Has(t, v))
<1> DEFINE u == s \o t
<1>1. /\ Len(s) \in Nat /\ Len(t) \in Nat /\ DOMAIN s = 1 .. Len(s) /\ DOMAIN t = 1 .. Len(t)
      /\ u \in Seq(S) /\ DOMAIN u = 1 .. Len(s) + Len(t)
      /\ \A i \in 1 .. Len(s) + Len(t) : u[i] = IF i <= Len(s) THEN s[i] ELSE t[i - Len(s)]
  BY ConcatProperties
<1> HIDE DEF u
<1>2. \A i \in DOMAIN u : \/ i \in DOMAIN s /\ u[i] = s[i]
                          \/ i - Len(s) \in DOMAIN t /\ u[i] = t[i - Len(s)]
  BY <1>1
<1>3. \A i \in DOMAIN s : i \in DOMAIN u /\ u[i] = s[i]
  BY <1>1
<1>4. \A i \in DOMAIN t : i + Len(s) \in DOMAIN u /\ u[i + Len(s)] = t[i]
  <2> SUFFICES ASSUME NEW i \in DOMAIN t PROVE i + Len(s) \in DOMAIN u /\ u[i + Len(s)] = t[i]
    OBVIOUS
  <2>1. i \in Nat /\ 1 <= i /\ i <= Len(t)
    BY <1>1
  <2>2. i + Len(s) \in 1 .. Len(s) + Len(t) /\ ~(i + Len(s) <= Len(s)) /\ (i + Len(s)) - Len(s) = i
    BY <1>1, <2>1
  <2> QED
    BY <1>1, <2>2
<1>5. Has(u, v) <=> Has(s, v) \/ Has(t, v)
  BY <1>2, <1>3, <1>4 DEF Has
<1>6. ASSUME NEW i \in DOMAIN u, NEW j \in DOMAIN u, u[i] = v, u[j] = v PROVE i = j
  <2>1. CASE i \in DOMAIN s /\ u[i] = s[i] /\ j \in DOMAIN s /\ u[j] = s[j]
    BY <1>6, <2>1 DEF Single
  <2>2. CASE /\ i - Len(s) \in DOMAIN t /\ u[i] = t[i - Len(s)]
             /\ j - Len(s) \in DOMAIN t /\ u[j] = t[j - Len(s)]
    <3>1. i - Len(s) = j - Len(s)
      BY <1>6, <2>2 DEF Single
    <3> QED
      BY <1>1, <3>1
  <2> QED
    BY <1>2, <1>6, <2>1, <2>2 DEF Has
<1> QED
  BY <1>5, <1>6 DEF Single, u

LEMMA HasBackwards ==
  ASSUME NEW S, NEW s \in Seq(S), NEW v, Single(s, v)
  PROVE  Single(Backwards(s), v) /\ (Has(Backwards(s), v) <=> Has(s, v))
<1> DEFINE r == Backwards(s)
<1>1. /\ Len(s) \in Nat /\ DOMAIN s = 1 .. Len(s) /\ DOMAIN r = 1 .. Len(s)
      /\ \A i \in DOMAIN r : r[i] = s[Len(s) + 1 - i]
  BY DEF Backwards
<1> HIDE DEF r
<1>2. \A i \in DOMAIN s : Len(s) + 1 - i \in DOMAIN s /\ Len(s) + 1 - (Len(s) + 1 - i) = i
  BY <1>1
<1>3. Has(r, v) <=> Has(s, v)
  BY <1>1, <1>2 DEF Has
<1>4. ASSUME NEW i \in DOMAIN r, NEW j \in DOMAIN r, r[i] = v, r[j] = v PROVE i = j
  <2>1. Len(s) + 1 - i = Len(s) + 1 - j
    BY <1>1, <1>2, <1>4 DEF Single
  <2> QED
    BY <1>1, <2>1
<1> QED
  BY <1>3, <1>4 DEF Single, r

LEMMA HasSubSeq ==
  ASSUME NEW S, NEW s \in Seq(S), NEW m \in Nat \ {0}, NEW n \in Int, n <= Len(s), NEW v, Single(s, v)
  PROVE  /\ Single(SubSeq(s, m, n), v)
         /\ Has(SubSeq(s, m, n), v) <=> \E i \in DOMAIN s : m <= i /\ i <= n /\ s[i] = v
<1> DEFINE u == SubSeq(s, m, n)
<1>1. Len(s) \in Nat /\ DOMAIN s = 1 .. Len(s)
  OBVIOUS
<1>2. \A i \in m .. n : s[i] \in S
  BY <1>1
<1>3. DOMAIN u = 1 .. (IF m <= n THEN n - m + 1 ELSE 0) /\ \A i \in DOMAIN u : u[i] = s[m + i - 1]
  <2>1. u \in Seq(S) /\ Len(u) = (IF m <= n THEN n - m + 1 ELSE 0) /\ \A i \in 1 .. n - m + 1 : u[i] = s[m + i - 1]
    BY <1>2, SubSeqProperties
  <2>2. DOMAIN u = 1 .. Len(u)
    BY <2>1
  <2> HIDE DEF u
  <2> QED
    BY <2>1, <2>2
<1> HIDE DEF u
<1>4. \A i \in DOMAIN u : m + i - 1 \in DOMAIN s /\ m <= m + i - 1 /\ m + i - 1 <= n /\ i \in Int
  BY <1>1, <1>3
<1>5. \A i \in DOMAIN s : m <= i /\ i <= n => i - m + 1 \in DOMAIN u /\ u[i - m + 1] = s[i]
  <2> SUFFICES ASSUME NEW i \in DOMAIN s, m <= i, i <= n
               PROVE  i - m + 1 \in DOMAIN u /\ u[i - m + 1] = s[i]
    OBVIOUS
  <2>1. i - m + 1 \in 1 .. n - m + 1 /\ m <= n /\ m + (i - m + 1) - 1 = i
    BY <1>1
  <2> QED
    BY <1>3, <2>1
<1>6. Has(u, v) <=> \E i \in DOMAIN s : m <= i /\ i <= n /\ s[i] = v
  BY <1>3, <1>4, <1>5 DEF Has
<1>7. ASSUME NEW i \in DOMAIN u, NEW j \in DOMAIN u, u[i] = v, u[j] = v PROVE i = j
  <2>1. m + i - 1 = m + j - 1
    BY <1>3, <1>4, <1>7 DEF Single
  <2> QED
    BY <1>4, <2>1
<1> QED
  BY <1>6, <1>7 DEF Single, u

\* A pop splits the list it read.
LEMMA HasPopped ==
  ASSUME TypeOK, NEW c \in Conns, pc[c] = "set", NEW v, Single(local[c], v)
  PROVE  /\ Single(Rest(c), v)
         /\ Has(local[c], v) <=> v \in Popped(c) \/ Has(Rest(c), v)
         /\ ~(v \in Popped(c) /\ Has(Rest(c), v))
<1>1. call[c].cnt \in Nat \ {0}
  BY Busy, CallType
<1>2. /\ local[c] \in Seq(Values) /\ Len(local[c]) \in Nat /\ DOMAIN local[c] = 1 .. Len(local[c])
      /\ Count(c) \in Nat /\ Count(c) <= Len(local[c])
  BY <1>1 DEF TypeOK, Count
<1>3. CASE call[c].op = "LPOP"
  <2>1. Rest(c) = SubSeq(local[c], Count(c) + 1, Len(local[c]))
    BY <1>3 DEF Rest
  <2>2. v \in Popped(c) <=> \E i \in DOMAIN local[c] : i <= Count(c) /\ local[c][i] = v
    BY <1>3 DEF Popped
  <2>3. /\ Single(Rest(c), v)
        /\ Has(Rest(c), v) <=>
             \E i \in DOMAIN local[c] : Count(c) + 1 <= i /\ i <= Len(local[c]) /\ local[c][i] = v
    <3>1. Count(c) + 1 \in Nat \ {0} /\ Len(local[c]) \in Int /\ Len(local[c]) <= Len(local[c])
      BY <1>2
    <3>2. ASSUME NEW m \in Nat \ {0}, NEW n \in Int, n <= Len(local[c])
          PROVE  /\ Single(SubSeq(local[c], m, n), v)
                 /\ Has(SubSeq(local[c], m, n), v) <=>
                      \E i \in DOMAIN local[c] : m <= i /\ i <= n /\ local[c][i] = v
      BY <1>2, <3>2, HasSubSeq
    <3> QED
      BY <2>1, <3>1, <3>2
  <2>4. \A i \in DOMAIN local[c] : ~(i <= Count(c)) <=> Count(c) + 1 <= i /\ i <= Len(local[c])
    BY <1>2
  <2> QED
    BY <2>2, <2>3, <2>4 DEF Has, Single
<1>4. CASE call[c].op # "LPOP"
  <2>1. Rest(c) = SubSeq(local[c], 1, Len(local[c]) - 1)
    BY <1>4 DEF Rest
  <2>2. v \in Popped(c) <=> \E i \in DOMAIN local[c] : i = Len(local[c]) /\ local[c][i] = v
    BY <1>4 DEF Popped
  <2>3. /\ Single(Rest(c), v)
        /\ Has(Rest(c), v) <=>
             \E i \in DOMAIN local[c] : 1 <= i /\ i <= Len(local[c]) - 1 /\ local[c][i] = v
    <3>1. 1 \in Nat \ {0} /\ Len(local[c]) - 1 \in Int /\ Len(local[c]) - 1 <= Len(local[c])
      BY <1>2
    <3> QED
      BY <1>2, <2>1, <3>1, HasSubSeq
  <2>4. \A i \in DOMAIN local[c] : ~(i = Len(local[c])) <=> 1 <= i /\ i <= Len(local[c]) - 1
    BY <1>2
  <2> QED
    BY <2>2, <2>3, <2>4 DEF Has, Single
<1> QED
  BY <1>3, <1>4

-------------------------------------------------------------------------------
(* Where things may be: a value in the lists of its commands, and a value   *)
(* in a channel that somebody still holds.                                  *)

InLists == \A k \in Keys, v \in Values : Has(list[k], v) => k \in ListsOf(v)
InHands ==
  \A c \in Conns, v \in Values :
    pc[c] \in {"handoff", "store", "set"} /\ Has(local[c], v) => K(c) \in ListsOf(v)
InChans == \A ch \in Chans : buf[ch] # None => \E c \in Conns : chan[c] = ch

HomeInv == InLists /\ InHands /\ InChans

\* What a sequence has without regard to how often.
LEMMA HasNoMore ==
  ASSUME NEW S, NEW s \in Seq(S), NEW v
  PROVE  /\ s # <<>> /\ Has(Tail(s), v) => Has(s, v)
         /\ \A t \in Seq(S) : Has(s \o t, v) => Has(s, v) \/ Has(t, v)
         /\ Has(Backwards(s), v) => Has(s, v)
         /\ \A m \in Nat \ {0}, n \in Int : n <= Len(s) /\ Has(SubSeq(s, m, n), v) => Has(s, v)
<1>0. Len(s) \in Nat /\ DOMAIN s = 1 .. Len(s)
  OBVIOUS
<1>1. s # <<>> /\ Has(Tail(s), v) => Has(s, v)
  <2> SUFFICES ASSUME s # <<>>, NEW j \in DOMAIN Tail(s), Tail(s)[j] = v PROVE Has(s, v)
    BY DEF Has
  <2> QED
    BY TailElements DEF Has
<1>2. ASSUME NEW t \in Seq(S), NEW i \in DOMAIN (s \o t), (s \o t)[i] = v PROVE Has(s, v) \/ Has(t, v)
  <2>1. Len(t) \in Nat /\ DOMAIN t = 1 .. Len(t)
    OBVIOUS
  <2>2. /\ Len(s \o t) = Len(s) + Len(t) /\ s \o t \in Seq(S)
        /\ \A j \in 1 .. Len(s) + Len(t) : (s \o t)[j] = IF j <= Len(s) THEN s[j] ELSE t[j - Len(s)]
    BY ConcatProperties
  <2>3. i \in 1 .. Len(s) + Len(t)
    BY <2>2
  <2>4. CASE i <= Len(s)
    BY <1>0, <1>2, <2>2, <2>3, <2>4 DEF Has
  <2>5. CASE ~(i <= Len(s))
    <3>1. i - Len(s) \in DOMAIN t /\ t[i - Len(s)] = v
      BY <1>0, <1>2, <2>1, <2>2, <2>3, <2>5
    <3> QED
      BY <3>1 DEF Has
  <2> QED
    BY <2>4, <2>5
<1>3. Has(Backwards(s), v) => Has(s, v)
  <2>1. \A i \in 1 .. Len(s) : Len(s) + 1 - i \in DOMAIN s
    BY <1>0
  <2>2. DOMAIN Backwards(s) = 1 .. Len(s) /\ \A i \in 1 .. Len(s) : Backwards(s)[i] = s[Len(s) + 1 - i]
    BY <1>0 DEF Backwards
  <2> QED
    BY <2>1, <2>2 DEF Has
<1>4. ASSUME NEW m \in Nat \ {0}, NEW n \in Int, n <= Len(s), NEW i \in DOMAIN SubSeq(s, m, n),
             SubSeq(s, m, n)[i] = v
      PROVE  Has(s, v)
  <2>1. \A j \in m .. n : s[j] \in S
    BY <1>0, <1>4
  <2>2. /\ SubSeq(s, m, n) \in Seq(S) /\ Len(SubSeq(s, m, n)) = (IF m <= n THEN n - m + 1 ELSE 0)
        /\ \A j \in 1 .. n - m + 1 : SubSeq(s, m, n)[j] = s[m + j - 1]
    BY <2>1, SubSeqProperties
  <2>3. i \in 1 .. n - m + 1
    BY <1>4, <2>2
  <2>4. m + i - 1 \in DOMAIN s /\ s[m + i - 1] = v
    BY <1>0, <1>4, <2>2, <2>3
  <2> QED
    BY <2>4 DEF Has
<1> QED
  BY <1>1, <1>2, <1>3, <1>4 DEF Has

LEMMA RestHas ==
  ASSUME TypeOK, NEW c \in Conns, pc[c] = "set", NEW v, Has(Rest(c), v)
  PROVE  Has(local[c], v)
<1>1. call[c].cnt \in Nat \ {0}
  BY Busy, CallType
<1>2. /\ local[c] \in Seq(Values) /\ Len(local[c]) \in Nat
      /\ Count(c) + 1 \in Nat \ {0} /\ 1 \in Nat \ {0}
      /\ Len(local[c]) \in Int /\ Len(local[c]) - 1 \in Int
      /\ Len(local[c]) <= Len(local[c]) /\ Len(local[c]) - 1 <= Len(local[c])
  BY <1>1 DEF TypeOK, Count
<1> QED
  BY <1>2, HasNoMore DEF Rest

\* The handlers other than c, when c runs.
LEMMA Others ==
  ASSUME TypeOK, NEW c \in Conns, (\E at \in PCs : Goto(c, at)) \/ \E cl \in Calls \union {None}, at \in PCs : Begin(c, cl, at)
  PROVE  \A d \in Conns \ {c} : pc'[d] = pc[d] /\ call'[d] = call[d] /\ K(d)' = K(d)
BY DEF TypeOK, Goto, Begin, K

LEMMA ClientHome ==
  ASSUME TypeOK, HomeInv, NEW c \in Conns, Client(c)
  PROVE  HomeInv'
<1>1. CASE PushLock(c)
  <2>1. PICK cl \in Calls : /\ local' = [local EXCEPT ![c] = cl.vals] /\ Begin(c, cl, "handoff")
                            /\ UNCHANGED <<store, chan>>
    BY <1>1 DEF PushLock
  <2>2. InLists' /\ InChans'
    BY <2>1 DEF HomeInv, InLists, InChans, store
  <2>3. \A v \in Values : Has(cl.vals, v) => cl.key \in ListsOf(v)
    BY DEF Has, ListsOf, Elems
  <2>4. K(c)' = cl.key /\ local'[c] = cl.vals /\ \A d \in Conns \ {c} : local'[d] = local[d]
    BY <2>1 DEF TypeOK, Begin, K
  <2>5. \A d \in Conns \ {c} : pc'[d] = pc[d] /\ K(d)' = K(d)
    BY <2>1, Others DEF PCs
  <2>6. InHands'
    BY <2>3, <2>4, <2>5 DEF HomeInv, InHands
  <2> QED
    BY <2>2, <2>6 DEF HomeInv
<1>2. CASE PopGet(c)
  <2>1. PICK cl \in Calls : /\ local' = [local EXCEPT ![c] = list[cl.key]] /\ Begin(c, cl, "set")
                            /\ UNCHANGED <<store, chan>>
    BY <1>2 DEF PopGet
  <2>2. InLists' /\ InChans'
    BY <2>1 DEF HomeInv, InLists, InChans, store
  <2>3. \A v \in Values : Has(list[cl.key], v) => cl.key \in ListsOf(v)
    BY CallType DEF HomeInv, InLists
  <2>4. K(c)' = cl.key /\ local'[c] = list[cl.key] /\ \A d \in Conns \ {c} : local'[d] = local[d]
    BY <2>1 DEF TypeOK, Begin, K
  <2>5. \A d \in Conns \ {c} : pc'[d] = pc[d] /\ K(d)' = K(d)
    BY <2>1, Others DEF PCs
  <2>6. InHands'
    BY <2>3, <2>4, <2>5 DEF HomeInv, InHands
  <2> QED
    BY <2>2, <2>6 DEF HomeInv
<1>3. CASE BlpopTake(c)
  <2>1. PICK cl \in Calls : /\ list[cl.key] # <<>> /\ list' = [list EXCEPT ![cl.key] = Tail(@)]
                            /\ UNCHANGED <<buf, proc>>
    BY <1>3 DEF BlpopTake
  <2>2. cl.key \in Keys /\ list[cl.key] \in Seq(Values)
    BY CallType DEF TypeOK
  <2>3. \A v \in Values : Has(Tail(list[cl.key]), v) => Has(list[cl.key], v)
    BY <2>1, <2>2, HasNoMore
  <2>4. InLists'
    BY <2>1, <2>2, <2>3 DEF TypeOK, HomeInv, InLists
  <2> QED
    BY <2>1, <2>4 DEF HomeInv, InHands, InChans, K, proc
<1>4. CASE BlpopPark(c)
  <2>1. PICK cl \in Calls, ch \in Chans :
          /\ pc[c] = "idle"
          /\ buf' = [buf EXCEPT ![ch] = None] /\ chan' = [chan EXCEPT ![c] = ch]
          /\ Begin(c, cl, "parked") /\ UNCHANGED <<list, local>>
    BY <1>4 DEF BlpopPark
  <2>2. \A d \in Conns \ {c} : pc'[d] = pc[d] /\ K(d)' = K(d)
    BY <2>1, Others DEF PCs
  <2>3. InHands'
    BY <2>1, <2>2 DEF TypeOK, Begin, HomeInv, InHands
  <2>4. chan[c] = None
    BY <2>1 DEF TypeOK
  <2>5. ASSUME NEW h \in Chans, buf'[h] # None PROVE \E d \in Conns : chan'[d] = h
    <3>1. buf[h] # None /\ h # None
      BY <2>1, <2>5, NoneAssumption DEF TypeOK
    <3>2. PICK d \in Conns : chan[d] = h
      BY <3>1 DEF HomeInv, InChans
    <3> QED
      BY <2>1, <2>4, <3>1, <3>2 DEF TypeOK
  <2> QED
    BY <2>1, <2>3, <2>5 DEF HomeInv, InLists, InChans
<1> QED
  BY <1>1, <1>2, <1>3, <1>4 DEF Client

LEMMA RunningHome ==
  ASSUME TypeOK, QueueInv, HomeInv, NEW c \in Conns, Running(c)
  PROVE  HomeInv'
<1>1. CASE HandOver(c)
  <2>1. /\ pc[c] = "handoff" /\ local[c] # <<>> /\ waiters[K(c)] # <<>>
        /\ buf' = [buf EXCEPT ![Head(waiters[K(c)])] = Head(local[c])]
        /\ local' = [local EXCEPT ![c] = Tail(@)]
        /\ UNCHANGED <<list, pc, call, chan>>
    BY <1>1 DEF HandOver
  <2>2. K(c) \in Keys /\ waiters[K(c)] \in Seq(Chans) /\ local[c] \in Seq(Values)
    BY <2>1, Busy DEF TypeOK
  <2>3. \A v \in Values : Has(Tail(local[c]), v) => Has(local[c], v)
    BY <2>1, <2>2, HasNoMore
  <2>4. InHands'
    BY <2>1, <2>3 DEF TypeOK, HomeInv, InHands, K
  <2>5. PICK o \in Conns : chan[o] = Head(waiters[K(c)])
    BY <2>1, <2>2, TailElements DEF QueueInv, WaitersAreParked
  <2>6. InChans'
    BY <2>1, <2>5 DEF TypeOK, HomeInv, InChans
  <2> QED
    BY <2>1, <2>4, <2>6 DEF HomeInv, InLists
<1>2. CASE PushUnlock(c)
  <2>1. pc[c] = "handoff" /\ (Return(c) \/ Goto(c, "store")) /\ UNCHANGED <<store, local, chan>>
    BY <1>2 DEF PushUnlock
  <2>2. \A d \in Conns \ {c} : pc'[d] = pc[d] /\ K(d)' = K(d)
    BY <2>1, Others DEF Return, PCs
  <2>3. pc'[c] = "idle" \/ K(c)' = K(c)
    BY <2>1 DEF TypeOK, Return, Begin, Goto, K
  <2>4. InHands'
    BY <2>1, <2>2, <2>3 DEF HomeInv, InHands
  <2> QED
    BY <2>1, <2>4 DEF HomeInv, InLists, InChans, store
<1>3. CASE BlpopWake(c)
  <2>1. /\ pc[c] = "parked" /\ Return(c)
        /\ buf' = [buf EXCEPT ![chan[c]] = None] /\ chan' = [chan EXCEPT ![c] = None]
        /\ UNCHANGED <<list, local>>
    BY <1>3 DEF BlpopWake
  <2>2. \A d \in Conns \ {c} : pc'[d] = pc[d] /\ K(d)' = K(d)
    BY <2>1, Others DEF Return, PCs
  <2>3. pc'[c] = "idle"
    BY <2>1, ReturnType
  <2>4. InHands'
    BY <2>1, <2>2, <2>3 DEF HomeInv, InHands
  <2>5. InChans'
    BY <2>1 DEF TypeOK, HomeInv, InChans
  <2> QED
    BY <2>1, <2>4, <2>5 DEF HomeInv, InLists
<1>4. CASE BlpopTimeout(c)
  <2>1. pc[c] = "parked" /\ Goto(c, "cleanup") /\ UNCHANGED <<store, local, chan>>
    BY <1>4 DEF BlpopTimeout
  <2>2. \A d \in Conns \ {c} : pc'[d] = pc[d] /\ K(d)' = K(d)
    BY <2>1, Others DEF PCs
  <2>3. pc'[c] = "cleanup"
    BY <2>1 DEF TypeOK, Goto
  <2>4. InHands'
    BY <2>1, <2>2, <2>3 DEF HomeInv, InHands
  <2> QED
    BY <2>1, <2>4 DEF HomeInv, InLists, InChans, store
<1> QED
  BY <1>1, <1>2, <1>3, <1>4 DEF Running

LEMMA LockingHome ==
  ASSUME TypeOK, HomeInv, NEW c \in Conns, Locking(c)
  PROVE  HomeInv'
<1>1. Return(c) /\ pc[c] # "idle" /\ K(c) \in Keys
  <2>1. Return(c) /\ pc[c] # "idle"
    BY DEF Locking, PushStore, PopSet, CleanUpExpiredKeyWaiter
  <2> QED
    BY <2>1, Busy
<1>2. \A d \in Conns \ {c} : pc'[d] = pc[d] /\ K(d)' = K(d)
  BY <1>1, Others DEF Return, PCs
<1>3. pc'[c] = "idle"
  BY <1>1, ReturnType
<1>4. ASSUME \A d \in Conns \ {c} : local'[d] = local[d] PROVE InHands'
  BY <1>2, <1>3, <1>4 DEF HomeInv, InHands
<1>5. CASE PushStore(c)
  <2>1. /\ pc[c] = "store" /\ local' = [local EXCEPT ![c] = <<>>] /\ UNCHANGED <<buf, chan>>
        /\ list' = [list EXCEPT ![K(c)] = IF call[c].op = "LPUSH" THEN Backwards(local[c]) \o @ ELSE @ \o local[c]]
    BY <1>5 DEF PushStore
  <2>2. local[c] \in Seq(Values) /\ list[K(c)] \in Seq(Values) /\ Backwards(local[c]) \in Seq(Values)
    BY <1>1, BackwardsType DEF TypeOK
  <2>3. \A v \in Values : Has(Backwards(local[c]) \o list[K(c)], v) \/ Has(list[K(c)] \o local[c], v)
                            => Has(list[K(c)], v) \/ Has(local[c], v)
    BY <2>2, HasNoMore
  <2>4. InLists'
    BY <1>1, <2>1, <2>3 DEF TypeOK, HomeInv, InLists, InHands
  <2> QED
    BY <1>4, <2>1, <2>4 DEF TypeOK, HomeInv, InChans
<1>6. CASE PopSet(c)
  <2>1. /\ pc[c] = "set" /\ local' = [local EXCEPT ![c] = <<>>] /\ UNCHANGED <<buf, chan>>
        /\ list' = [list EXCEPT ![K(c)] = Rest(c)]
    BY <1>6 DEF PopSet
  <2>2. \A v \in Values : Has(Rest(c), v) => Has(local[c], v)
    BY <2>1, RestHas
  <2>3. InLists'
    BY <1>1, <2>1, <2>2 DEF TypeOK, HomeInv, InLists, InHands
  <2> QED
    BY <1>4, <2>1, <2>3 DEF TypeOK, HomeInv, InChans
<1>7. CASE CleanUpExpiredKeyWaiter(c)
  <2>1. /\ buf' = [buf EXCEPT ![chan[c]] = None] /\ chan' = [chan EXCEPT ![c] = None]
        /\ UNCHANGED <<list, local>>
    BY <1>7 DEF CleanUpExpiredKeyWaiter
  <2>2. InChans'
    BY <2>1 DEF TypeOK, HomeInv, InChans
  <2> QED
    BY <1>4, <2>1, <2>2 DEF HomeInv, InLists
<1> QED
  BY <1>5, <1>6, <1>7 DEF Locking

LEMMA NextHome ==
  ASSUME TypeOK, QueueInv, HomeInv, [Next]_vars
  PROVE  HomeInv'
<1>1. CASE \E c \in Conns : Client(c) \/ Running(c) \/ Locking(c)
  BY <1>1, ClientHome, RunningHome, LockingHome
<1>2. CASE UNCHANGED vars
  BY <1>2 DEF HomeInv, InLists, InHands, InChans, K, vars, store, proc
<1> QED
  BY <1>1, <1>2 DEF Next

-------------------------------------------------------------------------------
(* A step keeps a value where it is, moves it, or brings it in.             *)

Pushing(c) == pc[c] \in {"handoff", "store"}

\* A place of v, but for the index: OnePlace without counting.
At(v, kind, x) ==
  \/ kind = "list" /\ x \in Keys /\ Has(list[x], v)
  \/ kind = "channel" /\ x \in Chans /\ buf[x] = v
  \/ kind = "push" /\ x \in Conns /\ Pushing(x) /\ Has(local[x], v)
  \/ kind = "client" /\ x \in 1 .. taken[v]
  \/ kind = "gone" /\ x = v /\ v \in lost

One(v) ==
  /\ v \in sent <=> \E kind, x : At(v, kind, x)
  /\ \A a, y, b, z : At(v, a, y) /\ At(v, b, z) => a = b /\ y = z

Once(v) ==
  /\ \A k \in Keys : Single(list[k], v)
  /\ \A c \in Conns : Pushing(c) => Single(local[c], v)

PlaceInv == \A v \in Values : ListsOf(v) \intersect raced = {} => Once(v) /\ One(v)

\* v is at the place b, z besides where it was, and at b, z instead of at a, y.
Comes(v, b, z) == \A kind, x : At(v, kind, x)' <=> At(v, kind, x) \/ (kind = b /\ x = z)
Goes(v, a, y, b, z) ==
  \A kind, x : At(v, kind, x)' <=> (At(v, kind, x) /\ ~(kind = a /\ x = y)) \/ (kind = b /\ x = z)

LEMMA Stays ==
  ASSUME NEW v, One(v), v \in sent' <=> v \in sent,
         \A kind, x : At(v, kind, x)' <=> At(v, kind, x)
  PROVE  One(v)'
BY DEF One

LEMMA Moves ==
  ASSUME NEW v, One(v), v \in sent' <=> v \in sent,
         NEW a, NEW y, At(v, a, y), NEW b, NEW z, Goes(v, a, y, b, z)
  PROVE  One(v)'
BY DEF One, Goes

LEMMA Arrives ==
  ASSUME NEW v, One(v), v \notin sent, v \in sent', NEW b, NEW z, Comes(v, b, z)
  PROVE  One(v)'
BY DEF One, Comes

\* Where a value goes that leaves the Store, and that others are not concerned.
LEMMA LeavesAlone ==
  ASSUME TypeOK, NEW v \in Values, NEW vs, v \notin vs, Deliver(vs) \/ Lose(vs)
  PROVE  taken'[v] = taken[v] /\ (v \in lost' <=> v \in lost)
BY DEF TypeOK, Deliver, Lose

LEMMA LeavesFor ==
  ASSUME TypeOK, NEW v \in Values, One(v), NEW vs, v \in vs, Deliver(vs) \/ Lose(vs),
         NEW a, NEW y, At(v, a, y), a \notin {"client", "gone"}
  PROVE  \/ 1 .. taken[v] = {} /\ 1 .. taken'[v] = {1} /\ lost' = lost
         \/ taken' = taken /\ v \notin lost /\ v \in lost'
<1>1. v \notin lost
  <2>1. v \in lost => At(v, "gone", v)
    BY DEF At
  <2> QED
    BY <2>1 DEF One
<1>2. taken[v] = 0
  <2>1. taken[v] \in 0 .. 2
    BY DEF TypeOK
  <2>2. taken[v] # 0 => 1 \in 1 .. taken[v]
    BY <2>1
  <2>3. taken[v] # 0 => At(v, "client", 1)
    BY <2>2 DEF At
  <2> QED
    BY <2>3 DEF One
<1>3. CASE Deliver(vs)
  <2>1. taken'[v] = 1 /\ lost' = lost
    BY <1>2, <1>3 DEF Deliver
  <2> QED
    BY <1>2, <2>1
<1>4. CASE Lose(vs)
  BY <1>1, <1>4 DEF Lose
<1> QED
  BY <1>3, <1>4

LEMMA ClientPlaces ==
  ASSUME TypeOK, HomeInv, NEW v \in Values, Once(v), One(v), NEW c \in Conns, Client(c)
  PROVE  Once(v)' /\ One(v)'
<1>1. CASE PushLock(c)
  <2>1. PICK cl \in Calls : /\ pc[c] = "idle" /\ Elems(cl.vals) \intersect sent = {}
                            /\ local' = [local EXCEPT ![c] = cl.vals] /\ sent' = sent \union Elems(cl.vals)
                            /\ Begin(c, cl, "handoff") /\ UNCHANGED <<list, buf, taken, lost>>
    BY <1>1 DEF PushLock, store
  <2>2. /\ ~Pushing(c) /\ Pushing(c)' /\ local'[c] = cl.vals
        /\ \A d \in Conns \ {c} : local'[d] = local[d] /\ (Pushing(d)' <=> Pushing(d))
    BY <2>1 DEF TypeOK, Begin, Pushing
  <2>3. Single(cl.vals, v)
    BY ValuesAssumption DEF Single
  <2>4. Once(v)'
    BY <2>1, <2>2, <2>3 DEF Once
  <2>5. Has(cl.vals, v) <=> v \in Elems(cl.vals)
    BY DEF Has, Elems
  <2>6. CASE Has(cl.vals, v)
    <3>1. v \notin sent /\ v \in sent'
      BY <2>1, <2>5, <2>6
    <3>2. Comes(v, "push", c)
      BY <2>1, <2>2, <2>6 DEF At, Comes
    <3>3. One(v)'
      BY <3>1, <3>2, Arrives
    <3> QED
      BY <2>4, <3>3
  <2>7. CASE ~Has(cl.vals, v)
    <3>1. v \in sent' <=> v \in sent
      BY <2>1, <2>5, <2>7
    <3>2. \A kind, x : At(v, kind, x)' <=> At(v, kind, x)
      BY <2>1, <2>2, <2>7 DEF At
    <3> QED
      BY <2>4, <3>1, <3>2, Stays
  <2> QED
    BY <2>6, <2>7
<1>2. CASE PopGet(c)
  <2>1. PICK cl \in Calls : /\ pc[c] = "idle" /\ local' = [local EXCEPT ![c] = list[cl.key]]
                            /\ Begin(c, cl, "set") /\ UNCHANGED <<list, buf, taken, lost, sent>>
    BY <1>2 DEF PopGet, store, ghost
  <2>2. /\ ~Pushing(c) /\ ~Pushing(c)'
        /\ \A d \in Conns \ {c} : local'[d] = local[d] /\ (Pushing(d)' <=> Pushing(d))
    BY <2>1 DEF TypeOK, Begin, Pushing
  <2>3. Once(v)'
    BY <2>1, <2>2 DEF Once
  <2>4. \A kind, x : At(v, kind, x)' <=> At(v, kind, x)
    BY <2>1, <2>2 DEF At
  <2> QED
    BY <2>1, <2>3, <2>4, Stays
<1>3. CASE BlpopTake(c)
  <2>1. PICK cl \in Calls : /\ list[cl.key] # <<>> /\ list' = [list EXCEPT ![cl.key] = Tail(@)]
                            /\ Deliver({Head(list[cl.key])}) \/ Lose({Head(list[cl.key])})
                            /\ UNCHANGED <<buf, pc, local, sent>>
    BY <1>3 DEF BlpopTake, proc
  <2> DEFINE k == cl.key
             w == Head(list[k])
  <2>2. k \in Keys /\ list[k] \in Seq(Values)
    BY CallType DEF TypeOK
  <2>3. /\ Single(Tail(list[k]), v) /\ Has(list[k], w)
        /\ Has(Tail(list[k]), v) <=> Has(list[k], v) /\ w # v
    <3>1. Single(list[k], v)
      BY <2>2 DEF Once
    <3> QED
      BY <2>1, <2>2, <3>1, HasTail
  <2>4. list'[k] = Tail(list[k]) /\ \A l \in Keys \ {k} : list'[l] = list[l]
    BY <2>1, <2>2 DEF TypeOK
  <2>5. Once(v)'
    BY <2>1, <2>3, <2>4 DEF Once, Pushing
  <2>6. CASE w # v
    <3>1. taken'[v] = taken[v] /\ (v \in lost' <=> v \in lost)
      BY <2>1, <2>6, LeavesAlone
    <3>2. \A l \in Keys : Has(list'[l], v) <=> Has(list[l], v)
      BY <2>3, <2>4, <2>6
    <3>3. \A kind, x : At(v, kind, x)' <=> At(v, kind, x)
      BY <2>1, <3>1, <3>2 DEF At, Pushing
    <3> QED
      BY <2>1, <2>5, <3>3, Stays
  <2>7. CASE w = v
    <3>1. At(v, "list", k)
      BY <2>2, <2>3, <2>7 DEF At
    <3>2. \/ 1 .. taken[v] = {} /\ 1 .. taken'[v] = {1} /\ lost' = lost
          \/ taken' = taken /\ v \notin lost /\ v \in lost'
      BY <2>1, <2>7, <3>1, LeavesFor
    <3>3. \A l \in Keys : Has(list'[l], v) <=> Has(list[l], v) /\ l # k
      BY <2>3, <2>4, <2>7
    <3>4. CASE 1 .. taken[v] = {} /\ 1 .. taken'[v] = {1} /\ lost' = lost
      <4>1. Goes(v, "list", k, "client", 1)
        BY <2>1, <3>3, <3>4 DEF At, Pushing, Goes
      <4>2. v \in sent' <=> v \in sent
        BY <2>1
      <4>3. One(v)'
        BY <3>1, <4>1, <4>2, Moves
      <4> QED
        BY <2>5, <4>3
    <3>5. CASE taken' = taken /\ v \notin lost /\ v \in lost'
      <4>1. Goes(v, "list", k, "gone", v)
        BY <2>1, <3>3, <3>5 DEF At, Pushing, Goes
      <4>2. v \in sent' <=> v \in sent
        BY <2>1
      <4>3. One(v)'
        BY <3>1, <4>1, <4>2, Moves
      <4> QED
        BY <2>5, <4>3
    <3> QED
      BY <3>2, <3>4, <3>5
  <2> QED
    BY <2>6, <2>7
<1>4. CASE BlpopPark(c)
  <2>1. PICK cl \in Calls, ch \in Chans \ InUse :
          /\ pc[c] = "idle" /\ buf' = [buf EXCEPT ![ch] = None]
          /\ Begin(c, cl, "parked") /\ UNCHANGED <<list, local, taken, lost, sent>>
    BY <1>4 DEF BlpopPark, ghost
  <2>2. buf[ch] = None
    <3>1. \A d \in Conns : chan[d] \in InUse
      <4>1. \A d \in Conns : chan[d] \in {chan[e] : e \in Conns}
        OBVIOUS
      <4> QED
        BY <4>1 DEF InUse
    <3> QED
      BY <3>1 DEF HomeInv, InChans
  <2>3. buf' = buf
    BY <2>1, <2>2 DEF TypeOK
  <2>4. \A d \in Conns : Pushing(d)' <=> Pushing(d)
    BY <2>1 DEF TypeOK, Begin, Pushing
  <2>5. Once(v)'
    BY <2>1, <2>4 DEF Once
  <2>6. \A kind, x : At(v, kind, x)' <=> At(v, kind, x)
    BY <2>1, <2>3, <2>4 DEF At
  <2> QED
    BY <2>1, <2>5, <2>6, Stays
<1> QED
  BY <1>1, <1>2, <1>3, <1>4 DEF Client

LEMMA RunningPlaces ==
  ASSUME TypeOK, QueueInv, HomeInv, NEW v \in Values, Once(v), One(v), NEW c \in Conns, Running(c)
  PROVE  Once(v)' /\ One(v)'
<1>1. CASE HandOver(c)
  <2> DEFINE h == Head(waiters[K(c)])
             w == Head(local[c])
  <2>1. /\ pc[c] = "handoff" /\ local[c] # <<>> /\ waiters[K(c)] # <<>> /\ buf[h] = None
        /\ buf' = [buf EXCEPT ![h] = w] /\ local' = [local EXCEPT ![c] = Tail(@)]
        /\ UNCHANGED <<list, pc, taken, lost, sent>>
    BY <1>1 DEF HandOver, ghost
  <2>2. /\ K(c) \in Keys /\ waiters[K(c)] \in Seq(Chans) /\ local[c] \in Seq(Values)
        /\ \A d \in Conns : Pushing(d)' <=> Pushing(d)
    BY <2>1, Busy DEF TypeOK, Pushing
  <2>3. h \in Chans /\ v # None
    BY <2>1, <2>2, TailElements, NoneAssumption
  <2> HIDE DEF h, w
  <2>4. /\ Single(Tail(local[c]), v) /\ Has(local[c], w)
        /\ Has(Tail(local[c]), v) <=> Has(local[c], v) /\ w # v
    <3>1. Single(local[c], v) /\ Pushing(c)
      BY <2>1 DEF Once, Pushing
    <3> QED
      BY <2>1, <2>2, <3>1, HasTail DEF w
  <2>5. /\ local'[c] = Tail(local[c]) /\ \A d \in Conns \ {c} : local'[d] = local[d]
        /\ buf'[h] = w /\ \A g \in Chans \ {h} : buf'[g] = buf[g]
    BY <2>1, <2>3 DEF TypeOK
  <2>6. Once(v)'
    BY <2>1, <2>2, <2>4, <2>5 DEF Once
  <2>7. CASE w # v
    <3>1. \A g \in Chans : buf'[g] = v <=> buf[g] = v
      BY <2>1, <2>3, <2>5, <2>7
    <3>2. \A d \in Conns : Has(local'[d], v) <=> Has(local[d], v)
      BY <2>4, <2>5, <2>7
    <3>3. \A kind, x : At(v, kind, x)' <=> At(v, kind, x)
      BY <2>1, <2>2, <3>1, <3>2 DEF At
    <3> QED
      BY <2>1, <2>6, <3>3, Stays
  <2>8. CASE w = v
    <3>1. At(v, "push", c)
      BY <2>1, <2>4, <2>8 DEF At, Pushing
    <3>2. \A g \in Chans : buf'[g] = v <=> buf[g] = v \/ g = h
      BY <2>1, <2>3, <2>5, <2>8
    <3>3. \A d \in Conns : Has(local'[d], v) <=> Has(local[d], v) /\ d # c
      BY <2>4, <2>5, <2>8
    <3>4. Goes(v, "push", c, "channel", h)
      BY <2>1, <2>2, <2>3, <3>2, <3>3 DEF At, Goes
    <3>5. v \in sent' <=> v \in sent
      BY <2>1
    <3> QED
      BY <2>6, <3>1, <3>4, <3>5, Moves
  <2> QED
    BY <2>7, <2>8
<1>2. CASE PushUnlock(c)
  <2>1. /\ pc[c] = "handoff" /\ UNCHANGED <<list, buf, local, taken, lost, sent>>
        /\ (local[c] = <<>> /\ Return(c)) \/ Goto(c, "store")
    BY <1>2 DEF PushUnlock, store, ghost
  <2>2. \A d \in Conns : Pushing(d)' /\ ~Pushing(d) => FALSE
    BY <2>1 DEF TypeOK, Return, Begin, Goto, Pushing
  <2>3. \A d \in Conns : Pushing(d) /\ ~Pushing(d)' => local[d] = <<>>
    BY <2>1 DEF TypeOK, Return, Begin, Goto, Pushing
  <2>4. ~Has(<<>>, v)
    BY DEF Has
  <2>5. Once(v)'
    BY <2>1, <2>2 DEF Once
  <2>6. \A kind, x : At(v, kind, x)' <=> At(v, kind, x)
    BY <2>1, <2>2, <2>3, <2>4 DEF At
  <2> QED
    BY <2>1, <2>5, <2>6, Stays
<1>3. CASE BlpopWake(c)
  <2>1. /\ pc[c] = "parked" /\ Return(c) /\ Deliver({buf[chan[c]]})
        /\ buf' = [buf EXCEPT ![chan[c]] = None]
        /\ UNCHANGED <<list, local, sent>>
    BY <1>3 DEF BlpopWake
  <2> DEFINE h == chan[c]
  <2>2. h \in Chans /\ v # None
    BY <2>1, NoneAssumption DEF TypeOK
  <2>3. \A d \in Conns : Pushing(d)' <=> Pushing(d)
    BY <2>1 DEF TypeOK, Return, Begin, Pushing
  <2> HIDE DEF h
  <2>4. Once(v)'
    BY <2>1, <2>3 DEF Once
  <2>5. buf'[h] = None /\ \A g \in Chans \ {h} : buf'[g] = buf[g]
    BY <2>1, <2>2 DEF TypeOK, h
  <2>6. CASE buf[h] # v
    <3>1. taken'[v] = taken[v] /\ (v \in lost' <=> v \in lost)
      BY <2>1, <2>6, LeavesAlone DEF h
    <3>2. \A g \in Chans : buf'[g] = v <=> buf[g] = v
      BY <2>2, <2>5, <2>6
    <3>3. \A kind, x : At(v, kind, x)' <=> At(v, kind, x)
      BY <2>1, <2>3, <3>1, <3>2 DEF At
    <3> QED
      BY <2>1, <2>4, <3>3, Stays
  <2>7. CASE buf[h] = v
    <3>1. At(v, "channel", h)
      BY <2>2, <2>7 DEF At
    <3>2. \/ 1 .. taken[v] = {} /\ 1 .. taken'[v] = {1} /\ lost' = lost
          \/ taken' = taken /\ v \notin lost /\ v \in lost'
      BY <2>1, <2>7, <3>1, LeavesFor DEF h
    <3>3. lost' = lost /\ 1 .. taken[v] = {} /\ 1 .. taken'[v] = {1}
      BY <2>1, <3>2 DEF Deliver
    <3>4. \A g \in Chans : buf'[g] = v <=> buf[g] = v /\ g # h
      BY <2>2, <2>5, <2>7
    <3>5. Goes(v, "channel", h, "client", 1)
      BY <2>1, <2>3, <3>3, <3>4 DEF At, Goes
    <3>6. v \in sent' <=> v \in sent
      BY <2>1
    <3> QED
      BY <2>4, <3>1, <3>5, <3>6, Moves
  <2> QED
    BY <2>6, <2>7
<1>4. CASE BlpopTimeout(c)
  <2>1. pc[c] = "parked" /\ Goto(c, "cleanup") /\ UNCHANGED <<list, buf, local, taken, lost, sent>>
    BY <1>4 DEF BlpopTimeout, store, ghost
  <2>2. \A d \in Conns : Pushing(d)' <=> Pushing(d)
    BY <2>1 DEF TypeOK, Goto, Pushing
  <2>3. Once(v)'
    BY <2>1, <2>2 DEF Once
  <2>4. \A kind, x : At(v, kind, x)' <=> At(v, kind, x)
    BY <2>1, <2>2 DEF At
  <2> QED
    BY <2>1, <2>3, <2>4, Stays
<1> QED
  BY <1>1, <1>2, <1>3, <1>4 DEF Running

LEMMA StorePlaces ==
  ASSUME TypeOK, NEW v \in Values, Once(v), One(v), NEW c \in Conns, PushStore(c)
  PROVE  Once(v)' /\ One(v)'
<1> DEFINE k == K(c)
<1>1. /\ pc[c] = "store" /\ local' = [local EXCEPT ![c] = <<>>] /\ Return(c)
      /\ list' = [list EXCEPT ![k] = IF call[c].op = "LPUSH" THEN Backwards(local[c]) \o @ ELSE @ \o local[c]]
      /\ UNCHANGED <<buf, taken, lost, sent>>
  BY DEF PushStore, ghost
<1>2. k \in Keys /\ list[k] \in Seq(Values) /\ local[c] \in Seq(Values) /\ Backwards(local[c]) \in Seq(Values)
  BY <1>1, Busy, BackwardsType DEF TypeOK
<1> HIDE DEF k
<1>3. Pushing(c) /\ ~Pushing(c)' /\ \A d \in Conns \ {c} : local'[d] = local[d] /\ (Pushing(d)' <=> Pushing(d))
  BY <1>1 DEF TypeOK, Return, Begin, Pushing
<1>4. list'[k] = (IF call[c].op = "LPUSH" THEN Backwards(local[c]) \o list[k] ELSE list[k] \o local[c])
  BY <1>1, <1>2 DEF TypeOK
<1>5. \A l \in Keys \ {k} : list'[l] = list[l]
  BY <1>1 DEF TypeOK
<1>6. Single(list[k], v) /\ Single(local[c], v)
  BY <1>2, <1>3 DEF Once
<1>7. ~(Has(list[k], v) /\ Has(local[c], v))
  <2>1. Has(list[k], v) => At(v, "list", k)
    BY <1>2 DEF At
  <2>2. Has(local[c], v) => At(v, "push", c)
    BY <1>3 DEF At
  <2> QED
    BY <2>1, <2>2 DEF One
<1>8. Single(list'[k], v) /\ (Has(list'[k], v) <=> Has(list[k], v) \/ Has(local[c], v))
  <2>1. Single(Backwards(local[c]), v) /\ (Has(Backwards(local[c]), v) <=> Has(local[c], v))
    BY <1>2, <1>6, HasBackwards
  <2>2. CASE call[c].op = "LPUSH"
    <3>1. list'[k] = Backwards(local[c]) \o list[k]
      BY <1>4, <2>2
    <3> QED
      BY <1>2, <1>6, <1>7, <2>1, <3>1, HasConcat
  <2>3. CASE call[c].op # "LPUSH"
    <3>1. list'[k] = list[k] \o local[c]
      BY <1>4, <2>3
    <3> QED
      BY <1>2, <1>6, <1>7, <3>1, HasConcat
  <2> QED
    BY <2>2, <2>3
<1>9. Once(v)'
  BY <1>3, <1>5, <1>8 DEF Once
<1>10. v \in sent' <=> v \in sent
  BY <1>1
<1>11. CASE Has(local[c], v)
  <2>1. At(v, "push", c)
    BY <1>3, <1>11 DEF At
  <2>2. Goes(v, "push", c, "list", k)
    BY <1>1, <1>2, <1>3, <1>5, <1>8, <1>11 DEF At, Goes
  <2> QED
    BY <1>9, <1>10, <2>1, <2>2, Moves
<1>12. CASE ~Has(local[c], v)
  <2>1. \A l \in Keys : Has(list'[l], v) <=> Has(list[l], v)
    BY <1>5, <1>8, <1>12
  <2>2. \A kind, x : At(v, kind, x)' <=> At(v, kind, x)
    BY <1>1, <1>3, <1>12, <2>1 DEF At
  <2> QED
    BY <1>9, <1>10, <2>2, Stays
<1> QED
  BY <1>11, <1>12

\* A pop of a list that others have changed concerns no value of another list.
LEMMA PopPlaces ==
  ASSUME TypeOK, HomeInv, NEW v \in Values, Once(v), One(v), NEW c \in Conns, PopSet(c),
         ListsOf(v) \intersect raced' = {}
  PROVE  Once(v)' /\ One(v)'
<1> DEFINE k == K(c)
<1>1. /\ pc[c] = "set" /\ local' = [local EXCEPT ![c] = <<>>] /\ Return(c)
      /\ list' = [list EXCEPT ![k] = Rest(c)]
      /\ Deliver(Popped(c)) \/ Lose(Popped(c))
      /\ local[c] # list[k] => k \in raced'
      /\ UNCHANGED <<buf, sent>>
  BY DEF PopSet
<1>2. k \in Keys
  BY <1>1, Busy
<1>3. ~Pushing(c) /\ ~Pushing(c)' /\ \A d \in Conns \ {c} : local'[d] = local[d] /\ (Pushing(d)' <=> Pushing(d))
  BY <1>1 DEF TypeOK, Return, Begin, Pushing
<1>4. Has(local[c], v) \/ Has(list[k], v) => local[c] = list[k]
  <2>1. Has(local[c], v) => k \in ListsOf(v)
    BY <1>1 DEF HomeInv, InHands
  <2>2. Has(list[k], v) => k \in ListsOf(v)
    BY <1>2 DEF HomeInv, InLists
  <2> QED
    BY <1>1, <2>1, <2>2
<1>5. list'[k] = Rest(c) /\ \A l \in Keys \ {k} : list'[l] = list[l]
  BY <1>1, <1>2 DEF TypeOK
<1>6. Single(list[k], v)
  BY <1>2 DEF Once
<1>7. Single(local[c], v)
  BY <1>4, <1>6 DEF Has, Single
<1>8. /\ Single(Rest(c), v)
      /\ Has(local[c], v) <=> v \in Popped(c) \/ Has(Rest(c), v)
      /\ ~(v \in Popped(c) /\ Has(Rest(c), v))
  BY <1>1, <1>7, HasPopped
<1> HIDE DEF k
<1>9. Once(v)'
  BY <1>3, <1>5, <1>8 DEF Once
<1>10. v \in sent' <=> v \in sent
  BY <1>1
<1>11. CASE v \notin Popped(c)
  <2>1. taken'[v] = taken[v] /\ (v \in lost' <=> v \in lost)
    BY <1>1, <1>11, LeavesAlone
  <2>2. Has(Rest(c), v) <=> Has(list[k], v)
    BY <1>4, <1>8, <1>11
  <2>3. \A l \in Keys : Has(list'[l], v) <=> Has(list[l], v)
    BY <1>5, <2>2
  <2>4. \A kind, x : At(v, kind, x)' <=> At(v, kind, x)
    BY <1>1, <1>3, <2>1, <2>3 DEF At
  <2> QED
    BY <1>9, <1>10, <2>4, Stays
<1>12. CASE v \in Popped(c)
  <2>1. At(v, "list", k)
    BY <1>2, <1>4, <1>8, <1>12 DEF At
  <2>2. \/ 1 .. taken[v] = {} /\ 1 .. taken'[v] = {1} /\ lost' = lost
        \/ taken' = taken /\ v \notin lost /\ v \in lost'
    BY <1>1, <1>12, <2>1, LeavesFor
  <2>3. \A l \in Keys : Has(list'[l], v) <=> Has(list[l], v) /\ l # k
    BY <1>5, <1>8, <1>12
  <2>4. CASE 1 .. taken[v] = {} /\ 1 .. taken'[v] = {1} /\ lost' = lost
    <3>1. Goes(v, "list", k, "client", 1)
      BY <1>1, <1>3, <2>3, <2>4 DEF At, Goes
    <3> QED
      BY <1>9, <1>10, <2>1, <3>1, Moves
  <2>5. CASE taken' = taken /\ v \notin lost /\ v \in lost'
    <3>1. Goes(v, "list", k, "gone", v)
      BY <1>1, <1>3, <2>3, <2>5 DEF At, Goes
    <3> QED
      BY <1>9, <1>10, <2>1, <3>1, Moves
  <2> QED
    BY <2>2, <2>4, <2>5
<1> QED
  BY <1>11, <1>12

LEMMA CleanUpPlaces ==
  ASSUME TypeOK, NEW v \in Values, Once(v), One(v), NEW c \in Conns, CleanUpExpiredKeyWaiter(c)
  PROVE  Once(v)' /\ One(v)'
<1> DEFINE h == chan[c]
<1>1. /\ pc[c] = "cleanup" /\ Return(c) /\ Lose({buf[h]} \ {None})
      /\ buf' = [buf EXCEPT ![h] = None]
      /\ UNCHANGED <<list, local, sent>>
  BY DEF CleanUpExpiredKeyWaiter
<1>2. h \in Chans /\ v # None
  BY <1>1, NoneAssumption DEF TypeOK
<1>3. \A d \in Conns : Pushing(d)' <=> Pushing(d)
  BY <1>1 DEF TypeOK, Return, Begin, Pushing
<1> HIDE DEF h
<1>4. Once(v)'
  BY <1>1, <1>3 DEF Once
<1>5. buf'[h] = None /\ \A g \in Chans \ {h} : buf'[g] = buf[g]
  BY <1>1, <1>2 DEF TypeOK
<1>6. v \in sent' <=> v \in sent
  BY <1>1
<1>7. CASE buf[h] # v
  <2>1. taken'[v] = taken[v] /\ (v \in lost' <=> v \in lost)
    BY <1>1, <1>7, LeavesAlone
  <2>2. \A g \in Chans : buf'[g] = v <=> buf[g] = v
    BY <1>2, <1>5, <1>7
  <2>3. \A kind, x : At(v, kind, x)' <=> At(v, kind, x)
    BY <1>1, <1>3, <2>1, <2>2 DEF At
  <2> QED
    BY <1>4, <1>6, <2>3, Stays
<1>8. CASE buf[h] = v
  <2>1. At(v, "channel", h)
    BY <1>2, <1>8 DEF At
  <2>2. v \in {buf[h]} \ {None}
    BY <1>2, <1>8
  <2>3. \/ 1 .. taken[v] = {} /\ 1 .. taken'[v] = {1} /\ lost' = lost
        \/ taken' = taken /\ v \notin lost /\ v \in lost'
    BY <1>1, <2>1, <2>2, LeavesFor
  <2>4. taken' = taken /\ v \notin lost /\ v \in lost'
    BY <1>1, <2>2, <2>3 DEF Lose
  <2>5. \A g \in Chans : buf'[g] = v <=> buf[g] = v /\ g # h
    BY <1>2, <1>5, <1>8
  <2>6. Goes(v, "channel", h, "gone", v)
    BY <1>1, <1>3, <2>4, <2>5 DEF At, Goes
  <2> QED
    BY <1>4, <1>6, <2>1, <2>6, Moves
<1> QED
  BY <1>7, <1>8

LEMMA NextPlaces ==
  ASSUME TypeOK, QueueInv, HomeInv, PlaceInv, [Next]_vars
  PROVE  PlaceInv'
<1> SUFFICES ASSUME NEW v \in Values, ListsOf(v) \intersect raced' = {} PROVE Once(v)' /\ One(v)'
  BY DEF PlaceInv, ListsOf
<1>1. CASE \E c \in Conns : Client(c) \/ Running(c) \/ Locking(c)
  <2>1. raced \subseteq raced'
    BY <1>1 DEF Client, PushLock, PopGet, BlpopTake, BlpopPark, ghost, Running, HandOver, PushUnlock,
                BlpopWake, BlpopTimeout, Locking, PushStore, PopSet, CleanUpExpiredKeyWaiter
  <2>2. Once(v) /\ One(v)
    BY <2>1 DEF PlaceInv
  <2> QED
    BY <1>1, <2>2, ClientPlaces, RunningPlaces, StorePlaces, PopPlaces, CleanUpPlaces DEF Locking
<1>2. CASE UNCHANGED vars
  <2>1. raced' = raced /\ Once(v) /\ One(v)
    BY <1>2 DEF PlaceInv, vars, ghost
  <2>2. UNCHANGED <<list, buf, pc, local, sent, taken, lost>>
    BY <1>2 DEF vars, store, proc, ghost
  <2>3. \A kind, x : At(v, kind, x)' <=> At(v, kind, x)
    BY <2>2 DEF At, Pushing
  <2>4. Once(v)'
    BY <2>1, <2>2 DEF Once, Pushing
  <2> QED
    BY <2>1, <2>2, <2>3, <2>4, Stays
<1> QED
  BY <1>1, <1>2 DEF Next

LEMMA PlacesInvariant == Spec => [](HomeInv /\ PlaceInv)
<1>1. Init => HomeInv /\ PlaceInv
  <2> SUFFICES ASSUME Init PROVE HomeInv /\ PlaceInv
    OBVIOUS
  <2>1. \A v : ~Has(<<>>, v) /\ Single(<<>>, v)
    BY DEF Has, Single
  <2>2. HomeInv
    BY <2>1 DEF Init, HomeInv, InLists, InHands, InChans
  <2>3. \A v \in Values : \A kind, x : ~At(v, kind, x)
    <3>1. \A v \in Values : v # None /\ 1 .. taken[v] = {}
      BY NoneAssumption DEF Init
    <3> QED
      BY <2>1, <3>1 DEF Init, At, Pushing
  <2>4. \A v \in Values : Once(v) /\ One(v)
    BY <2>1, <2>3 DEF Init, Once, One
  <2> QED
    BY <2>2, <2>4 DEF PlaceInv
<1>2. TypeOK /\ QueueInv /\ HomeInv /\ PlaceInv /\ [Next]_vars => HomeInv' /\ PlaceInv'
  BY NextHome, NextPlaces
<1> QED
  BY <1>1, <1>2, TypeCorrect, QueuesInvariant, PTL DEF Spec

\* The kinds of places, and At for each.
LEMMA PlaceOf ==
  ASSUME TypeOK, NEW v \in Values, NEW q
  PROVE  q \in Places(v) <=>
           \/ \E k \in Keys : \E i \in DOMAIN list[k] : list[k][i] = v /\ q = <<"list", k, i>>
           \/ \E ch \in Chans : buf[ch] = v /\ q = <<"channel", ch>>
           \/ \E c \in Conns : Pushing(c) /\ \E i \in DOMAIN local[c] : local[c][i] = v /\ q = <<"push", c, i>>
           \/ \E n \in 1 .. taken[v] : q = <<"client", n>>
           \/ v \in lost /\ q = <<"gone", v>>
BY DEF Places, Pushing

LEMMA SamePlace ==
  ASSUME TypeOK, NEW v \in Values, Once(v), One(v)
  PROVE  /\ \A p, q \in Places(v) : p = q
         /\ v \in sent <=> Places(v) # {}
<1>1. ASSUME NEW q \in Places(v) PROVE At(v, q[1], q[2])
  BY <1>1, PlaceOf DEF At, Has
<1>2. ASSUME NEW p \in Places(v), NEW q \in Places(v) PROVE p = q
  <2>1. p[1] = q[1] /\ p[2] = q[2]
    BY <1>1, <1>2 DEF One
  <2>2. \/ p[1] = "list" /\ p[2] \in Keys /\ \E i \in DOMAIN list[p[2]] : list[p[2]][i] = v /\ p = <<"list", p[2], i>>
        \/ p[1] = "push" /\ Pushing(p[2]) /\ p[2] \in Conns /\ \E i \in DOMAIN local[p[2]] : local[p[2]][i] = v /\ p = <<"push", p[2], i>>
        \/ p[1] \in {"channel", "client", "gone"} /\ p = <<p[1], p[2]>>
    BY <1>2, PlaceOf
  <2>3. \/ q[1] = "list" /\ q[2] \in Keys /\ \E i \in DOMAIN list[q[2]] : list[q[2]][i] = v /\ q = <<"list", q[2], i>>
        \/ q[1] = "push" /\ Pushing(q[2]) /\ q[2] \in Conns /\ \E i \in DOMAIN local[q[2]] : local[q[2]][i] = v /\ q = <<"push", q[2], i>>
        \/ q[1] \in {"channel", "client", "gone"} /\ q = <<q[1], q[2]>>
    BY <1>2, PlaceOf
  <2>4. CASE p[1] = "list"
    BY <2>1, <2>2, <2>3, <2>4 DEF Once, Single
  <2>5. CASE p[1] = "push"
    BY <2>1, <2>2, <2>3, <2>5 DEF Once, Single
  <2>6. CASE p[1] \in {"channel", "client", "gone"}
    BY <2>1, <2>2, <2>3, <2>6
  <2> QED
    BY <2>2, <2>4, <2>5, <2>6
<1>3. ASSUME NEW kind, NEW x, At(v, kind, x) PROVE Places(v) # {}
  <2>1. CASE kind = "list"
    <3>1. PICK i \in DOMAIN list[x] : x \in Keys /\ list[x][i] = v
      BY <1>3, <2>1 DEF At, Has
    <3>2. <<"list", x, i>> \in Places(v)
      BY <3>1, PlaceOf
    <3> QED
      BY <3>2
  <2>2. CASE kind = "channel"
    BY <1>3, <2>2, PlaceOf DEF At
  <2>3. CASE kind = "push"
    <3>1. PICK i \in DOMAIN local[x] : x \in Conns /\ Pushing(x) /\ local[x][i] = v
      BY <1>3, <2>3 DEF At, Has
    <3>2. <<"push", x, i>> \in Places(v)
      BY <3>1, PlaceOf
    <3> QED
      BY <3>2
  <2>4. CASE kind = "client"
    BY <1>3, <2>4, PlaceOf DEF At
  <2>5. CASE kind = "gone"
    BY <1>3, <2>5, PlaceOf DEF At
  <2> QED
    BY <1>3, <2>1, <2>2, <2>3, <2>4, <2>5 DEF At
<1>4. v \in sent <=> Places(v) # {}
  BY <1>1, <1>3 DEF One
<1> QED
  BY <1>2, <1>4

\* A value that LPUSH or RPUSH was given is in one place at any time, and so goes to
\* one client at most, for any number of clients, keys, values and channels, as
\* long as no pop has written back a list that others had changed since it read it.
THEOREM ValuesInOnePlace == Spec => []OnePlace
<1>1. TypeOK /\ PlaceInv => OnePlace
  <2> SUFFICES ASSUME TypeOK, PlaceInv, NEW v \in Values, ListsOf(v) \intersect raced = {}
               PROVE  Cardinality(Places(v)) = IF v \in sent THEN 1 ELSE 0
    BY DEF OnePlace
  <2>1. (\A p, q \in Places(v) : p = q) /\ (v \in sent <=> Places(v) # {})
    BY SamePlace DEF PlaceInv
  <2>2. CASE v \in sent
    <3>1. PICK q : Places(v) = {q}
      BY <2>1, <2>2
    <3> QED
      BY <2>2, <3>1, FS_Singleton
  <2>3. CASE v \notin sent
    <3>1. Places(v) = {}
      BY <2>1, <2>3
    <3> QED
      BY <2>3, <3>1, FS_EmptySet
  <2> QED
    BY <2>2, <2>3
<1> QED
  BY <1>1, TypeCorrect, PlacesInvariant, PTL

===============================================================================
