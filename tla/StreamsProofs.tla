----------------------------- MODULE StreamsProofs ----------------------------
(***************************************************************************)
(* Theorems about Streams, for every set of connections, streams, channels *)
(* and calls, every size of integers, and without the bounds of the runs.  *)
(***************************************************************************)
EXTENDS Streams, SequenceTheorems, FiniteSetTheorems, WellFoundedInduction, TLAPS

-------------------------------------------------------------------------------
(* Sequences and queues.                                                   *)

LEMMA SeqDomain ==
  ASSUME NEW S, NEW s \in Seq(S)
  PROVE  Len(s) \in Nat /\ DOMAIN s = 1 .. Len(s) /\ \A i \in DOMAIN s : s[i] \in S
OBVIOUS

LEMMA ElemsType == ASSUME NEW S, NEW s \in Seq(S) PROVE Elems(s) \subseteq S
BY SeqDomain DEF Elems

LEMMA TailFacts ==
  ASSUME NEW S, NEW s \in Seq(S), s # <<>>
  PROVE  /\ Head(s) \in S /\ Head(s) = s[1] /\ 1 \in DOMAIN s
         /\ Tail(s) \in Seq(S) /\ (Len(s) # 1 => Tail(s) # <<>>) /\ (Len(s) = 1 => Tail(s) = <<>>)
         /\ \A j \in DOMAIN Tail(s) : j + 1 \in DOMAIN s /\ j # 0 /\ Tail(s)[j] = s[j + 1]
         /\ \A j \in DOMAIN s : j = 1 \/ (j - 1 \in DOMAIN Tail(s) /\ Tail(s)[j - 1] = s[j])
<1>1. /\ Head(s) \in S /\ Tail(s) \in Seq(S) /\ Len(Tail(s)) = Len(s) - 1
      /\ \A i \in 1 .. Len(Tail(s)) : Tail(s)[i] = s[i + 1]
  BY HeadTailProperties
<1>2. /\ Len(s) \in Nat \ {0} /\ DOMAIN s = 1 .. Len(s) /\ DOMAIN Tail(s) = 1 .. Len(Tail(s))
  BY <1>1, EmptySeq
<1>3. Tail(s) = <<>> <=> Len(Tail(s)) = 0
  BY <1>1, EmptySeq
<1> QED
  BY <1>1, <1>2, <1>3

LEMMA AppendFacts ==
  ASSUME NEW S, NEW s \in Seq(S), NEW e \in S
  PROVE  /\ Append(s, e) \in Seq(S) /\ Len(Append(s, e)) = Len(s) + 1
         /\ DOMAIN Append(s, e) = 1 .. Len(s) + 1 /\ DOMAIN s = 1 .. Len(s) /\ Len(s) \in Nat
         /\ \A j \in DOMAIN s : j \in DOMAIN Append(s, e) /\ Append(s, e)[j] = s[j]
         /\ Append(s, e)[Len(s) + 1] = e
BY AppendProperties

\* Of the places in a sequence that have a property one is the first.
LEMMA FirstPlace ==
  ASSUME NEW T \in SUBSET Nat, T # {}
  PROVE  \E x \in T : \A y \in T : x <= y
<1> DEFINE R == OpToRel(<, Nat)
<1>1. PICK x \in T : \A y \in T : <<y, x>> \notin R
  <2> HIDE DEF R
  <2>1. IsWellFoundedOn(R, Nat)
    BY NatLessThanWellFounded DEF R
  <2> QED
    BY <2>1, WFMin
<1>2. \A y \in T : <<y, x>> \in Nat \X Nat
  OBVIOUS
<1>3. \A y \in T : ~(y < x)
  BY <1>1, <1>2 DEF OpToRel
<1> QED
  BY <1>3

LEMMA WithoutFacts ==
  ASSUME NEW S, NEW s \in Seq(S), NEW ch
  PROVE  /\ Without(s, ch) \in Seq(S)
         /\ ch \notin Elems(s) => Without(s, ch) = s
         /\ ch \in Elems(s) => \E i \in DOMAIN s :
              /\ s[i] = ch
              /\ DOMAIN Without(s, ch) = 1 .. Len(s) - 1 /\ DOMAIN s = 1 .. Len(s) /\ Len(s) \in Nat
              /\ \A j \in 1 .. Len(s) - 1 : Without(s, ch)[j] = IF j < i THEN s[j] ELSE s[j + 1]
<1>1. CASE ch \notin Elems(s)
  BY <1>1 DEF Without
<1>2. CASE ch \in Elems(s)
  <2> DEFINE First(i) == s[i] = ch /\ \A n \in 1 .. i - 1 : s[n] # ch
             p == CHOOSE j \in DOMAIN s : First(j)
             before == SubSeq(s, 1, p - 1)
             after  == SubSeq(s, p + 1, Len(s))
  <2>1. Len(s) \in Nat /\ DOMAIN s = 1 .. Len(s) /\ \A i \in DOMAIN s : s[i] \in S
    BY SeqDomain
  <2>2. \E i \in DOMAIN s : First(i)
    <3> DEFINE Is == {i \in Nat : i \in DOMAIN s /\ s[i] = ch}
    <3>1. Is # {} /\ Is \subseteq Nat
      BY <1>2, <2>1 DEF Elems
    <3>2. PICK i \in Is : \A j \in Is : i <= j
      BY <3>1, FirstPlace
    <3> QED
      BY <3>2, <2>1
  <2>3. p \in DOMAIN s /\ s[p] = ch
    BY <2>2
  <2>4. Without(s, ch) = before \o after
    BY <1>2 DEF Without
  <2> HIDE DEF p
  <2>5. before \in Seq(S) /\ Len(before) = p - 1 /\ \A i \in 1 .. p - 1 : before[i] = s[i]
    <3>1. \A i \in 1 .. p - 1 : s[i] \in S
      BY <2>1, <2>3
    <3>2. p \in Int /\ p - 1 \in Int /\ 1 \in Int /\ p >= 1
      BY <2>1, <2>3
    <3>3. /\ before \in Seq(S) /\ Len(before) = IF 1 <= p - 1 THEN p - 1 - 1 + 1 ELSE 0
          /\ \A i \in 1 .. p - 1 - 1 + 1 : before[i] = s[1 + i - 1]
      BY <3>1, <3>2, SubSeqProperties
    <3> HIDE DEF before
    <3>4. Len(before) = p - 1 /\ 1 .. p - 1 - 1 + 1 = 1 .. p - 1 /\ \A i \in 1 .. p - 1 : 1 + i - 1 = i
      BY <3>2, <3>3
    <3> QED
      BY <3>3, <3>4
  <2>6. /\ after \in Seq(S) /\ Len(after) = Len(s) - p
        /\ \A i \in 1 .. Len(s) - p : after[i] = s[p + i]
    <3>1. \A i \in p + 1 .. Len(s) : s[i] \in S
      BY <2>1, <2>3
    <3>2. p \in Int /\ p + 1 \in Int /\ Len(s) \in Int /\ p <= Len(s)
      BY <2>1, <2>3
    <3>3. /\ after \in Seq(S) /\ Len(after) = IF p + 1 <= Len(s) THEN Len(s) - (p + 1) + 1 ELSE 0
          /\ \A i \in 1 .. Len(s) - (p + 1) + 1 : after[i] = s[p + 1 + i - 1]
      BY <3>1, <3>2, SubSeqProperties
    <3> HIDE DEF after
    <3>4. /\ Len(after) = Len(s) - p /\ 1 .. Len(s) - (p + 1) + 1 = 1 .. Len(s) - p
          /\ \A i \in 1 .. Len(s) - p : p + 1 + i - 1 = p + i
      BY <3>2, <3>3, <2>3
    <3> QED
      BY <3>3, <3>4
  <2> HIDE DEF before, after
  <2>7. /\ before \o after \in Seq(S) /\ Len(before \o after) = Len(s) - 1
        /\ DOMAIN (before \o after) = 1 .. Len(s) - 1
        /\ \A j \in 1 .. Len(s) - 1 :
             (before \o after)[j] = IF j < p THEN before[j] ELSE after[j - (p - 1)]
    <3>1. /\ before \o after \in Seq(S) /\ Len(before \o after) = Len(before) + Len(after)
          /\ \A j \in 1 .. Len(before) + Len(after) :
               (before \o after)[j] = IF j <= Len(before) THEN before[j] ELSE after[j - Len(before)]
      BY <2>5, <2>6, ConcatProperties
    <3>2. Len(before) + Len(after) = Len(s) - 1 /\ p \in Int /\ Len(before) = p - 1
      BY <2>1, <2>3, <2>5, <2>6
    <3>3. \A j \in 1 .. Len(s) - 1 : j <= Len(before) <=> j < p
      BY <3>2, <2>1
    <3> QED
      BY <3>1, <3>2, <3>3, SeqDomain
  <2>8. \A j \in 1 .. Len(s) - 1 : Without(s, ch)[j] = IF j < p THEN s[j] ELSE s[j + 1]
    <3> SUFFICES ASSUME NEW j \in 1 .. Len(s) - 1
                 PROVE  (before \o after)[j] = IF j < p THEN s[j] ELSE s[j + 1]
      BY <2>4
    <3>1. CASE j < p
      <4>1. j \in 1 .. p - 1
        BY <3>1, <2>1, <2>3
      <4> QED
        BY <3>1, <4>1, <2>5, <2>7
    <3>2. CASE ~(j < p)
      <4>1. j - (p - 1) \in 1 .. Len(s) - p /\ p + (j - (p - 1)) = j + 1
        BY <3>2, <2>1, <2>3
      <4>2. after[j - (p - 1)] = s[j + 1]
        BY <4>1, <2>6
      <4> QED
        BY <3>2, <4>2, <2>7
    <3> QED
      BY <3>1, <3>2
  <2> QED
    BY <2>1, <2>3, <2>4, <2>7, <2>8, <1>2
<1> QED
  BY <1>1, <1>2

-------------------------------------------------------------------------------
(* XADD's section.                                                         *)

\* How often a channel is queued, and that it is at all.
LEMMA Places ==
  ASSUME NEW S, NEW s \in Seq(S), NEW ch
  PROVE  /\ Cardinality({i \in DOMAIN s : s[i] = ch}) \in Nat
         /\ ch \in Elems(s) => Cardinality({i \in DOMAIN s : s[i] = ch}) > 0
<1> DEFINE P == {i \in DOMAIN s : s[i] = ch}
<1>1. IsFiniteSet(1 .. Len(s)) /\ P \in SUBSET (1 .. Len(s))
  <2>1. Len(s) \in Int /\ DOMAIN s = 1 .. Len(s)
    BY SeqDomain
  <2> QED
    BY <2>1, FS_Interval
<1>2. ch \in Elems(s) => P # {}
  BY DEF Elems
<1> HIDE DEF P
<1>3. IsFiniteSet(P)
  BY <1>1, FS_Subset
<1>4. Cardinality(P) \in Nat /\ (P # {} => Cardinality(P) # 0)
  BY <1>3, FS_CardinalityType, FS_EmptySet
<1> QED
  BY <1>2, <1>4 DEF P

\* What Notify does to the goroutines and queues.
LEMMA NotifyFacts ==
  ASSUME TypeOK, NEW k \in Keys, Notify(k)
  PROVE  /\ waiters' = [waiters EXCEPT ![k] = <<>>] /\ waiters' \in [Keys -> Seq(Chans)]
         /\ sending' \in [Chans -> Nat]
         /\ \A ch \in Chans : sending'[ch] >= sending[ch]
         /\ \A ch \in Elems(waiters[k]) : ch \in Chans /\ sending'[ch] > 0
<1> DEFINE N(ch) == Cardinality({i \in DOMAIN waiters[k] : waiters[k][i] = ch})
<1>1. waiters[k] \in Seq(Chans) /\ waiters \in [Keys -> Seq(Chans)] /\ sending \in [Chans -> Nat]
  BY DEF TypeOK
<1>2. \A ch : N(ch) \in Nat /\ (ch \in Elems(waiters[k]) => N(ch) > 0)
  BY <1>1, Places
<1>3. sending' = [ch \in Chans |-> sending[ch] + N(ch)] /\ waiters' = [waiters EXCEPT ![k] = <<>>]
  BY DEF Notify
<1>4. Elems(waiters[k]) \subseteq Chans
  BY <1>1, ElemsType
<1> HIDE DEF N
<1> QED
  BY <1>1, <1>2, <1>3, <1>4

LEMMA TopType ==
  ASSUME TypeOK, NEW k \in Keys
  PROVE  Top(k) \in Ids /\ Zero \in Ids
<1>1. Zero \in Ids
  BY DEF Zero, Ids
<1>2. stream[k] \in Seq(Ids)
  BY DEF TypeOK
<1>3. stream[k] # <<>> => Len(stream[k]) \in DOMAIN stream[k]
  BY <1>2, EmptySeq, SeqDomain
<1> QED
  BY <1>1, <1>2, <1>3, SeqDomain DEF Top

\* What an ID asked for is made of.
LEMMA AddType ==
  ASSUME NEW a \in Adds, a.ms # Star
  PROVE  a.ms \in Nat /\ a.seq \in (0 .. MaxSeq) \union {Star}
BY AddsAssumption

Seqs == (0 .. MaxSeq) \union {Star}

\* The entry that XADD appends, if it is not refused.
Entry(k, ms, seq) ==
  LET last == IF Parses(Top(k)) THEN Top(k) ELSE Zero IN [ms |-> ms, seq |-> FinalSeq(last, ms, seq)]

\* Insert refuses, or appends an entry that may follow the last one, and notifies.
LEMMA InsertFacts ==
  ASSUME TypeOK, NEW k \in Keys, NEW ms \in Nat, NEW seq \in Seqs, Insert(k, ms, seq)
  PROVE  \/ UNCHANGED <<stream, waiters, sending>>
         \/ /\ Entry(k, ms, seq) \in Ids
            /\ Accepts(IF Parses(Top(k)) THEN Top(k) ELSE Zero, ms, seq)
            /\ stream' = [stream EXCEPT ![k] = Append(stream[k], Entry(k, ms, seq))]
            /\ stream' \in [Keys -> Seq(Ids)]
            /\ Notify(k)
<1> DEFINE last == IF Parses(Top(k)) THEN Top(k) ELSE Zero
<1>1. last \in Ids
  BY TopType
<1> HIDE DEF last
<1>2. FinalSeq(last, ms, seq) \in Int
  <2>1. last.seq \in Int /\ MaxSeq \in Int
    BY <1>1, MaxSeqAssumption DEF Ids
  <2> QED
    BY <2>1 DEF FinalSeq, Succ, Seqs
<1>3. CASE Accepts(last, ms, seq)
  <2>1. /\ stream' = [stream EXCEPT ![k] = Append(stream[k], [ms |-> ms, seq |-> FinalSeq(last, ms, seq)])]
        /\ Notify(k)
    BY <1>3 DEF Insert, last
  <2>2. [ms |-> ms, seq |-> FinalSeq(last, ms, seq)] \in Ids
    BY <1>2 DEF Ids
  <2>3. Append(stream[k], [ms |-> ms, seq |-> FinalSeq(last, ms, seq)]) \in Seq(Ids)
    BY <2>2, AppendFacts DEF TypeOK
  <2>4. stream' \in [Keys -> Seq(Ids)]
    BY <2>1, <2>3 DEF TypeOK
  <2> QED
    BY <1>3, <2>1, <2>2, <2>4 DEF Entry, last
<1>4. CASE ~Accepts(last, ms, seq)
  BY <1>4 DEF Insert, last, store
<1> QED
  BY <1>3, <1>4

LEMMA InsertType ==
  ASSUME TypeOK, NEW k \in Keys, NEW ms \in Nat, NEW seq \in Seqs, Insert(k, ms, seq)
  PROVE  /\ stream' \in [Keys -> Seq(Ids)] /\ waiters' \in [Keys -> Seq(Chans)]
         /\ sending' \in [Chans -> Nat]
<1>1. /\ stream \in [Keys -> Seq(Ids)] /\ waiters \in [Keys -> Seq(Chans)]
      /\ sending \in [Chans -> Nat]
  BY DEF TypeOK
<1> QED
  BY <1>1, InsertFacts, NotifyFacts

-------------------------------------------------------------------------------
(* Types.                                                                  *)

LEMMA InitType == Init => TypeOK
BY EmptySeq DEF Init, TypeOK, PCs, Zero, Ids

LEMMA ReadType ==
  ASSUME NEW r \in Reads
  PROVE  /\ r.keys \in Seq(Keys) /\ r.keys # <<>> /\ r.timed \in BOOLEAN
         /\ r.from # Dollar => r.from \in Ids
         /\ \A i, j \in DOMAIN r.keys : r.keys[i] = r.keys[j] => i = j
BY ReadsAssumption DEF Ids

\* The call of a handler in the middle of an XREAD.
LEMMA Reading ==
  ASSUME TypeOK, NEW c \in Conns, pc[c] \notin {"idle", "add"}
  PROVE  /\ call[c] \in Reads /\ chan[c] \in Chans /\ call[c] # None /\ chan[c] # None /\ add[c] = None
         /\ call[c].keys \in Seq(Keys) /\ call[c].keys # <<>> /\ todo[c] \in Seq(Keys)
BY ReadType DEF TypeOK

LEMMA ReturnType ==
  ASSUME TypeOK, NEW c \in Conns, pc[c] \notin {"idle", "add"}, Return(c), UNCHANGED add
  PROVE  /\ pc' \in [Conns -> PCs] /\ add' \in [Conns -> [key : Keys, ms : Nat] \union {None}]
         /\ call' \in [Conns -> Reads \union {None}] /\ chan' \in [Conns -> Chans \union {None}]
         /\ todo' \in [Conns -> Seq(Keys)] /\ ids' \in [Conns -> [Keys -> Ids]]
         /\ \A d \in Conns : pc'[d] = "add" <=> add'[d] # None
         /\ \A d \in Conns : call'[d] # None <=> pc'[d] \notin {"idle", "add"}
         /\ \A d \in Conns : chan'[d] # None <=> call'[d] # None
         /\ \A d \in Conns : pc'[d] \in {"register", "cleanup"} => todo'[d] # <<>>
<1>1. <<>> \in Seq(Keys) /\ [k \in Keys |-> Zero] \in [Keys -> Ids]
  BY EmptySeq DEF Zero, Ids
<1>2. "idle" \in PCs
  BY DEF PCs
<1> QED
  BY <1>1, <1>2, Reading DEF TypeOK, Return, Goto

LEMMA AddingType ==
  ASSUME TypeOK, NEW c \in Conns, XAdd(c) \/ XAddClock(c) \/ XAddAuto(c)
  PROVE  TypeOK'
<1>1. CASE XAdd(c)
  <2>1. PICK k \in Keys, a \in {b \in Adds : b.ms # Star} :
          Insert(k, a.ms, a.seq) /\ UNCHANGED <<full, clock, proc, left>>
    BY <1>1 DEF XAdd
  <2>2. /\ stream' \in [Keys -> Seq(Ids)] /\ waiters' \in [Keys -> Seq(Chans)]
        /\ sending' \in [Chans -> Nat]
    BY <2>1, AddType, InsertType DEF Seqs
  <2> QED
    BY <2>1, <2>2 DEF TypeOK, proc
<1>2. CASE XAddClock(c)
  <2>1. PICK k \in Keys : /\ pc[c] = "idle" /\ add' = [add EXCEPT ![c] = [key |-> k, ms |-> clock]]
                          /\ pc' = [pc EXCEPT ![c] = "add"]
                          /\ UNCHANGED <<store, comm, clock, call, chan, todo, ids, left>>
    BY <1>2 DEF XAddClock, Goto
  <2>2. [key |-> k, ms |-> clock] \in [key : Keys, ms : Nat] /\ [key |-> k, ms |-> clock] # None
    BY NoneAssumption DEF TypeOK
  <2> QED
    BY <2>1, <2>2 DEF TypeOK, PCs, store, comm
<1>3. CASE XAddAuto(c)
  <2>1. add[c] \in [key : Keys, ms : Nat] /\ pc[c] = "add"
    BY <1>3 DEF TypeOK, XAddAuto
  <2>2. /\ stream' \in [Keys -> Seq(Ids)] /\ waiters' \in [Keys -> Seq(Chans)]
        /\ sending' \in [Chans -> Nat]
    BY <1>3, <2>1, InsertType DEF XAddAuto, Seqs
  <2> QED
    BY <1>3, <2>1, <2>2 DEF XAddAuto, Goto, TypeOK, PCs
<1> QED
  BY <1>1, <1>2, <1>3

LEMMA RegisteringType ==
  ASSUME TypeOK, NEW c \in Conns, Begin(c) \/ Register(c)
  PROVE  TypeOK'
<1>1. CASE Begin(c)
  <2>1. PICK r \in Reads, ch \in Chans :
          /\ pc[c] = "idle"
          /\ call' = [call EXCEPT ![c] = r] /\ chan' = [chan EXCEPT ![c] = ch]
          /\ todo' = [todo EXCEPT ![c] = r.keys] /\ pc' = [pc EXCEPT ![c] = "register"]
          /\ full' = full \ {ch} /\ left' = left \ {ch}
          /\ UNCHANGED <<store, sending, clock, add, ids>>
    BY <1>1 DEF Begin, Goto
  <2>2. r # None /\ ch # None /\ r.keys \in Seq(Keys) /\ r.keys # <<>>
    BY NoneAssumption, ReadType
  <2> QED
    BY <2>1, <2>2 DEF TypeOK, PCs, store
<1>2. CASE Register(c)
  <2> DEFINE k  == Head(todo[c])
             id == IF call[c].from = Dollar THEN Top(k) ELSE call[c].from
             at == IF Len(todo[c]) = 1 THEN "read" ELSE "register"
  <2>1. /\ pc[c] = "register" /\ todo[c] \in Seq(Keys) /\ todo[c] # <<>>
        /\ call[c] \in Reads /\ chan[c] \in Chans
    BY <1>2, Reading DEF TypeOK, Register
  <2>2. k \in Keys /\ Tail(todo[c]) \in Seq(Keys) /\ (at = "register" => Tail(todo[c]) # <<>>)
    BY <2>1, TailFacts
  <2>3. id \in Ids
    BY <2>1, <2>2, TopType, ReadType
  <2>4. Append(waiters[k], chan[c]) \in Seq(Chans)
    BY <2>1, <2>2, AppendFacts DEF TypeOK
  <2>5. /\ waiters' = [waiters EXCEPT ![k] = Append(waiters[k], chan[c])]
        /\ ids' = [ids EXCEPT ![c][k] = id] /\ todo' = [todo EXCEPT ![c] = Tail(todo[c])]
        /\ pc' = [pc EXCEPT ![c] = at]
        /\ UNCHANGED <<stream, comm, clock, add, call, chan, left>>
    BY <1>2 DEF Register, Goto
  <2> HIDE DEF k, id
  <2>6. waiters' \in [Keys -> Seq(Chans)] /\ ids' \in [Conns -> [Keys -> Ids]]
    BY <2>2, <2>3, <2>4, <2>5 DEF TypeOK
  <2>7. at \in {"read", "register"}
    OBVIOUS
  <2> HIDE DEF at
  <2>8. /\ todo' \in [Conns -> Seq(Keys)] /\ pc' \in [Conns -> PCs]
        /\ \A d \in Conns : pc'[d] \in {"register", "cleanup"} => todo'[d] # <<>>
    BY <2>2, <2>5, <2>7 DEF TypeOK, PCs
  <2> QED
    BY <2>1, <2>5, <2>6, <2>7, <2>8 DEF TypeOK, comm
<1> QED
  BY <1>1, <1>2

LEMMA SleepingType ==
  ASSUME TypeOK, NEW c \in Conns, ReadAtOnce(c) \/ ReadFails(c) \/ Park(c) \/ Wake(c) \/ Timeout(c)
  PROVE  TypeOK'
<1>1. CASE ReadAtOnce(c)
  <2>1. pc[c] \notin {"idle", "add"} /\ left' = left \union {chan[c]} /\ Return(c)
        /\ UNCHANGED <<store, comm, clock, add>>
    BY <1>1 DEF ReadAtOnce
  <2>2. left' \in SUBSET Chans
    BY <2>1, Reading DEF TypeOK
  <2> QED
    BY <2>1, <2>2, ReturnType DEF TypeOK, store, comm
<1>2. CASE ReadFails(c) \/ Timeout(c)
  <2>1. /\ pc[c] \notin {"idle", "add"} /\ CleanAll(c, "cleanup")
        /\ UNCHANGED <<store, comm, clock, add, call, chan, ids, left>>
    BY <1>2 DEF ReadFails, Timeout
  <2> QED
    BY <2>1, Reading DEF TypeOK, PCs, CleanAll, Goto, store, comm
<1>3. CASE Park(c)
  BY <1>3 DEF Park, TypeOK, PCs, Goto, store, comm
<1>4. CASE Wake(c)
  <2>1. /\ pc[c] \notin {"idle", "add"} /\ CleanAll(c, "woken") /\ full' \in SUBSET Chans
        /\ UNCHANGED <<store, sending, clock, add, call, chan, ids, left>>
    BY <1>4 DEF Wake, TypeOK
  <2> QED
    BY <2>1, Reading DEF TypeOK, PCs, CleanAll, Goto, store
<1> QED
  BY <1>1, <1>2, <1>3, <1>4

LEMMA EndingType ==
  ASSUME TypeOK, NEW c \in Conns, CleanUpExpiredKeyWaiter(c) \/ Reread(c)
  PROVE  TypeOK'
<1>1. CASE CleanUpExpiredKeyWaiter(c)
  <2> DEFINE k == Head(todo[c])
  <2>1. /\ pc[c] \in {"cleanup", "woken"} /\ todo[c] \in Seq(Keys) /\ todo[c] # <<>>
        /\ waiters' = [waiters EXCEPT ![k] = Without(waiters[k], chan[c])]
        /\ UNCHANGED <<stream, comm, clock, add, left>>
    BY <1>1, Reading DEF CleanUpExpiredKeyWaiter
  <2>2. k \in Keys /\ Tail(todo[c]) \in Seq(Keys) /\ (Len(todo[c]) # 1 => Tail(todo[c]) # <<>>)
    BY <2>1, TailFacts
  <2>3. waiters' \in [Keys -> Seq(Chans)]
    BY <2>1, <2>2, WithoutFacts DEF TypeOK
  <2>4. CASE Len(todo[c]) = 1 /\ pc[c] = "cleanup"
    <3>1. Return(c)
      BY <1>1, <2>4 DEF CleanUpExpiredKeyWaiter
    <3> QED
      BY <2>1, <2>3, <3>1, ReturnType DEF TypeOK, comm
  <2>5. CASE ~(Len(todo[c]) = 1 /\ pc[c] = "cleanup")
    <3>1. todo' = [todo EXCEPT ![c] = Tail(todo[c])] /\ UNCHANGED <<pc, call, chan, ids>>
      BY <1>1, <2>5 DEF CleanUpExpiredKeyWaiter
    <3>2. /\ todo' \in [Conns -> Seq(Keys)]
          /\ \A d \in Conns : pc[d] \in {"register", "cleanup"} => todo'[d] # <<>>
      BY <2>1, <2>2, <2>5, <3>1 DEF TypeOK
    <3> QED
      BY <2>1, <2>3, <3>1, <3>2 DEF TypeOK, comm
  <2> QED
    BY <2>4, <2>5
<1>2. CASE Reread(c)
  <2>1. pc[c] \notin {"idle", "add"} /\ Return(c) /\ UNCHANGED <<store, comm, clock, add, left>>
    BY <1>2 DEF Reread
  <2> QED
    BY <2>1, ReturnType DEF TypeOK, store, comm
<1> QED
  BY <1>1, <1>2

LEMMA StepType == TypeOK /\ [Next]_vars => TypeOK'
<1> SUFFICES ASSUME TypeOK, [Next]_vars
             PROVE  TypeOK'
  OBVIOUS
<1>1. CASE Tick
  BY <1>1 DEF Tick, TypeOK, store, comm, proc
<1>2. ASSUME NEW c \in Conns, Client(c) \/ Handler(c)
      PROVE  TypeOK'
  BY <1>2, AddingType, RegisteringType, SleepingType, EndingType DEF Client, Handler
<1>3. ASSUME NEW ch \in Chans, Send(ch)
      PROVE  TypeOK'
  BY <1>3 DEF Send, TypeOK, store, proc
<1>4. CASE UNCHANGED vars
  BY <1>4 DEF vars, store, comm, proc, TypeOK
<1> QED
  BY <1>1, <1>2, <1>3, <1>4 DEF Next

\* XADDs, XREADs and their goroutines keep the types of the Store and of the handlers.
THEOREM TypeCorrect == Spec => []TypeOK
<1> QED
  BY InitType, StepType, PTL DEF Spec

-------------------------------------------------------------------------------
(* IDs.                                                                    *)

LEMMA LessIsTransitive ==
  ASSUME NEW a \in Ids, NEW b \in Ids, NEW d \in Ids, Less(a, b), Less(b, d)
  PROVE  Less(a, d)
BY DEF Ids, Less

\* An accepted ID that parses is above the last one.
LEMMA AcceptedIsAbove ==
  ASSUME NEW last \in Ids, NEW ms \in Nat, NEW seq \in Seqs, Accepts(last, ms, seq),
         FinalSeq(last, ms, seq) >= 0
  PROVE  Less(last, [ms |-> ms, seq |-> FinalSeq(last, ms, seq)])
<1>1. last.ms \in Nat /\ last.seq \in Int /\ MaxSeq \in Nat
  BY MaxSeqAssumption DEF Ids
<1>2. CASE seq = Star
  <2>1. ms >= last.ms /\ (ms = last.ms => FinalSeq(last, ms, seq) = Succ(last.seq))
    BY <1>2 DEF Accepts, FinalSeq
  <2>2. ms = last.ms => FinalSeq(last, ms, seq) = last.seq + 1
    BY <1>1, <2>1 DEF Succ
  <2> HIDE DEF FinalSeq
  <2> QED
    BY <1>1, <2>1, <2>2 DEF Less
<1>3. CASE seq # Star
  BY <1>3 DEF Accepts, FinalSeq
<1> QED
  BY <1>2, <1>3

\* Appending an ID above the last keeps the order.
LEMMA AppendIncreases ==
  ASSUME NEW s \in Seq(Ids), NEW e \in Ids,
         Less(IF s = <<>> THEN Zero ELSE s[Len(s)], e),
         \A i \in DOMAIN s : Less(Zero, s[i]) /\ \A j \in 1 .. i - 1 : Less(s[j], s[i])
  PROVE  \A i \in DOMAIN Append(s, e) :
           /\ Less(Zero, Append(s, e)[i])
           /\ \A j \in 1 .. i - 1 : Less(Append(s, e)[j], Append(s, e)[i])
<1>1. /\ Len(s) \in Nat /\ DOMAIN s = 1 .. Len(s) /\ DOMAIN Append(s, e) = 1 .. Len(s) + 1
      /\ \A j \in DOMAIN s : Append(s, e)[j] = s[j]
      /\ Append(s, e)[Len(s) + 1] = e
  BY AppendFacts
<1>2. \A j \in DOMAIN s : s[j] \in Ids
  BY SeqDomain
<1>3. Zero \in Ids
  BY DEF Zero, Ids
<1>4. Less(Zero, e) /\ \A j \in 1 .. Len(s) : Less(s[j], e)
  <2>1. CASE s = <<>>
    BY <2>1
  <2>2. CASE s # <<>>
    <3>1. Len(s) \in DOMAIN s /\ Less(s[Len(s)], e)
      BY <1>1, <2>2, EmptySeq
    <3>2. \A j \in 1 .. Len(s) : j = Len(s) \/ j \in 1 .. Len(s) - 1
      <4>1. \A n \in Nat : \A j \in 1 .. n : j = n \/ j \in 1 .. n - 1
        OBVIOUS
      <4> QED
        BY <1>1, <4>1
    <3>3. \A j \in 1 .. Len(s) : j = Len(s) \/ Less(s[j], s[Len(s)])
      BY <3>1, <3>2
    <3> QED
      BY <1>1, <1>2, <1>3, <3>1, <3>3, LessIsTransitive
  <2> QED
    BY <2>1, <2>2
<1>5. \A i \in 1 .. Len(s) + 1 : i = Len(s) + 1 \/ i \in DOMAIN s
  BY <1>1
<1>6. ASSUME NEW i \in DOMAIN s
      PROVE  /\ Less(Zero, Append(s, e)[i])
             /\ \A j \in 1 .. i - 1 : Less(Append(s, e)[j], Append(s, e)[i])
  <2>1. \A j \in 1 .. i - 1 : j \in DOMAIN s
    BY <1>1
  <2> QED
    BY <1>1, <2>1
<1>7. \A j \in 1 .. Len(s) + 1 - 1 : j \in DOMAIN s
  BY <1>1
<1> QED
  BY <1>1, <1>4, <1>5, <1>6, <1>7

\* An appended entry that leaves the stream intact is above the last one, and the stream was intact.
LEMMA AppendedIsAbove ==
  ASSUME TypeOK, NEW k \in Keys, NEW ms \in Nat, NEW seq \in Seqs, Entry(k, ms, seq) \in Ids,
         Accepts(IF Parses(Top(k)) THEN Top(k) ELSE Zero, ms, seq),
         \A i \in DOMAIN Append(stream[k], Entry(k, ms, seq)) : Parses(Append(stream[k], Entry(k, ms, seq))[i])
  PROVE  /\ Parses(Entry(k, ms, seq)) /\ Less(Top(k), Entry(k, ms, seq))
         /\ \A i \in DOMAIN stream[k] : Parses(stream[k][i])
<1> DEFINE last == IF Parses(Top(k)) THEN Top(k) ELSE Zero
           e    == Entry(k, ms, seq)
           s    == stream[k]
<1>1. s \in Seq(Ids)
  BY DEF TypeOK
<1>2. Parses(e) /\ \A i \in DOMAIN s : Parses(s[i])
  <2>1. /\ Len(s) \in Nat /\ DOMAIN Append(s, e) = 1 .. Len(s) + 1 /\ DOMAIN s = 1 .. Len(s)
        /\ \A j \in DOMAIN s : Append(s, e)[j] = s[j]
        /\ Append(s, e)[Len(s) + 1] = e
    BY <1>1, AppendFacts
  <2>2. Len(s) + 1 \in DOMAIN Append(s, e) /\ DOMAIN s \subseteq DOMAIN Append(s, e)
    BY <2>1
  <2> QED
    BY <2>1, <2>2
<1>3. last = Top(k)
  <2>1. s # <<>> => Len(s) \in DOMAIN s
    BY <1>1, EmptySeq, SeqDomain
  <2> QED
    BY <1>2, <2>1 DEF Top, Zero, Parses
<1>4. last \in Ids
  BY TopType
<1>5. e = [ms |-> ms, seq |-> FinalSeq(last, ms, seq)]
  BY DEF Entry
<1>6. FinalSeq(last, ms, seq) >= 0
  BY <1>2, <1>5 DEF Parses
<1> HIDE DEF last, e
<1>7. Less(last, e)
  BY <1>4, <1>5, <1>6, AcceptedIsAbove DEF last
<1> QED
  BY <1>2, <1>3, <1>7 DEF e

LEMMA InsertIncreases ==
  ASSUME TypeOK, IdsIncrease, NEW k \in Keys, NEW ms \in Nat, NEW seq \in Seqs, Insert(k, ms, seq)
  PROVE  IdsIncrease'
<1> DEFINE last == IF Parses(Top(k)) THEN Top(k) ELSE Zero
           e    == Entry(k, ms, seq)
           s    == stream[k]
<1>1. CASE UNCHANGED stream
  BY <1>1 DEF IdsIncrease, Intact
<1>2. CASE /\ e \in Ids /\ Accepts(last, ms, seq)
           /\ stream' = [stream EXCEPT ![k] = Append(s, e)]
  <2>1. s \in Seq(Ids) /\ stream \in [Keys -> Seq(Ids)]
    BY DEF TypeOK
  <2>2. \A h \in Keys : stream'[h] = IF h = k THEN Append(s, e) ELSE stream[h]
    BY <1>2, <2>1
  <2>3. ASSUME \A i \in DOMAIN Append(s, e) : Parses(Append(s, e)[i])
        PROVE  \A i \in DOMAIN Append(s, e) :
                 /\ Less(Zero, Append(s, e)[i])
                 /\ \A j \in 1 .. i - 1 : Less(Append(s, e)[j], Append(s, e)[i])
    <3>1. Less(Top(k), e) /\ \A i \in DOMAIN s : Parses(s[i])
      BY <1>2, <2>3, AppendedIsAbove
    <3>2. Less(IF s = <<>> THEN Zero ELSE s[Len(s)], e)
      BY <3>1 DEF Top
    <3>3. \A i \in DOMAIN s : Less(Zero, s[i]) /\ \A j \in 1 .. i - 1 : Less(s[j], s[i])
      BY <3>1 DEF IdsIncrease, Intact
    <3> HIDE DEF e, s
    <3> QED
      BY <1>2, <2>1, <3>2, <3>3, AppendIncreases
  <2> HIDE DEF e, s
  <2>4. ASSUME NEW h \in Keys, Intact(h)', NEW i \in DOMAIN stream'[h]
        PROVE  /\ Less(Zero, stream'[h][i])
               /\ \A j \in 1 .. i - 1 : Less(stream'[h][j], stream'[h][i])
    <3>1. CASE h = k
      BY <2>2, <2>3, <2>4, <3>1 DEF Intact
    <3>2. CASE h # k
      BY <2>2, <2>4, <3>2 DEF IdsIncrease, Intact
    <3> QED
      BY <3>1, <3>2
  <2> QED
    BY <2>4 DEF IdsIncrease
<1> QED
  BY <1>1, <1>2, InsertFacts

\* Only XADD changes a stream.
LEMMA OthersKeepStreams ==
  ASSUME [Next]_vars
  PROVE  \/ UNCHANGED stream
         \/ \E c \in Conns : XAdd(c) \/ XAddAuto(c)
<1>1. ASSUME NEW c \in Conns, Client(c) \/ Handler(c)
      PROVE  UNCHANGED stream \/ XAdd(c) \/ XAddAuto(c)
  BY <1>1 DEF Client, Handler, XAddClock, Begin, Register, ReadAtOnce, ReadFails, Park, Wake, Timeout,
              CleanUpExpiredKeyWaiter, Reread, store
<1> QED
  BY <1>1 DEF Next, Tick, Send, vars, store

\* The parameters with which an XADD comes to its section.
LEMMA AddInserts ==
  ASSUME TypeOK, NEW c \in Conns, XAdd(c) \/ XAddAuto(c)
  PROVE  \E k \in Keys, ms \in Nat, seq \in Seqs : Insert(k, ms, seq)
<1>1. CASE XAdd(c)
  BY <1>1, AddType DEF XAdd, Seqs
<1>2. CASE XAddAuto(c)
  <2>1. add[c].key \in Keys /\ add[c].ms \in Nat
    BY <1>2 DEF XAddAuto, TypeOK
  <2> QED
    BY <1>2, <2>1 DEF XAddAuto, Seqs
<1> QED
  BY <1>1, <1>2

\* "must be strictly greater than last" (XAdd), for clients, clocks and "*" in any order: the IDs
\* of a stream increase from above 0-0, as long as no sequence number has overflowed.
THEOREM StreamsIncrease == Spec => []IdsIncrease
<1>1. Init => IdsIncrease
  BY DEF Init, IdsIncrease
<1>2. TypeOK /\ IdsIncrease /\ [Next]_vars => IdsIncrease'
  <2> SUFFICES ASSUME TypeOK, IdsIncrease, [Next]_vars
               PROVE  IdsIncrease'
    OBVIOUS
  <2>1. CASE UNCHANGED stream
    BY <2>1 DEF IdsIncrease, Intact
  <2>2. ASSUME NEW c \in Conns, XAdd(c) \/ XAddAuto(c)
        PROVE  IdsIncrease'
    BY <2>2, AddInserts, InsertIncreases
  <2> QED
    BY <2>1, <2>2, OthersKeepStreams
<1> QED
  BY <1>1, <1>2, TypeCorrect, PTL DEF Spec

-------------------------------------------------------------------------------
(* Queues.                                                                 *)

Distinct(s) == \A i, j \in DOMAIN s : s[i] = s[j] => i = j

LEMMA EmptyElems == Elems(<<>>) = {} /\ Distinct(<<>>)
BY DEF Elems, Distinct

LEMMA AppendElems ==
  ASSUME NEW S, NEW s \in Seq(S), NEW e \in S
  PROVE  /\ Elems(Append(s, e)) = Elems(s) \union {e}
         /\ Distinct(s) /\ e \notin Elems(s) => Distinct(Append(s, e))
<1> DEFINE t == Append(s, e)
<1>1. /\ DOMAIN t = 1 .. Len(s) + 1 /\ DOMAIN s = 1 .. Len(s) /\ Len(s) \in Nat
      /\ \A j \in DOMAIN s : t[j] = s[j]
      /\ t[Len(s) + 1] = e
  BY AppendFacts
<1>2. \A j \in DOMAIN t : j \in DOMAIN s \/ j = Len(s) + 1
  BY <1>1
<1>3. Len(s) + 1 \in DOMAIN t /\ \A j \in DOMAIN s : j \in DOMAIN t
  BY <1>1
<1> HIDE DEF t
<1>4. Elems(t) = Elems(s) \union {e}
  BY <1>1, <1>2, <1>3, Zenon DEF Elems
<1>5. ASSUME Distinct(s), e \notin Elems(s)
      PROVE  Distinct(t)
  BY <1>1, <1>2, <1>5, Zenon DEF Distinct, Elems
<1> QED
  BY <1>4, <1>5 DEF t

LEMMA TailElems ==
  ASSUME NEW S, NEW s \in Seq(S), s # <<>>
  PROVE  /\ Elems(s) = {Head(s)} \union Elems(Tail(s))
         /\ Distinct(s) => Distinct(Tail(s)) /\ Head(s) \notin Elems(Tail(s))
<1> DEFINE t == Tail(s)
<1>1. /\ Head(s) = s[1] /\ 1 \in DOMAIN s /\ t \in Seq(S)
      /\ \A j \in DOMAIN t : j + 1 \in DOMAIN s /\ j # 0 /\ t[j] = s[j + 1]
      /\ \A j \in DOMAIN s : j = 1 \/ (j - 1 \in DOMAIN t /\ t[j - 1] = s[j])
  BY TailFacts
<1>2. \A j \in DOMAIN t : j \in Nat /\ j + 1 # 1
  BY <1>1, SeqDomain
<1> HIDE DEF t
<1>3. Elems(s) = {s[1]} \union Elems(t)
  BY <1>1 DEF Elems
<1>4. ASSUME Distinct(s)
      PROVE  Distinct(t) /\ s[1] \notin Elems(t)
  <2>1. s[1] \notin Elems(t)
    BY <1>1, <1>2, <1>4 DEF Distinct, Elems
  <2>2. ASSUME NEW i \in DOMAIN t, NEW j \in DOMAIN t, t[i] = t[j]
        PROVE  i = j
    <3>1. i + 1 = j + 1
      BY <1>1, <1>4, <2>2 DEF Distinct
    <3> QED
      BY <1>2, <3>1
  <2> QED
    BY <2>1, <2>2 DEF Distinct
<1> QED
  BY <1>1, <1>3, <1>4 DEF t

LEMMA WithoutElems ==
  ASSUME NEW S, NEW s \in Seq(S), NEW ch, Distinct(s)
  PROVE  Elems(Without(s, ch)) = Elems(s) \ {ch} /\ Distinct(Without(s, ch))
<1> DEFINE t == Without(s, ch)
<1>1. CASE ch \notin Elems(s)
  BY <1>1, WithoutFacts
<1>2. CASE ch \in Elems(s)
  <2>1. PICK p \in DOMAIN s :
          /\ s[p] = ch
          /\ DOMAIN t = 1 .. Len(s) - 1 /\ DOMAIN s = 1 .. Len(s) /\ Len(s) \in Nat
          /\ \A j \in 1 .. Len(s) - 1 : t[j] = IF j < p THEN s[j] ELSE s[j + 1]
    BY <1>2, WithoutFacts
  <2> HIDE DEF t
  <2> DEFINE Old(j) == IF j < p THEN j ELSE j + 1
             New(i) == IF i < p THEN i ELSE i - 1
  <2>2. \A j \in DOMAIN t : Old(j) \in DOMAIN s /\ Old(j) # p /\ t[j] = s[Old(j)]
    BY <2>1
  <2>3. \A i \in DOMAIN s : i # p => New(i) \in DOMAIN t /\ Old(New(i)) = i
    BY <2>1
  <2>4. \A i, j \in DOMAIN t : Old(i) = Old(j) => i = j
    BY <2>1
  <2> HIDE DEF Old, New
  <2>5. \A i \in DOMAIN s : s[i] = ch => i = p
    BY <2>1 DEF Distinct
  <2>6. Elems(t) = Elems(s) \ {ch}
    BY <2>1, <2>2, <2>3, <2>5 DEF Elems
  <2>7. Distinct(t)
    BY <2>2, <2>4 DEF Distinct
  <2> QED
    BY <2>6, <2>7 DEF t
<1> QED
  BY <1>1, <1>2

\* The channel of c is queued for k.
In(c, k) == chan[c] \in Elems(waiters[k])

\* c has been told, or is about to be.
Told(c) == chan[c] \in full \/ sending[chan[c]] > 0

\* Between the first registration and the end of the cleanup.
InCall(c) == pc[c] \notin {"idle", "add"}

\* No two handlers share a channel.
OneOwner == \A c, d \in Conns : chan[c] = chan[d] /\ chan[c] # None => c = d

\* The loops of handleXREAD go through the keys of the call once, and the queues the channel is in
\* are those that they have done, or have still to do.
QueuedByLoops(c) ==
  InCall(c) =>
    /\ Distinct(todo[c]) /\ Elems(todo[c]) \subseteq Elems(call[c].keys)
    /\ \A k \in Keys : In(c, k) =>
         /\ k \in Elems(call[c].keys)
         /\ pc[c] = "register" => k \notin Elems(todo[c])
         /\ pc[c] \in {"cleanup", "woken"} => k \in Elems(todo[c])

\* A handler that is about to look, or sleeps, is still queued for its keys or has been told.
Alert(c) ==
  pc[c] \in {"register", "read", "parked"} =>
    \A k \in Elems(call[c].keys) :
      (pc[c] = "register" /\ k \in Elems(todo[c])) \/ In(c, k) \/ Told(c)

\* While it is queued for a key nothing has come for it since it looked.
Nothing(c) == pc[c] = "parked" => \A k \in Keys : In(c, k) => Above(k, ids[c][k]) = {}

QueueInv ==
  /\ QueuesNameReaders /\ OneOwner
  /\ \A c \in Conns : QueuedByLoops(c) /\ Alert(c) /\ Nothing(c)

LEMMA QueueInvNames == QueueInv => QueuesNameReaders
BY DEF QueueInv

Owned(k, ch) == ch \in left \/ \E c \in Conns : chan[c] = ch /\ k \in Elems(call[c].keys)

LEMMA QueuesByElems ==
  QueuesNameReaders <=>
    \A k \in Keys : Distinct(waiters[k]) /\ \A ch \in Elems(waiters[k]) : Owned(k, ch)
BY DEF QueuesNameReaders, Distinct, Elems, Owned

LEMMA QueuesByElemsNext ==
  QueuesNameReaders' <=>
    \A k \in Keys : Distinct(waiters[k])' /\ \A ch \in Elems(waiters'[k]) : Owned(k, ch)'
BY DEF QueuesNameReaders, Distinct, Elems, Owned

\* Channels that were queued stay owned when their handlers stay in the call, or leave them.
LEMMA StillOwned ==
  ASSUME QueuesNameReaders, NEW k \in Keys, NEW ch \in Elems(waiters[k]), ch \in left => ch \in left',
         \A d \in Conns : \/ chan'[d] = chan[d] /\ call'[d] = call[d]
                          \/ chan[d] # ch
                          \/ chan[d] \in left'
  PROVE  Owned(k, ch)'
<1>1. Owned(k, ch)
  BY QueuesByElems
<1>2. CASE ch \in left
  BY <1>2 DEF Owned
<1>3. ASSUME NEW c \in Conns, chan[c] = ch, k \in Elems(call[c].keys)
      PROVE  Owned(k, ch)'
  BY <1>3 DEF Owned
<1> QED
  BY <1>1, <1>2, <1>3 DEF Owned

Same(d) == /\ pc'[d] = pc[d] /\ call'[d] = call[d] /\ chan'[d] = chan[d] /\ todo'[d] = todo[d]
           /\ ids'[d] = ids[d]

\* What a step must not do to a handler it does not run.
LEMMA Bystander ==
  ASSUME TypeOK, NEW d \in Conns, QueuedByLoops(d), Alert(d), Nothing(d),
         InCall(d) =>
           /\ Same(d)
           /\ \A k \in Keys : In(d, k)' => In(d, k) /\ stream'[k] = stream[k]
           /\ \A k \in Keys : In(d, k) => In(d, k)' \/ Told(d)'
           /\ Told(d) => Told(d)',
         ~InCall(d) => pc'[d] \in {"idle", "add"}
  PROVE  QueuedByLoops(d)' /\ Alert(d)' /\ Nothing(d)'
<1>1. CASE ~InCall(d)
  BY <1>1 DEF InCall, QueuedByLoops, Alert, Nothing
<1>2. CASE InCall(d)
  <2>1. Elems(call[d].keys) \subseteq Keys
    BY <1>2, Reading, ElemsType DEF InCall
  <2>2. QueuedByLoops(d)'
    BY <1>2 DEF QueuedByLoops, Same, InCall
  <2>3. Alert(d)'
    BY <1>2, <2>1 DEF Alert, Same, InCall
  <2>4. Nothing(d)'
    <3>1. ASSUME NEW k \in Keys, pc'[d] = "parked", In(d, k)'
          PROVE  Above(k, ids[d][k])' = {}
      <4>1. Above(k, ids[d][k]) = {} /\ stream'[k] = stream[k] /\ ids'[d] = ids[d]
        BY <1>2, <3>1 DEF Nothing, Same
      <4> QED
        BY <4>1 DEF Above
    <3> QED
      BY <3>1 DEF Nothing
  <2> QED
    BY <2>2, <2>3, <2>4
<1> QED
  BY <1>1, <1>2

LEMMA InitQueues == Init => QueueInv
BY EmptyElems DEF Init, QueueInv, QueuesNameReaders, OneOwner, QueuedByLoops, Alert, Nothing, InCall

\* A step that leaves the handlers and the queues alone, and untells nobody.
LEMMA QuietQueues ==
  ASSUME TypeOK, QueueInv, UNCHANGED <<store, call, chan, todo, ids, left>>,
         \A d \in Conns : (InCall(d) => pc'[d] = pc[d]) /\ (~InCall(d) => pc'[d] \in {"idle", "add"}),
         \A d \in Conns : InCall(d) => (Told(d) => Told(d)')
  PROVE  QueueInv'
<1>1. QueuesNameReaders'
  BY DEF QueueInv, QueuesNameReaders, store
<1>2. OneOwner'
  BY DEF QueueInv, OneOwner
<1>3. \A d \in Conns : QueuedByLoops(d)' /\ Alert(d)' /\ Nothing(d)'
  BY Bystander DEF QueueInv, Same, In, store
<1> QED
  BY <1>1, <1>2, <1>3 DEF QueueInv

\* XADD's section empties a queue and tells everyone in it.
LEMMA InsertQueues ==
  ASSUME TypeOK, QueueInv, NEW k \in Keys, NEW ms \in Nat, NEW seq \in Seqs, Insert(k, ms, seq),
         UNCHANGED <<full, call, chan, todo, ids, left>>,
         \A d \in Conns : (InCall(d) => pc'[d] = pc[d]) /\ (~InCall(d) => pc'[d] \in {"idle", "add"})
  PROVE  QueueInv'
<1>1. CASE UNCHANGED <<stream, waiters, sending>>
  BY <1>1, QuietQueues DEF Told, store
<1>2. CASE /\ stream' = [stream EXCEPT ![k] = Append(stream[k], Entry(k, ms, seq))]
           /\ Notify(k)
  <2>1. /\ waiters' = [waiters EXCEPT ![k] = <<>>] /\ sending' \in [Chans -> Nat]
        /\ \A ch \in Chans : sending'[ch] >= sending[ch]
        /\ \A ch \in Elems(waiters[k]) : ch \in Chans /\ sending'[ch] > 0
    BY <1>2, NotifyFacts
  <2>2. \A h \in Keys : /\ h = k => waiters'[h] = <<>>
                        /\ h # k => waiters'[h] = waiters[h] /\ stream'[h] = stream[h]
    BY <1>2, <2>1 DEF TypeOK
  <2>3. QueuesNameReaders'
    <3>1. ASSUME NEW h \in Keys
          PROVE  Distinct(waiters[h])' /\ \A ch \in Elems(waiters'[h]) : Owned(h, ch)'
      <4>1. CASE h = k
        BY <2>2, <4>1, EmptyElems DEF Distinct
      <4>2. CASE h # k
        BY <2>2, <4>2, QueueInvNames, QueuesByElems, StillOwned DEF Distinct
      <4> QED
        BY <4>1, <4>2
    <3> QED
      BY <3>1, QueuesByElemsNext
  <2>4. OneOwner'
    BY DEF QueueInv, OneOwner
  <2>5. ASSUME NEW d \in Conns
        PROVE  QueuedByLoops(d)' /\ Alert(d)' /\ Nothing(d)'
    <3>1. \A h \in Keys : In(d, h)' => In(d, h) /\ stream'[h] = stream[h]
      BY <2>2, EmptyElems DEF In
    <3>2. ASSUME InCall(d), NEW h \in Keys, In(d, h)
          PROVE  In(d, h)' \/ Told(d)'
      BY <2>1, <2>2, <3>2 DEF In, Told
    <3>3. ASSUME InCall(d), Told(d)
          PROVE  Told(d)'
      <4>1. chan[d] \in Chans /\ sending \in [Chans -> Nat]
        BY <3>3, Reading DEF InCall, TypeOK
      <4>2. sending[chan[d]] > 0 => sending'[chan[d]] > 0
        BY <2>1, <4>1
      <4> QED
        BY <3>3, <4>2 DEF Told
    <3> QED
      BY <3>1, <3>2, <3>3, Bystander DEF QueueInv, Same
  <2> QED
    BY <2>3, <2>4, <2>5 DEF QueueInv
<1> QED
  BY <1>1, <1>2, InsertFacts

LEMMA AddingQueues ==
  ASSUME TypeOK, QueueInv, NEW c \in Conns, XAdd(c) \/ XAddClock(c) \/ XAddAuto(c)
  PROVE  QueueInv'
<1>1. CASE XAdd(c)
  <2>1. PICK k \in Keys, ms \in Nat, seq \in Seqs : Insert(k, ms, seq)
    BY <1>1, AddInserts
  <2>2. UNCHANGED <<full, pc, call, chan, todo, ids, left>>
    BY <1>1 DEF XAdd, proc
  <2> QED
    BY <2>1, <2>2, InsertQueues DEF InCall
<1>2. CASE XAddClock(c)
  <2>1. pc[c] = "idle" /\ pc' = [pc EXCEPT ![c] = "add"]
        /\ UNCHANGED <<store, comm, call, chan, todo, ids, left>>
    BY <1>2 DEF XAddClock, Goto
  <2>2. \A d \in Conns : (InCall(d) => pc'[d] = pc[d]) /\ (~InCall(d) => pc'[d] \in {"idle", "add"})
    BY <2>1 DEF InCall, TypeOK
  <2> QED
    BY <2>1, <2>2, QuietQueues DEF Told, comm
<1>3. CASE XAddAuto(c)
  <2>1. PICK k \in Keys, ms \in Nat, seq \in Seqs : Insert(k, ms, seq)
    BY <1>3, AddInserts
  <2>2. pc[c] = "add" /\ pc' = [pc EXCEPT ![c] = "idle"]
        /\ UNCHANGED <<full, call, chan, todo, ids, left>>
    BY <1>3 DEF XAddAuto, Goto
  <2>3. \A d \in Conns : (InCall(d) => pc'[d] = pc[d]) /\ (~InCall(d) => pc'[d] \in {"idle", "add"})
    BY <2>2 DEF InCall, TypeOK
  <2> QED
    BY <2>1, <2>2, <2>3, InsertQueues
<1> QED
  BY <1>1, <1>2, <1>3

LEMMA SendQueues ==
  ASSUME TypeOK, QueueInv, NEW ch \in Chans, Send(ch)
  PROVE  QueueInv'
<1>1. /\ full' = full \union {ch} /\ sending' = [sending EXCEPT ![ch] = sending[ch] - 1]
      /\ UNCHANGED <<store, pc, call, chan, todo, ids, left>>
  BY DEF Send, proc
<1>2. ASSUME NEW d \in Conns, InCall(d), Told(d)
      PROVE  Told(d)'
  <2>1. chan[d] \in Chans
    BY <1>2, Reading DEF InCall
  <2> QED
    BY <1>1, <1>2, <2>1 DEF Told, TypeOK
<1> QED
  BY <1>1, <1>2, QuietQueues DEF InCall

\* What a handler in a call does concerns its own channel only.
LEMMA OthersKeep ==
  ASSUME TypeOK, QueueInv, NEW c \in Conns, InCall(c), NEW d \in Conns \ {c}, Same(d),
         stream' = stream, sending' = sending, \A ch \in full : ch = chan[c] \/ ch \in full',
         \A k \in Keys : \A ch : ch # chan[c] => (ch \in Elems(waiters'[k]) <=> ch \in Elems(waiters[k]))
  PROVE  QueuedByLoops(d)' /\ Alert(d)' /\ Nothing(d)'
<1>1. CASE ~InCall(d)
  BY <1>1, Bystander DEF QueueInv, Same, InCall
<1>2. CASE InCall(d)
  <2>1. chan[d] # chan[c]
    BY <1>2, Reading DEF QueueInv, OneOwner, InCall
  <2>2. \A k \in Keys : In(d, k)' <=> In(d, k)
    BY <2>1 DEF In, Same
  <2>3. Told(d) => Told(d)'
    BY <2>1 DEF Told, Same
  <2> QED
    BY <1>2, <2>2, <2>3, Bystander DEF QueueInv
<1> QED
  BY <1>1, <1>2

LEMMA BeginQueues ==
  ASSUME TypeOK, QueueInv, NEW c \in Conns, Begin(c)
  PROVE  QueueInv'
<1>1. PICK r \in Reads, ch \in Chans :
        /\ pc[c] = "idle" /\ Fresh(ch)
        /\ call' = [call EXCEPT ![c] = r] /\ chan' = [chan EXCEPT ![c] = ch]
        /\ todo' = [todo EXCEPT ![c] = r.keys] /\ pc' = [pc EXCEPT ![c] = "register"]
        /\ full' = full \ {ch} /\ left' = left \ {ch}
        /\ UNCHANGED <<store, sending, ids>>
  BY DEF Begin, Goto
<1>2. chan[c] = None /\ \A d \in Conns : chan[d] # ch
  BY <1>1 DEF TypeOK, Fresh
<1>3. \A k \in Keys : waiters'[k] = waiters[k] /\ stream'[k] = stream[k] /\ ch \notin Elems(waiters[k])
                      /\ Elems(waiters[k]) \subseteq Chans
  BY <1>1, ElemsType DEF Fresh, store, TypeOK
<1>4. \A d \in Conns \ {c} : Same(d)
  BY <1>1 DEF Same, TypeOK
<1>5. chan'[c] = ch /\ call'[c] = r /\ todo'[c] = r.keys /\ pc'[c] = "register"
  BY <1>1 DEF TypeOK
<1>6. QueuesNameReaders'
  <2>1. ASSUME NEW k \in Keys, NEW h \in Elems(waiters[k])
        PROVE  Owned(k, h)'
    <3>1. h # ch /\ h \in Chans
      BY <1>3
    <3>2. chan[c] # h
      BY <1>2, <3>1, NoneAssumption
    <3> QED
      BY <1>1, <1>4, <3>1, <3>2, QueueInvNames, StillOwned DEF Same
  <2> QED
    BY <1>3, <2>1, QueueInvNames, QueuesByElems, QueuesByElemsNext DEF Distinct
<1>7. OneOwner'
  BY <1>2, <1>4, <1>5 DEF QueueInv, OneOwner, Same
<1>8. ASSUME NEW d \in Conns \ {c}
      PROVE  QueuedByLoops(d)' /\ Alert(d)' /\ Nothing(d)'
  <2>1. \A k \in Keys : In(d, k)' <=> In(d, k)
    BY <1>3, <1>4 DEF In, Same
  <2>2. Told(d) => Told(d)'
    BY <1>1, <1>2, <1>4 DEF Told, Same
  <2> QED
    BY <1>1, <1>3, <1>4, <2>1, <2>2, Bystander DEF QueueInv, Same, InCall
<1>9. QueuedByLoops(c)' /\ Alert(c)' /\ Nothing(c)'
  <2>1. \A k \in Keys : ~In(c, k)'
    BY <1>3, <1>5 DEF In
  <2>2. Distinct(r.keys)
    BY ReadType DEF Distinct
  <2>3. QueuedByLoops(c)'
    BY <1>5, <2>1, <2>2 DEF QueuedByLoops, Distinct
  <2>4. Alert(c)' /\ Nothing(c)'
    BY <1>5 DEF Alert, Nothing
  <2> QED
    BY <2>3, <2>4
<1> QED
  BY <1>6, <1>7, <1>8, <1>9 DEF QueueInv

\* A step of a handler that goes on with its call.
LEMMA StaysInCall ==
  ASSUME TypeOK, QueueInv, NEW c \in Conns, InCall(c), UNCHANGED <<stream, sending, call, chan, left>>,
         \A d \in Conns \ {c} : Same(d),
         \A ch \in full : ch = chan[c] \/ ch \in full',
         \A k \in Keys : \A ch : ch # chan[c] => (ch \in Elems(waiters'[k]) <=> ch \in Elems(waiters[k])),
         \A k \in Keys : Distinct(waiters'[k]),
         \A k \in Keys : chan[c] \in Elems(waiters'[k]) => k \in Elems(call[c].keys),
         QueuedByLoops(c)', Alert(c)', Nothing(c)'
  PROVE  QueueInv'
<1>1. QueuesNameReaders'
  <2>1. ASSUME NEW k \in Keys, NEW ch \in Elems(waiters'[k])
        PROVE  Owned(k, ch)'
    <3>1. CASE ch = chan[c]
      BY <2>1, <3>1 DEF Owned
    <3>2. CASE ch # chan[c]
      BY <2>1, <3>2, QueueInvNames, StillOwned
    <3> QED
      BY <3>1, <3>2
  <2>2. \A k \in Keys : Distinct(waiters[k])'
    BY DEF Distinct
  <2> QED
    BY <2>1, <2>2, QueuesByElemsNext
<1>2. OneOwner'
  BY DEF QueueInv, OneOwner
<1>3. \A d \in Conns \ {c} : QueuedByLoops(d)' /\ Alert(d)' /\ Nothing(d)'
  BY OthersKeep
<1> QED
  BY <1>1, <1>2, <1>3 DEF QueueInv

\* A step of a handler that leaves its call, and its channel in no queue or remembered as left.
LEMMA LeavesCall ==
  ASSUME TypeOK, QueueInv, NEW c \in Conns, InCall(c), Return(c), UNCHANGED <<stream, comm>>,
         \A k \in Keys : \A ch : ch # chan[c] => (ch \in Elems(waiters'[k]) <=> ch \in Elems(waiters[k])),
         \A k \in Keys : Distinct(waiters'[k]),
         left \subseteq left',
         chan[c] \in left' \/ \A k \in Keys : chan[c] \notin Elems(waiters'[k])
  PROVE  QueueInv'
<1>1. /\ \A d \in Conns \ {c} : Same(d)
      /\ pc'[c] = "idle" /\ chan'[c] = None
  BY DEF Return, Goto, Same, TypeOK
<1>2. QueuesNameReaders'
  <2>1. ASSUME NEW k \in Keys, NEW ch \in Elems(waiters'[k])
        PROVE  Owned(k, ch)'
    <3>1. CASE ch = chan[c]
      BY <2>1, <3>1 DEF Owned
    <3>2. CASE ch # chan[c]
      BY <1>1, <2>1, <3>2, QueueInvNames, StillOwned DEF Same
    <3> QED
      BY <3>1, <3>2
  <2>2. \A k \in Keys : Distinct(waiters[k])'
    BY DEF Distinct
  <2> QED
    BY <2>1, <2>2, QueuesByElemsNext
<1>3. OneOwner'
  BY <1>1 DEF QueueInv, OneOwner, Same
<1>4. \A d \in Conns \ {c} : QueuedByLoops(d)' /\ Alert(d)' /\ Nothing(d)'
  BY <1>1, OthersKeep DEF comm
<1>5. QueuedByLoops(c)' /\ Alert(c)' /\ Nothing(c)'
  BY <1>1 DEF QueuedByLoops, Alert, Nothing, InCall
<1> QED
  BY <1>2, <1>3, <1>4, <1>5 DEF QueueInv

LEMMA RegisterQueues ==
  ASSUME TypeOK, QueueInv, NEW c \in Conns, Register(c)
  PROVE  QueueInv'
<1> DEFINE k  == Head(todo[c])
           at == IF Len(todo[c]) = 1 THEN "read" ELSE "register"
<1>1. /\ pc[c] = "register" /\ todo[c] \in Seq(Keys) /\ todo[c] # <<>> /\ InCall(c)
      /\ call[c] \in Reads /\ chan[c] \in Chans
  BY Reading DEF TypeOK, Register, InCall
<1>2. /\ k \in Keys /\ Elems(todo[c]) = {k} \union Elems(Tail(todo[c]))
      /\ Distinct(Tail(todo[c])) /\ k \notin Elems(Tail(todo[c]))
      /\ Len(todo[c]) = 1 => Elems(Tail(todo[c])) = {}
  BY <1>1, TailFacts, TailElems, EmptyElems DEF QueueInv, QueuedByLoops
<1>3. /\ waiters' = [waiters EXCEPT ![k] = Append(waiters[k], chan[c])]
      /\ todo' = [todo EXCEPT ![c] = Tail(todo[c])] /\ pc' = [pc EXCEPT ![c] = at]
      /\ \A d \in Conns : d # c => ids'[d] = ids[d]
      /\ UNCHANGED <<stream, comm, call, chan, left>>
  BY DEF Register, Goto, TypeOK
<1>4. at \in {"read", "register"} /\ (at = "read" => Len(todo[c]) = 1)
  OBVIOUS
<1> HIDE DEF k, at
<1>5. /\ \A d \in Conns \ {c} : Same(d)
      /\ todo'[c] = Tail(todo[c]) /\ pc'[c] = at
  BY <1>3 DEF Same, TypeOK
<1>6. /\ Elems(Append(waiters[k], chan[c])) = Elems(waiters[k]) \union {chan[c]}
      /\ Distinct(Append(waiters[k], chan[c]))
  <2>1. waiters[k] \in Seq(Chans)
    BY <1>2 DEF TypeOK
  <2>2. chan[c] \notin Elems(waiters[k]) /\ Distinct(waiters[k])
    BY <1>1, <1>2, QueueInvNames, QueuesByElems DEF QueueInv, QueuedByLoops, In
  <2> QED
    BY <1>1, <2>1, <2>2, AppendElems
<1>7. \A h \in Keys : waiters'[h] = IF h = k THEN Append(waiters[k], chan[c]) ELSE waiters[h]
  BY <1>3 DEF TypeOK
<1>8. /\ \A h \in Keys : \A ch : ch # chan[c] => (ch \in Elems(waiters'[h]) <=> ch \in Elems(waiters[h]))
      /\ \A h \in Keys : Distinct(waiters'[h])
      /\ \A h \in Keys : In(c, h)' <=> In(c, h) \/ h = k
  BY <1>3, <1>6, <1>7, QueueInvNames, QueuesByElems DEF In
<1>9. QueuedByLoops(c) /\ Alert(c)
  BY DEF QueueInv
<1>10. QueuedByLoops(c)'
  BY <1>1, <1>2, <1>3, <1>4, <1>5, <1>8, <1>9 DEF QueuedByLoops, Distinct
<1>11. Alert(c)'
  <2>1. Told(c) => Told(c)'
    BY <1>3 DEF Told, comm
  <2>2. Elems(call[c].keys) \subseteq Keys
    BY <1>1, ReadType, ElemsType
  <2> QED
    BY <1>1, <1>2, <1>3, <1>4, <1>5, <1>8, <1>9, <2>1, <2>2 DEF Alert
<1>12. Nothing(c)'
  BY <1>4, <1>5 DEF Nothing
<1>13. \A h \in Keys : chan[c] \in Elems(waiters'[h]) => h \in Elems(call[c].keys)
  BY <1>1, <1>2, <1>3, <1>8, <1>9 DEF QueuedByLoops, In
<1> QED
  BY <1>1, <1>3, <1>5, <1>8, <1>10, <1>11, <1>12, <1>13, StaysInCall DEF comm

LEMMA LookingQueues ==
  ASSUME TypeOK, QueueInv, NEW c \in Conns, ReadAtOnce(c) \/ Park(c)
  PROVE  QueueInv'
<1>1. \A k \in Keys : Distinct(waiters[k])
  BY QueueInvNames, QueuesByElems
<1>2. CASE ReadAtOnce(c)
  <2>1. /\ InCall(c) /\ left' = left \union {chan[c]} /\ Return(c)
        /\ UNCHANGED <<stream, waiters, comm>>
    BY <1>2 DEF ReadAtOnce, InCall, store
  <2> QED
    BY <1>1, <2>1, LeavesCall
<1>3. CASE Park(c)
  <2>1. /\ pc[c] = "read" /\ InCall(c) /\ ~HasAny(c) /\ pc' = [pc EXCEPT ![c] = "parked"]
        /\ UNCHANGED <<stream, waiters, full, sending, call, chan, todo, ids, left>>
    BY <1>3 DEF Park, InCall, Goto, store, comm
  <2>2. pc'[c] = "parked" /\ \A d \in Conns \ {c} : Same(d)
    BY <2>1 DEF Same, TypeOK
  <2>3. \A k \in Keys : In(c, k)' <=> In(c, k)
    BY <2>1 DEF In
  <2>4. QueuedByLoops(c) /\ Alert(c)
    BY DEF QueueInv
  <2>5. QueuedByLoops(c)'
    BY <2>1, <2>2, <2>3, <2>4 DEF QueuedByLoops, InCall
  <2>6. Alert(c)'
    <3>1. Told(c)' <=> Told(c)
      BY <2>1 DEF Told
    <3>2. Elems(call[c].keys) \subseteq Keys
      BY <2>1, Reading, ElemsType DEF InCall
    <3> QED
      BY <2>1, <2>2, <2>3, <2>4, <3>1, <3>2 DEF Alert
  <2>7. Nothing(c)'
    <3>1. ASSUME NEW k \in Keys, In(c, k)
          PROVE  Above(k, ids[c][k])' = {}
      <4>1. Above(k, ids[c][k]) = {}
        BY <2>1, <2>4, <3>1 DEF QueuedByLoops, HasAny
      <4> QED
        BY <2>1, <4>1 DEF Above
    <3> QED
      BY <2>3, <3>1 DEF Nothing
  <2>8. \A k \in Keys : chan[c] \in Elems(waiters'[k]) => k \in Elems(call[c].keys)
    BY <2>1, <2>4 DEF QueuedByLoops, In
  <2> QED
    BY <1>1, <2>1, <2>2, <2>5, <2>6, <2>7, <2>8, StaysInCall
<1> QED
  BY <1>2, <1>3

\* All keys are to be cleaned up: whatever queue the channel is in is among them.
LEMMA CleaningQueues ==
  ASSUME TypeOK, QueueInv, NEW c \in Conns, ReadFails(c) \/ Wake(c) \/ Timeout(c)
  PROVE  QueueInv'
<1>1. /\ InCall(c) /\ CleanAll(c, pc'[c]) /\ pc'[c] \in {"cleanup", "woken"}
      /\ \A ch \in full : ch = chan[c] \/ ch \in full'
      /\ UNCHANGED <<stream, waiters, sending, call, chan, ids, left>>
  BY DEF ReadFails, Wake, Timeout, InCall, CleanAll, Goto, TypeOK, store, comm
<1>2. todo'[c] = call[c].keys /\ \A d \in Conns \ {c} : Same(d)
  BY <1>1 DEF CleanAll, Goto, Same, TypeOK
<1>3. /\ \A k \in Keys : Distinct(waiters[k])
      /\ \A k \in Keys : In(c, k) => k \in Elems(call[c].keys)
  BY <1>1, QueueInvNames, QueuesByElems DEF QueueInv, QueuedByLoops
<1>4. Distinct(call[c].keys)
  BY <1>1, Reading, ReadType DEF InCall, Distinct
<1>5. QueuedByLoops(c)'
  BY <1>1, <1>2, <1>3, <1>4 DEF QueuedByLoops, In, Distinct
<1>6. Alert(c)' /\ Nothing(c)'
  BY <1>1 DEF Alert, Nothing
<1> QED
  BY <1>1, <1>2, <1>3, <1>5, <1>6, StaysInCall DEF In

LEMMA EndingQueues ==
  ASSUME TypeOK, QueueInv, NEW c \in Conns, CleanUpExpiredKeyWaiter(c) \/ Reread(c)
  PROVE  QueueInv'
<1>1. /\ pc[c] \in {"cleanup", "woken"} /\ InCall(c) /\ QueuedByLoops(c)
      /\ todo[c] \in Seq(Keys)
  BY DEF CleanUpExpiredKeyWaiter, Reread, InCall, QueueInv, TypeOK
<1>2. \A k \in Keys : Distinct(waiters[k])
  BY QueueInvNames, QueuesByElems
<1>3. CASE CleanUpExpiredKeyWaiter(c)
  <2> DEFINE k == Head(todo[c])
  <2>1. /\ todo[c] # <<>>
        /\ waiters' = [waiters EXCEPT ![k] = Without(waiters[k], chan[c])]
        /\ UNCHANGED <<stream, comm, left>>
    BY <1>3 DEF CleanUpExpiredKeyWaiter
  <2>2. /\ k \in Keys /\ Elems(todo[c]) = {k} \union Elems(Tail(todo[c]))
        /\ Distinct(Tail(todo[c]))
        /\ Len(todo[c]) = 1 => Elems(Tail(todo[c])) = {}
    BY <1>1, <2>1, TailFacts, TailElems, EmptyElems DEF QueuedByLoops
  <2>3. /\ Elems(Without(waiters[k], chan[c])) = Elems(waiters[k]) \ {chan[c]}
        /\ Distinct(Without(waiters[k], chan[c]))
    BY <1>2, <2>2, WithoutElems DEF TypeOK
  <2>4. CASE Len(todo[c]) = 1 /\ pc[c] = "cleanup"
    <3>1. Return(c)
      BY <1>3, <2>4 DEF CleanUpExpiredKeyWaiter
    <3> HIDE DEF k
    <3>2. \A h \in Keys : waiters'[h] = IF h = k THEN Without(waiters[k], chan[c]) ELSE waiters[h]
      BY <2>1 DEF TypeOK
    <3>3. /\ \A h \in Keys : \A ch : ch # chan[c] => (ch \in Elems(waiters'[h]) <=> ch \in Elems(waiters[h]))
          /\ \A h \in Keys : Distinct(waiters'[h])
          /\ \A h \in Keys : chan[c] \notin Elems(waiters'[h])
      BY <1>1, <1>2, <2>2, <2>3, <2>4, <3>2 DEF QueuedByLoops, In
    <3> QED
      BY <1>1, <2>1, <3>1, <3>3, LeavesCall
  <2>5. CASE ~(Len(todo[c]) = 1 /\ pc[c] = "cleanup")
    <3>1. todo' = [todo EXCEPT ![c] = Tail(todo[c])] /\ UNCHANGED <<pc, call, chan, ids>>
      BY <1>3, <2>5 DEF CleanUpExpiredKeyWaiter
    <3> HIDE DEF k
    <3>2. \A h \in Keys : waiters'[h] = IF h = k THEN Without(waiters[k], chan[c]) ELSE waiters[h]
      BY <2>1 DEF TypeOK
    <3>3. /\ \A h \in Keys : \A ch : ch # chan[c] => (ch \in Elems(waiters'[h]) <=> ch \in Elems(waiters[h]))
          /\ \A h \in Keys : Distinct(waiters'[h])
          /\ \A h \in Keys : In(c, h)' <=> In(c, h) /\ h # k
      BY <1>2, <2>3, <3>1, <3>2 DEF In
    <3>4. todo'[c] = Tail(todo[c]) /\ \A d \in Conns \ {c} : Same(d)
      BY <3>1 DEF Same, TypeOK
    <3>5. QueuedByLoops(c)'
      BY <1>1, <2>2, <3>1, <3>3, <3>4 DEF QueuedByLoops, Distinct
    <3>6. Alert(c)' /\ Nothing(c)'
      BY <1>1, <3>1 DEF Alert, Nothing
    <3>7. \A h \in Keys : chan[c] \in Elems(waiters'[h]) => h \in Elems(call[c].keys)
      BY <1>1, <3>1, <3>3 DEF QueuedByLoops, In
    <3> QED
      BY <1>1, <2>1, <3>1, <3>3, <3>4, <3>5, <3>6, <3>7, StaysInCall DEF comm
  <2> QED
    BY <2>4, <2>5
<1>4. CASE Reread(c)
  <2>1. /\ pc[c] = "woken" /\ todo[c] = <<>> /\ Return(c)
        /\ UNCHANGED <<stream, waiters, comm, left>>
    BY <1>4 DEF Reread, store
  <2>2. \A k \in Keys : chan[c] \notin Elems(waiters[k])
    BY <1>1, <2>1, EmptyElems DEF QueuedByLoops, In
  <2> QED
    BY <1>1, <1>2, <2>1, <2>2, LeavesCall
<1> QED
  BY <1>3, <1>4

LEMMA StepQueues == TypeOK /\ QueueInv /\ [Next]_vars => QueueInv'
<1> SUFFICES ASSUME TypeOK, QueueInv, [Next]_vars
             PROVE  QueueInv'
  OBVIOUS
<1>1. CASE Tick \/ UNCHANGED vars
  <2>1. UNCHANGED <<store, comm, pc, call, chan, todo, ids, left>>
    BY <1>1 DEF Tick, vars, proc
  <2> QED
    BY <2>1, QuietQueues DEF InCall, Told, comm
<1>2. ASSUME NEW c \in Conns, Client(c) \/ Handler(c)
      PROVE  QueueInv'
  BY <1>2, AddingQueues, BeginQueues, RegisterQueues, LookingQueues, CleaningQueues, EndingQueues
     DEF Client, Handler
<1>3. ASSUME NEW ch \in Chans, Send(ch)
      PROVE  QueueInv'
  BY <1>3, SendQueues
<1> QED
  BY <1>1, <1>2, <1>3 DEF Next

LEMMA QueuesKept == Spec => [](TypeOK /\ QueueInv)
<1>1. TypeOK /\ QueueInv /\ [Next]_vars => (TypeOK /\ QueueInv)'
  BY StepType, StepQueues
<1> QED
  BY <1>1, InitType, InitQueues, PTL DEF Spec

\* Whatever XADDs empty the queues and whoever times out, is woken or cleans up: a queue of a key
\* names a channel once, and only that of an XREAD of the key in its call, or of one that
\* replied at once (handleXREAD returns without the cleanup).
THEOREM OnlyReadersQueued == Spec => []QueuesNameReaders
<1> QED
  BY QueuesKept, QueueInvNames, PTL

\* No XREAD that sleeps misses an entry: handleXREAD registers first and then looks, so an
\* entry that came after the look came to a queue that names the sleeper.
THEOREM NoWakeUpIsLost == Spec => []NoEntryBesideReader
<1>1. TypeOK /\ QueueInv => NoEntryBesideReader
  <2> SUFFICES ASSUME TypeOK, QueueInv, NEW c \in Conns, pc[c] = "parked", HasAny(c)
               PROVE  Told(c)
    BY DEF NoEntryBesideReader, Told
  <2>1. PICK k \in Elems(call[c].keys) : Above(k, ids[c][k]) # {}
    BY DEF HasAny
  <2>2. k \in Keys
    BY Reading, ElemsType
  <2>3. ~In(c, k)
    BY <2>1, <2>2 DEF QueueInv, Nothing
  <2> QED
    BY <2>3 DEF QueueInv, Alert
<1> QED
  BY <1>1, QueuesKept, PTL

-------------------------------------------------------------------------------
(* News.                                                                   *)

\* The keys of the call of c for which its channel has been queued.
Registered(c) == {k \in Elems(call[c].keys) : pc[c] = "register" => k \notin Elems(todo[c])}

\* The stream has come as far as id.
Reaches(k, id) == id = Top(k) \/ Less(id, Top(k))

\* A reader of news knows for each of its keys an ID that the stream had reached, and has not been
\* told for nothing.
News(c) ==
  InCall(c) /\ call[c].from = Dollar /\ (\A k \in Elems(call[c].keys) : Intact(k)) =>
    /\ \A k \in Registered(c) : Reaches(k, ids[c][k])
    /\ Told(c) \/ pc[c] = "woken" => \E k \in Registered(c) : Above(k, ids[c][k]) # {}
NewsInv == \A c \in Conns : News(c)

\* A step that leaves the streams alone and tells a handler nothing.
LEMMA NewsKept ==
  ASSUME NEW d \in Conns, News(d), UNCHANGED stream,
         InCall(d)' => /\ InCall(d) /\ call'[d] = call[d] /\ ids'[d] = ids[d]
                       /\ Registered(d)' = Registered(d)
                       /\ Told(d)' \/ pc'[d] = "woken" => Told(d) \/ pc[d] = "woken"
  PROVE  News(d)'
<1> SUFFICES ASSUME InCall(d)', call'[d].from = Dollar, \A k \in Elems(call'[d].keys) : Intact(k)'
             PROVE  /\ \A k \in Registered(d)' : Reaches(k, ids[d][k])'
                    /\ Told(d)' \/ pc'[d] = "woken" => \E k \in Registered(d)' : Above(k, ids[d][k])' # {}
  BY DEF News
<1>1. \A k : Intact(k)' <=> Intact(k)
  BY DEF Intact
<1>2. /\ \A k \in Registered(d) : Reaches(k, ids[d][k])
      /\ Told(d) \/ pc[d] = "woken" => \E k \in Registered(d) : Above(k, ids[d][k]) # {}
  BY <1>1 DEF News
<1>3. ASSUME NEW k \in Registered(d), Reaches(k, ids[d][k])
      PROVE  Reaches(k, ids[d][k])'
  BY <1>3 DEF Reaches, Top
<1>4. ASSUME NEW k \in Registered(d), Above(k, ids[d][k]) # {}
      PROVE  Above(k, ids[d][k])' # {}
  BY <1>4 DEF Above
<1> QED
  BY <1>2, <1>3, <1>4

\* An entry is news to everyone who had an ID that the stream had reached, and takes none away.
LEMMA EntryIsNews ==
  ASSUME TypeOK, NEW k \in Keys, NEW e \in Ids, Parses(e), Less(Top(k), e),
         stream' = [stream EXCEPT ![k] = Append(stream[k], e)], NEW id \in Ids
  PROVE  /\ Reaches(k, id) => Reaches(k, id)' /\ Above(k, id)' # {}
         /\ Above(k, id) # {} => Above(k, id)' # {}
<1> DEFINE s == stream[k]
           t == Append(s, e)
<1>1. s \in Seq(Ids) /\ stream'[k] = t
  BY DEF TypeOK
<1>2. /\ t \in Seq(Ids) /\ Len(t) = Len(s) + 1 /\ Len(s) \in Nat
      /\ DOMAIN t = 1 .. Len(s) + 1 /\ DOMAIN s = 1 .. Len(s)
      /\ \A j \in DOMAIN s : j \in DOMAIN t /\ t[j] = s[j]
      /\ t[Len(s) + 1] = e
  BY <1>1, AppendFacts
<1>3. t # <<>> /\ Len(s) + 1 \in DOMAIN t
  BY <1>1, <1>2, AppendProperties
<1> HIDE DEF t
<1>4. Top(k)' = e
  BY <1>1, <1>2, <1>3 DEF Top
<1>5. Reaches(k, id) => Less(id, e)
  BY TopType, LessIsTransitive DEF Reaches
<1>6. Less(id, e) => Len(s) + 1 \in Above(k, id)'
  BY <1>1, <1>2, <1>3 DEF Above
<1>7. ASSUME NEW i \in Above(k, id)
      PROVE  i \in Above(k, id)'
  BY <1>1, <1>2, <1>7 DEF Above
<1> QED
  BY <1>4, <1>5, <1>6, <1>7 DEF Reaches

LEMMA InsertNews ==
  ASSUME TypeOK, QueueInv, NewsInv, NEW k \in Keys, NEW ms \in Nat, NEW seq \in Seqs, Insert(k, ms, seq),
         UNCHANGED <<full, call, chan, todo, ids>>,
         \A d \in Conns : (InCall(d) => pc'[d] = pc[d]) /\ (~InCall(d) => pc'[d] \in {"idle", "add"})
  PROVE  NewsInv'
<1> SUFFICES ASSUME NEW d \in Conns
             PROVE  News(d)'
  BY DEF NewsInv
<1>1. News(d)
  BY DEF NewsInv
<1>2. InCall(d)' => InCall(d) /\ pc'[d] = pc[d] /\ Registered(d)' = Registered(d)
  BY DEF InCall, Registered
<1>3. CASE UNCHANGED <<stream, waiters, sending>>
  BY <1>1, <1>2, <1>3, NewsKept DEF Told
<1>4. CASE /\ Entry(k, ms, seq) \in Ids
           /\ Accepts(IF Parses(Top(k)) THEN Top(k) ELSE Zero, ms, seq)
           /\ stream' = [stream EXCEPT ![k] = Append(stream[k], Entry(k, ms, seq))]
           /\ Notify(k)
  <2> SUFFICES ASSUME InCall(d)', call[d].from = Dollar, \A h \in Elems(call[d].keys) : Intact(h)'
               PROVE  /\ \A h \in Registered(d) : Reaches(h, ids[d][h])'
                      /\ Told(d)' \/ pc[d] = "woken" => \E h \in Registered(d) : Above(h, ids[d][h])' # {}
    BY <1>2 DEF News
  <2>1. InCall(d) /\ chan[d] \in Chans /\ Elems(call[d].keys) \subseteq Keys /\ ids[d] \in [Keys -> Ids]
    BY <1>2, Reading, ElemsType DEF InCall, TypeOK
  <2>2. stream'[k] = Append(stream[k], Entry(k, ms, seq)) /\ \A h \in Keys : h # k => stream'[h] = stream[h]
    BY <1>4 DEF TypeOK
  <2>3. k \in Elems(call[d].keys) =>
          /\ Parses(Entry(k, ms, seq)) /\ Less(Top(k), Entry(k, ms, seq))
          /\ Intact(k)
    BY <1>4, <2>2, AppendedIsAbove DEF Intact
  <2>4. \A h \in Elems(call[d].keys) : Intact(h)
    BY <2>1, <2>2, <2>3 DEF Intact
  <2>5. /\ \A h \in Registered(d) : Reaches(h, ids[d][h])
        /\ Told(d) \/ pc[d] = "woken" => \E h \in Registered(d) : Above(h, ids[d][h]) # {}
    BY <1>1, <2>1, <2>4 DEF News
  <2>6. Registered(d) \subseteq Elems(call[d].keys)
    BY DEF Registered
  <2>7. ASSUME NEW h \in Registered(d)
        PROVE  /\ Reaches(h, ids[d][h])'
               /\ Above(h, ids[d][h]) # {} => Above(h, ids[d][h])' # {}
               /\ h = k => Above(h, ids[d][h])' # {}
    <3>1. h \in Keys /\ ids[d][h] \in Ids /\ Reaches(h, ids[d][h]) /\ ids'[d] = ids[d]
      BY <2>1, <2>5, <2>6
    <3>2. CASE h = k
      BY <1>4, <2>3, <2>6, <3>1, <3>2, EntryIsNews
    <3>3. CASE h # k
      <4>1. stream'[h] = stream[h]
        BY <2>2, <3>1, <3>3
      <4> QED
        BY <3>1, <3>3, <4>1 DEF Reaches, Top, Above
    <3> QED
      BY <3>2, <3>3
  <2>8. Told(d)' => Told(d) \/ k \in Registered(d)
    <3>1. CASE chan[d] \in Elems(waiters[k])
      BY <2>1, <3>1 DEF QueueInv, QueuedByLoops, In, Registered
    <3>2. CASE chan[d] \notin Elems(waiters[k])
      <4>1. {i \in DOMAIN waiters[k] : waiters[k][i] = chan[d]} = {}
        BY <3>2 DEF Elems
      <4>2. sending'[chan[d]] = sending[chan[d]] + Cardinality({i \in DOMAIN waiters[k] : waiters[k][i] = chan[d]})
        BY <1>4, <2>1 DEF Notify
      <4>3. sending'[chan[d]] = sending[chan[d]]
        <5>1. Cardinality({}) = 0 /\ sending[chan[d]] \in Nat
          BY <2>1, FS_EmptySet DEF TypeOK
        <5> QED
          BY <4>1, <4>2, <5>1
      <4> QED
        BY <4>3 DEF Told
    <3> QED
      BY <3>1, <3>2
  <2> QED
    BY <2>5, <2>7, <2>8
<1> QED
  BY <1>3, <1>4, InsertFacts

LEMMA AddingNews ==
  ASSUME TypeOK, QueueInv, NewsInv, NEW c \in Conns, XAdd(c) \/ XAddClock(c) \/ XAddAuto(c)
  PROVE  NewsInv'
<1>1. CASE XAddClock(c)
  <2>1. pc[c] = "idle" /\ pc' = [pc EXCEPT ![c] = "add"] /\ UNCHANGED <<store, comm, call, chan, todo, ids>>
    BY <1>1 DEF XAddClock, Goto
  <2>2. ASSUME NEW d \in Conns
        PROVE  News(d)'
    <3>1. InCall(d)' => InCall(d) /\ pc'[d] = pc[d]
      BY <2>1 DEF InCall, TypeOK
    <3> QED
      BY <2>1, <3>1, NewsKept DEF NewsInv, Registered, Told, store, comm
  <2> QED
    BY <2>2 DEF NewsInv
<1>2. CASE XAdd(c) \/ XAddAuto(c)
  <2>1. PICK k \in Keys, ms \in Nat, seq \in Seqs : Insert(k, ms, seq)
    BY <1>2, AddInserts
  <2>2. /\ UNCHANGED <<full, call, chan, todo, ids>>
        /\ UNCHANGED pc \/ (pc[c] = "add" /\ pc' = [pc EXCEPT ![c] = "idle"])
    BY <1>2 DEF XAdd, XAddAuto, Goto, proc
  <2>3. \A d \in Conns : (InCall(d) => pc'[d] = pc[d]) /\ (~InCall(d) => pc'[d] \in {"idle", "add"})
    BY <2>2 DEF InCall, TypeOK
  <2> QED
    BY <2>1, <2>2, <2>3, InsertNews
<1> QED
  BY <1>1, <1>2

LEMMA SendNews ==
  ASSUME TypeOK, NewsInv, NEW ch \in Chans, Send(ch)
  PROVE  NewsInv'
<1>1. /\ sending[ch] > 0 /\ full' = full \union {ch} /\ sending' = [sending EXCEPT ![ch] = sending[ch] - 1]
      /\ UNCHANGED <<store, pc, call, chan, todo, ids>>
  BY DEF Send, proc
<1>2. ASSUME NEW d \in Conns, InCall(d), Told(d)'
      PROVE  Told(d)
  <2>1. chan[d] \in Chans /\ sending \in [Chans -> Nat]
    BY <1>2, Reading DEF InCall, TypeOK
  <2>2. CASE chan[d] = ch
    BY <1>1, <2>2 DEF Told
  <2>3. CASE chan[d] # ch
    BY <1>1, <1>2, <2>1, <2>3 DEF Told
  <2> QED
    BY <2>2, <2>3
<1>3. ASSUME NEW d \in Conns
      PROVE  News(d)'
  BY <1>1, <1>2, NewsKept DEF NewsInv, Registered, InCall, store
<1> QED
  BY <1>3 DEF NewsInv

\* A fresh channel holds nothing, and nobody is about to send on it.
LEMMA BeginNews ==
  ASSUME TypeOK, NewsInv, NEW c \in Conns, Begin(c)
  PROVE  NewsInv'
<1>1. PICK r \in Reads, ch \in Chans :
        /\ pc[c] = "idle" /\ Fresh(ch)
        /\ call' = [call EXCEPT ![c] = r] /\ chan' = [chan EXCEPT ![c] = ch]
        /\ todo' = [todo EXCEPT ![c] = r.keys] /\ pc' = [pc EXCEPT ![c] = "register"]
        /\ full' = full \ {ch}
        /\ UNCHANGED <<store, sending, ids>>
  BY DEF Begin, Goto
<1>2. \A d \in Conns \ {c} : Same(d)
  BY <1>1 DEF Same, TypeOK
<1>3. chan'[c] = ch /\ call'[c] = r /\ todo'[c] = r.keys /\ pc'[c] = "register"
  BY <1>1 DEF TypeOK
<1>4. ASSUME NEW d \in Conns \ {c}
      PROVE  News(d)'
  BY <1>1, <1>2, NewsKept DEF NewsInv, Same, Registered, InCall, Told, store
<1>5. News(c)'
  <2>1. Registered(c)' = {}
    BY <1>3 DEF Registered
  <2>2. ~Told(c)'
    BY <1>1, <1>3 DEF Told, Fresh
  <2> QED
    BY <1>3, <2>1, <2>2 DEF News
<1> QED
  BY <1>4, <1>5 DEF NewsInv

\* "$" is captured when the channel is queued: the stream has come as far as its top.
LEMMA RegisterNews ==
  ASSUME TypeOK, QueueInv, NewsInv, NEW c \in Conns, Register(c)
  PROVE  NewsInv'
<1>0. PICK k : k = Head(todo[c])
  OBVIOUS
<1> DEFINE id == IF call[c].from = Dollar THEN Top(k) ELSE call[c].from
           at == IF Len(todo[c]) = 1 THEN "read" ELSE "register"
<1>1. /\ pc[c] = "register" /\ todo[c] \in Seq(Keys) /\ todo[c] # <<>> /\ InCall(c)
  BY Reading DEF TypeOK, Register, InCall
<1>2. /\ k \in Keys /\ Elems(todo[c]) = {k} \union Elems(Tail(todo[c]))
      /\ k \notin Elems(Tail(todo[c])) /\ k \in Elems(call[c].keys)
      /\ Len(todo[c]) = 1 => Elems(Tail(todo[c])) = {}
  <2>1. Distinct(todo[c]) /\ Elems(todo[c]) \subseteq Elems(call[c].keys)
    BY <1>1 DEF QueueInv, QueuedByLoops
  <2>2. /\ k \in Keys /\ Elems(todo[c]) = {k} \union Elems(Tail(todo[c]))
        /\ k \notin Elems(Tail(todo[c]))
        /\ Len(todo[c]) = 1 => Tail(todo[c]) = <<>>
    BY <1>0, <1>1, <2>1, TailFacts, TailElems
  <2> QED
    BY <2>1, <2>2, EmptyElems
<1>3. /\ ids' = [ids EXCEPT ![c][k] = id]
      /\ todo' = [todo EXCEPT ![c] = Tail(todo[c])] /\ pc' = [pc EXCEPT ![c] = at]
      /\ UNCHANGED <<stream, comm, call, chan>>
  BY <1>0 DEF Register, Goto
<1>4. at \in {"read", "register"} /\ (at = "read" => Len(todo[c]) = 1)
  OBVIOUS
<1>5. call[c].from = Dollar => id = Top(k)
  OBVIOUS
<1> HIDE DEF id, at
<1>6. /\ \A d \in Conns \ {c} : Same(d)
      /\ todo'[c] = Tail(todo[c]) /\ pc'[c] = at /\ ids[c] \in [Keys -> Ids]
      /\ ids'[c] = [ids[c] EXCEPT ![k] = id]
  BY <1>3 DEF Same, TypeOK
<1>7. Registered(c)' = Registered(c) \union {k} /\ k \notin Registered(c)
  BY <1>1, <1>2, <1>3, <1>4, <1>6 DEF Registered
<1>8. ASSUME NEW d \in Conns \ {c}
      PROVE  News(d)'
  BY <1>3, <1>6, NewsKept DEF NewsInv, Same, Registered, InCall, Told, comm
<1>9. News(c)'
  <2> SUFFICES ASSUME call[c].from = Dollar, \A h \in Elems(call[c].keys) : Intact(h)'
               PROVE  /\ \A h \in Registered(c)' : Reaches(h, ids[c][h])'
                      /\ Told(c)' \/ pc'[c] = "woken" =>
                           \E h \in Registered(c)' : Above(h, ids[c][h])' # {}
    BY <1>3 DEF News
  <2>1. \A h : Intact(h)' <=> Intact(h)
    BY <1>3 DEF Intact
  <2>2. /\ \A h \in Registered(c) : Reaches(h, ids[c][h])
        /\ Told(c) => \E h \in Registered(c) : Above(h, ids[c][h]) # {}
    BY <1>1, <2>1 DEF NewsInv, News
  <2>3. \A h \in Registered(c) : h \in Keys
    <3>1. Elems(call[c].keys) \subseteq Keys
      BY <1>1, Reading, ElemsType DEF InCall
    <3> QED
      BY <3>1 DEF Registered
  <2>4. ids'[c][k] = Top(k) /\ \A h \in Registered(c) : ids'[c][h] = ids[c][h]
    BY <1>2, <1>5, <1>6, <1>7, <2>3
  <2>5. Reaches(k, ids[c][k])'
    BY <1>3, <2>4 DEF Reaches, Top
  <2>6. ASSUME NEW h \in Registered(c)
        PROVE  /\ Reaches(h, ids[c][h]) => Reaches(h, ids[c][h])'
               /\ Above(h, ids[c][h]) # {} => Above(h, ids[c][h])' # {}
    BY <1>3, <2>4, <2>6 DEF Reaches, Top, Above
  <2>7. Told(c)' \/ pc'[c] = "woken" => Told(c)
    BY <1>3, <1>4, <1>6 DEF Told, comm
  <2> QED
    BY <1>7, <2>2, <2>5, <2>6, <2>7
<1> QED
  BY <1>8, <1>9 DEF NewsInv

\* The rest of handleXREAD tells nobody anything: to wake is to have been told.
LEMMA HandlerNews ==
  ASSUME TypeOK, NewsInv, NEW c \in Conns,
         \/ ReadAtOnce(c) \/ ReadFails(c) \/ Park(c) \/ Wake(c) \/ Timeout(c)
         \/ CleanUpExpiredKeyWaiter(c) \/ Reread(c)
  PROVE  NewsInv'
<1>1. /\ pc[c] \in {"read", "parked", "cleanup", "woken"}
      /\ \A d \in Conns \ {c} : Same(d)
      /\ UNCHANGED <<stream, sending>> /\ full' \subseteq full
  BY DEF ReadAtOnce, ReadFails, Park, Wake, Timeout, CleanUpExpiredKeyWaiter, Reread, Return, CleanAll, Goto,
         Same, TypeOK, store, comm
<1>2. \/ pc'[c] = "idle"
      \/ /\ pc'[c] \in {"parked", "cleanup", "woken"}
         /\ call'[c] = call[c] /\ chan'[c] = chan[c] /\ ids'[c] = ids[c]
         /\ pc'[c] = "woken" => pc[c] = "woken" \/ Told(c)
  BY DEF ReadAtOnce, ReadFails, Park, Wake, Timeout, CleanUpExpiredKeyWaiter, Reread, Return, CleanAll, Goto,
         TypeOK, Told
<1>3. ASSUME NEW d \in Conns \ {c}
      PROVE  News(d)'
  BY <1>1, NewsKept DEF NewsInv, Same, Registered, InCall, Told
<1>4. News(c)'
  BY <1>1, <1>2, NewsKept DEF NewsInv, Registered, InCall, Told
<1> QED
  BY <1>3, <1>4 DEF NewsInv

LEMMA StepNews == TypeOK /\ QueueInv /\ NewsInv /\ [Next]_vars => NewsInv'
<1> SUFFICES ASSUME TypeOK, QueueInv, NewsInv, [Next]_vars
             PROVE  NewsInv'
  OBVIOUS
<1>1. CASE Tick \/ UNCHANGED vars
  <2>1. UNCHANGED <<store, comm, pc, call, chan, todo, ids>>
    BY <1>1 DEF Tick, vars, proc
  <2>2. ASSUME NEW d \in Conns
        PROVE  News(d)'
    BY <2>1, NewsKept DEF NewsInv, Registered, InCall, Told, store, comm
  <2> QED
    BY <2>2 DEF NewsInv
<1>2. ASSUME NEW c \in Conns, Client(c) \/ Handler(c)
      PROVE  NewsInv'
  BY <1>2, AddingNews, BeginNews, RegisterNews, HandlerNews DEF Client, Handler
<1>3. ASSUME NEW ch \in Chans, Send(ch)
      PROVE  NewsInv'
  BY <1>3, SendNews
<1> QED
  BY <1>1, <1>2, <1>3 DEF Next

\* An XREAD of "$" that is woken has something to reply: what wakes it is an XADD that found its
\* channel in a queue, so a later one than the "$" of that key, and IDs increase.
THEOREM WakeUpsBringNews == Spec => []WokenReadersHaveNews
<1>1. Init => NewsInv
  BY DEF Init, NewsInv, News, InCall
<1>2. TypeOK /\ QueueInv /\ NewsInv => WokenReadersHaveNews
  BY DEF NewsInv, News, InCall, Registered, HasAny, WokenReadersHaveNews
<1>3. TypeOK /\ QueueInv /\ NewsInv /\ [Next]_vars => NewsInv'
  BY StepNews
<1> QED
  BY <1>1, <1>2, <1>3, QueuesKept, PTL DEF Spec

===============================================================================
