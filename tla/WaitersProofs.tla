---------------------------- MODULE WaitersProofs -----------------------------
(***************************************************************************)
(* Theorems about Waiters, for every set of connections, keys, items,      *)
(* channels and commands.                                                  *)
(*                                                                         *)
(* OthersHaveRoom is inductive with OneOwner (a channel has one handler)   *)
(* and Registering (a channel made for one key is nowhere until its XREAD  *)
(* has queued it): QueueInv.  PlaceInv says of every item that is no ID    *)
(* that it is in at most one place, and there once; it makes OneCopy       *)
(* inductive, as a step leaves an item, moves it or brings it in.          *)
(***************************************************************************)
EXTENDS Waiters, SequenceTheorems, FiniteSetTheorems, WellFoundedInduction, TLAPS

-------------------------------------------------------------------------------
(* Sequences and queues.                                                   *)

LEMMA SeqDomain ==
  ASSUME NEW S, NEW s \in Seq(S)
  PROVE  Len(s) \in Nat /\ DOMAIN s = 1 .. Len(s) /\ \A i \in DOMAIN s : s[i] \in S
OBVIOUS

LEMMA ElemsType == ASSUME NEW S, NEW s \in Seq(S) PROVE Elems(s) \subseteq S
BY SeqDomain DEF Elems

LEMMA TailFacts ==
  ASSUME NEW S, NEW s \in Seq(S), s # <<>>
  PROVE  /\ Head(s) \in S /\ Head(s) = s[1] /\ 1 \in DOMAIN s
         /\ Tail(s) \in Seq(S) /\ (Len(s) # 1 => Tail(s) # <<>>) /\ (Len(s) = 1 => Tail(s) = <<>>)
         /\ \A j \in DOMAIN Tail(s) : j + 1 \in DOMAIN s /\ j # 0 /\ Tail(s)[j] = s[j + 1]
         /\ \A j \in DOMAIN s : j = 1 \/ (j - 1 \in DOMAIN Tail(s) /\ Tail(s)[j - 1] = s[j])
<1>1. /\ Head(s) \in S /\ Tail(s) \in Seq(S) /\ Len(Tail(s)) = Len(s) - 1
      /\ \A i \in 1 .. Len(Tail(s)) : Tail(s)[i] = s[i + 1]
  BY HeadTailProperties
<1>2. /\ Len(s) \in Nat \ {0} /\ DOMAIN s = 1 .. Len(s) /\ DOMAIN Tail(s) = 1 .. Len(Tail(s))
  BY <1>1, EmptySeq
<1>3. Tail(s) = <<>> <=> Len(Tail(s)) = 0
  BY <1>1, EmptySeq
<1> QED
  BY <1>1, <1>2, <1>3

LEMMA AppendFacts ==
  ASSUME NEW S, NEW s \in Seq(S), NEW e \in S
  PROVE  /\ Append(s, e) \in Seq(S) /\ Len(Append(s, e)) = Len(s) + 1
         /\ DOMAIN Append(s, e) = 1 .. Len(s) + 1 /\ DOMAIN s = 1 .. Len(s) /\ Len(s) \in Nat
         /\ \A j \in DOMAIN s : j \in DOMAIN Append(s, e) /\ Append(s, e)[j] = s[j]
         /\ Append(s, e)[Len(s) + 1] = e
BY AppendProperties

\* Of the places in a sequence that have a property one is the first.
LEMMA FirstPlace ==
  ASSUME NEW T \in SUBSET Nat, T # {}
  PROVE  \E x \in T : \A y \in T : x <= y
<1> DEFINE R == OpToRel(<, Nat)
<1>1. PICK x \in T : \A y \in T : <<y, x>> \notin R
  <2> HIDE DEF R
  <2>1. IsWellFoundedOn(R, Nat)
    BY NatLessThanWellFounded DEF R
  <2> QED
    BY <2>1, WFMin
<1>2. \A y \in T : <<y, x>> \in Nat \X Nat
  OBVIOUS
<1>3. \A y \in T : ~(y < x)
  BY <1>1, <1>2 DEF OpToRel
<1> QED
  BY <1>3

LEMMA WithoutFacts ==
  ASSUME NEW S, NEW s \in Seq(S), NEW ch
  PROVE  /\ Without(s, ch) \in Seq(S)
         /\ ch \notin Elems(s) => Without(s, ch) = s
         /\ ch \in Elems(s) => \E i \in DOMAIN s :
              /\ s[i] = ch
              /\ DOMAIN Without(s, ch) = 1 .. Len(s) - 1 /\ DOMAIN s = 1 .. Len(s) /\ Len(s) \in Nat
              /\ \A j \in 1 .. Len(s) - 1 : Without(s, ch)[j] = IF j < i THEN s[j] ELSE s[j + 1]
<1>1. CASE ch \notin Elems(s)
  BY <1>1 DEF Without
<1>2. CASE ch \in Elems(s)
  <2> DEFINE First(i) == s[i] = ch /\ \A n \in 1 .. i - 1 : s[n] # ch
             p == CHOOSE j \in DOMAIN s : First(j)
             before == SubSeq(s, 1, p - 1)
             after  == SubSeq(s, p + 1, Len(s))
  <2>1. Len(s) \in Nat /\ DOMAIN s = 1 .. Len(s) /\ \A i \in DOMAIN s : s[i] \in S
    BY SeqDomain
  <2>2. \E i \in DOMAIN s : First(i)
    <3> DEFINE Is == {i \in Nat : i \in DOMAIN s /\ s[i] = ch}
    <3>1. Is # {} /\ Is \subseteq Nat
      BY <1>2, <2>1 DEF Elems
    <3>2. PICK i \in Is : \A j \in Is : i <= j
      BY <3>1, FirstPlace
    <3> QED
      BY <3>2, <2>1
  <2>3. p \in DOMAIN s /\ s[p] = ch
    BY <2>2
  <2>4. Without(s, ch) = before \o after
    BY <1>2 DEF Without
  <2> HIDE DEF p
  <2>5. before \in Seq(S) /\ Len(before) = p - 1 /\ \A i \in 1 .. p - 1 : before[i] = s[i]
    <3>1. \A i \in 1 .. p - 1 : s[i] \in S
      BY <2>1, <2>3
    <3>2. p \in Int /\ p - 1 \in Int /\ 1 \in Int /\ p >= 1
      BY <2>1, <2>3
    <3>3. /\ before \in Seq(S) /\ Len(before) = IF 1 <= p - 1 THEN p - 1 - 1 + 1 ELSE 0
          /\ \A i \in 1 .. p - 1 - 1 + 1 : before[i] = s[1 + i - 1]
      BY <3>1, <3>2, SubSeqProperties
    <3> HIDE DEF before
    <3>4. Len(before) = p - 1 /\ 1 .. p - 1 - 1 + 1 = 1 .. p - 1 /\ \A i \in 1 .. p - 1 : 1 + i - 1 = i
      BY <3>2, <3>3
    <3> QED
      BY <3>3, <3>4
  <2>6. /\ after \in Seq(S) /\ Len(after) = Len(s) - p
        /\ \A i \in 1 .. Len(s) - p : after[i] = s[p + i]
    <3>1. \A i \in p + 1 .. Len(s) : s[i] \in S
      BY <2>1, <2>3
    <3>2. p \in Int /\ p + 1 \in Int /\ Len(s) \in Int /\ p <= Len(s)
      BY <2>1, <2>3
    <3>3. /\ after \in Seq(S) /\ Len(after) = IF p + 1 <= Len(s) THEN Len(s) - (p + 1) + 1 ELSE 0
          /\ \A i \in 1 .. Len(s) - (p + 1) + 1 : after[i] = s[p + 1 + i - 1]
      BY <3>1, <3>2, SubSeqProperties
    <3> HIDE DEF after
    <3>4. /\ Len(after) = Len(s) - p /\ 1 .. Len(s) - (p + 1) + 1 = 1 .. Len(s) - p
          /\ \A i \in 1 .. Len(s) - p : p + 1 + i - 1 = p + i
      BY <3>2, <3>3, <2>3
    <3> QED
      BY <3>3, <3>4
  <2> HIDE DEF before, after
  <2>7. /\ before \o after \in Seq(S) /\ Len(before \o after) = Len(s) - 1
        /\ DOMAIN (before \o after) = 1 .. Len(s) - 1
        /\ \A j \in 1 .. Len(s) - 1 :
             (before \o after)[j] = IF j < p THEN before[j] ELSE after[j - (p - 1)]
    <3>1. /\ before \o after \in Seq(S) /\ Len(before \o after) = Len(before) + Len(after)
          /\ \A j \in 1 .. Len(before) + Len(after) :
               (before \o after)[j] = IF j <= Len(before) THEN before[j] ELSE after[j - Len(before)]
      BY <2>5, <2>6, ConcatProperties
    <3>2. Len(before) + Len(after) = Len(s) - 1 /\ p \in Int /\ Len(before) = p - 1
      BY <2>1, <2>3, <2>5, <2>6
    <3>3. \A j \in 1 .. Len(s) - 1 : j <= Len(before) <=> j < p
      BY <3>2, <2>1
    <3> QED
      BY <3>1, <3>2, <3>3, SeqDomain
  <2>8. \A j \in 1 .. Len(s) - 1 : Without(s, ch)[j] = IF j < p THEN s[j] ELSE s[j + 1]
    <3> SUFFICES ASSUME NEW j \in 1 .. Len(s) - 1
                 PROVE  (before \o after)[j] = IF j < p THEN s[j] ELSE s[j + 1]
      BY <2>4
    <3>1. CASE j < p
      <4>1. j \in 1 .. p - 1
        BY <3>1, <2>1, <2>3
      <4> QED
        BY <3>1, <4>1, <2>5, <2>7
    <3>2. CASE ~(j < p)
      <4>1. j - (p - 1) \in 1 .. Len(s) - p /\ p + (j - (p - 1)) = j + 1
        BY <3>2, <2>1, <2>3
      <4>2. after[j - (p - 1)] = s[j + 1]
        BY <4>1, <2>6
      <4> QED
        BY <3>2, <4>2, <2>7
    <3> QED
      BY <3>1, <3>2
  <2> QED
    BY <2>1, <2>3, <2>4, <2>7, <2>8, <1>2
<1> QED
  BY <1>1, <1>2

LEMMA BackwardsType == ASSUME NEW S, NEW s \in Seq(S) PROVE Backwards(s) \in Seq(S)
<1>1. \A i \in 1 .. Len(s) : Len(s) + 1 - i \in 1 .. Len(s)
  OBVIOUS
<1>2. Backwards(s) = [i \in 1 .. Len(s) |-> s[Len(s) + 1 - i]] /\ Len(s) \in Nat
  BY DEF Backwards
<1>3. \A i \in 1 .. Len(s) : s[Len(s) + 1 - i] \in S
  BY <1>1
<1> QED
  BY <1>2, <1>3

-------------------------------------------------------------------------------
(* Occurrences in sequences.                                               *)

Has(s, v)    == \E i \in DOMAIN s : s[i] = v
Single(s, v) == \A i, j \in DOMAIN s : s[i] = v /\ s[j] = v => i = j

LEMMA HasTail ==
  ASSUME NEW S, NEW s \in Seq(S), s # <<>>, NEW v, Single(s, v)
  PROVE  /\ Single(Tail(s), v)
         /\ Has(Tail(s), v) <=> Has(s, v) /\ Head(s) # v
         /\ Has(s, Head(s))
<1>1. /\ Head(s) = s[1] /\ 1 \in DOMAIN s
      /\ \A j \in DOMAIN Tail(s) : j + 1 \in DOMAIN s /\ j + 1 # 1 /\ Tail(s)[j] = s[j + 1]
  BY TailFacts
<1>2. DOMAIN Tail(s) \subseteq Int /\ DOMAIN s \subseteq Int
  BY TailFacts
<1>3. \A i \in DOMAIN s : i # 1 => i - 1 \in DOMAIN Tail(s) /\ Tail(s)[i - 1] = s[i]
  <2>1. Len(Tail(s)) = Len(s) - 1 /\ Tail(s) \in Seq(S)
    BY HeadTailProperties
  <2>2. DOMAIN s = 1 .. Len(s) /\ DOMAIN Tail(s) = 1 .. Len(s) - 1 /\ Len(s) \in Nat
    BY <2>1
  <2>3. ASSUME NEW i \in DOMAIN s, i # 1 PROVE i - 1 \in DOMAIN Tail(s) /\ (i - 1) + 1 = i
    BY <2>2, <2>3
  <2> QED
    BY <1>1, <2>3
<1>4. Single(Tail(s), v)
  <2> SUFFICES ASSUME NEW i \in DOMAIN Tail(s), NEW j \in DOMAIN Tail(s),
                      Tail(s)[i] = v, Tail(s)[j] = v
               PROVE  i = j
    BY DEF Single
  <2>1. i + 1 = j + 1
    BY <1>1 DEF Single
  <2> QED
    BY <1>2, <2>1
<1>5. Has(Tail(s), v) => Has(s, v) /\ Head(s) # v
  <2> SUFFICES ASSUME NEW j \in DOMAIN Tail(s), Tail(s)[j] = v PROVE Has(s, v) /\ Head(s) # v
    BY DEF Has
  <2> QED
    BY <1>1 DEF Has, Single
<1>6. Has(s, v) /\ Head(s) # v => Has(Tail(s), v)
  BY <1>1, <1>3 DEF Has
<1> QED
  BY <1>1, <1>4, <1>5, <1>6 DEF Has

LEMMA HasConcat ==
  ASSUME NEW S, NEW s \in Seq(S), NEW t \in Seq(S), NEW v,
         Single(s, v), Single(t, v), ~(Has(s, v) /\ Has(t, v))
  PROVE  Single(s \o t, v) /\ (Has(s \o t, v) <=> Has(s, v) \/ Has(t, v))
<1> DEFINE u == s \o t
<1>1. /\ Len(s) \in Nat /\ Len(t) \in Nat /\ DOMAIN s = 1 .. Len(s) /\ DOMAIN t = 1 .. Len(t)
      /\ u \in Seq(S) /\ DOMAIN u = 1 .. Len(s) + Len(t)
      /\ \A i \in 1 .. Len(s) + Len(t) : u[i] = IF i <= Len(s) THEN s[i] ELSE t[i - Len(s)]
  BY ConcatProperties
<1> HIDE DEF u
<1>2. \A i \in DOMAIN u : \/ i \in DOMAIN s /\ u[i] = s[i]
                          \/ i - Len(s) \in DOMAIN t /\ u[i] = t[i - Len(s)]
  BY <1>1
<1>3. \A i \in DOMAIN s : i \in DOMAIN u /\ u[i] = s[i]
  BY <1>1
<1>4. \A i \in DOMAIN t : i + Len(s) \in DOMAIN u /\ u[i + Len(s)] = t[i]
  <2> SUFFICES ASSUME NEW i \in DOMAIN t PROVE i + Len(s) \in DOMAIN u /\ u[i + Len(s)] = t[i]
    OBVIOUS
  <2>1. i \in Nat /\ 1 <= i /\ i <= Len(t)
    BY <1>1
  <2>2. i + Len(s) \in 1 .. Len(s) + Len(t) /\ ~(i + Len(s) <= Len(s)) /\ (i + Len(s)) - Len(s) = i
    BY <1>1, <2>1
  <2> QED
    BY <1>1, <2>2
<1>5. Has(u, v) <=> Has(s, v) \/ Has(t, v)
  BY <1>2, <1>3, <1>4 DEF Has
<1>6. ASSUME NEW i \in DOMAIN u, NEW j \in DOMAIN u, u[i] = v, u[j] = v PROVE i = j
  <2>1. CASE i \in DOMAIN s /\ u[i] = s[i] /\ j \in DOMAIN s /\ u[j] = s[j]
    BY <1>6, <2>1 DEF Single
  <2>2. CASE /\ i - Len(s) \in DOMAIN t /\ u[i] = t[i - Len(s)]
             /\ j - Len(s) \in DOMAIN t /\ u[j] = t[j - Len(s)]
    <3>1. i - Len(s) = j - Len(s)
      BY <1>6, <2>2 DEF Single
    <3> QED
      BY <1>1, <3>1
  <2> QED
    BY <1>2, <1>6, <2>1, <2>2 DEF Has
<1> QED
  BY <1>5, <1>6 DEF Single, u

LEMMA HasBackwards ==
  ASSUME NEW S, NEW s \in Seq(S), NEW v, Single(s, v)
  PROVE  Single(Backwards(s), v) /\ (Has(Backwards(s), v) <=> Has(s, v))
<1> DEFINE r == Backwards(s)
<1>1. /\ Len(s) \in Nat /\ DOMAIN s = 1 .. Len(s) /\ DOMAIN r = 1 .. Len(s)
      /\ \A i \in DOMAIN r : r[i] = s[Len(s) + 1 - i]
  BY DEF Backwards
<1> HIDE DEF r
<1>2. \A i \in DOMAIN s : Len(s) + 1 - i \in DOMAIN s /\ Len(s) + 1 - (Len(s) + 1 - i) = i
  BY <1>1
<1>3. Has(r, v) <=> Has(s, v)
  BY <1>1, <1>2 DEF Has
<1>4. ASSUME NEW i \in DOMAIN r, NEW j \in DOMAIN r, r[i] = v, r[j] = v PROVE i = j
  <2>1. Len(s) + 1 - i = Len(s) + 1 - j
    BY <1>1, <1>2, <1>4 DEF Single
  <2> QED
    BY <1>1, <2>1
<1> QED
  BY <1>3, <1>4 DEF Single, r

-------------------------------------------------------------------------------
(* Types.                                                                  *)

PCs == {"idle", "handoff", "store", "register", "read", "parked", "cleanup", "woken"}

\* Where a handler of BLPOP or XREAD has a channel.
Listening == {"register", "read", "parked", "cleanup", "woken"}

Commands == UNION {Calls[c] : c \in Conns}

StoreOK ==
  /\ cache \in [Keys -> [kind : {"none", "list", "stream"}, items : Seq(Items)]]
  /\ waiters \in [Keys -> Seq(Chans)]
  /\ buf \in [Chans -> Items \union {None}] /\ sends \in SUBSET (Chans \X Items)
  /\ given \in SUBSET Items /\ pushed \in SUBSET given
  /\ taken \in [Items -> 0 .. 2] /\ gone \in SUBSET Items /\ shared \in SUBSET Chans
  /\ \A k \in Keys : cache[k].kind = "list" => cache[k].items # <<>>

HandlerOK(c) ==
  /\ pc[c] # "idle" => call[c] \in Commands
  /\ pc[c] \in Listening => chan[c] \in Chans
  /\ pc[c] = "register" => todo[c] # <<>>
  /\ pc[c] = "store" => local[c] # <<>>
  /\ local[c] # <<>> => pc[c] \in {"handoff", "store"}

HandlersOK ==
  /\ pc \in [Conns -> PCs] /\ call \in [Conns -> Commands \union {None}]
  /\ local \in [Conns -> Seq(Items)] /\ chan \in [Conns -> Chans \union {None}]
  /\ todo \in [Conns -> Seq(Keys)] /\ seen \in [Conns -> [Keys -> SUBSET Items]]
  /\ \A c \in Conns : HandlerOK(c)

TypeOK == StoreOK /\ HandlersOK

LEMMA CallFacts ==
  ASSUME NEW cl \in Commands
  PROVE  /\ cl.keys \in Seq(Keys) /\ cl.keys # <<>> /\ cl.keys[1] \in Keys
         /\ cl.items \in Seq(Items) /\ Elems(cl.items) \subseteq Items
         /\ cl.op \in {"LPUSH", "RPUSH", "XADD"} => cl.items # <<>>
         /\ Len(cl.keys) > 1 => cl.op = "XREAD"
         /\ \A i, j \in DOMAIN cl.items : cl.items[i] = cl.items[j] => i = j
<1>1. PICK c \in Conns : cl \in Calls[c]
  BY DEF Commands
<1>2. /\ cl.keys \in Seq(Keys) /\ cl.keys # <<>> /\ cl.items \in Seq(Items)
      /\ Len(cl.keys) > 1 => cl.op = "XREAD"
      /\ cl.op \in {"LPUSH", "RPUSH", "XADD"} => cl.items # <<>>
      /\ \A i, j \in DOMAIN cl.items : cl.items[i] = cl.items[j] => i = j
  BY <1>1, CallsAssumption
<1>3. cl.keys[1] \in Keys
  BY <1>2, TailFacts
<1>4. Elems(cl.items) \subseteq Items
  BY <1>2, ElemsType
<1> QED
  BY <1>2, <1>3, <1>4

LEMMA CallOf == ASSUME NEW c \in Conns, NEW cl \in Calls[c] PROVE cl \in Commands
BY DEF Commands

\* What a handler that is not idle works on.
LEMMA Busy ==
  ASSUME HandlersOK, NEW c \in Conns, pc[c] # "idle"
  PROVE  call[c] \in Commands /\ call[c].keys \in Seq(Keys) /\ call[c].keys # <<>> /\ K(c) \in Keys
BY CallFacts DEF HandlersOK, HandlerOK, K

LEMMA InitType == Init => TypeOK
BY DEF Init, TypeOK, StoreOK, HandlersOK, HandlerOK, Absent, PCs, Listening

\* A handler returns: what the others have is as before.
LEMMA ReturnOK ==
  ASSUME HandlersOK, NEW c \in Conns, Return(c),
         (local' = local /\ local[c] = <<>>) \/ local' = [local EXCEPT ![c] = <<>>]
  PROVE  HandlersOK'
<1>1. /\ pc' = [pc EXCEPT ![c] = "idle"] /\ call' = [call EXCEPT ![c] = None]
      /\ chan' = [chan EXCEPT ![c] = None] /\ todo' = [todo EXCEPT ![c] = <<>>]
      /\ seen' = [seen EXCEPT ![c] = [k \in Keys |-> {}]]
  BY DEF Return, Goto
<1>2. local' \in [Conns -> Seq(Items)] /\ local'[c] = <<>> /\ \A d \in Conns \ {c} : local'[d] = local[d]
  <2>1. local \in [Conns -> Seq(Items)] /\ <<>> \in Seq(Items)
    BY DEF HandlersOK
  <2>2. CASE local' = local /\ local[c] = <<>>
    BY <2>1, <2>2
  <2>3. CASE local' = [local EXCEPT ![c] = <<>>]
    BY <2>1, <2>3
  <2> QED
    BY <2>2, <2>3
<1>3. /\ pc' \in [Conns -> PCs] /\ call' \in [Conns -> Commands \union {None}]
      /\ chan' \in [Conns -> Chans \union {None}]
      /\ todo' \in [Conns -> Seq(Keys)] /\ seen' \in [Conns -> [Keys -> SUBSET Items]]
  BY <1>1 DEF HandlersOK, PCs
<1>4. HandlerOK(c)'
  BY <1>1, <1>2 DEF HandlersOK, HandlerOK, Listening
<1>5. \A d \in Conns \ {c} : HandlerOK(d)'
  BY <1>1, <1>2 DEF HandlersOK, HandlerOK
<1> QED
  BY <1>2, <1>3, <1>4, <1>5 DEF HandlersOK

\* A handler goes on: what it then has suffices.
LEMMA GoesOnOK ==
  ASSUME HandlersOK, NEW c \in Conns, NEW at \in PCs \ {"idle"}, Goto(c, at),
         NEW cl \in Commands, NEW l \in Seq(Items), NEW ch \in Chans \union {None}, NEW t \in Seq(Keys),
         call' = [call EXCEPT ![c] = cl], local' = [local EXCEPT ![c] = l],
         chan' = [chan EXCEPT ![c] = ch], todo' = [todo EXCEPT ![c] = t],
         seen' \in [Conns -> [Keys -> SUBSET Items]],
         at \in Listening => ch \in Chans, at = "register" => t # <<>>, at = "store" => l # <<>>,
         at \in {"handoff", "store"} \/ l = <<>>
  PROVE  HandlersOK'
<1>1. pc' = [pc EXCEPT ![c] = at]
  BY DEF Goto
<1>2. /\ pc' \in [Conns -> PCs] /\ call' \in [Conns -> Commands \union {None}]
      /\ local' \in [Conns -> Seq(Items)] /\ chan' \in [Conns -> Chans \union {None}]
      /\ todo' \in [Conns -> Seq(Keys)]
  BY <1>1 DEF HandlersOK
<1>3. /\ pc'[c] = at /\ call'[c] = cl /\ local'[c] = l /\ chan'[c] = ch /\ todo'[c] = t
  BY <1>1 DEF HandlersOK
<1>4. HandlerOK(c)'
  BY <1>3 DEF HandlerOK
<1>5. \A d \in Conns \ {c} : HandlerOK(d)'
  BY <1>1 DEF HandlersOK, HandlerOK
<1> QED
  BY <1>2, <1>4, <1>5 DEF HandlersOK

LEMMA CleansOK ==
  ASSUME HandlersOK, NEW c \in Conns, pc[c] \in {"read", "parked"}, local' = local,
         CleanAll(c, "woken") \/ CleanAll(c, "cleanup")
  PROVE  HandlersOK'
<1>1. /\ \/ pc' = [pc EXCEPT ![c] = "woken"]
         \/ pc' = [pc EXCEPT ![c] = "cleanup"]
      /\ todo' = [todo EXCEPT ![c] = call[c].keys] /\ UNCHANGED <<call, chan, seen>>
  BY DEF CleanAll, Goto
<1>2. call[c] \in Commands /\ call[c].keys \in Seq(Keys)
  BY Busy
<1>3. pc' \in [Conns -> PCs] /\ todo' \in [Conns -> Seq(Keys)]
  BY <1>1, <1>2 DEF HandlersOK, PCs
<1>4. HandlerOK(c)'
  BY <1>1, <1>2 DEF HandlersOK, HandlerOK, Listening
<1>5. \A d \in Conns \ {c} : HandlerOK(d)'
  BY <1>1 DEF HandlersOK, HandlerOK
<1> QED
  BY <1>1, <1>3, <1>4, <1>5 DEF HandlersOK

\* A new channel, and what becomes of what it held.
LEMMA MakeOK ==
  ASSUME StoreOK, NEW c \in Conns, NEW ch \in Chans, Make(c, ch)
  PROVE  /\ buf' \in [Chans -> Items \union {None}] /\ gone' \in SUBSET Items
         /\ chan' = [chan EXCEPT ![c] = ch]
BY DEF StoreOK, Make

LEMMA PushLockType ==
  ASSUME TypeOK, NEW c \in Conns, PushLock(c)
  PROVE  TypeOK'
<1>1. PICK cl \in Calls[c] :
        /\ pc[c] = "idle" /\ cl.op \in {"LPUSH", "RPUSH"} /\ Begin(c, cl, "handoff")
        /\ local' = [local EXCEPT ![c] = cl.items]
        /\ given' = given \union Elems(cl.items) /\ pushed' = pushed \union Elems(cl.items)
        /\ UNCHANGED <<cache, waiters, buf, sends, chan, todo, seen, taken, gone, shared>>
  BY DEF PushLock, store, comm
<1>2. cl \in Commands /\ cl.items \in Seq(Items) /\ Elems(cl.items) \subseteq Items
  BY CallFacts, CallOf
<1>3. StoreOK'
  BY <1>1, <1>2 DEF TypeOK, StoreOK
<1>4. /\ chan[c] \in Chans \union {None} /\ chan' = [chan EXCEPT ![c] = chan[c]]
      /\ todo[c] \in Seq(Keys) /\ todo' = [todo EXCEPT ![c] = todo[c]]
      /\ seen' \in [Conns -> [Keys -> SUBSET Items]]
      /\ Goto(c, "handoff") /\ call' = [call EXCEPT ![c] = cl]
  BY <1>1 DEF TypeOK, HandlersOK, Begin
<1>5. "handoff" \in PCs \ {"idle"} /\ "handoff" \notin Listening
  BY DEF PCs, Listening
<1>6. HandlersOK'
  BY <1>1, <1>2, <1>4, <1>5, GoesOnOK DEF TypeOK
<1> QED
  BY <1>3, <1>6 DEF TypeOK

LEMMA ClientType ==
  ASSUME TypeOK, NEW c \in Conns, Client(c)
  PROVE  TypeOK'
<1>1. CASE PushLock(c)
  BY <1>1, PushLockType
<1>2. CASE XAdd(c)
  <2>1. PICK cl \in Calls[c] :
          /\ cl.op = "XADD" /\ cache[cl.keys[1]].kind # "list"
          /\ cache' = [cache EXCEPT ![cl.keys[1]] = [kind |-> "stream", items |-> @.items \o cl.items]]
          /\ sends' = sends \union (Told(cl.keys[1]) \X Elems(cl.items))
          /\ waiters' = [waiters EXCEPT ![cl.keys[1]] = <<>>]
          /\ given' = given \union Elems(cl.items)
          /\ UNCHANGED <<buf, proc, pushed, taken, gone, shared>>
    BY <1>2 DEF XAdd
  <2>2. cl.keys[1] \in Keys /\ cl.items \in Seq(Items) /\ Elems(cl.items) \subseteq Items
    BY CallFacts, CallOf
  <2>3. Told(cl.keys[1]) \subseteq Chans
    BY <2>2, ElemsType DEF TypeOK, StoreOK, Told
  <2>4. cache[cl.keys[1]].items \o cl.items \in Seq(Items)
    BY <2>2 DEF TypeOK, StoreOK
  <2>5. /\ cache' \in [Keys -> [kind : {"none", "list", "stream"}, items : Seq(Items)]]
        /\ \A k \in Keys : cache'[k].kind = "list" => cache'[k].items # <<>>
    BY <2>1, <2>2, <2>4 DEF TypeOK, StoreOK
  <2>6. /\ sends' \in SUBSET (Chans \X Items) /\ waiters' \in [Keys -> Seq(Chans)]
        /\ given' \in SUBSET Items /\ pushed' \in SUBSET given'
    BY <2>1, <2>2, <2>3 DEF TypeOK, StoreOK
  <2>7. StoreOK'
    BY <2>1, <2>5, <2>6 DEF TypeOK, StoreOK
  <2> QED
    BY <2>1, <2>7 DEF TypeOK, HandlersOK, HandlerOK, proc
<1>3. CASE BlpopTake(c)
  <2>1. PICK cl \in Calls[c] :
          LET k == cl.keys[1]  s == cache[k].items IN
            /\ cache[k].kind = "list"
            /\ cache' = [cache EXCEPT ![k] = IF Len(s) = 1 THEN Absent ELSE [@ EXCEPT !.items = Tail(s)]]
            /\ taken' = [taken EXCEPT ![Head(s)] = IF @ = 0 THEN 1 ELSE 2]
            /\ UNCHANGED <<waiters, buf, sends, proc, given, pushed, gone, shared>>
    BY <1>3 DEF BlpopTake, comm
  <2> DEFINE k == cl.keys[1]
             s == cache[k].items
  <2>2. k \in Keys /\ s \in Seq(Items) /\ s # <<>>
    BY <2>1, CallFacts, CallOf DEF TypeOK, StoreOK
  <2>3. Head(s) \in Items /\ Tail(s) \in Seq(Items) /\ (Len(s) # 1 => Tail(s) # <<>>)
    BY <2>2, TailFacts
  <2>4. /\ cache' = [cache EXCEPT ![k] = IF Len(s) = 1 THEN Absent ELSE [@ EXCEPT !.items = Tail(s)]]
        /\ taken' = [taken EXCEPT ![Head(s)] = IF @ = 0 THEN 1 ELSE 2]
    BY <2>1
  <2> HIDE DEF k, s
  <2>5. [cache[k] EXCEPT !.items = Tail(s)] \in [kind : {"none", "list", "stream"}, items : Seq(Items)]
    BY <2>2, <2>3 DEF TypeOK, StoreOK
  <2>6. Absent \in [kind : {"none", "list", "stream"}, items : Seq(Items)] /\ Absent.kind # "list"
    BY DEF Absent
  <2>7. /\ cache' \in [Keys -> [kind : {"none", "list", "stream"}, items : Seq(Items)]]
        /\ \A l \in Keys : cache'[l].kind = "list" => cache'[l].items # <<>>
    BY <2>2, <2>3, <2>4, <2>5, <2>6 DEF TypeOK, StoreOK
  <2>8. taken' \in [Items -> 0 .. 2]
    BY <2>3, <2>4 DEF TypeOK, StoreOK
  <2> QED
    BY <2>1, <2>7, <2>8 DEF TypeOK, StoreOK, HandlersOK, HandlerOK, proc
<1>4. CASE BlpopPark(c)
  <2>1. PICK cl \in Calls[c], ch \in Chans :
          /\ pc[c] = "idle" /\ Make(c, ch) /\ shared' = shared \ {ch}
          /\ waiters' = [waiters EXCEPT ![cl.keys[1]] = Append(@, ch)]
          /\ Begin(c, cl, "parked")
          /\ UNCHANGED <<cache, sends, local, todo, seen, given, pushed, taken>>
    BY <1>4 DEF BlpopPark
  <2>2. cl \in Commands /\ cl.keys[1] \in Keys
    BY CallFacts, CallOf
  <2>3. /\ buf' \in [Chans -> Items \union {None}] /\ gone' \in SUBSET Items
        /\ chan' = [chan EXCEPT ![c] = ch]
    BY <2>1, MakeOK DEF TypeOK
  <2>4. waiters' \in [Keys -> Seq(Chans)] /\ shared' \in SUBSET Chans
    BY <2>1, <2>2 DEF TypeOK, StoreOK
  <2>5. StoreOK'
    BY <2>1, <2>3, <2>4 DEF TypeOK, StoreOK
  <2>6. /\ local[c] = <<>> /\ local[c] \in Seq(Items) /\ local' = [local EXCEPT ![c] = local[c]]
        /\ todo[c] \in Seq(Keys) /\ todo' = [todo EXCEPT ![c] = todo[c]]
        /\ seen' \in [Conns -> [Keys -> SUBSET Items]]
        /\ Goto(c, "parked") /\ call' = [call EXCEPT ![c] = cl]
    BY <2>1 DEF TypeOK, HandlersOK, HandlerOK, Begin
  <2>7. "parked" \in PCs \ {"idle"} /\ "parked" # "register" /\ "parked" # "store" /\ ch \in Chans \union {None}
    BY DEF PCs
  <2>8. HandlersOK'
    BY <2>1, <2>2, <2>3, <2>6, <2>7, GoesOnOK DEF TypeOK
  <2> QED
    BY <2>5, <2>8 DEF TypeOK
<1>5. CASE XreadBegin(c)
  <2>1. PICK cl \in Calls[c], ch \in Chans :
          /\ pc[c] = "idle" /\ Make(c, ch) /\ todo' = [todo EXCEPT ![c] = cl.keys]
          /\ shared' = IF Len(cl.keys) > 1 THEN shared \union {ch} ELSE shared \ {ch}
          /\ Begin(c, cl, "register")
          /\ UNCHANGED <<cache, waiters, sends, local, seen, given, pushed, taken>>
    BY <1>5 DEF XreadBegin, store
  <2>2. cl \in Commands /\ cl.keys \in Seq(Keys) /\ cl.keys # <<>>
    BY CallFacts, CallOf
  <2>3. /\ buf' \in [Chans -> Items \union {None}] /\ gone' \in SUBSET Items
        /\ chan' = [chan EXCEPT ![c] = ch]
    BY <2>1, MakeOK DEF TypeOK
  <2>4. shared' \in SUBSET Chans
    BY <2>1 DEF TypeOK, StoreOK
  <2>5. StoreOK'
    BY <2>1, <2>3, <2>4 DEF TypeOK, StoreOK
  <2>6. /\ local[c] = <<>> /\ local[c] \in Seq(Items) /\ local' = [local EXCEPT ![c] = local[c]]
        /\ seen' \in [Conns -> [Keys -> SUBSET Items]]
        /\ Goto(c, "register") /\ call' = [call EXCEPT ![c] = cl]
    BY <2>1 DEF TypeOK, HandlersOK, HandlerOK, Begin
  <2>7. "register" \in PCs \ {"idle"} /\ "register" # "store" /\ ch \in Chans \union {None}
    BY DEF PCs
  <2>8. HandlersOK'
    BY <2>1, <2>2, <2>3, <2>6, <2>7, GoesOnOK DEF TypeOK
  <2> QED
    BY <2>5, <2>8 DEF TypeOK
<1> QED
  BY <1>1, <1>2, <1>3, <1>4, <1>5 DEF Client

LEMMA SendType ==
  ASSUME TypeOK, Send
  PROVE  TypeOK'
<1>1. PICK s \in sends :
        /\ buf' = [buf EXCEPT ![s[1]] = s[2]] /\ sends' = sends \ {s}
        /\ UNCHANGED <<cache, waiters, proc, ghost>>
  BY DEF Send, store
<1>2. s[1] \in Chans /\ s[2] \in Items
  BY DEF TypeOK, StoreOK
<1> QED
  BY <1>1, <1>2 DEF TypeOK, StoreOK, HandlersOK, HandlerOK, proc, ghost

LEMMA RunningType ==
  ASSUME TypeOK, NEW c \in Conns, Running(c)
  PROVE  TypeOK'
<1>1. CASE HandOver(c)
  <2>1. /\ pc[c] = "handoff" /\ local[c] # <<>> /\ waiters[K(c)] # <<>>
        /\ buf' = [buf EXCEPT ![Target(c)] = Head(local[c])]
        /\ waiters' = [waiters EXCEPT ![K(c)] = Tail(@)] /\ local' = [local EXCEPT ![c] = Tail(@)]
        /\ UNCHANGED <<cache, sends, pc, call, chan, todo, seen, ghost>>
    BY <1>1 DEF HandOver, Sending
  <2>2. K(c) \in Keys /\ waiters[K(c)] \in Seq(Chans) /\ local[c] \in Seq(Items)
    BY <2>1, Busy DEF TypeOK, StoreOK, HandlersOK
  <2>3. /\ Target(c) \in Chans /\ Tail(waiters[K(c)]) \in Seq(Chans)
        /\ Head(local[c]) \in Items /\ Tail(local[c]) \in Seq(Items)
    BY <2>1, <2>2, TailFacts DEF Target
  <2>4. StoreOK'
    BY <2>1, <2>2, <2>3 DEF TypeOK, StoreOK, ghost
  <2>5. local' \in [Conns -> Seq(Items)] /\ HandlerOK(c)'
    BY <2>1, <2>3 DEF TypeOK, HandlersOK, HandlerOK, Listening
  <2>6. \A d \in Conns \ {c} : HandlerOK(d)'
    BY <2>1 DEF TypeOK, HandlersOK, HandlerOK
  <2> QED
    BY <2>1, <2>4, <2>5, <2>6 DEF TypeOK, HandlersOK
<1>2. CASE PushUnlock(c)
  <2>1. /\ pc[c] = "handoff" /\ UNCHANGED <<cache, waiters, buf, sends, local, ghost>>
        /\ IF local[c] = <<>> THEN Return(c) ELSE Goto(c, "store") /\ UNCHANGED <<call, chan, todo, seen>>
    BY <1>2 DEF PushUnlock, store, comm
  <2>2. StoreOK'
    BY <2>1 DEF TypeOK, StoreOK, ghost
  <2>3. CASE local[c] = <<>>
    <3>1. HandlersOK'
      BY <2>1, <2>3, ReturnOK DEF TypeOK
    <3> QED
      BY <2>2, <3>1 DEF TypeOK
  <2>4. CASE local[c] # <<>>
    <3>1. pc' = [pc EXCEPT ![c] = "store"] /\ UNCHANGED <<call, chan, todo, seen>>
      BY <2>1, <2>4 DEF Goto
    <3>2. pc' \in [Conns -> PCs] /\ HandlerOK(c)'
      BY <2>1, <2>4, <3>1 DEF TypeOK, HandlersOK, HandlerOK, PCs, Listening
    <3>3. \A d \in Conns \ {c} : HandlerOK(d)'
      BY <2>1, <3>1 DEF TypeOK, HandlersOK, HandlerOK
    <3> QED
      BY <2>1, <2>2, <3>1, <3>2, <3>3 DEF TypeOK, HandlersOK
  <2> QED
    BY <2>3, <2>4
<1>3. CASE BlpopWake(c)
  <2>1. /\ pc[c] = "parked" /\ buf[chan[c]] # None /\ Return(c)
        /\ taken' = [taken EXCEPT ![buf[chan[c]]] = IF @ = 0 THEN 1 ELSE 2]
        /\ buf' = [buf EXCEPT ![chan[c]] = None]
        /\ UNCHANGED <<cache, waiters, sends, local, given, pushed, gone, shared>>
    BY <1>3 DEF BlpopWake, store
  <2>2. chan[c] \in Chans /\ local[c] = <<>>
    BY <2>1 DEF TypeOK, HandlersOK, HandlerOK, Listening
  <2>3. buf[chan[c]] \in Items
    BY <2>1, <2>2 DEF TypeOK, StoreOK
  <2>4. StoreOK'
    BY <2>1, <2>2, <2>3 DEF TypeOK, StoreOK
  <2>5. HandlersOK'
    BY <2>1, <2>2, ReturnOK DEF TypeOK
  <2> QED
    BY <2>4, <2>5 DEF TypeOK
<1>4. CASE XreadWake(c)
  <2>1. /\ pc[c] = "parked" /\ CleanAll(c, "woken")
        /\ gone' = gone \union ({buf[chan[c]]} \intersect pushed)
        /\ buf' = [buf EXCEPT ![chan[c]] = None]
        /\ UNCHANGED <<cache, waiters, sends, local, given, pushed, taken, shared>>
    BY <1>4 DEF XreadWake, store
  <2>2. StoreOK'
    BY <2>1 DEF TypeOK, StoreOK
  <2>3. HandlersOK'
    BY <2>1, CleansOK DEF TypeOK
  <2> QED
    BY <2>2, <2>3 DEF TypeOK
<1>5. CASE Timeout(c)
  <2>1. /\ pc[c] = "parked" /\ CleanAll(c, "cleanup")
        /\ UNCHANGED <<cache, waiters, buf, sends, local, ghost>>
    BY <1>5 DEF Timeout, store, comm
  <2>2. HandlersOK'
    BY <2>1, CleansOK DEF TypeOK
  <2> QED
    BY <2>1, <2>2 DEF TypeOK, StoreOK, ghost
<1> QED
  BY <1>1, <1>2, <1>3, <1>4, <1>5 DEF Running

LEMMA LockingType ==
  ASSUME TypeOK, NEW c \in Conns, Locking(c)
  PROVE  TypeOK'
<1>1. CASE PushStore(c)
  <2> DEFINE k   == K(c)
             old == IF cache[k].kind = "list" THEN cache[k].items ELSE <<>>
             new == IF call[c].op = "LPUSH" THEN Backwards(local[c]) \o old ELSE old \o local[c]
  <2>1. /\ pc[c] = "store" /\ cache' = [cache EXCEPT ![k] = [kind |-> "list", items |-> new]]
        /\ local' = [local EXCEPT ![c] = <<>>] /\ Return(c)
        /\ UNCHANGED <<waiters, buf, sends, ghost>>
    BY <1>1 DEF PushStore, comm
  <2>2. k \in Keys /\ local[c] \in Seq(Items) /\ local[c] # <<>>
    BY <2>1, Busy DEF TypeOK, HandlersOK, HandlerOK
  <2>3. old \in Seq(Items)
    BY <2>2 DEF TypeOK, StoreOK
  <2>4. Backwards(local[c]) \in Seq(Items) /\ Len(Backwards(local[c])) = Len(local[c]) /\ Len(local[c]) > 0
    <3>1. Backwards(local[c]) \in Seq(Items)
      BY <2>2, BackwardsType
    <3>2. Len(local[c]) \in Nat /\ DOMAIN Backwards(local[c]) = 1 .. Len(local[c]) /\ Len(local[c]) # 0
      BY <2>2 DEF Backwards
    <3> QED
      BY <3>1, <3>2
  <2> HIDE DEF old
  <2>5. new \in Seq(Items) /\ new # <<>>
    <3>1. ASSUME NEW s \in Seq(Items), NEW t \in Seq(Items), Len(s) > 0 \/ Len(t) > 0
          PROVE  s \o t \in Seq(Items) /\ s \o t # <<>>
      <4>1. s \o t \in Seq(Items) /\ Len(s \o t) = Len(s) + Len(t)
        BY ConcatProperties
      <4>2. Len(s) \in Nat /\ Len(t) \in Nat
        OBVIOUS
      <4>3. Len(s \o t) # 0
        BY <4>1, <4>2, <3>1
      <4> QED
        BY <4>1, <4>3
    <3>2. /\ Backwards(local[c]) \o old \in Seq(Items) /\ Backwards(local[c]) \o old # <<>>
          /\ old \o local[c] \in Seq(Items) /\ old \o local[c] # <<>>
      BY <2>2, <2>3, <2>4, <3>1
    <3> QED
      BY <3>2
  <2> HIDE DEF new, k
  <2>6. StoreOK'
    BY <2>1, <2>2, <2>5 DEF TypeOK, StoreOK, ghost
  <2>7. HandlersOK'
    BY <2>1, ReturnOK DEF TypeOK
  <2> QED
    BY <2>6, <2>7 DEF TypeOK
<1>2. CASE Register(c)
  <2>1. /\ pc[c] = "register"
        /\ waiters' = [waiters EXCEPT ![Head(todo[c])] = Append(@, chan[c])]
        /\ seen' = [seen EXCEPT ![c][Head(todo[c])] =
                     IF call[c].news /\ cache[Head(todo[c])].kind = "stream"
                     THEN Elems(cache[Head(todo[c])].items) ELSE {}]
        /\ todo' = [todo EXCEPT ![c] = Tail(@)]
        /\ Goto(c, IF Len(todo[c]) = 1 THEN "read" ELSE "register")
        /\ UNCHANGED <<cache, buf, sends, call, local, chan, ghost>>
    BY <1>2 DEF Register, comm
  <2>2. chan[c] \in Chans /\ todo[c] \in Seq(Keys) /\ todo[c] # <<>> /\ local[c] = <<>> /\ call[c] \in Commands
    BY <2>1 DEF TypeOK, HandlersOK, HandlerOK, Listening
  <2>3. Head(todo[c]) \in Keys /\ Tail(todo[c]) \in Seq(Keys) /\ (Len(todo[c]) # 1 => Tail(todo[c]) # <<>>)
    BY <2>2, TailFacts
  <2>4. StoreOK'
    BY <2>1, <2>2, <2>3 DEF TypeOK, StoreOK, ghost
  <2>5. Elems(cache[Head(todo[c])].items) \subseteq Items
    BY <2>3, ElemsType DEF TypeOK, StoreOK
  <2>6. seen' \in [Conns -> [Keys -> SUBSET Items]]
    BY <2>1, <2>3, <2>5 DEF TypeOK, HandlersOK
  <2>7. /\ pc' = [pc EXCEPT ![c] = IF Len(todo[c]) = 1 THEN "read" ELSE "register"]
        /\ pc' \in [Conns -> PCs] /\ todo' \in [Conns -> Seq(Keys)]
    BY <2>1, <2>3 DEF TypeOK, HandlersOK, Goto, PCs
  <2>8. HandlerOK(c)'
    BY <2>1, <2>2, <2>3, <2>7 DEF TypeOK, HandlersOK, HandlerOK, Listening
  <2>9. \A d \in Conns \ {c} : HandlerOK(d)'
    BY <2>1, <2>7 DEF TypeOK, HandlersOK, HandlerOK
  <2> QED
    BY <2>1, <2>4, <2>6, <2>7, <2>8, <2>9 DEF TypeOK, HandlersOK
<1>3. CASE ReadAtOnce(c) \/ Reread(c)
  <2>1. pc[c] \in {"read", "woken"} /\ Return(c) /\ UNCHANGED <<cache, waiters, buf, sends, local, ghost>>
    BY <1>3 DEF ReadAtOnce, Reread, store, comm
  <2>2. local[c] = <<>>
    BY <2>1 DEF TypeOK, HandlersOK, HandlerOK
  <2>3. HandlersOK'
    BY <2>1, <2>2, ReturnOK DEF TypeOK
  <2> QED
    BY <2>1, <2>3 DEF TypeOK, StoreOK, ghost
<1>4. CASE ReadFails(c)
  <2>1. /\ pc[c] = "read" /\ CleanAll(c, "cleanup")
        /\ UNCHANGED <<cache, waiters, buf, sends, local, ghost>>
    BY <1>4 DEF ReadFails, store, comm
  <2>2. HandlersOK'
    BY <2>1, CleansOK DEF TypeOK
  <2> QED
    BY <2>1, <2>2 DEF TypeOK, StoreOK, ghost
<1>5. CASE Park(c)
  <2>1. /\ pc[c] = "read" /\ pc' = [pc EXCEPT ![c] = "parked"]
        /\ UNCHANGED <<cache, waiters, buf, sends, call, local, chan, todo, seen, ghost>>
    BY <1>5 DEF Park, Goto, store, comm
  <2>2. pc' \in [Conns -> PCs] /\ HandlerOK(c)'
    BY <2>1 DEF TypeOK, HandlersOK, HandlerOK, PCs, Listening
  <2>3. \A d \in Conns \ {c} : HandlerOK(d)'
    BY <2>1 DEF TypeOK, HandlersOK, HandlerOK
  <2> QED
    BY <2>1, <2>2, <2>3 DEF TypeOK, StoreOK, HandlersOK, ghost
<1>6. CASE CleanUpExpiredKeyWaiter(c)
  <2>1. /\ pc[c] \in {"cleanup", "woken"} /\ todo[c] # <<>>
        /\ waiters' = [waiters EXCEPT ![Head(todo[c])] = Without(@, chan[c])]
        /\ \/ Return(c)
           \/ todo' = [todo EXCEPT ![c] = Tail(@)] /\ UNCHANGED <<pc, call, chan, seen>>
        /\ UNCHANGED <<cache, buf, sends, local, ghost>>
    BY <1>6 DEF CleanUpExpiredKeyWaiter, comm
  <2>2. Head(todo[c]) \in Keys /\ Tail(todo[c]) \in Seq(Keys) /\ local[c] = <<>>
    BY <2>1, TailFacts DEF TypeOK, HandlersOK, HandlerOK
  <2>3. Without(waiters[Head(todo[c])], chan[c]) \in Seq(Chans)
    BY <2>2, WithoutFacts DEF TypeOK, StoreOK
  <2>4. StoreOK'
    BY <2>1, <2>2, <2>3 DEF TypeOK, StoreOK, ghost
  <2>5. CASE Return(c)
    <3>1. HandlersOK'
      BY <2>1, <2>2, <2>5, ReturnOK DEF TypeOK
    <3> QED
      BY <2>4, <3>1 DEF TypeOK
  <2>6. CASE todo' = [todo EXCEPT ![c] = Tail(@)] /\ UNCHANGED <<pc, call, chan, seen>>
    <3>1. todo' \in [Conns -> Seq(Keys)] /\ HandlerOK(c)'
      BY <2>1, <2>2, <2>6 DEF TypeOK, HandlersOK, HandlerOK
    <3>2. \A d \in Conns \ {c} : HandlerOK(d)'
      BY <2>1, <2>6 DEF TypeOK, HandlersOK, HandlerOK
    <3> QED
      BY <2>1, <2>4, <2>6, <3>1, <3>2 DEF TypeOK, HandlersOK
  <2> QED
    BY <2>1, <2>5, <2>6
<1> QED
  BY <1>1, <1>2, <1>3, <1>4, <1>5, <1>6 DEF Locking

LEMMA NextType == TypeOK /\ [Next]_vars => TypeOK'
<1> SUFFICES ASSUME TypeOK, [Next]_vars PROVE TypeOK'
  OBVIOUS
<1>1. CASE UNCHANGED vars
  BY <1>1 DEF TypeOK, StoreOK, HandlersOK, HandlerOK, vars, store, comm, proc, ghost
<1>2. CASE Send
  BY <1>2, SendType
<1>3. ASSUME NEW c \in Conns, Client(c) \/ Running(c) \/ Locking(c) PROVE TypeOK'
  BY <1>3, ClientType, RunningType, LockingType
<1> QED
  BY <1>1, <1>2, <1>3 DEF Next

LEMMA TypeInvariant == Spec => []TypeOK
BY InitType, NextType, PTL DEF Spec

-------------------------------------------------------------------------------
(* The queues.                                                             *)

OneOwner == \A c, d \in Conns : chan[c] # None /\ chan[c] = chan[d] => c = d

Queued(w, ch) == \E k \in Keys : \E i \in DOMAIN w[k] : w[k][i] = ch

\* Nobody has a reference to ch but who made it.
Unused(ch) == buf[ch] = None /\ (\A s \in sends : s[1] # ch) /\ ~Queued(waiters, ch)

\* An XREAD that has still to queue the channel it has made for one key.
Registering ==
  \A c \in Conns : pc[c] = "register" /\ chan[c] \notin shared =>
    Len(todo[c]) = 1 /\ Unused(chan[c])

QueueInv == OthersHaveRoom /\ OneOwner /\ Registering

\* t is s, or s but for the element n.
Skip(n, j)    == IF j < n THEN j ELSE j + 1
Shrinks(s, t) == \E n \in Nat : \A j \in DOMAIN t : Skip(n, j) \in DOMAIN s /\ t[j] = s[Skip(n, j)]

LEMMA ShrinkSame == ASSUME NEW S, NEW s \in Seq(S) PROVE Shrinks(s, s)
<1>1. Len(s) + 1 \in Nat /\ \A j \in DOMAIN s : Skip(Len(s) + 1, j) = j
  BY SeqDomain DEF Skip
<1> QED
  BY <1>1 DEF Shrinks

LEMMA ShrinkTail == ASSUME NEW S, NEW s \in Seq(S), s # <<>> PROVE Shrinks(s, Tail(s))
<1>1. \A j \in DOMAIN Tail(s) : j \in Nat /\ j # 0
  BY TailFacts, SeqDomain
<1>2. \A j \in DOMAIN Tail(s) : Skip(1, j) = j + 1
  BY <1>1 DEF Skip
<1> QED
  BY <1>2, TailFacts DEF Shrinks

LEMMA ShrinkEmpty == ASSUME NEW s PROVE Shrinks(s, <<>>)
BY DEF Shrinks

LEMMA ShrinkWithout == ASSUME NEW S, NEW s \in Seq(S), NEW ch PROVE Shrinks(s, Without(s, ch))
<1>1. CASE ch \notin Elems(s)
  BY <1>1, WithoutFacts, ShrinkSame
<1>2. CASE ch \in Elems(s)
  <2>1. PICK i \in DOMAIN s :
          /\ DOMAIN Without(s, ch) = 1 .. Len(s) - 1 /\ DOMAIN s = 1 .. Len(s) /\ Len(s) \in Nat
          /\ \A j \in 1 .. Len(s) - 1 : Without(s, ch)[j] = IF j < i THEN s[j] ELSE s[j + 1]
    BY <1>2, WithoutFacts
  <2>2. i \in Nat /\ \A j \in 1 .. Len(s) - 1 : Skip(i, j) \in DOMAIN s
    BY <2>1 DEF Skip
  <2>3. \A j \in DOMAIN Without(s, ch) : Skip(i, j) \in DOMAIN s /\ Without(s, ch)[j] = s[Skip(i, j)]
    BY <2>1, <2>2 DEF Skip
  <2> QED
    BY <2>2, <2>3 DEF Shrinks
<1> QED
  BY <1>1, <1>2

LEMMA SkipApart ==
  ASSUME NEW n \in Nat, NEW i \in Nat, NEW j \in Nat, Skip(n, i) = Skip(n, j)
  PROVE  i = j
BY DEF Skip

\* Steps that queue nothing: the queues shrink, and whatever is sent goes to a channel that
\* is then in no queue, and was not new.
LEMMA ShrinkingQueues ==
  ASSUME TypeOK, TypeOK', QueueInv,
         \A k \in Keys : Shrinks(waiters[k], waiters'[k]), shared' = shared,
         \A d \in Conns : chan'[d] = chan[d] \/ chan'[d] = None,
         \A d \in Conns : pc'[d] = "register" => pc[d] = "register" /\ chan'[d] = chan[d] /\ todo'[d] = todo[d],
         \A ch \in Chans \ shared : Queued(waiters', ch) \/ Unused(ch) =>
            (buf[ch] = None => buf'[ch] = None) /\ \A s \in sends' : s[1] = ch => s \in sends
  PROVE  QueueInv'
<1>1. ASSUME NEW k \in Keys, NEW i \in DOMAIN waiters'[k]
      PROVE  \E m \in DOMAIN waiters[k] : waiters'[k][i] = waiters[k][m]
  BY <1>1 DEF Shrinks
<1>2. \A ch : Queued(waiters', ch) => Queued(waiters, ch)
  BY <1>1 DEF Queued
<1>3. \A k \in Keys : \A i \in DOMAIN waiters'[k] : waiters'[k][i] \in Chans /\ i \in Nat
  BY SeqDomain DEF TypeOK, StoreOK
<1>4. ASSUME NEW k \in Keys, NEW i \in DOMAIN waiters'[k], waiters'[k][i] \notin shared'
      PROVE  buf'[waiters'[k][i]] = None /\ \A s \in sends' : s[1] # waiters'[k][i]
  <2> DEFINE ch == waiters'[k][i]
  <2>1. ch \in Chans \ shared /\ Queued(waiters', ch)
    BY <1>3, <1>4 DEF Queued
  <2>2. PICK m \in DOMAIN waiters[k] : ch = waiters[k][m]
    BY <1>1
  <2> HIDE DEF ch
  <2>3. buf[ch] = None /\ \A s \in sends : s[1] # ch
    BY <2>1, <2>2 DEF QueueInv, OthersHaveRoom
  <2>4. /\ buf[ch] = None => buf'[ch] = None
        /\ \A s \in sends' : s[1] = ch => s \in sends
    BY <2>1
  <2>5. buf'[ch] = None /\ \A s \in sends' : s[1] # ch
    BY <2>3, <2>4
  <2> QED
    BY <2>5 DEF ch
<1>5. ASSUME NEW k \in Keys, NEW i \in DOMAIN waiters'[k], waiters'[k][i] \notin shared',
             NEW l \in Keys, NEW j \in DOMAIN waiters'[l], waiters'[l][j] = waiters'[k][i]
      PROVE  l = k /\ j = i
  <2>1. PICK n \in Nat : Skip(n, i) \in DOMAIN waiters[k] /\ waiters'[k][i] = waiters[k][Skip(n, i)]
                         /\ \A x \in DOMAIN waiters'[k] : Skip(n, x) \in DOMAIN waiters[k]
                                                     /\ waiters'[k][x] = waiters[k][Skip(n, x)]
    BY DEF Shrinks
  <2>2. PICK m \in DOMAIN waiters[l] : waiters'[l][j] = waiters[l][m]
    BY <1>1
  <2>3. l = k
    BY <1>5, <2>1, <2>2 DEF QueueInv, OthersHaveRoom
  <2>4. Skip(n, j) \in DOMAIN waiters[k] /\ waiters[k][Skip(n, j)] = waiters[k][Skip(n, i)]
    BY <1>5, <2>1, <2>3
  <2>5. Skip(n, j) = Skip(n, i)
    BY <1>5, <2>1, <2>4 DEF QueueInv, OthersHaveRoom
  <2> QED
    BY <1>3, <2>3, <2>5, SkipApart
<1>6. OthersHaveRoom'
  BY <1>4, <1>5 DEF OthersHaveRoom
<1>7. OneOwner'
  BY DEF QueueInv, OneOwner
<1>8. ASSUME NEW c \in Conns, pc'[c] = "register", chan'[c] \notin shared'
      PROVE  Len(todo'[c]) = 1 /\ Unused(chan[c])'
  <2>1. /\ pc[c] = "register" /\ chan'[c] = chan[c] /\ todo'[c] = todo[c]
        /\ Len(todo[c]) = 1 /\ Unused(chan[c])
    BY <1>8 DEF QueueInv, Registering
  <2>2. chan[c] \in Chans \ shared
    BY <1>8, <2>1 DEF TypeOK, HandlersOK, HandlerOK, Listening
  <2>3. buf'[chan[c]] = None /\ \A s \in sends' : s[1] # chan[c]
    BY <2>1, <2>2 DEF Unused
  <2>4. ~Queued(waiters', chan[c])
    BY <1>2, <2>1 DEF Unused
  <2> QED
    BY <2>1, <2>3, <2>4 DEF Unused
<1> QED
  BY <1>6, <1>7, <1>8 DEF QueueInv, Registering

\* Steps that leave the queues alone and send nothing.
LEMMA QuietQueues ==
  ASSUME TypeOK, TypeOK', QueueInv, waiters' = waiters, shared' = shared, sends' = sends,
         \A ch \in Chans : buf'[ch] = buf[ch] \/ buf'[ch] = None,
         \A d \in Conns : chan'[d] = chan[d] \/ chan'[d] = None,
         \A d \in Conns : pc'[d] = "register" => pc[d] = "register" /\ chan'[d] = chan[d] /\ todo'[d] = todo[d]
  PROVE  QueueInv'
<1>1. \A k \in Keys : Shrinks(waiters[k], waiters'[k])
  BY ShrinkSame DEF TypeOK, StoreOK
<1>2. \A ch \in Chans \ shared : Queued(waiters', ch) \/ Unused(ch) =>
         (buf[ch] = None => buf'[ch] = None) /\ \A s \in sends' : s[1] = ch => s \in sends
  OBVIOUS
<1> QED
  BY <1>1, <1>2, ShrinkingQueues

\* A channel joins a queue, which nothing is sent to and no queue has, unless it is shared.
LEMMA JoinsQueue ==
  ASSUME TypeOK, OthersHaveRoom, NEW k \in Keys, NEW ch \in Chans,
         waiters' = [waiters EXCEPT ![k] = Append(@, ch)], sends' = sends,
         \A g \in Chans \ {ch} : buf'[g] = buf[g] /\ (g \in shared' <=> g \in shared),
         ch \in shared' \/ (buf'[ch] = None /\ (\A s \in sends : s[1] # ch) /\ ~Queued(waiters, ch)),
         ch \in shared => ch \in shared' \/ ~Queued(waiters, ch)
  PROVE  OthersHaveRoom'
<1> DEFINE w == waiters[k]
<1>1. w \in Seq(Chans) /\ waiters'[k] = Append(w, ch) /\ \A l \in Keys \ {k} : waiters'[l] = waiters[l]
  BY DEF TypeOK, StoreOK
<1>2. Len(w) \in Nat /\ DOMAIN w = 1 .. Len(w)
  BY <1>1, SeqDomain
<1>3. ASSUME NEW l \in Keys, NEW i \in DOMAIN waiters'[l]
      PROVE  \/ l = k /\ i = Len(w) + 1 /\ waiters'[l][i] = ch
             \/ i \in DOMAIN waiters[l] /\ waiters'[l][i] = waiters[l][i]
  <2>1. CASE l = k
    <3>1. i \in 1 .. Len(w) + 1 /\ \A j \in DOMAIN w : Append(w, ch)[j] = w[j]
      BY <1>1, <2>1, AppendFacts
    <3>2. Append(w, ch)[Len(w) + 1] = ch
      BY <1>1, AppendFacts
    <3>3. i = Len(w) + 1 \/ i \in DOMAIN w
      BY <1>2, <3>1
    <3> QED
      BY <1>1, <2>1, <3>1, <3>2, <3>3
  <2>2. CASE l # k
    BY <1>1, <2>2
  <2> QED
    BY <2>1, <2>2
<1>4. \A l \in Keys : \A i \in DOMAIN waiters[l] : waiters[l][i] \in Chans
  BY SeqDomain DEF TypeOK, StoreOK
<1> HIDE DEF w
<1>5. ASSUME NEW l \in Keys, NEW i \in DOMAIN waiters'[l], waiters'[l][i] \notin shared',
             waiters'[l][i] # ch
      PROVE  i \in DOMAIN waiters[l] /\ waiters'[l][i] = waiters[l][i] /\ waiters[l][i] \in Chans \ shared
  BY <1>3, <1>4, <1>5
<1>6. ASSUME NEW l \in Keys, NEW i \in DOMAIN waiters'[l], waiters'[l][i] \notin shared'
      PROVE  buf'[waiters'[l][i]] = None /\ \A s \in sends' : s[1] # waiters'[l][i]
  <2>1. CASE waiters'[l][i] = ch
    BY <1>6, <2>1
  <2>2. CASE waiters'[l][i] # ch
    BY <1>5, <1>6, <2>2 DEF OthersHaveRoom
  <2> QED
    BY <2>1, <2>2
<1>7. ASSUME NEW l \in Keys, NEW i \in DOMAIN waiters'[l], waiters'[l][i] \notin shared',
             NEW m \in Keys, NEW j \in DOMAIN waiters'[m], waiters'[m][j] = waiters'[l][i]
      PROVE  m = l /\ j = i
  <2>1. CASE waiters'[l][i] = ch
    <3>1. ~Queued(waiters, ch)
      BY <1>7, <2>1
    <3>2. \A x \in Keys : \A y \in DOMAIN waiters'[x] : waiters'[x][y] = ch => x = k /\ y = Len(w) + 1
      BY <1>3, <3>1 DEF Queued
    <3> QED
      BY <1>7, <2>1, <3>2
  <2>2. CASE waiters'[l][i] # ch
    <3>1. /\ i \in DOMAIN waiters[l] /\ waiters'[l][i] = waiters[l][i] /\ waiters[l][i] \notin shared
          /\ j \in DOMAIN waiters[m] /\ waiters'[m][j] = waiters[m][j]
      BY <1>5, <1>7, <2>2
    <3> QED
      BY <1>7, <3>1 DEF OthersHaveRoom
  <2> QED
    BY <2>1, <2>2
<1> QED
  BY <1>6, <1>7 DEF OthersHaveRoom

LEMMA JoinsElse ==
  ASSUME TypeOK, NEW k \in Keys, NEW ch \in Chans, NEW g, g # ch,
         waiters' = [waiters EXCEPT ![k] = Append(@, ch)], ~Queued(waiters, g)
  PROVE  ~Queued(waiters', g)
<1> DEFINE w == waiters[k]
<1>1. w \in Seq(Chans) /\ waiters'[k] = Append(w, ch) /\ \A l \in Keys \ {k} : waiters'[l] = waiters[l]
  BY DEF TypeOK, StoreOK
<1>2. \A i \in DOMAIN Append(w, ch) : (i \in DOMAIN w /\ Append(w, ch)[i] = w[i]) \/ Append(w, ch)[i] = ch
  BY <1>1, AppendProperties
<1>3. ASSUME NEW l \in Keys, NEW i \in DOMAIN waiters'[l], waiters'[l][i] = g PROVE FALSE
  <2>1. CASE l = k
    BY <1>1, <1>2, <1>3, <2>1 DEF Queued
  <2>2. CASE l # k
    BY <1>1, <1>3, <2>2 DEF Queued
  <2> QED
    BY <2>1, <2>2
<1> QED
  BY <1>3 DEF Queued

LEMMA ClientQueues ==
  ASSUME TypeOK, TypeOK', QueueInv, NEW c \in Conns, Client(c)
  PROVE  QueueInv'
<1>1. CASE PushLock(c) \/ BlpopTake(c)
  <2>1. /\ UNCHANGED <<waiters, buf, sends, chan, todo, shared>>
        /\ \A d \in Conns : pc'[d] = "register" => pc[d] = "register"
    BY <1>1 DEF PushLock, BlpopTake, Begin, Goto, TypeOK, HandlersOK, store, comm, proc
  <2> QED
    BY <2>1, QuietQueues
<1>2. CASE XAdd(c)
  <2>1. PICK cl \in Calls[c] :
          /\ sends' = sends \union (Told(cl.keys[1]) \X Elems(cl.items))
          /\ waiters' = [waiters EXCEPT ![cl.keys[1]] = <<>>]
          /\ UNCHANGED <<buf, pc, chan, todo, shared>>
    BY <1>2 DEF XAdd, proc
  <2> DEFINE k == cl.keys[1]
  <2>2. k \in Keys
    BY CallFacts, CallOf
  <2>3. waiters'[k] = <<>> /\ \A l \in Keys \ {k} : waiters'[l] = waiters[l]
    BY <2>1, <2>2 DEF TypeOK, StoreOK
  <2>4. ASSUME NEW l \in Keys PROVE Shrinks(waiters[l], waiters'[l])
    BY <2>3, ShrinkEmpty, ShrinkSame DEF TypeOK, StoreOK
  <2>5. ASSUME NEW ch \in Chans \ shared, Queued(waiters', ch) \/ Unused(ch), NEW s \in sends', s[1] = ch
        PROVE  s \in sends
    <3> SUFFICES ASSUME ch \in Told(k) PROVE FALSE
      BY <2>1, <2>5
    <3>1. PICK i \in DOMAIN waiters[k] : waiters[k][i] = ch
      BY DEF Told, Elems
    <3>2. Queued(waiters, ch)
      BY <2>2, <3>1 DEF Queued
    <3>3. PICK l \in Keys : \E j \in DOMAIN waiters'[l] : waiters'[l][j] = ch
      BY <2>5, <3>2 DEF Unused, Queued
    <3>4. l # k
      BY <2>3, <3>3
    <3>5. \E j \in DOMAIN waiters[l] : waiters[l][j] = ch
      BY <2>3, <3>3, <3>4
    <3> QED
      BY <2>2, <3>1, <3>4, <3>5 DEF QueueInv, OthersHaveRoom
  <2> HIDE DEF k
  <2> QED
    BY <2>1, <2>4, <2>5, ShrinkingQueues
<1>3. CASE BlpopPark(c)
  <2>1. PICK cl \in Calls[c], ch \in Chans :
          /\ Make(c, ch) /\ shared' = shared \ {ch} /\ Begin(c, cl, "parked")
          /\ waiters' = [waiters EXCEPT ![cl.keys[1]] = Append(@, ch)]
          /\ UNCHANGED <<sends, todo>>
    BY <1>3 DEF BlpopPark
  <2>2. cl.keys[1] \in Keys
    BY CallFacts, CallOf
  <2>3. /\ ~Queued(waiters, ch) /\ (\A s \in sends : s[1] # ch) /\ (\A d \in Conns : chan[d] # ch)
        /\ chan' = [chan EXCEPT ![c] = ch] /\ buf' = [buf EXCEPT ![ch] = None]
    BY <2>1 DEF Make, Queued, Elems
  <2>4. buf'[ch] = None /\ \A g \in Chans \ {ch} : buf'[g] = buf[g] /\ (g \in shared' <=> g \in shared)
    BY <2>1, <2>3 DEF TypeOK, StoreOK
  <2>5. OthersHaveRoom'
    BY <2>1, <2>2, <2>3, <2>4, JoinsQueue DEF QueueInv
  <2>6. OneOwner'
    BY <2>3 DEF QueueInv, OneOwner, TypeOK, HandlersOK
  <2>7. ASSUME NEW d \in Conns, pc'[d] = "register", chan'[d] \notin shared'
        PROVE  Len(todo'[d]) = 1 /\ Unused(chan[d])'
    <3>1. d # c /\ pc[d] = "register" /\ chan'[d] = chan[d] /\ todo'[d] = todo[d]
      BY <2>1, <2>3, <2>7 DEF Begin, Goto, TypeOK, HandlersOK
    <3>2. chan[d] \in Chans /\ chan[d] # ch
      BY <2>3, <3>1 DEF TypeOK, HandlersOK, HandlerOK, Listening
    <3>3. Len(todo[d]) = 1 /\ Unused(chan[d])
      BY <2>4, <2>7, <3>1, <3>2 DEF QueueInv, Registering
    <3>4. ~Queued(waiters', chan[d])
      BY <2>1, <2>2, <3>2, <3>3, JoinsElse DEF Unused
    <3> QED
      BY <2>1, <2>4, <3>1, <3>2, <3>3, <3>4 DEF Unused
  <2> QED
    BY <2>5, <2>6, <2>7 DEF QueueInv, Registering
<1>4. CASE XreadBegin(c)
  <2>1. PICK cl \in Calls[c], ch \in Chans :
          /\ Make(c, ch) /\ Begin(c, cl, "register") /\ todo' = [todo EXCEPT ![c] = cl.keys]
          /\ shared' = IF Len(cl.keys) > 1 THEN shared \union {ch} ELSE shared \ {ch}
          /\ UNCHANGED <<waiters, sends>>
    BY <1>4 DEF XreadBegin, store
  <2>2. Len(cl.keys) \in Nat \ {0}
    BY CallFacts, CallOf, EmptySeq
  <2>3. /\ ~Queued(waiters, ch) /\ (\A s \in sends : s[1] # ch) /\ (\A d \in Conns : chan[d] # ch)
        /\ chan' = [chan EXCEPT ![c] = ch] /\ buf' = [buf EXCEPT ![ch] = None]
    BY <2>1 DEF Make, Queued, Elems
  <2>4. buf'[ch] = None /\ \A g \in Chans \ {ch} : buf'[g] = buf[g] /\ (g \in shared' <=> g \in shared)
    BY <2>1, <2>3 DEF TypeOK, StoreOK
  <2>5. OthersHaveRoom'
    <3>1. \A k \in Keys : \A i \in DOMAIN waiters[k] : waiters[k][i] \in Chans \ {ch}
      BY <2>3, SeqDomain DEF TypeOK, StoreOK, Queued
    <3> QED
      BY <2>1, <2>4, <3>1 DEF QueueInv, OthersHaveRoom
  <2>6. OneOwner'
    BY <2>3 DEF QueueInv, OneOwner, TypeOK, HandlersOK
  <2>7. ASSUME NEW d \in Conns, pc'[d] = "register", chan'[d] \notin shared'
        PROVE  Len(todo'[d]) = 1 /\ Unused(chan[d])'
    <3>1. CASE d = c
      <4>1. chan'[c] = ch /\ todo'[c] = cl.keys
        BY <2>1, <2>3 DEF TypeOK, HandlersOK
      <4>2. Len(cl.keys) = 1
        <5>1. Len(cl.keys) > 1 => ch \in shared'
          BY <2>1
        <5>2. ~(Len(cl.keys) > 1)
          BY <2>7, <3>1, <4>1, <5>1
        <5>3. \A n \in Nat \ {0} : ~(n > 1) => n = 1
          OBVIOUS
        <5> QED
          BY <2>2, <5>2, <5>3, Zenon
      <4> QED
        BY <2>1, <2>3, <2>4, <3>1, <4>1, <4>2 DEF Unused
    <3>2. CASE d # c
      <4>1. pc[d] = "register" /\ chan'[d] = chan[d] /\ todo'[d] = todo[d]
        BY <2>1, <2>3, <2>7, <3>2 DEF Begin, Goto, TypeOK, HandlersOK
      <4>2. chan[d] \in Chans /\ chan[d] # ch
        BY <2>3, <4>1 DEF TypeOK, HandlersOK, HandlerOK, Listening
      <4>3. Len(todo[d]) = 1 /\ Unused(chan[d])
        BY <2>4, <2>7, <4>1, <4>2 DEF QueueInv, Registering
      <4> QED
        BY <2>1, <2>4, <4>1, <4>2, <4>3 DEF Unused
    <3> QED
      BY <3>1, <3>2
  <2> QED
    BY <2>5, <2>6, <2>7 DEF QueueInv, Registering
<1> QED
  BY <1>1, <1>2, <1>3, <1>4 DEF Client

LEMMA SendQueues ==
  ASSUME TypeOK, TypeOK', QueueInv, Send
  PROVE  QueueInv'
<1>1. PICK s \in sends :
        /\ buf' = [buf EXCEPT ![s[1]] = s[2]] /\ sends' = sends \ {s}
        /\ UNCHANGED <<waiters, pc, chan, todo, shared>>
  BY DEF Send, store, proc, ghost
<1>2. \A k \in Keys : Shrinks(waiters[k], waiters'[k])
  BY <1>1, ShrinkSame DEF TypeOK, StoreOK
<1>3. ASSUME NEW ch \in Chans \ shared, Queued(waiters', ch) \/ Unused(ch)
      PROVE  buf'[ch] = buf[ch]
  <2>1. s[1] # ch
    <3>1. CASE Queued(waiters', ch)
      <4>1. PICK k \in Keys : \E i \in DOMAIN waiters[k] : waiters[k][i] = ch
        BY <1>1, <3>1 DEF Queued
      <4> QED
        BY <1>3, <4>1 DEF QueueInv, OthersHaveRoom
    <3>2. CASE Unused(ch)
      BY <3>2 DEF Unused
    <3> QED
      BY <1>3, <3>1, <3>2
  <2> QED
    BY <1>1, <2>1 DEF TypeOK, StoreOK
<1> QED
  BY <1>1, <1>2, <1>3, ShrinkingQueues

LEMMA RunningQueues ==
  ASSUME TypeOK, TypeOK', QueueInv, NEW c \in Conns, Running(c)
  PROVE  QueueInv'
<1>1. CASE HandOver(c)
  <2> DEFINE k == K(c)
             h == Target(c)
  <2>1. /\ pc[c] = "handoff" /\ waiters[k] # <<>>
        /\ buf' = [buf EXCEPT ![h] = Head(local[c])]
        /\ waiters' = [waiters EXCEPT ![k] = Tail(@)]
        /\ UNCHANGED <<sends, pc, chan, todo, shared>>
    BY <1>1 DEF HandOver, Sending, ghost
  <2>2. k \in Keys /\ waiters[k] \in Seq(Chans)
    BY <2>1, Busy DEF TypeOK, StoreOK
  <2>3. h = waiters[k][1] /\ 1 \in DOMAIN waiters[k] /\ h \in Chans
    BY <2>1, <2>2, TailFacts DEF Target
  <2> HIDE DEF h, k
  <2>4. waiters'[k] = Tail(waiters[k]) /\ \A l \in Keys \ {k} : waiters'[l] = waiters[l]
    BY <2>1, <2>2 DEF TypeOK, StoreOK
  <2>5. ASSUME NEW l \in Keys PROVE Shrinks(waiters[l], waiters'[l])
    BY <2>1, <2>2, <2>4, ShrinkTail, ShrinkSame DEF TypeOK, StoreOK
  <2>6. ASSUME NEW ch \in Chans \ shared, Queued(waiters', ch) \/ Unused(ch) PROVE buf'[ch] = buf[ch]
    <3>1. ch # h
      <4> SUFFICES ASSUME ch = h PROVE FALSE
        OBVIOUS
      <4>1. ~Unused(ch)
        BY <2>2, <2>3 DEF Unused, Queued
      <4>2. PICK l \in Keys : \E j \in DOMAIN waiters'[l] : waiters'[l][j] = ch
        BY <2>6, <4>1 DEF Queued
      <4>3. PICK j \in DOMAIN waiters'[l] : waiters'[l][j] = ch
        BY <4>2
      <4>4. CASE l = k
        <5>1. j + 1 \in DOMAIN waiters[k] /\ waiters[k][j + 1] = ch /\ j \in Nat /\ j # 0
          <6>1. j \in DOMAIN Tail(waiters[k]) /\ Tail(waiters[k])[j] = ch
            BY <2>4, <4>3, <4>4
          <6>2. /\ Tail(waiters[k]) \in Seq(Chans)
                /\ \A x \in DOMAIN Tail(waiters[k]) :
                     x + 1 \in DOMAIN waiters[k] /\ x # 0 /\ Tail(waiters[k])[x] = waiters[k][x + 1]
            BY <2>1, <2>2, TailFacts
          <6>3. j \in Nat
            BY <6>1, <6>2, SeqDomain
          <6> QED
            BY <6>1, <6>2, <6>3
        <5>2. j + 1 = 1
          BY <2>2, <2>3, <2>6, <5>1 DEF QueueInv, OthersHaveRoom
        <5> QED
          BY <5>1, <5>2
      <4>5. CASE l # k
        BY <2>2, <2>3, <2>4, <2>6, <4>3, <4>5 DEF QueueInv, OthersHaveRoom
      <4> QED
        BY <4>4, <4>5
    <3> QED
      BY <2>1, <2>3, <3>1 DEF TypeOK, StoreOK
  <2> QED
    BY <2>1, <2>5, <2>6, ShrinkingQueues
<1>2. CASE PushUnlock(c)
  <2>1. /\ UNCHANGED <<waiters, buf, sends, shared>>
        /\ Return(c) \/ (Goto(c, "store") /\ UNCHANGED <<chan, todo>>)
    BY <1>2 DEF PushUnlock, store, comm, ghost
  <2>2. /\ \A d \in Conns : chan'[d] = chan[d] \/ chan'[d] = None
        /\ \A d \in Conns : pc'[d] = "register" => pc[d] = "register" /\ chan'[d] = chan[d] /\ todo'[d] = todo[d]
    BY <2>1 DEF Return, Goto, TypeOK, HandlersOK
  <2> QED
    BY <2>1, <2>2, QuietQueues
<1>3. CASE BlpopWake(c)
  <2>1. /\ UNCHANGED <<waiters, sends, shared>> /\ Return(c) /\ buf' = [buf EXCEPT ![chan[c]] = None]
    BY <1>3 DEF BlpopWake, store
  <2>2. \A ch \in Chans : buf'[ch] = buf[ch] \/ buf'[ch] = None
    BY <2>1 DEF TypeOK, StoreOK
  <2>3. /\ \A d \in Conns : chan'[d] = chan[d] \/ chan'[d] = None
        /\ \A d \in Conns : pc'[d] = "register" => pc[d] = "register" /\ chan'[d] = chan[d] /\ todo'[d] = todo[d]
    BY <2>1 DEF Return, Goto, TypeOK, HandlersOK
  <2> QED
    BY <2>1, <2>2, <2>3, QuietQueues
<1>4. CASE XreadWake(c) \/ Timeout(c)
  <2>1. /\ UNCHANGED <<waiters, sends, shared, chan>> /\ (CleanAll(c, "woken") \/ CleanAll(c, "cleanup"))
        /\ buf' = buf \/ buf' = [buf EXCEPT ![chan[c]] = None]
    BY <1>4 DEF XreadWake, Timeout, CleanAll, store, comm, ghost
  <2>2. \A ch \in Chans : buf'[ch] = buf[ch] \/ buf'[ch] = None
    BY <2>1 DEF TypeOK, StoreOK
  <2>3. \A d \in Conns : pc'[d] = "register" => pc[d] = "register" /\ todo'[d] = todo[d]
    BY <2>1 DEF CleanAll, Goto, TypeOK, HandlersOK
  <2> QED
    BY <2>1, <2>2, <2>3, QuietQueues
<1> QED
  BY <1>1, <1>2, <1>3, <1>4 DEF Running

LEMMA LockingQueues ==
  ASSUME TypeOK, TypeOK', QueueInv, NEW c \in Conns, Locking(c)
  PROVE  QueueInv'
<1>1. CASE PushStore(c) \/ ReadAtOnce(c) \/ Reread(c)
  <2>1. UNCHANGED <<waiters, buf, sends, shared>> /\ Return(c)
    BY <1>1 DEF PushStore, ReadAtOnce, Reread, store, comm, ghost
  <2>2. /\ \A d \in Conns : chan'[d] = chan[d] \/ chan'[d] = None
        /\ \A d \in Conns : pc'[d] = "register" => pc[d] = "register" /\ chan'[d] = chan[d] /\ todo'[d] = todo[d]
    BY <2>1 DEF Return, Goto, TypeOK, HandlersOK
  <2> QED
    BY <2>1, <2>2, QuietQueues
<1>2. CASE ReadFails(c) \/ Park(c)
  <2>1. /\ UNCHANGED <<waiters, buf, sends, shared, chan>>
        /\ CleanAll(c, "cleanup") \/ (Goto(c, "parked") /\ todo' = todo)
    BY <1>2 DEF ReadFails, Park, CleanAll, store, comm, ghost
  <2>2. \A d \in Conns : pc'[d] = "register" => pc[d] = "register" /\ todo'[d] = todo[d]
    BY <2>1 DEF CleanAll, Goto, TypeOK, HandlersOK
  <2> QED
    BY <2>1, <2>2, QuietQueues
<1>3. CASE Register(c)
  <2> DEFINE k  == Head(todo[c])
             ch == chan[c]
  <2>1. /\ pc[c] = "register" /\ waiters' = [waiters EXCEPT ![k] = Append(@, ch)]
        /\ pc' = [pc EXCEPT ![c] = IF Len(todo[c]) = 1 THEN "read" ELSE "register"]
        /\ todo' = [todo EXCEPT ![c] = Tail(@)]
        /\ UNCHANGED <<buf, sends, chan, shared>>
    BY <1>3 DEF Register, Goto, comm, ghost
  <2>2. k \in Keys /\ ch \in Chans
    BY <2>1, TailFacts DEF TypeOK, HandlersOK, HandlerOK, Listening
  <2>3. ch \in shared \/ (Len(todo[c]) = 1 /\ Unused(ch))
    BY <2>1 DEF QueueInv, Registering
  <2> HIDE DEF k, ch
  <2>4. OthersHaveRoom'
    BY <2>1, <2>2, <2>3, JoinsQueue DEF QueueInv, Unused
  <2>5. OneOwner'
    BY <2>1 DEF QueueInv, OneOwner
  <2>6. ASSUME NEW d \in Conns, pc'[d] = "register", chan'[d] \notin shared'
        PROVE  Len(todo'[d]) = 1 /\ Unused(chan[d])'
    <3>1. d # c
      BY <2>1, <2>3, <2>6 DEF TypeOK, HandlersOK, ch
    <3>2. pc[d] = "register" /\ todo'[d] = todo[d] /\ chan[d] # ch /\ chan[d] \in Chans
      <4>1. pc[d] = "register" /\ todo'[d] = todo[d]
        BY <2>1, <2>6, <3>1 DEF TypeOK, HandlersOK
      <4>2. chan[d] \in Chans
        BY <4>1 DEF TypeOK, HandlersOK, HandlerOK, Listening
      <4>3. chan[d] # None
        BY <4>2, NoneAssumption
      <4>4. chan[d] # ch
        BY <3>1, <4>3 DEF QueueInv, OneOwner, ch
      <4> QED
        BY <4>1, <4>2, <4>4
    <3>3. Len(todo[d]) = 1 /\ Unused(chan[d])
      BY <2>1, <2>6, <3>2 DEF QueueInv, Registering
    <3>4. ~Queued(waiters', chan[d])
      BY <2>1, <2>2, <3>2, <3>3, JoinsElse DEF Unused
    <3> QED
      BY <2>1, <3>2, <3>3, <3>4 DEF Unused
  <2> QED
    BY <2>4, <2>5, <2>6 DEF QueueInv, Registering
<1>4. CASE CleanUpExpiredKeyWaiter(c)
  <2> DEFINE k == Head(todo[c])
  <2>1. /\ pc[c] \in {"cleanup", "woken"} /\ todo[c] # <<>>
        /\ waiters' = [waiters EXCEPT ![k] = Without(@, chan[c])]
        /\ \/ Return(c)
           \/ todo' = [todo EXCEPT ![c] = Tail(@)] /\ UNCHANGED <<pc, chan>>
        /\ UNCHANGED <<buf, sends, shared>>
    BY <1>4 DEF CleanUpExpiredKeyWaiter, comm, ghost
  <2>2. k \in Keys
    BY <2>1, TailFacts DEF TypeOK, HandlersOK
  <2> HIDE DEF k
  <2>3. waiters'[k] = Without(waiters[k], chan[c]) /\ \A l \in Keys \ {k} : waiters'[l] = waiters[l]
    BY <2>1, <2>2 DEF TypeOK, StoreOK
  <2>4. ASSUME NEW l \in Keys PROVE Shrinks(waiters[l], waiters'[l])
    <3>1. waiters[l] \in Seq(Chans)
      BY DEF TypeOK, StoreOK
    <3>2. CASE l = k
      BY <2>3, <3>1, <3>2, ShrinkWithout
    <3>3. CASE l # k
      BY <2>3, <3>1, <3>3, ShrinkSame
    <3> QED
      BY <3>2, <3>3
  <2>5. /\ \A d \in Conns : chan'[d] = chan[d] \/ chan'[d] = None
        /\ \A d \in Conns : pc'[d] = "register" => pc[d] = "register" /\ chan'[d] = chan[d] /\ todo'[d] = todo[d]
    BY <2>1 DEF Return, Goto, TypeOK, HandlersOK
  <2> QED
    BY <2>1, <2>4, <2>5, ShrinkingQueues
<1> QED
  BY <1>1, <1>2, <1>3, <1>4 DEF Locking

LEMMA NextQueues == TypeOK /\ TypeOK' /\ QueueInv /\ [Next]_vars => QueueInv'
<1> SUFFICES ASSUME TypeOK, TypeOK', QueueInv, [Next]_vars PROVE QueueInv'
  OBVIOUS
<1>1. CASE UNCHANGED vars
  <2>1. UNCHANGED <<waiters, buf, sends, pc, chan, todo, shared>>
    BY <1>1 DEF vars, store, comm, proc, ghost
  <2> QED
    BY <2>1, QuietQueues
<1>2. CASE Send
  BY <1>2, SendQueues
<1>3. ASSUME NEW c \in Conns, Client(c) \/ Running(c) \/ Locking(c) PROVE QueueInv'
  BY <1>3, ClientQueues, RunningQueues, LockingQueues
<1> QED
  BY <1>1, <1>2, <1>3 DEF Next

\* A channel that only one key's queue can be told of is told once: whoever sends, a push
\* with the mutex held or a goroutine of XADD, finds it empty, for any number of clients,
\* keys and channels, and whatever kind of value each key has.
THEOREM SentToOnce == Spec => []OthersHaveRoom
<1>1. Init => QueueInv
  BY DEF Init, QueueInv, OthersHaveRoom, OneOwner, Registering
<1>2. QueueInv => OthersHaveRoom
  BY DEF QueueInv
<1> QED
  BY <1>1, <1>2, TypeInvariant, NextQueues, PTL DEF Spec

-------------------------------------------------------------------------------
(* Each value is in one place: a step keeps it there, moves it, or brings   *)
(* it in.                                                                   *)

\* A place of v, but for the index: Copies without counting.
At(v, kind, x) ==
  \/ kind = "list" /\ x \in Keys /\ Has(cache[x].items, v)
  \/ kind = "channel" /\ x \in Chans /\ buf[x] = v
  \/ kind = "push" /\ x \in Conns /\ Has(local[x], v)
  \/ kind = "client" /\ x \in 1 .. taken[v]
  \/ kind = "gone" /\ x = v /\ v \in gone

One(v) ==
  /\ v \in pushed <=> \E kind, x : At(v, kind, x)
  /\ \A a, y, b, z : At(v, a, y) /\ At(v, b, z) => a = b /\ y = z

Once(v) ==
  /\ \A k \in Keys : Single(cache[k].items, v)
  /\ \A c \in Conns : Single(local[c], v)

\* What was pushed is no ID: XADD does not send it, and only lists have it.
Apart(v) ==
  /\ \A s \in sends : s[2] # v
  /\ \A k \in Keys : Has(cache[k].items, v) => cache[k].kind = "list"

Settled(v) == One(v) /\ Once(v) /\ Apart(v)

\* Every item is settled but the IDs of entries.
PlaceInv == \A v \in Items : v \in given \ pushed \/ Settled(v)

\* v is at the place b, z besides where it was, and at b, z instead of at a, y.
Comes(v, b, z) == \A kind, x : At(v, kind, x)' <=> At(v, kind, x) \/ (kind = b /\ x = z)
Goes(v, a, y, b, z) ==
  \A kind, x : At(v, kind, x)' <=> (At(v, kind, x) /\ ~(kind = a /\ x = y)) \/ (kind = b /\ x = z)

LEMMA Stays ==
  ASSUME NEW v, One(v), v \in pushed' <=> v \in pushed,
         \A kind, x : At(v, kind, x)' <=> At(v, kind, x)
  PROVE  One(v)'
BY DEF One

LEMMA Moves ==
  ASSUME NEW v, One(v), v \in pushed' <=> v \in pushed,
         NEW a, NEW y, At(v, a, y), NEW b, NEW z, Goes(v, a, y, b, z)
  PROVE  One(v)'
BY DEF One, Goes

LEMMA Arrives ==
  ASSUME NEW v, One(v), v \notin pushed, v \in pushed', NEW b, NEW z, Comes(v, b, z)
  PROVE  One(v)'
BY DEF One, Comes

LEMMA HasEmpty == ASSUME NEW v PROVE ~Has(<<>>, v) /\ Single(<<>>, v)
BY DEF Has, Single

\* A step that touches none of the places.
LEMMA QuietPlaces ==
  ASSUME NEW v, Settled(v), UNCHANGED <<cache, buf, local, sends, taken, gone>>,
         v \in pushed' <=> v \in pushed
  PROVE  Settled(v)'
<1>1. \A kind, x : At(v, kind, x)' <=> At(v, kind, x)
  BY DEF At
<1>2. One(v)'
  BY <1>1, Stays DEF Settled
<1>3. Once(v)' /\ Apart(v)'
  BY DEF Settled, Once, Apart
<1> QED
  BY <1>2, <1>3 DEF Settled

\* A value that is in a list, a channel or a push is at no client and not gone.
LEMMA NotYetTaken ==
  ASSUME TypeOK, NEW v \in Items, One(v), NEW a, NEW y, At(v, a, y), a \notin {"client", "gone"}
  PROVE  taken[v] = 0 /\ 1 .. taken[v] = {} /\ v \notin gone /\ v \in pushed
<1>1. v \notin gone
  <2>1. v \in gone => At(v, "gone", v)
    BY DEF At
  <2> QED
    BY <2>1 DEF One
<1>2. taken[v] = 0
  <2>1. taken[v] \in 0 .. 2
    BY DEF TypeOK, StoreOK
  <2>2. taken[v] # 0 => 1 \in 1 .. taken[v]
    BY <2>1
  <2>3. taken[v] # 0 => At(v, "client", 1)
    BY <2>2 DEF At
  <2> QED
    BY <2>3 DEF One
<1>3. 1 .. taken[v] = {}
  BY <1>2
<1> QED
  BY <1>1, <1>2, <1>3 DEF One

\* A channel is emptied, and what it held is gone.
LEMMA DropPlaces ==
  ASSUME TypeOK, NEW v \in Items, Settled(v), NEW h \in Chans,
         buf' = [buf EXCEPT ![h] = None], gone' = gone \union ({buf[h]} \intersect pushed),
         UNCHANGED <<cache, local, sends, taken, pushed>>
  PROVE  Settled(v)'
<1>1. /\ buf'[h] = None /\ \A g \in Chans \ {h} : buf'[g] = buf[g]
      /\ v # None
  BY NoneAssumption DEF TypeOK, StoreOK
<1>2. Once(v)' /\ Apart(v)'
  BY DEF Settled, Once, Apart
<1>3. CASE buf[h] # v
  <2>1. (v \in gone' <=> v \in gone) /\ \A g \in Chans : buf'[g] = v <=> buf[g] = v
    BY <1>1, <1>3
  <2>2. \A kind, x : At(v, kind, x)' <=> At(v, kind, x)
    BY <2>1 DEF At
  <2> QED
    BY <1>2, <2>2, Stays DEF Settled
<1>4. CASE buf[h] = v
  <2>1. At(v, "channel", h)
    BY <1>4 DEF At
  <2>2. v \notin gone /\ v \in pushed
    BY <2>1, NotYetTaken DEF Settled
  <2>3. v \in gone' /\ \A g \in Chans : buf'[g] = v <=> buf[g] = v /\ g # h
    BY <1>1, <1>4, <2>2
  <2>4. Goes(v, "channel", h, "gone", v)
    BY <2>2, <2>3 DEF At, Goes
  <2>5. v \in pushed' <=> v \in pushed
    OBVIOUS
  <2>6. One(v)'
    BY <2>1, <2>4, <2>5, Moves DEF Settled
  <2> QED
    BY <1>2, <2>6 DEF Settled
<1> QED
  BY <1>3, <1>4

LEMMA PushLockPlaces ==
  ASSUME TypeOK, NEW v \in Items, Settled(v), NEW c \in Conns, PushLock(c)
  PROVE  Settled(v)'
<1>1. PICK cl \in Calls[c] :
        /\ pc[c] = "idle" /\ Elems(cl.items) \intersect given = {}
        /\ local' = [local EXCEPT ![c] = cl.items] /\ pushed' = pushed \union Elems(cl.items)
        /\ UNCHANGED <<cache, buf, sends, taken, gone>>
  BY DEF PushLock, store, comm
<1>2. cl.items \in Seq(Items) /\ Single(cl.items, v) /\ (Has(cl.items, v) <=> v \in Elems(cl.items))
  <2>1. \A i, j \in DOMAIN cl.items : cl.items[i] = cl.items[j] => i = j
    BY CallFacts, CallOf
  <2>2. cl.items \in Seq(Items)
    BY CallFacts, CallOf
  <2> QED
    BY <2>1, <2>2 DEF Single, Has, Elems
<1>3. local[c] = <<>> /\ local'[c] = cl.items /\ \A d \in Conns \ {c} : local'[d] = local[d]
  BY <1>1 DEF TypeOK, HandlersOK, HandlerOK
<1>4. ~Has(local[c], v)
  BY <1>3, HasEmpty
<1>5. Once(v)' /\ Apart(v)'
  BY <1>1, <1>2, <1>3 DEF Settled, Once, Apart
<1>6. CASE v \in Elems(cl.items)
  <2>1. v \notin pushed /\ v \in pushed'
    BY <1>1, <1>6 DEF TypeOK, StoreOK
  <2>2. Comes(v, "push", c)
    BY <1>1, <1>2, <1>3, <1>6 DEF At, Comes
  <2>3. One(v)'
    BY <2>1, <2>2, Arrives DEF Settled
  <2> QED
    BY <1>5, <2>3 DEF Settled
<1>7. CASE v \notin Elems(cl.items)
  <2>1. \A d \in Conns : Has(local'[d], v) <=> Has(local[d], v)
    BY <1>2, <1>3, <1>4, <1>7
  <2>2. \A kind, x : At(v, kind, x)' <=> At(v, kind, x)
    BY <1>1, <2>1 DEF At
  <2>3. One(v)'
    BY <1>1, <1>7, <2>2, Stays DEF Settled
  <2> QED
    BY <1>5, <2>3 DEF Settled
<1> QED
  BY <1>6, <1>7

LEMMA XAddPlaces ==
  ASSUME TypeOK, NEW v \in Items, Settled(v), v \notin given' \ pushed', NEW c \in Conns, XAdd(c)
  PROVE  Settled(v)'
<1>1. PICK cl \in Calls[c] :
        /\ Elems(cl.items) \intersect given = {} /\ cache[cl.keys[1]].kind # "list"
        /\ cache' = [cache EXCEPT ![cl.keys[1]] = [kind |-> "stream", items |-> @.items \o cl.items]]
        /\ sends' = sends \union (Told(cl.keys[1]) \X Elems(cl.items))
        /\ given' = given \union Elems(cl.items)
        /\ UNCHANGED <<buf, local, pushed, taken, gone>>
  BY DEF XAdd, proc
<1> DEFINE k == cl.keys[1]
           s == cache[k].items
<1>2. k \in Keys /\ cl.items \in Seq(Items) /\ s \in Seq(Items)
  BY CallFacts, CallOf DEF TypeOK, StoreOK
<1>3. v \notin Elems(cl.items)
  BY <1>1 DEF TypeOK, StoreOK
<1>4. ~Has(cl.items, v) /\ Single(cl.items, v)
  BY <1>3 DEF Has, Single, Elems
<1>5. ~Has(s, v) /\ Single(s, v)
  BY <1>1, <1>2 DEF Settled, Apart, Once
<1>6. /\ cache'[k].items = s \o cl.items
      /\ \A l \in Keys \ {k} : cache'[l] = cache[l]
  BY <1>1, <1>2 DEF TypeOK, StoreOK
<1> HIDE DEF s, k
<1>7. ~Has(s \o cl.items, v) /\ Single(s \o cl.items, v)
  BY <1>2, <1>4, <1>5, HasConcat
<1>8. \A l \in Keys : Has(cache'[l].items, v) <=> Has(cache[l].items, v)
  BY <1>5, <1>6, <1>7 DEF s
<1>9. \A t \in sends' : t[2] # v
  BY <1>1, <1>3 DEF Settled, Apart
<1>10. Once(v)' /\ Apart(v)'
  BY <1>1, <1>2, <1>6, <1>7, <1>9 DEF Settled, Once, Apart
<1>11. \A kind, x : At(v, kind, x)' <=> At(v, kind, x)
  BY <1>1, <1>8 DEF At
<1>12. One(v)'
  BY <1>1, <1>11, Stays DEF Settled
<1> QED
  BY <1>10, <1>12 DEF Settled

LEMMA SendPlaces ==
  ASSUME TypeOK, NEW v \in Items, Settled(v), Send
  PROVE  Settled(v)'
<1>1. PICK s \in sends :
        /\ buf[s[1]] = None /\ buf' = [buf EXCEPT ![s[1]] = s[2]] /\ sends' = sends \ {s}
        /\ UNCHANGED <<cache, local, pushed, taken, gone>>
  BY DEF Send, store, proc, ghost
<1>2. s[1] \in Chans /\ s[2] # v /\ v # None
  BY NoneAssumption DEF TypeOK, StoreOK, Settled, Apart
<1>3. \A g \in Chans : buf'[g] = v <=> buf[g] = v
  BY <1>1, <1>2 DEF TypeOK, StoreOK
<1>4. \A kind, x : At(v, kind, x)' <=> At(v, kind, x)
  BY <1>1, <1>3 DEF At
<1>5. One(v)'
  BY <1>1, <1>4, Stays DEF Settled
<1>6. Once(v)' /\ Apart(v)'
  BY <1>1 DEF Settled, Once, Apart
<1> QED
  BY <1>5, <1>6 DEF Settled

LEMMA BlpopTakePlaces ==
  ASSUME TypeOK, NEW v \in Items, Settled(v), NEW c \in Conns, BlpopTake(c)
  PROVE  Settled(v)'
<1>1. PICK cl \in Calls[c] :
        LET k == cl.keys[1]  s == cache[k].items IN
          /\ cache[k].kind = "list"
          /\ cache' = [cache EXCEPT ![k] = IF Len(s) = 1 THEN Absent ELSE [@ EXCEPT !.items = Tail(s)]]
          /\ taken' = [taken EXCEPT ![Head(s)] = IF @ = 0 THEN 1 ELSE 2]
          /\ UNCHANGED <<buf, sends, local, pushed, gone>>
  BY DEF BlpopTake, comm, proc
<1> DEFINE k == cl.keys[1]
           s == cache[k].items
           w == Head(s)
<1>2. k \in Keys /\ s \in Seq(Items) /\ s # <<>> /\ cache[k].kind = "list"
  BY <1>1, CallFacts, CallOf DEF TypeOK, StoreOK
<1>3. /\ cache' = [cache EXCEPT ![k] = IF Len(s) = 1 THEN Absent ELSE [@ EXCEPT !.items = Tail(s)]]
      /\ taken' = [taken EXCEPT ![w] = IF @ = 0 THEN 1 ELSE 2]
      /\ UNCHANGED <<buf, sends, local, pushed, gone>>
  BY <1>1
<1>4. w \in Items /\ (Len(s) = 1 => Tail(s) = <<>>)
  BY <1>2, TailFacts
<1>5. Single(s, v)
  BY <1>2 DEF Settled, Once
<1>6. /\ Single(Tail(s), v) /\ Has(s, w)
      /\ Has(Tail(s), v) <=> Has(s, v) /\ w # v
  BY <1>2, <1>5, HasTail
<1>7. /\ cache'[k].items = Tail(s)
      /\ Len(s) # 1 => cache'[k].kind = "list"
      /\ \A l \in Keys \ {k} : cache'[l] = cache[l]
  <2> HIDE DEF k, s, w
  <2>1. cache'[k] = (IF Len(s) = 1 THEN Absent ELSE [cache[k] EXCEPT !.items = Tail(s)])
        /\ \A l \in Keys \ {k} : cache'[l] = cache[l]
    BY <1>2, <1>3 DEF TypeOK, StoreOK
  <2>2. CASE Len(s) = 1
    BY <1>4, <2>1, <2>2 DEF Absent
  <2>3. CASE Len(s) # 1
    BY <1>2, <2>1, <2>3 DEF TypeOK, StoreOK
  <2> QED
    BY <2>1, <2>2, <2>3
<1>8. Has(Tail(s), v) => cache'[k].kind = "list"
  BY <1>4, <1>7, HasEmpty
<1> HIDE DEF k, s, w
<1>9. Once(v)' /\ Apart(v)'
  <2>1. \A l \in Keys : Single(cache'[l].items, v)
    BY <1>6, <1>7 DEF Settled, Once
  <2>2. \A l \in Keys : Has(cache'[l].items, v) => cache'[l].kind = "list"
    BY <1>7, <1>8 DEF Settled, Apart
  <2> QED
    BY <1>3, <2>1, <2>2 DEF Settled, Once, Apart
<1>10. CASE w # v
  <2>1. taken'[v] = taken[v]
    BY <1>3, <1>10 DEF TypeOK, StoreOK
  <2>2. \A l \in Keys : Has(cache'[l].items, v) <=> Has(cache[l].items, v)
    BY <1>6, <1>7, <1>10 DEF s
  <2>3. \A kind, x : At(v, kind, x)' <=> At(v, kind, x)
    BY <1>3, <2>1, <2>2 DEF At
  <2>4. One(v)'
    BY <1>3, <2>3, Stays DEF Settled
  <2> QED
    BY <1>9, <2>4 DEF Settled
<1>11. CASE w = v
  <2>1. At(v, "list", k)
    BY <1>2, <1>6, <1>11 DEF At, s
  <2>2. taken[v] = 0 /\ 1 .. taken[v] = {}
    BY <2>1, NotYetTaken DEF Settled
  <2>3. 1 .. taken'[v] = {1}
    <3>1. taken'[v] = 1
      BY <1>3, <1>11, <2>2 DEF TypeOK, StoreOK
    <3> QED
      BY <3>1
  <2>4. \A l \in Keys : Has(cache'[l].items, v) <=> Has(cache[l].items, v) /\ l # k
    BY <1>6, <1>7, <1>11
  <2>5. Goes(v, "list", k, "client", 1)
    BY <1>3, <2>2, <2>3, <2>4 DEF At, Goes
  <2>6. v \in pushed' <=> v \in pushed
    BY <1>3
  <2>7. One(v)'
    BY <2>1, <2>5, <2>6, Moves DEF Settled
  <2> QED
    BY <1>9, <2>7 DEF Settled
<1> QED
  BY <1>10, <1>11

LEMMA HandOverPlaces ==
  ASSUME TypeOK, NEW v \in Items, Settled(v), NEW c \in Conns, HandOver(c)
  PROVE  Settled(v)'
<1> DEFINE h == Target(c)
           w == Head(local[c])
<1>1. /\ pc[c] = "handoff" /\ local[c] # <<>> /\ waiters[K(c)] # <<>> /\ buf[h] = None
      /\ buf' = [buf EXCEPT ![h] = w] /\ local' = [local EXCEPT ![c] = Tail(@)]
      /\ UNCHANGED <<cache, sends, taken, gone, pushed>>
  BY DEF HandOver, Sending, ghost
<1>2. K(c) \in Keys /\ waiters[K(c)] \in Seq(Chans) /\ local[c] \in Seq(Items)
  BY <1>1, Busy DEF TypeOK, StoreOK, HandlersOK
<1>3. h \in Chans /\ v # None
  BY <1>1, <1>2, TailFacts, NoneAssumption DEF Target
<1> HIDE DEF h, w
<1>4. /\ Single(Tail(local[c]), v) /\ Has(local[c], w)
      /\ Has(Tail(local[c]), v) <=> Has(local[c], v) /\ w # v
  <2>1. Single(local[c], v)
    BY DEF Settled, Once
  <2> QED
    BY <1>1, <1>2, <2>1, HasTail DEF w
<1>5. /\ local'[c] = Tail(local[c]) /\ \A d \in Conns \ {c} : local'[d] = local[d]
      /\ buf'[h] = w /\ \A g \in Chans \ {h} : buf'[g] = buf[g]
  BY <1>1, <1>3 DEF TypeOK, StoreOK, HandlersOK
<1>6. Once(v)' /\ Apart(v)'
  BY <1>1, <1>4, <1>5 DEF Settled, Once, Apart
<1>7. CASE w # v
  <2>1. \A g \in Chans : buf'[g] = v <=> buf[g] = v
    BY <1>1, <1>3, <1>5, <1>7
  <2>2. \A d \in Conns : Has(local'[d], v) <=> Has(local[d], v)
    BY <1>4, <1>5, <1>7
  <2>3. \A kind, x : At(v, kind, x)' <=> At(v, kind, x)
    BY <1>1, <2>1, <2>2 DEF At
  <2>4. One(v)'
    BY <1>1, <2>3, Stays DEF Settled
  <2> QED
    BY <1>6, <2>4 DEF Settled
<1>8. CASE w = v
  <2>1. At(v, "push", c)
    BY <1>4, <1>8 DEF At
  <2>2. \A g \in Chans : buf'[g] = v <=> buf[g] = v \/ g = h
    BY <1>1, <1>3, <1>5, <1>8
  <2>3. \A d \in Conns : Has(local'[d], v) <=> Has(local[d], v) /\ d # c
    BY <1>4, <1>5, <1>8
  <2>4. Goes(v, "push", c, "channel", h)
    BY <1>1, <1>3, <2>2, <2>3 DEF At, Goes
  <2>5. v \in pushed' <=> v \in pushed
    BY <1>1
  <2>6. One(v)'
    BY <2>1, <2>4, <2>5, Moves DEF Settled
  <2> QED
    BY <1>6, <2>6 DEF Settled
<1> QED
  BY <1>7, <1>8

LEMMA BlpopWakePlaces ==
  ASSUME TypeOK, NEW v \in Items, Settled(v), NEW c \in Conns, BlpopWake(c)
  PROVE  Settled(v)'
<1> DEFINE h == chan[c]
<1>1. /\ pc[c] = "parked" /\ buf[h] # None
      /\ taken' = [taken EXCEPT ![buf[h]] = IF @ = 0 THEN 1 ELSE 2]
      /\ buf' = [buf EXCEPT ![h] = None]
      /\ UNCHANGED <<cache, sends, local, pushed, gone>>
  BY DEF BlpopWake, store
<1>2. h \in Chans /\ v # None
  BY <1>1, NoneAssumption DEF TypeOK, HandlersOK, HandlerOK, Listening
<1> HIDE DEF h
<1>3. buf'[h] = None /\ \A g \in Chans \ {h} : buf'[g] = buf[g]
  BY <1>1, <1>2 DEF TypeOK, StoreOK
<1>4. Once(v)' /\ Apart(v)'
  BY <1>1 DEF Settled, Once, Apart
<1>5. CASE buf[h] # v
  <2>1. taken'[v] = taken[v]
    BY <1>1, <1>5 DEF TypeOK, StoreOK
  <2>2. \A g \in Chans : buf'[g] = v <=> buf[g] = v
    BY <1>2, <1>3, <1>5
  <2>3. \A kind, x : At(v, kind, x)' <=> At(v, kind, x)
    BY <1>1, <2>1, <2>2 DEF At
  <2>4. One(v)'
    BY <1>1, <2>3, Stays DEF Settled
  <2> QED
    BY <1>4, <2>4 DEF Settled
<1>6. CASE buf[h] = v
  <2>1. At(v, "channel", h)
    BY <1>2, <1>6 DEF At
  <2>2. taken[v] = 0 /\ 1 .. taken[v] = {}
    BY <2>1, NotYetTaken DEF Settled
  <2>3. 1 .. taken'[v] = {1}
    <3>1. taken'[v] = 1
      BY <1>1, <1>6, <2>2 DEF TypeOK, StoreOK
    <3> QED
      BY <3>1
  <2>4. \A g \in Chans : buf'[g] = v <=> buf[g] = v /\ g # h
    BY <1>2, <1>3, <1>6
  <2>5. Goes(v, "channel", h, "client", 1)
    BY <1>1, <2>2, <2>3, <2>4 DEF At, Goes
  <2>6. v \in pushed' <=> v \in pushed
    BY <1>1
  <2>7. One(v)'
    BY <2>1, <2>5, <2>6, Moves DEF Settled
  <2> QED
    BY <1>4, <2>7 DEF Settled
<1> QED
  BY <1>5, <1>6

\* What is replaced by a list, if it was none, held no value that was pushed.
LEMMA PushStorePlaces ==
  ASSUME TypeOK, NEW v \in Items, Settled(v), NEW c \in Conns, PushStore(c)
  PROVE  Settled(v)'
<1> DEFINE k   == K(c)
           old == IF cache[k].kind = "list" THEN cache[k].items ELSE <<>>
           new == IF call[c].op = "LPUSH" THEN Backwards(local[c]) \o old ELSE old \o local[c]
<1>1. /\ pc[c] = "store" /\ cache' = [cache EXCEPT ![k] = [kind |-> "list", items |-> new]]
      /\ local' = [local EXCEPT ![c] = <<>>]
      /\ UNCHANGED <<buf, sends, taken, gone, pushed>>
  BY DEF PushStore, comm, ghost
<1>2. k \in Keys /\ local[c] \in Seq(Items) /\ Backwards(local[c]) \in Seq(Items)
  BY <1>1, Busy, BackwardsType DEF TypeOK, HandlersOK
<1>3. old \in Seq(Items) /\ Single(old, v) /\ (Has(old, v) <=> Has(cache[k].items, v))
  <2>1. CASE cache[k].kind = "list"
    BY <1>2, <2>1 DEF TypeOK, StoreOK, Settled, Once
  <2>2. CASE cache[k].kind # "list"
    <3>1. old = <<>> /\ ~Has(cache[k].items, v)
      BY <1>2, <2>2 DEF Settled, Apart
    <3>2. <<>> \in Seq(Items)
      OBVIOUS
    <3> HIDE DEF old
    <3> QED
      BY <3>1, <3>2, HasEmpty
  <2> QED
    BY <2>1, <2>2
<1>4. Single(local[c], v) /\ ~(Has(old, v) /\ Has(local[c], v))
  <2>1. Has(cache[k].items, v) => At(v, "list", k)
    BY <1>2 DEF At
  <2>2. Has(local[c], v) => At(v, "push", c)
    BY DEF At
  <2> HIDE DEF old, new, k
  <2> QED
    BY <1>3, <2>1, <2>2 DEF Settled, One, Once
<1> HIDE DEF old
<1>5. Single(new, v) /\ (Has(new, v) <=> Has(old, v) \/ Has(local[c], v))
  <2>1. Single(Backwards(local[c]), v) /\ (Has(Backwards(local[c]), v) <=> Has(local[c], v))
    BY <1>2, <1>4, HasBackwards
  <2>2. CASE call[c].op = "LPUSH"
    <3>1. new = Backwards(local[c]) \o old
      BY <2>2
    <3> HIDE DEF new
    <3> QED
      BY <1>2, <1>3, <1>4, <2>1, <3>1, HasConcat
  <2>3. CASE call[c].op # "LPUSH"
    <3>1. new = old \o local[c]
      BY <2>3
    <3> HIDE DEF new
    <3> QED
      BY <1>2, <1>3, <1>4, <3>1, HasConcat
  <2> QED
    BY <2>2, <2>3
<1> HIDE DEF new, k
<1>6. /\ cache'[k] = [kind |-> "list", items |-> new] /\ \A l \in Keys \ {k} : cache'[l] = cache[l]
      /\ local'[c] = <<>> /\ \A d \in Conns \ {c} : local'[d] = local[d]
  BY <1>1, <1>2 DEF TypeOK, StoreOK, HandlersOK
<1>7. cache'[k].items = new /\ cache'[k].kind = "list" /\ ~Has(local'[c], v) /\ Single(local'[c], v)
  BY <1>6, HasEmpty
<1>8. Once(v)' /\ Apart(v)'
  <2>1. \A l \in Keys : Single(cache'[l].items, v)
    BY <1>5, <1>6, <1>7 DEF Settled, Once
  <2>2. \A l \in Keys : Has(cache'[l].items, v) => cache'[l].kind = "list"
    BY <1>6, <1>7 DEF Settled, Apart
  <2>3. \A d \in Conns : Single(local'[d], v)
    BY <1>6, <1>7 DEF Settled, Once
  <2> QED
    BY <1>1, <2>1, <2>2, <2>3 DEF Settled, Once, Apart
<1>9. v \in pushed' <=> v \in pushed
  BY <1>1
<1>10. \A l \in Keys : Has(cache'[l].items, v) <=> Has(cache[l].items, v) \/ (l = k /\ Has(local[c], v))
  BY <1>3, <1>5, <1>6, <1>7
<1>11. \A d \in Conns : Has(local'[d], v) <=> Has(local[d], v) /\ d # c
  BY <1>6, <1>7
<1>12. CASE Has(local[c], v)
  <2>1. At(v, "push", c)
    BY <1>12 DEF At
  <2>2. Goes(v, "push", c, "list", k)
    BY <1>1, <1>2, <1>10, <1>11, <1>12 DEF At, Goes
  <2>3. One(v)'
    BY <1>9, <2>1, <2>2, Moves DEF Settled
  <2> QED
    BY <1>8, <2>3 DEF Settled
<1>13. CASE ~Has(local[c], v)
  <2>1. \A kind, x : At(v, kind, x)' <=> At(v, kind, x)
    BY <1>1, <1>10, <1>11, <1>13 DEF At
  <2>2. One(v)'
    BY <1>9, <2>1, Stays DEF Settled
  <2> QED
    BY <1>8, <2>2 DEF Settled
<1> QED
  BY <1>12, <1>13

LEMMA StepPlaces ==
  ASSUME TypeOK, NEW v \in Items, Settled(v), v \notin given' \ pushed', [Next]_vars
  PROVE  Settled(v)'
<1>1. CASE UNCHANGED vars
  <2>1. UNCHANGED <<cache, buf, local, sends, taken, gone, pushed>>
    BY <1>1 DEF vars, store, comm, proc, ghost
  <2> QED
    BY <2>1, QuietPlaces
<1>2. CASE Send
  BY <1>2, SendPlaces
<1>3. ASSUME NEW c \in Conns, Client(c) PROVE Settled(v)'
  <2>1. CASE PushLock(c)
    BY <2>1, PushLockPlaces
  <2>2. CASE XAdd(c)
    BY <2>2, XAddPlaces
  <2>3. CASE BlpopTake(c)
    BY <2>3, BlpopTakePlaces
  <2>4. CASE BlpopPark(c) \/ XreadBegin(c)
    <3>1. PICK ch \in Chans :
            /\ buf' = [buf EXCEPT ![ch] = None] /\ gone' = gone \union ({buf[ch]} \intersect pushed)
            /\ UNCHANGED <<cache, local, sends, taken, pushed>>
      BY <2>4 DEF BlpopPark, XreadBegin, Make, store
    <3> QED
      BY <3>1, DropPlaces
  <2> QED
    BY <1>3, <2>1, <2>2, <2>3, <2>4 DEF Client
<1>4. ASSUME NEW c \in Conns, Running(c) PROVE Settled(v)'
  <2>1. CASE HandOver(c)
    BY <2>1, HandOverPlaces
  <2>2. CASE PushUnlock(c) \/ Timeout(c)
    <3>1. UNCHANGED <<cache, buf, local, sends, taken, gone, pushed>>
      BY <2>2 DEF PushUnlock, Timeout, store, comm, ghost
    <3> QED
      BY <3>1, QuietPlaces
  <2>3. CASE BlpopWake(c)
    BY <2>3, BlpopWakePlaces
  <2>4. CASE XreadWake(c)
    <3>1. /\ pc[c] = "parked" /\ buf' = [buf EXCEPT ![chan[c]] = None]
          /\ gone' = gone \union ({buf[chan[c]]} \intersect pushed)
          /\ UNCHANGED <<cache, local, sends, taken, pushed>>
      BY <2>4 DEF XreadWake, store
    <3>2. chan[c] \in Chans
      BY <3>1 DEF TypeOK, HandlersOK, HandlerOK, Listening
    <3> QED
      BY <3>1, <3>2, DropPlaces
  <2> QED
    BY <1>4, <2>1, <2>2, <2>3, <2>4 DEF Running
<1>5. ASSUME NEW c \in Conns, Locking(c) PROVE Settled(v)'
  <2>1. CASE PushStore(c)
    BY <2>1, PushStorePlaces
  <2>2. CASE Register(c) \/ CleanUpExpiredKeyWaiter(c)
    <3>1. UNCHANGED <<cache, buf, local, sends, taken, gone, pushed>>
      BY <2>2 DEF Register, CleanUpExpiredKeyWaiter, comm, ghost
    <3> QED
      BY <3>1, QuietPlaces
  <2>3. CASE ReadAtOnce(c) \/ ReadFails(c) \/ Park(c) \/ Reread(c)
    <3>1. UNCHANGED <<cache, buf, local, sends, taken, gone, pushed>>
      BY <2>3 DEF ReadAtOnce, ReadFails, Park, Reread, store, comm, ghost
    <3> QED
      BY <3>1, QuietPlaces
  <2> QED
    BY <1>5, <2>1, <2>2, <2>3 DEF Locking
<1> QED
  BY <1>1, <1>2, <1>3, <1>4, <1>5 DEF Next

\* An ID of an entry remains one: what was given is not pushed later.
LEMMA IDsRemain ==
  ASSUME TypeOK, [Next]_vars, NEW v \in given \ pushed
  PROVE  v \in given' \ pushed'
<1>1. ASSUME NEW c \in Conns, PushLock(c) PROVE v \in given' \ pushed'
  BY <1>1 DEF PushLock
<1>2. ASSUME NEW c \in Conns, XAdd(c) PROVE v \in given' \ pushed'
  BY <1>2 DEF XAdd
<1>3. UNCHANGED <<given, pushed>> \/ \E c \in Conns : PushLock(c) \/ XAdd(c)
  <2>1. CASE UNCHANGED vars
    BY <2>1 DEF vars, ghost
  <2>2. CASE Send
    BY <2>2 DEF Send, ghost
  <2>3. ASSUME NEW c \in Conns, Client(c), ~PushLock(c), ~XAdd(c) PROVE UNCHANGED <<given, pushed>>
    BY <2>3 DEF Client, BlpopTake, BlpopPark, XreadBegin
  <2>4. ASSUME NEW c \in Conns, Running(c) PROVE UNCHANGED <<given, pushed>>
    BY <2>4 DEF Running, HandOver, PushUnlock, BlpopWake, XreadWake, Timeout, ghost
  <2>5. ASSUME NEW c \in Conns, Locking(c) PROVE UNCHANGED <<given, pushed>>
    BY <2>5 DEF Locking, PushStore, Register, ReadAtOnce, ReadFails, Park, CleanUpExpiredKeyWaiter, Reread, ghost
  <2> QED
    BY <2>1, <2>2, <2>3, <2>4, <2>5 DEF Next
<1> QED
  BY <1>1, <1>2, <1>3

LEMMA NextPlaces == TypeOK /\ PlaceInv /\ [Next]_vars => PlaceInv'
<1> SUFFICES ASSUME TypeOK, PlaceInv, [Next]_vars, NEW v \in Items, v \notin given' \ pushed'
             PROVE  Settled(v)'
  BY DEF PlaceInv
<1>1. v \notin given \ pushed
  BY IDsRemain
<1>2. Settled(v)
  BY <1>1 DEF PlaceInv
<1> QED
  BY <1>2, StepPlaces

LEMMA InitPlaces == Init => PlaceInv
<1> SUFFICES ASSUME Init, NEW v \in Items PROVE Settled(v)
  BY DEF PlaceInv
<1>1. /\ \A k \in Keys : cache[k].items = <<>>
      /\ \A c \in Conns : local[c] = <<>>
      /\ \A ch \in Chans : buf[ch] # v
      /\ taken[v] = 0 /\ gone = {} /\ pushed = {} /\ sends = {}
  BY NoneAssumption DEF Init, Absent
<1>2. 1 .. taken[v] = {}
  BY <1>1
<1>3. \A kind, x : ~At(v, kind, x)
  BY <1>1, <1>2, HasEmpty DEF At
<1>4. Once(v) /\ Apart(v)
  BY <1>1, HasEmpty DEF Once, Apart
<1> QED
  BY <1>1, <1>3, <1>4 DEF Settled, One

-------------------------------------------------------------------------------
(* Counting the places.                                                     *)

LEMMA CopyOf ==
  ASSUME NEW v, NEW q
  PROVE  q \in Copies(v) <=>
           \/ \E k \in Keys : \E i \in DOMAIN cache[k].items : cache[k].items[i] = v /\ q = <<"list", k, i>>
           \/ \E ch \in Chans : buf[ch] = v /\ q = <<"channel", ch>>
           \/ \E c \in Conns : \E i \in DOMAIN local[c] : local[c][i] = v /\ q = <<"push", c, i>>
           \/ \E n \in 1 .. taken[v] : q = <<"client", n>>
           \/ v \in gone /\ q = <<"gone", v>>
BY DEF Copies

LEMMA SameCopy ==
  ASSUME NEW v, Settled(v)
  PROVE  /\ \A p, q \in Copies(v) : p = q
         /\ v \in pushed => Copies(v) # {}
<1>1. ASSUME NEW q \in Copies(v) PROVE At(v, q[1], q[2])
  BY <1>1, CopyOf DEF At, Has
<1>2. ASSUME NEW q \in Copies(v)
      PROVE  \/ q[1] = "list" /\ q[2] \in Keys
                /\ \E i \in DOMAIN cache[q[2]].items : cache[q[2]].items[i] = v /\ q = <<"list", q[2], i>>
             \/ q[1] = "push" /\ q[2] \in Conns
                /\ \E i \in DOMAIN local[q[2]] : local[q[2]][i] = v /\ q = <<"push", q[2], i>>
             \/ q[1] \in {"channel", "client", "gone"} /\ q = <<q[1], q[2]>>
  BY <1>2, CopyOf
<1>3. ASSUME NEW p \in Copies(v), NEW q \in Copies(v) PROVE p = q
  <2>1. p[1] = q[1] /\ p[2] = q[2]
    BY <1>1, <1>3 DEF Settled, One
  <2>2. CASE p[1] = "list"
    BY <1>2, <1>3, <2>1, <2>2 DEF Settled, Once, Single
  <2>3. CASE p[1] = "push"
    BY <1>2, <1>3, <2>1, <2>3 DEF Settled, Once, Single
  <2>4. CASE p[1] \in {"channel", "client", "gone"}
    BY <1>2, <1>3, <2>1, <2>4
  <2> QED
    BY <1>2, <1>3, <2>2, <2>3, <2>4
<1>4. ASSUME NEW kind, NEW x, At(v, kind, x) PROVE Copies(v) # {}
  <2>1. CASE kind = "list"
    <3>1. PICK i \in DOMAIN cache[x].items : x \in Keys /\ cache[x].items[i] = v
      BY <1>4, <2>1 DEF At, Has
    <3>2. <<"list", x, i>> \in Copies(v)
      BY <3>1, CopyOf
    <3> QED
      BY <3>2
  <2>2. CASE kind = "push"
    <3>1. PICK i \in DOMAIN local[x] : x \in Conns /\ local[x][i] = v
      BY <1>4, <2>2 DEF At, Has
    <3>2. <<"push", x, i>> \in Copies(v)
      BY <3>1, CopyOf
    <3> QED
      BY <3>2
  <2>3. CASE kind \in {"channel", "client", "gone"}
    BY <1>4, <2>3, CopyOf DEF At
  <2> QED
    BY <1>4, <2>1, <2>2, <2>3 DEF At
<1> QED
  BY <1>3, <1>4 DEF Settled, One

\* A pushed value is in one place at any time, whether the key it was pushed to is a list,
\* a stream or something that changes, and whether BLPOPs or XREADs are told of it: with
\* one client of BLPOP at most, or gone with the channel of a call that is over or of XREAD.
THEOREM ValuesInOneCopy == Spec => []OneCopy
<1>1. TypeOK /\ PlaceInv => OneCopy
  <2> SUFFICES ASSUME TypeOK, PlaceInv, NEW v \in pushed PROVE Cardinality(Copies(v)) = 1
    BY DEF OneCopy
  <2>1. Settled(v)
    BY DEF TypeOK, StoreOK, PlaceInv
  <2>2. (\A p, q \in Copies(v) : p = q) /\ Copies(v) # {}
    BY <2>1, SameCopy
  <2>3. PICK q : Copies(v) = {q}
    BY <2>2
  <2> QED
    BY <2>3, FS_Singleton
<1> QED
  BY <1>1, InitPlaces, TypeInvariant, NextPlaces, PTL DEF Spec

===============================================================================
