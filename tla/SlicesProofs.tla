------------------------------ MODULE SlicesProofs ----------------------------
(***************************************************************************)
(* Theorems about Slices, for any connections, calls, arrays and values.   *)
(*                                                                         *)
(* A string pushed is written once, so an array holds it in one place      *)
(* (MemOK): a value found where a handler got it is still that value, and  *)
(* what has stayed in the list is where it was (StayOK), since arrays that *)
(* somebody holds are only written behind the list.  Until a pop stores    *)
(* into a list that had changed, what LPOP took lies in front of the list  *)
(* and of every slice that it may yet become (Taken): no later RPUSH or    *)
(* LPUSH reaches it.                                                       *)
(***************************************************************************)
EXTENDS Slices, SequenceTheorems, TLAPS

Busy(c)  == pc[c] # "idle"
Origs(c) == Elems(base[c])
Listed   == Elems(Contents(list))

\* A slice is a part of an array that has been written.
Valid(s) ==
  s = Nil \/ /\ s \in [arr : Arrays, off : Nat, len : Nat] /\ s.off + s.len <= Len(mem[s.arr])
             /\ \A i \in 1 .. s.len : mem[s.arr][s.off + i] \in Values

MemOK ==
  /\ mem \in [Arrays -> Seq(Values \union {None})] /\ given \in SUBSET Values
  /\ \A a \in Arrays : \A i \in DOMAIN mem[a] : mem[a][i] # None =>
       /\ mem[a][i] \in given
       /\ \A j \in DOMAIN mem[a] : mem[a][j] = mem[a][i] => j = i

ProcOK(c) ==
  IF pc[c] = "idle" THEN slice[c] = Nil /\ part[c] = Nil /\ word[c] = None /\ out[c] = <<>>
  ELSE /\ call[c] \in Calls[c] /\ call[c].op \in {"LRANGE", "LPOP", "RPOP"}
       /\ slice[c].len > 0
       /\ part[c].arr = slice[c].arr /\ part[c].len > 0
       /\ slice[c].off <= part[c].off /\ part[c].off + part[c].len <= slice[c].off + slice[c].len
       /\ call[c].op = "LPOP" => part[c] = Wanted(call[c], slice[c])
       /\ Len(base[c]) = slice[c].len
       /\ Len(out[c]) <= part[c].len /\ (pc[c] = "read" => Len(out[c]) < part[c].len)
       /\ pc[c] = "set" => IF call[c].op = "LPOP" THEN out[c] = <<>>
                           ELSE call[c].op = "RPOP" /\ Len(out[c]) = part[c].len
       /\ pc[c] = "reply" => Len(out[c]) = part[c].len
       /\ pc[c] # "read" => word[c] = None

TypeOK ==
  /\ MemOK /\ Valid(list) /\ raced \in BOOLEAN
  /\ value \in Seq(Values) /\ Len(value) = list.len
  /\ pc \in [Conns -> {"idle", "read", "set", "reply"}]
  /\ slice \in [Conns -> [arr : Arrays \union {None}, off : Nat, len : Nat]]
  /\ part \in [Conns -> [arr : Arrays \union {None}, off : Nat, len : Nat]]
  /\ word \in [Conns -> Values \union {None}] /\ out \in [Conns -> Seq(Values \union {Torn})]
  /\ base \in [Conns -> Seq(Values)]
  /\ since \in [Conns -> SUBSET Values] /\ stayed \in [Conns -> SUBSET Values]
  /\ DOMAIN call = Conns
  /\ \A c \in Conns : Valid(slice[c]) /\ ProcOK(c)

\* What a handler got it still finds in the array, as far as it stayed in the list, and
\* what it finds now has been in the list since.
StayOK(c) ==
  /\ stayed[c] \subseteq Listed
  /\ \A j \in 1 .. slice[c].len :
       /\ base[c][j] \in stayed[c] => mem[slice[c].arr][slice[c].off + j] = base[c][j]
       /\ mem[slice[c].arr][slice[c].off + j] \in since[c]
       /\ base[c][j] \in given

CopyOK(c) ==
  word[c] # None => /\ word[c] \in since[c]
                    /\ Original(c, Len(out[c]) + 1) \in stayed[c] =>
                         word[c] = Original(c, Len(out[c]) + 1)

\* Without a race nothing comes back.
Back(c) == Origs(c) \intersect Listed \subseteq stayed[c]

HasTaken(c) == pc[c] \in {"read", "reply"} /\ call[c].op = "LPOP"

\* What LPOP has taken out lies below whatever the list can come to be.
Taken(c) ==
  /\ \A j \in 1 .. part[c].len :
       /\ mem[part[c].arr][part[c].off + j] = Original(c, j) /\ Original(c, j) \notin Listed
       /\ j \in DOMAIN out[c] => out[c][j] = Original(c, j)
  /\ word[c] # None => word[c] = Original(c, Len(out[c]) + 1)
  /\ list # Nil /\ list.arr = part[c].arr => part[c].off + part[c].len <= list.off
  /\ \A d \in Conns : Busy(d) /\ Origs(d) \subseteq stayed[d] /\ slice[d].arr = part[c].arr =>
       part[c].off + part[c].len <= slice[d].off

ReplyOK(c) ==
  pc[c] = "reply" /\ call[c].op = "RPOP" => \A j \in 1 .. part[c].len : out[c][j] = Original(c, j)

Unraced(c) == Busy(c) => Back(c) /\ (HasTaken(c) => Taken(c)) /\ ReplyOK(c)

IInv ==
  /\ TypeOK /\ \A c \in Conns : StayOK(c) /\ CopyOK(c)
  /\ RepliesAreOfTheTime
  /\ ~raced => Contents(list) = value /\ \A c \in Conns : Unraced(c)

-------------------------------------------------------------------------------
(* Arrays and slices.                                                      *)

LEMMA SeqParts ==
  ASSUME NEW S, NEW s \in Seq(S)
  PROVE  Len(s) \in Nat /\ DOMAIN s = 1 .. Len(s) /\ \A i \in 1 .. Len(s) : s[i] \in S
OBVIOUS

LEMMA BackwardsType ==
  ASSUME NEW S, NEW s \in Seq(S)
  PROVE  /\ Backwards(s) \in Seq(S) /\ Len(Backwards(s)) = Len(s)
         /\ \A i \in 1 .. Len(s) : Backwards(s)[i] = s[Len(s) + 1 - i]
<1>1. Backwards(s) = [i \in 1 .. Len(s) |-> s[Len(s) + 1 - i]] /\ Len(s) \in Nat
  BY DEF Backwards
<1>2. \A i \in 1 .. Len(s) : s[Len(s) + 1 - i] \in S
  OBVIOUS
<1> QED
  BY <1>1, <1>2

\* What a slice holds.
LEMMA ContentsIs ==
  ASSUME NEW s, Valid(s)
  PROVE  /\ Contents(s) \in Seq(Values) /\ Len(Contents(s)) = s.len /\ s.len \in Nat
         /\ \A i \in 1 .. s.len : Contents(s)[i] = mem[s.arr][s.off + i]
<1>1. CASE s = Nil
  BY <1>1 DEF Contents, Nil
<1>2. CASE s # Nil
  <2>1. /\ s.len \in Nat /\ Contents(s) = [i \in 1 .. s.len |-> mem[s.arr][s.off + i]]
        /\ \A i \in 1 .. s.len : mem[s.arr][s.off + i] \in Values
    BY <1>2 DEF Valid, Contents
  <2> QED
    BY <2>1
<1> QED
  BY <1>1, <1>2

LEMMA ListedIs ==
  ASSUME Valid(list)
  PROVE  Listed = {mem[list.arr][list.off + i] : i \in 1 .. list.len} /\ Listed \subseteq Values
<1>1. DOMAIN Contents(list) = 1 .. list.len
  BY ContentsIs
<1> QED
  BY <1>1, ContentsIs DEF Listed, Elems

\* A slice that is not empty, or not nil, is a part of an array.
LEMMA PartOf ==
  ASSUME MemOK, NEW s, Valid(s), s # Nil
  PROVE  /\ s.arr \in Arrays /\ s.off \in Nat /\ s.len \in Nat /\ s.off + s.len <= Len(mem[s.arr])
         /\ Len(mem[s.arr]) \in Nat /\ DOMAIN mem[s.arr] = 1 .. Len(mem[s.arr])
         /\ \A i \in 1 .. s.len : /\ s.off + i \in DOMAIN mem[s.arr]
                                  /\ mem[s.arr][s.off + i] \in Values
                                  /\ mem[s.arr][s.off + i] \in given
<1>1. /\ s.arr \in Arrays /\ s.off \in Nat /\ s.len \in Nat /\ s.off + s.len <= Len(mem[s.arr])
      /\ \A i \in 1 .. s.len : mem[s.arr][s.off + i] \in Values
  BY DEF Valid
<1>2. mem[s.arr] \in Seq(Values \union {None})
  BY <1>1 DEF MemOK
<1>3. Len(mem[s.arr]) \in Nat /\ DOMAIN mem[s.arr] = 1 .. Len(mem[s.arr])
  BY <1>2, SeqParts
<1>4. \A i \in 1 .. s.len : s.off + i \in DOMAIN mem[s.arr]
  BY <1>1, <1>3
<1> QED
  BY <1>1, <1>3, <1>4, NoneAssumption DEF MemOK

\* In an array, and so in a list, a value stands in one place.
LEMMA Distinct ==
  ASSUME MemOK, NEW s, Valid(s), NEW i \in 1 .. s.len, NEW p \in DOMAIN mem[s.arr],
         mem[s.arr][p] = mem[s.arr][s.off + i], s # Nil
  PROVE  p = s.off + i
BY PartOf, NoneAssumption DEF MemOK

-------------------------------------------------------------------------------
(* What a push does to the arrays.                                         *)

New(vs) == vs \in Seq(Values) /\ vs # <<>> /\ \A i, j \in DOMAIN vs : vs[i] = vs[j] => i = j

\* No array that somebody holds is written, but behind the list in its array.
WritesBehind ==
  \A a \in Arrays : Held(a) =>
    /\ Len(mem'[a]) = Len(mem[a]) /\ DOMAIN mem'[a] = DOMAIN mem[a]
    /\ \A i \in DOMAIN mem[a] :
         \/ mem'[a][i] = mem[a][i]
         \/ list # Nil /\ a = list.arr /\ i > list.off + list.len /\ mem'[a][i] \in Listed'

\* The list stays where it is, or moves to an array that nobody had.
Stretches ==
  /\ Valid(list)' /\ list' # Nil
  /\ \/ list # Nil /\ list'.arr = list.arr /\ list'.off = list.off
     \/ ~Held(list'.arr)

LEMMA AllocateDoes ==
  ASSUME MemOK, NEW s \in Seq(Values), NEW cap \in Nat, Len(s) <= cap, s # <<>>,
         \A i, j \in 1 .. Len(s) : s[i] = s[j] => i = j,
         Elems(s) \subseteq given', given' \in SUBSET Values, given \subseteq given',
         Allocate(s, cap)
  PROVE  MemOK' /\ Contents(list)' = s /\ WritesBehind /\ Stretches
<1>1. PICK a \in {b \in Arrays : ~Held(b)} :
        /\ mem' = [b \in Arrays |->
                     IF b = a THEN [i \in 1 .. cap |-> IF i <= Len(s) THEN s[i] ELSE None]
                     ELSE IF Held(b) THEN mem[b] ELSE <<>>]
        /\ list' = [arr |-> a, off |-> 0, len |-> Len(s)]
  BY DEF Allocate
<1>2. Len(s) \in Nat /\ Len(s) > 0 /\ DOMAIN s = 1 .. Len(s) /\ \A i \in 1 .. Len(s) : s[i] \in Values
  BY EmptySeq, SeqParts
<1> DEFINE new == [i \in 1 .. cap |-> IF i <= Len(s) THEN s[i] ELSE None]
<1>3. /\ new \in Seq(Values \union {None}) /\ Len(new) = cap /\ DOMAIN new = 1 .. cap
      /\ \A i \in 1 .. cap : new[i] = IF i <= Len(s) THEN s[i] ELSE None
  <2>1. \A i \in 1 .. cap : (IF i <= Len(s) THEN s[i] ELSE None) \in Values \union {None}
    BY <1>2
  <2> QED
    BY <2>1
<1>4. mem'[a] = new /\ \A b \in Arrays \ {a} : mem'[b] = IF Held(b) THEN mem[b] ELSE <<>>
  BY <1>1
<1>5. mem' \in [Arrays -> Seq(Values \union {None})]
  BY <1>1, <1>3 DEF MemOK
<1>6. MemOK'
  <2>1. ASSUME NEW b \in Arrays, NEW i \in DOMAIN mem'[b], mem'[b][i] # None
        PROVE  /\ mem'[b][i] \in given'
               /\ \A j \in DOMAIN mem'[b] : mem'[b][j] = mem'[b][i] => j = i
    <3>1. CASE b = a
      <4>1. i \in 1 .. Len(s) /\ mem'[b][i] = s[i]
        BY <1>2, <1>3, <1>4, <2>1, <3>1
      <4>2. \A j \in 1 .. cap : new[j] = s[i] => j \in 1 .. Len(s) /\ s[j] = s[i]
        BY <1>2, <1>3, <4>1, NoneAssumption
      <4> QED
        BY <1>2, <1>3, <1>4, <3>1, <4>1, <4>2 DEF Elems
    <3>2. CASE b # a /\ Held(b)
      BY <1>4, <2>1, <3>2 DEF MemOK
    <3>3. CASE b # a /\ ~Held(b)
      BY <1>4, <2>1, <3>3
    <3> QED
      BY <3>1, <3>2, <3>3
  <2> QED
    BY <1>5, <2>1 DEF MemOK
<1> HIDE DEF new
<1>7. list' # Nil /\ list'.arr = a /\ list'.off = 0 /\ list'.len = Len(s) /\ ~Held(a) /\ a \in Arrays
  BY <1>1, <1>2 DEF Nil
<1>8. Valid(list)'
  <2>1. list' \in [arr : Arrays, off : Nat, len : Nat] /\ 0 + Len(s) <= Len(mem'[a])
    BY <1>1, <1>2, <1>3, <1>4
  <2>2. \A i \in 1 .. Len(s) : mem'[a][0 + i] \in Values
    BY <1>2, <1>3, <1>4
  <2> QED
    BY <1>7, <2>1, <2>2 DEF Valid
<1>9. Contents(list)' = s
  <2>1. Contents(list)' = [i \in 1 .. Len(s) |-> new[0 + i]]
    BY <1>4, <1>7 DEF Contents
  <2>2. \A i \in 1 .. Len(s) : new[0 + i] = s[i]
    BY <1>2, <1>3
  <2> QED
    BY <1>2, <2>1, <2>2
<1>10. WritesBehind
  BY <1>4, <1>7 DEF WritesBehind
<1> QED
  BY <1>6, <1>7, <1>8, <1>9, <1>10 DEF Stretches

LEMMA ExtendDoes ==
  ASSUME MemOK, Valid(list), NEW vs, New(vs), Elems(vs) \intersect given = {},
         given' = given \union Elems(vs), Extend(vs)
  PROVE  MemOK' /\ Contents(list)' = Contents(list) \o vs /\ WritesBehind /\ Stretches
<1> DEFINE a == list.arr
           e == list.off + list.len
           n == Len(vs)
           M == Len(mem[list.arr])
<1>1. n \in Nat \ {0} /\ DOMAIN vs = 1 .. n /\ \A i \in 1 .. n : vs[i] \in Values
  BY EmptySeq, SeqParts DEF New
<1>2. list # Nil
  BY <1>1 DEF Extend, Fits, Nil
<1>3. /\ a \in Arrays /\ list.off \in Nat /\ list.len \in Nat /\ M \in Nat /\ DOMAIN mem[a] = 1 .. M
      /\ mem[a] \in Seq(Values \union {None}) /\ e + n <= M
  BY <1>1, <1>2, PartOf DEF MemOK, Extend, Fits
<1> DEFINE new == [i \in 1 .. M |-> IF i \in e + 1 .. e + n THEN vs[i - list.off - list.len] ELSE mem[a][i]]
<1>4. mem' = [mem EXCEPT ![a] = new] /\ list' = [list EXCEPT !.len = @ + n]
  BY <1>3 DEF Extend
<1>5. \A i \in e + 1 .. e + n : i - list.off - list.len \in 1 .. n
  BY <1>1, <1>3
<1>6. new \in Seq(Values \union {None}) /\ Len(new) = M /\ DOMAIN new = 1 .. M
  <2>1. \A i \in 1 .. M : (IF i \in e + 1 .. e + n THEN vs[i - list.off - list.len] ELSE mem[a][i])
                            \in Values \union {None}
    BY <1>1, <1>3, <1>5
  <2> QED
    BY <1>3, <2>1
<1>7. /\ \A i \in e + 1 .. e + n : new[i] = vs[i - list.off - list.len]
      /\ \A i \in 1 .. M : i \notin e + 1 .. e + n => new[i] = mem[a][i]
  BY <1>1, <1>3
<1>8. mem'[a] = new /\ (\A b \in Arrays \ {a} : mem'[b] = mem[b])
      /\ mem' \in [Arrays -> Seq(Values \union {None})]
  BY <1>3, <1>4, <1>6 DEF MemOK
<1> HIDE DEF new, a, e, n, M
<1>9. MemOK'
  <2>1. ASSUME NEW b \in Arrays, NEW i \in DOMAIN mem'[b], mem'[b][i] # None
        PROVE  /\ mem'[b][i] \in given'
               /\ \A j \in DOMAIN mem'[b] : mem'[b][j] = mem'[b][i] => j = i
    <3>1. CASE b # a
      BY <1>8, <2>1, <3>1 DEF MemOK
    <3>2. CASE b = a /\ i \in e + 1 .. e + n
      <4> DEFINE k == i - list.off - list.len
      <4>1. k \in 1 .. n /\ new[i] = vs[k] /\ vs[k] \in Elems(vs) /\ vs[k] \notin given
        BY <1>1, <1>5, <1>7, <3>2 DEF Elems
      <4>2. ASSUME NEW j \in 1 .. M, new[j] = new[i]  PROVE  j = i
        <5>1. CASE j \in e + 1 .. e + n
          <6> DEFINE l == j - list.off - list.len
          <6>1. l \in 1 .. n /\ vs[l] = vs[k]
            BY <1>5, <1>7, <4>1, <4>2, <5>1
          <6>2. l = k
            BY <1>1, <4>1, <6>1 DEF New
          <6> QED
            BY <1>3, <3>2, <6>2, <5>1
        <5>2. CASE j \notin e + 1 .. e + n
          <6>1. mem[a][j] = vs[k] /\ vs[k] \in Values
            BY <1>1, <1>7, <4>1, <4>2, <5>2
          <6> QED
            BY <1>3, <4>1, <6>1, NoneAssumption DEF MemOK
        <5> QED
          BY <5>1, <5>2
      <4> QED
        BY <1>6, <1>8, <3>2, <4>1, <4>2
    <3>3. CASE b = a /\ i \notin e + 1 .. e + n
      <4>1. i \in 1 .. M /\ new[i] = mem[a][i] /\ mem[a][i] # None /\ mem[a][i] \in given
        BY <1>3, <1>6, <1>7, <1>8, <2>1, <3>3 DEF MemOK
      <4>2. ASSUME NEW j \in 1 .. M, new[j] = new[i]  PROVE  j = i
        <5>1. CASE j \in e + 1 .. e + n
          <6>1. new[j] \in Elems(vs)
            BY <1>1, <1>5, <1>7, <5>1 DEF Elems
          <6> QED
            BY <4>1, <4>2, <6>1
        <5>2. CASE j \notin e + 1 .. e + n
          <6>1. mem[a][j] = mem[a][i]
            BY <1>7, <4>1, <4>2, <5>2
          <6>2. i \in DOMAIN mem[a] /\ j \in DOMAIN mem[a] /\ a \in Arrays
            BY <1>3, <4>1
          <6> QED
            BY <4>1, <6>1, <6>2 DEF MemOK
        <5> QED
          BY <5>1, <5>2
      <4> QED
        BY <1>6, <1>8, <3>3, <4>1, <4>2
    <3> QED
      BY <3>1, <3>2, <3>3
  <2>2. given' \in SUBSET Values
    BY <1>1 DEF Elems, MemOK
  <2> QED
    BY <1>8, <2>1, <2>2 DEF MemOK
<1>10. /\ list' \in [arr : Arrays, off : Nat, len : Nat] /\ list' # Nil
       /\ list'.arr = a /\ list'.off = list.off /\ list'.len = list.len + n
  BY <1>1, <1>2, <1>3, <1>4 DEF Valid, Nil, a
<1>11. \A i \in 1 .. list.len + n :
         /\ list.off + i \in 1 .. M
         /\ new[list.off + i] = IF i <= list.len THEN mem[a][list.off + i] ELSE vs[i - list.len]
         /\ new[list.off + i] \in Values
  <2>1. ASSUME NEW i \in 1 .. list.len + n
        PROVE  list.off + i \in 1 .. M
    BY <1>1, <1>3 DEF e
  <2>2. ASSUME NEW i \in 1 .. list.len
        PROVE  new[list.off + i] = mem[a][list.off + i] /\ mem[a][list.off + i] \in Values
    <3>1. list.off + i \in 1 .. M /\ list.off + i \notin e + 1 .. e + n
      BY <1>1, <1>3 DEF e
    <3> QED
      BY <1>2, <1>7, <3>1, PartOf DEF a
  <2>3. ASSUME NEW i \in list.len + 1 .. list.len + n
        PROVE  new[list.off + i] = vs[i - list.len] /\ vs[i - list.len] \in Values
    <3>1. list.off + i \in e + 1 .. e + n /\ i - list.len \in 1 .. n
          /\ (list.off + i) - list.off - list.len = i - list.len
      <4>1. list.off \in Nat /\ list.len \in Nat /\ n \in Nat /\ i \in Int
        BY <1>1, <1>3
      <4> QED
        BY <4>1 DEF e
    <3>2. new[list.off + i] = vs[(list.off + i) - list.off - list.len]
      BY <1>7, <3>1
    <3> QED
      BY <1>1, <3>1, <3>2
  <2>4. \A i \in 1 .. list.len + n : i \in 1 .. list.len \/ i \in list.len + 1 .. list.len + n
    BY <1>1, <1>3
  <2>5. /\ \A i \in 1 .. list.len : i <= list.len
        /\ \A i \in list.len + 1 .. list.len + n : ~(i <= list.len)
    BY <1>1, <1>3
  <2> QED
    BY <2>1, <2>2, <2>3, <2>4, <2>5
<1>12. Valid(list)'
  BY <1>1, <1>3, <1>6, <1>8, <1>10, <1>11 DEF Valid, e
<1>13. Contents(list)' = Contents(list) \o vs
  <2>1. Contents(list)' = [i \in 1 .. list.len + n |-> new[list.off + i]]
    BY <1>8, <1>10 DEF Contents
  <2>2. /\ Contents(list) \in Seq(Values) /\ Len(Contents(list)) = list.len
        /\ \A i \in 1 .. list.len : Contents(list)[i] = mem[a][list.off + i]
    BY ContentsIs DEF a
  <2>3. /\ Contents(list) \o vs \in Seq(Values) /\ Len(Contents(list) \o vs) = list.len + n
        /\ \A i \in 1 .. list.len + n : (Contents(list) \o vs)[i] =
             IF i <= list.len THEN mem[a][list.off + i] ELSE vs[i - list.len]
    <3>1. vs \in Seq(Values) /\ Len(vs) = n
      BY DEF New, n
    <3>2. /\ Contents(list) \o vs \in Seq(Values) /\ Len(Contents(list) \o vs) = list.len + n
          /\ \A i \in 1 .. list.len + n : (Contents(list) \o vs)[i] =
               IF i <= list.len THEN Contents(list)[i] ELSE vs[i - list.len]
      <4> DEFINE t == Contents(list)
      <4>1. t \in Seq(Values) /\ Len(t) = list.len
        BY <2>2
      <4> HIDE DEF t
      <4>2. /\ t \o vs \in Seq(Values) /\ Len(t \o vs) = Len(t) + Len(vs)
            /\ \A i \in 1 .. Len(t) + Len(vs) : (t \o vs)[i] =
                 IF i <= Len(t) THEN t[i] ELSE vs[i - Len(t)]
        BY <3>1, <4>1, ConcatProperties
      <4>3. /\ t \o vs \in Seq(Values) /\ Len(t \o vs) = list.len + n
            /\ \A i \in 1 .. list.len + n : (t \o vs)[i] =
                 IF i <= list.len THEN t[i] ELSE vs[i - list.len]
        BY <3>1, <4>1, <4>2
      <4> QED
        BY <4>3 DEF t
    <3>3. \A i \in 1 .. list.len + n : i <= list.len => i \in 1 .. list.len
      BY <1>1, <1>3
    <3> QED
      BY <2>2, <3>2, <3>3
  <2>4. Contents(list)' \in Seq(Values) /\ Len(Contents(list)') = list.len + n
    <3>1. list.len + n \in Nat /\ \A i \in 1 .. list.len + n : new[list.off + i] \in Values
      BY <1>1, <1>3, <1>11
    <3> QED
      BY <2>1, <3>1
  <2>5. \A i \in 1 .. list.len + n : Contents(list)'[i] = (Contents(list) \o vs)[i]
    BY <1>11, <2>1, <2>3
  <2> QED
    BY <2>3, <2>4, <2>5, SeqEqual
<1>14. \A i \in e + 1 .. e + n : new[i] \in Listed'
  <2>1. \A i \in e + 1 .. e + n : i - list.off \in 1 .. list.len + n /\ list.off + (i - list.off) = i
    BY <1>1, <1>3 DEF e
  <2>2. /\ Contents(list)' = [i \in 1 .. list.len + n |-> new[list.off + i]]
        /\ Listed' = {Contents(list)'[i] : i \in DOMAIN Contents(list)'}
    BY <1>8, <1>10 DEF Contents, Listed, Elems
  <2> QED
    BY <2>1, <2>2
<1>15. WritesBehind
  <2>1. \A i \in 1 .. M : \/ new[i] = mem[a][i]
                          \/ i > e /\ new[i] \in Listed'
    BY <1>3, <1>7, <1>14 DEF e
  <2> QED
    BY <1>2, <1>3, <1>6, <1>8, <2>1 DEF WritesBehind, a, e, M
<1> QED
  BY <1>2, <1>9, <1>10, <1>12, <1>13, <1>15 DEF Stretches, a

-------------------------------------------------------------------------------
(* Handlers.                                                               *)

LEMMA Handling ==
  ASSUME TypeOK, NEW c \in Conns, Busy(c)
  PROVE  /\ call[c] \in Calls[c] /\ call[c].op \in {"LRANGE", "LPOP", "RPOP"}
         /\ slice[c] # Nil /\ slice[c].arr \in Arrays /\ slice[c].off \in Nat
         /\ slice[c].len \in Nat \ {0} /\ Held(slice[c].arr)
         /\ base[c] \in Seq(Values) /\ DOMAIN base[c] = 1 .. slice[c].len
         /\ \A i \in 1 .. slice[c].len : /\ base[c][i] \in Values
                                         /\ slice[c].off + i \in DOMAIN mem[slice[c].arr]
                                         /\ mem[slice[c].arr][slice[c].off + i] \in Values
<1>1. /\ slice[c] \in [arr : Arrays \union {None}, off : Nat, len : Nat] /\ slice[c].len > 0
      /\ call[c] \in Calls[c] /\ call[c].op \in {"LRANGE", "LPOP", "RPOP"}
      /\ base[c] \in Seq(Values) /\ Len(base[c]) = slice[c].len /\ Valid(slice[c]) /\ MemOK
  BY DEF TypeOK, ProcOK, Busy
<1>2. slice[c] # Nil
  BY <1>1 DEF Nil
<1>3. DOMAIN base[c] = 1 .. slice[c].len /\ \A i \in 1 .. slice[c].len : base[c][i] \in Values
  BY <1>1, SeqParts
<1> QED
  BY <1>1, <1>2, <1>3, PartOf DEF Held

\* Where the part it replies is in its slice.
LEMMA Replying ==
  ASSUME TypeOK, NEW c \in Conns, Busy(c)
  PROVE  /\ part[c].arr = slice[c].arr /\ part[c].off \in Nat /\ part[c].len \in Nat \ {0}
         /\ slice[c].off <= part[c].off /\ part[c].off + part[c].len <= slice[c].off + slice[c].len
         /\ \A j \in 1 .. part[c].len :
              /\ part[c].off - slice[c].off + j \in 1 .. slice[c].len
              /\ slice[c].off + (part[c].off - slice[c].off + j) = part[c].off + j
              /\ Original(c, j) = base[c][part[c].off - slice[c].off + j]
              /\ Original(c, j) \in Values
<1>1. /\ slice[c].off \in Nat /\ slice[c].len \in Nat
      /\ \A i \in 1 .. slice[c].len : base[c][i] \in Values
  BY Handling
<1>2. /\ part[c] \in [arr : Arrays \union {None}, off : Nat, len : Nat]
      /\ part[c].arr = slice[c].arr /\ part[c].len > 0
      /\ slice[c].off <= part[c].off /\ part[c].off + part[c].len <= slice[c].off + slice[c].len
  BY DEF TypeOK, ProcOK, Busy
<1>3. part[c].off \in Nat /\ part[c].len \in Nat \ {0}
  BY <1>2
<1>4. ASSUME NEW j \in 1 .. part[c].len
      PROVE  /\ part[c].off - slice[c].off + j \in 1 .. slice[c].len
             /\ slice[c].off + (part[c].off - slice[c].off + j) = part[c].off + j
  BY <1>1, <1>2, <1>3
<1> QED
  BY <1>1, <1>2, <1>3, <1>4 DEF Original

\* What it has copied.
LEMMA Copying ==
  ASSUME TypeOK, NEW c \in Conns
  PROVE  /\ out[c] \in Seq(Values \union {Torn}) /\ Len(out[c]) \in Nat /\ DOMAIN out[c] = 1 .. Len(out[c])
         /\ Busy(c) => DOMAIN out[c] \subseteq 1 .. part[c].len
         /\ Busy(c) /\ pc[c] = "read" => Len(out[c]) + 1 \in 1 .. part[c].len
         /\ word[c] # None => Busy(c) /\ pc[c] = "read" /\ word[c] \in Values
         /\ ~Busy(c) => out[c] = <<>> /\ slice[c] = Nil
<1>1. out[c] \in Seq(Values \union {Torn}) /\ word[c] \in Values \union {None} /\ ProcOK(c)
  BY DEF TypeOK
<1>2. Len(out[c]) \in Nat /\ DOMAIN out[c] = 1 .. Len(out[c])
  BY <1>1, SeqParts
<1>3. Busy(c) => part[c].len \in Nat
  BY Replying
<1> QED
  BY <1>1, <1>2, <1>3 DEF ProcOK, Busy

\* The handlers do not notice a change of the list.
LEMMA SameHandlers ==
  ASSUME TypeOK, UNCHANGED <<proc, base>>
  PROVE  \A c \in Conns : /\ ProcOK(c)' /\ (Busy(c)' <=> Busy(c)) /\ Origs(c)' = Origs(c)
                          /\ HasTaken(c)' <=> HasTaken(c)
                          /\ \A j : Original(c, j)' = Original(c, j)
<1> SUFFICES ASSUME NEW c \in Conns
             PROVE  /\ ProcOK(c)' /\ (Busy(c)' <=> Busy(c)) /\ Origs(c)' = Origs(c)
                    /\ HasTaken(c)' <=> HasTaken(c)
                    /\ \A j : Original(c, j)' = Original(c, j)
  OBVIOUS
<1>1. UNCHANGED <<pc, call, slice, part, word, out, base>>
  BY DEF proc
<1>2. ProcOK(c) /\ (ProcOK(c)' <=> ProcOK(c))
  BY <1>1 DEF TypeOK, ProcOK, Busy, Wanted, Sub
<1>3. (Busy(c)' <=> Busy(c)) /\ Origs(c)' = Origs(c) /\ (HasTaken(c)' <=> HasTaken(c))
  BY <1>1 DEF Busy, Origs, HasTaken
<1>4. \A j : Original(c, j)' = Original(c, j)
  BY <1>1 DEF Original, Wanted, Sub
<1> QED
  BY <1>2, <1>3, <1>4

-------------------------------------------------------------------------------
(* LPUSH and RPUSH.                                                        *)

Pushed(vs, v) ==
  /\ vs \in Seq(Values) /\ Elems(vs) \intersect given = {}
  /\ v \in Seq(Values) /\ Len(v) = list'.len
  /\ MemOK' /\ WritesBehind /\ Stretches
  /\ given' = given \union Elems(vs) /\ Listed' = Listed \union Elems(vs)
  /\ ~raced => Contents(list)' = v
  /\ UNCHANGED <<proc, raced, base>>
  /\ Becomes(v)

\* What a slice holds stays, but for what was behind the list and not in it.
LEMMA PushedSlices ==
  ASSUME IInv, NEW vs, NEW v, Pushed(vs, v), NEW c \in Conns, Busy(c)
  PROVE  /\ Len(mem'[slice[c].arr]) = Len(mem[slice[c].arr])
         /\ DOMAIN mem'[slice[c].arr] = DOMAIN mem[slice[c].arr]
         /\ \A i \in 1 .. slice[c].len :
              \/ mem'[slice[c].arr][slice[c].off + i] = mem[slice[c].arr][slice[c].off + i]
              \/ /\ list # Nil /\ slice[c].arr = list.arr
                 /\ slice[c].off + i > list.off + list.len
                 /\ mem'[slice[c].arr][slice[c].off + i] \in Listed'
                 /\ mem[slice[c].arr][slice[c].off + i] \notin Listed
<1>1. TypeOK /\ MemOK /\ Valid(list)
  BY DEF IInv, TypeOK
<1>2. /\ slice[c].arr \in Arrays /\ Held(slice[c].arr)
      /\ \A i \in 1 .. slice[c].len : /\ slice[c].off + i \in DOMAIN mem[slice[c].arr]
                                      /\ mem[slice[c].arr][slice[c].off + i] \in Values
  BY <1>1, Handling
<1>3. ASSUME NEW p \in DOMAIN mem[list.arr], list # Nil, p > list.off + list.len, mem[list.arr][p] \in Listed
      PROVE  FALSE
  <2>1. PICK i \in 1 .. list.len : mem[list.arr][p] = mem[list.arr][list.off + i]
    BY <1>1, <1>3, ListedIs
  <2>2. p = list.off + i
    BY <1>1, <1>3, <2>1, Distinct
  <2> QED
    BY <1>1, <1>3, <2>2, PartOf
<1> QED
  BY <1>2, <1>3 DEF Pushed, WritesBehind

LEMMA PushedType ==
  ASSUME IInv, NEW vs, NEW v, Pushed(vs, v)
  PROVE  TypeOK'
<1>1. TypeOK /\ MemOK /\ Valid(list)
  BY DEF IInv, TypeOK
<1>2. Listed' \subseteq Values
  BY <1>1, ListedIs DEF Pushed, Elems
<1>3. ASSUME NEW c \in Conns
      PROVE  Valid(slice[c])'
  <2>1. CASE Busy(c)
    <3>1. slice[c] \in [arr : Arrays, off : Nat, len : Nat] /\ slice[c].off + slice[c].len <= Len(mem[slice[c].arr])
      BY <1>1, <2>1, Handling DEF TypeOK, Valid
    <3>2. \A i \in 1 .. slice[c].len : mem'[slice[c].arr][slice[c].off + i] \in Values
      BY <1>1, <1>2, <2>1, Handling, PushedSlices
    <3>3. Len(mem'[slice[c].arr]) = Len(mem[slice[c].arr])
      BY <2>1, PushedSlices
    <3> QED
      BY <3>1, <3>2, <3>3 DEF Valid, Pushed, proc
  <2>2. CASE ~Busy(c)
    BY <1>1, <2>2, Copying DEF Valid, Pushed, proc
  <2> QED
    BY <2>1, <2>2
<1>4. /\ since' \in [Conns -> SUBSET Values] /\ stayed' \in [Conns -> SUBSET Values]
      /\ value' \in Seq(Values) /\ Len(value') = list'.len
  BY <1>1, <1>2 DEF Pushed, Becomes, TypeOK, Listed
<1>5. \A c \in Conns : ProcOK(c)'
  BY <1>1, SameHandlers DEF Pushed
<1>6. MemOK' /\ Valid(list)' /\ UNCHANGED <<proc, raced, base>>
  BY DEF Pushed, Stretches
<1> QED
  BY <1>1, <1>3, <1>4, <1>5, <1>6 DEF TypeOK, proc

LEMMA PushedStays ==
  ASSUME IInv, NEW vs, NEW v, Pushed(vs, v), NEW c \in Conns
  PROVE  StayOK(c)' /\ CopyOK(c)'
<1>1. TypeOK /\ StayOK(c) /\ CopyOK(c)
  BY DEF IInv
<1>2. /\ since'[c] = since[c] \union Listed' /\ stayed'[c] = stayed[c] \intersect Listed'
      /\ slice' = slice /\ base' = base /\ part' = part /\ word' = word /\ out' = out
      /\ given \subseteq given'
  BY DEF Pushed, Becomes, Listed, proc
<1>3. CASE Busy(c)
  <2>1. ASSUME NEW j \in 1 .. slice[c].len
        PROVE  /\ base[c][j] \in stayed'[c] => mem'[slice[c].arr][slice[c].off + j] = base[c][j]
               /\ mem'[slice[c].arr][slice[c].off + j] \in since'[c]
               /\ base[c][j] \in given'
    <3> DEFINE old == mem[slice[c].arr][slice[c].off + j]
               new == mem'[slice[c].arr][slice[c].off + j]
    <3>1. \/ new = old
          \/ new \in Listed' /\ old \notin Listed
      BY <1>3, PushedSlices
    <3>2. (base[c][j] \in stayed[c] => old = base[c][j]) /\ old \in since[c] /\ base[c][j] \in given
      BY <1>1 DEF StayOK
    <3>3. stayed[c] \subseteq Listed
      BY <1>1 DEF StayOK
    <3> QED
      BY <1>2, <3>1, <3>2, <3>3
  <2> QED
    BY <1>1, <1>2, <2>1 DEF StayOK, CopyOK, Original
<1>4. CASE ~Busy(c)
  <2>1. slice[c].len = 0 /\ word[c] = None
    BY <1>1, <1>4, Copying DEF Nil
  <2> QED
    BY <1>2, <2>1 DEF StayOK, CopyOK
<1> QED
  BY <1>3, <1>4

LEMMA PushedReplies ==
  ASSUME IInv, NEW vs, NEW v, Pushed(vs, v)
  PROVE  RepliesAreOfTheTime'
<1>1. \A c \in Conns : since[c] \subseteq since'[c] /\ stayed'[c] \subseteq stayed[c]
  BY DEF Pushed, Becomes
<1>2. out' = out /\ slice' = slice /\ part' = part /\ base' = base
  BY DEF Pushed, proc
<1> QED
  BY <1>1, <1>2 DEF IInv, RepliesAreOfTheTime, Original

LEMMA PushedUnraced ==
  ASSUME IInv, NEW vs, NEW v, Pushed(vs, v), ~raced, NEW c \in Conns
  PROVE  Unraced(c)'
<1>1. TypeOK /\ Unraced(c) /\ StayOK(c) /\ MemOK /\ Valid(list)
  BY DEF IInv, TypeOK
<1>2. /\ stayed' = [d \in Conns |-> stayed[d] \intersect Listed']
      /\ Listed' = Listed \union Elems(vs) /\ Elems(vs) \intersect given = {}
  BY DEF Pushed, Becomes, Listed
<1>3. UNCHANGED <<proc, base>> /\ WritesBehind /\ Stretches
  BY DEF Pushed
<1> SUFFICES ASSUME Busy(c) PROVE Back(c)' /\ (HasTaken(c)' => Taken(c)') /\ ReplyOK(c)'
  BY <1>1, <1>3, SameHandlers DEF Unraced
<1>4. Origs(c) \subseteq given
  BY <1>1, Handling DEF Origs, Elems, StayOK
<1>5. Back(c)'
  <2>1. Origs(c)' = Origs(c)
    BY <1>1, <1>3, SameHandlers
  <2> QED
    BY <1>1, <1>2, <1>4, <2>1 DEF Back, Unraced
<1>6. ReplyOK(c)'
  BY <1>1, <1>3 DEF Unraced, ReplyOK, Original, proc
<1>7. ASSUME HasTaken(c)
      PROVE  Taken(c)'
  <2>1. Taken(c) /\ part' = part /\ out' = out /\ word' = word /\ slice' = slice /\ base' = base
    BY <1>1, <1>3, <1>7 DEF Unraced, proc
  <2>2. \A d \in Conns : /\ Busy(d)' <=> Busy(d)
                         /\ Origs(d)' = Origs(d) /\ stayed'[d] \subseteq stayed[d]
                         /\ \A j : Original(d, j)' = Original(d, j)
    BY <1>1, <1>2, <1>3, SameHandlers
  <2>3. part[c].arr = slice[c].arr
    BY <1>1, Replying
  <2>4. ASSUME list' # Nil, list'.arr = part[c].arr
        PROVE  list # Nil /\ list.arr = part[c].arr /\ list'.off = list.off
    BY <1>1, <1>3, <2>3, <2>4, Handling DEF Stretches
  <2>5. ASSUME NEW j \in 1 .. part[c].len
        PROVE  /\ mem'[part[c].arr][part[c].off + j] = Original(c, j)
               /\ Original(c, j) \notin Listed'
    <3> DEFINE k == part[c].off - slice[c].off + j
    <3>1. /\ k \in 1 .. slice[c].len /\ slice[c].off + k = part[c].off + j /\ Original(c, j) = base[c][k]
          /\ part[c].off \in Nat /\ part[c].len \in Nat
      BY <1>1, Replying
    <3>2. Original(c, j) \in given /\ Original(c, j) \notin Listed
          /\ mem[part[c].arr][part[c].off + j] = Original(c, j)
      BY <1>1, <2>1, <3>1 DEF StayOK, Taken
    <3>3. \/ mem'[slice[c].arr][slice[c].off + k] = mem[slice[c].arr][slice[c].off + k]
          \/ list # Nil /\ slice[c].arr = list.arr /\ slice[c].off + k > list.off + list.len
      BY <3>1, PushedSlices
    <3>4. ~(list # Nil /\ slice[c].arr = list.arr /\ slice[c].off + k > list.off + list.len)
      <4> SUFFICES ASSUME list # Nil, slice[c].arr = list.arr PROVE part[c].off + j <= list.off + list.len
        BY <1>1, <3>1, PartOf
      <4>1. part[c].off + part[c].len <= list.off /\ list.off \in Nat /\ list.len \in Nat
        BY <1>1, <2>1, <2>3, PartOf DEF Taken
      <4> QED
        BY <3>1, <4>1
    <3> QED
      BY <1>2, <2>3, <3>1, <3>2, <3>3, <3>4
  <2> QED
    BY <2>1, <2>2, <2>4, <2>5 DEF Taken
<1> QED
  BY <1>1, <1>3, <1>5, <1>6, <1>7, SameHandlers

LEMMA PushedInv ==
  ASSUME IInv, NEW vs, NEW v, Pushed(vs, v)
  PROVE  IInv'
<1>1. ~raced' => Contents(list)' = value' /\ \A c \in Conns : Unraced(c)'
  BY PushedUnraced DEF Pushed, Becomes
<1> QED
  BY <1>1, PushedType, PushedStays, PushedReplies DEF IInv

LEMMA ContentsNext ==
  ASSUME Valid(list)'
  PROVE  Contents(list)' \in Seq(Values) /\ Len(Contents(list)') = list'.len
<1>1. CASE list' = Nil
  BY <1>1 DEF Contents, Nil
<1>2. CASE list' # Nil
  <2>1. /\ list'.len \in Nat /\ Contents(list)' = [i \in 1 .. list'.len |-> mem'[list'.arr][list'.off + i]]
        /\ \A i \in 1 .. list'.len : mem'[list'.arr][list'.off + i] \in Values
    BY <1>2 DEF Valid, Contents
  <2> QED
    BY <2>1
<1> QED
  BY <1>1, <1>2

Once(s) == \A i, j \in 1 .. Len(s) : s[i] = s[j] => i = j

\* The values of a list and new ones before or behind them.
LEMMA Joined ==
  ASSUME NEW s \in Seq(Values), NEW t \in Seq(Values), Once(s), Once(t),
         Elems(s) \intersect Elems(t) = {}
  PROVE  /\ s \o t \in Seq(Values) /\ Len(s \o t) = Len(s) + Len(t)
         /\ Elems(s \o t) = Elems(s) \union Elems(t) /\ Once(s \o t)
         /\ t \o s \in Seq(Values) /\ Len(t \o s) = Len(s) + Len(t)
         /\ Elems(t \o s) = Elems(s) \union Elems(t) /\ Once(t \o s)
<1> DEFINE m == Len(s)  n == Len(t)  st == s \o t  ts == t \o s
<1>1. /\ m \in Nat /\ DOMAIN s = 1 .. m /\ n \in Nat /\ DOMAIN t = 1 .. n
  BY SeqParts
<1>2. /\ st \in Seq(Values) /\ Len(st) = m + n /\ DOMAIN st = 1 .. m + n
      /\ \A i \in 1 .. m + n : st[i] = IF i <= m THEN s[i] ELSE t[i - m]
  BY <1>1, ConcatProperties
<1>3. /\ ts \in Seq(Values) /\ Len(ts) = m + n /\ DOMAIN ts = 1 .. m + n
      /\ \A i \in 1 .. m + n : ts[i] = IF i <= n THEN t[i] ELSE s[i - n]
  <2>1. /\ ts \in Seq(Values) /\ Len(ts) = n + m
        /\ \A i \in 1 .. n + m : ts[i] = IF i <= n THEN t[i] ELSE s[i - n]
    BY ConcatProperties
  <2>2. n + m = m + n
    BY <1>1
  <2> QED
    BY <2>1, <2>2, SeqParts
<1> HIDE DEF m, n, st, ts
<1>4. \A i \in 1 .. m, j \in 1 .. n : s[i] # t[j]
  <2> TAKE i \in 1 .. m, j \in 1 .. n
  <2>1. s[i] \in Elems(s) /\ t[j] \in Elems(t)
    BY <1>1 DEF Elems
  <2> QED
    BY <2>1
<1>5. \A i \in 1 .. m + n : \/ i \in 1 .. m /\ st[i] = s[i]
                            \/ i - m \in 1 .. n /\ i > m /\ st[i] = t[i - m]
  BY <1>1, <1>2
<1>6. \A i \in 1 .. m + n : \/ i \in 1 .. n /\ ts[i] = t[i]
                            \/ i - n \in 1 .. m /\ i > n /\ ts[i] = s[i - n]
  BY <1>1, <1>3
<1>7. \A i, j \in 1 .. m + n : st[i] = st[j] => i = j
  <2> TAKE i \in 1 .. m + n, j \in 1 .. m + n
  <2>1. i \in Int /\ j \in Int /\ m \in Int
    BY <1>1
  <2>2. ASSUME st[i] = st[j]
        PROVE  i = j \/ i - m = j - m
    <3>1. CASE i \in 1 .. m /\ st[i] = s[i]
      BY <1>4, <1>5, <2>2, <3>1 DEF m, Once
    <3>2. CASE i - m \in 1 .. n /\ st[i] = t[i - m]
      BY <1>4, <1>5, <2>2, <3>2 DEF n, Once
    <3> QED
      BY <1>5, <3>1, <3>2
  <2> QED
    BY <2>1, <2>2
<1>8. \A i, j \in 1 .. m + n : ts[i] = ts[j] => i = j
  <2> TAKE i \in 1 .. m + n, j \in 1 .. m + n
  <2>1. i \in Int /\ j \in Int /\ n \in Int
    BY <1>1
  <2>2. ASSUME ts[i] = ts[j]
        PROVE  i = j \/ i - n = j - n
    <3>1. CASE i \in 1 .. n /\ ts[i] = t[i]
      <4>1. CASE j \in 1 .. n /\ ts[j] = t[j]
        BY <2>2, <3>1, <4>1 DEF n, Once
      <4>2. CASE j - n \in 1 .. m /\ ts[j] = s[j - n]
        BY <1>4, <2>2, <3>1, <4>2
      <4> QED
        BY <1>6, <4>1, <4>2
    <3>2. CASE i - n \in 1 .. m /\ ts[i] = s[i - n]
      <4>1. CASE j \in 1 .. n /\ ts[j] = t[j]
        BY <1>4, <2>2, <3>2, <4>1
      <4>2. CASE j - n \in 1 .. m /\ ts[j] = s[j - n]
        BY <2>2, <3>2, <4>2 DEF m, Once
      <4> QED
        BY <1>6, <4>1, <4>2
    <3> QED
      BY <1>6, <3>1, <3>2
  <2> QED
    BY <2>1, <2>2
<1>9. /\ \A i \in 1 .. m : i \in 1 .. m + n /\ st[i] = s[i] /\ n + i \in 1 .. m + n /\ ts[n + i] = s[i]
      /\ \A i \in 1 .. n : i \in 1 .. m + n /\ ts[i] = t[i] /\ m + i \in 1 .. m + n /\ st[m + i] = t[i]
  <2>1. ASSUME NEW i \in 1 .. m
        PROVE  i \in 1 .. m + n /\ i <= m /\ n + i \in 1 .. m + n /\ ~(n + i <= n) /\ (n + i) - n = i
    BY <1>1
  <2>2. ASSUME NEW i \in 1 .. n
        PROVE  i \in 1 .. m + n /\ i <= n /\ m + i \in 1 .. m + n /\ ~(m + i <= m) /\ (m + i) - m = i
    BY <1>1
  <2> QED
    BY <1>2, <1>3, <2>1, <2>2
<1>10. Elems(st) = Elems(s) \union Elems(t) /\ Elems(ts) = Elems(s) \union Elems(t)
  <2>1. /\ Elems(s) = {s[i] : i \in 1 .. m} /\ Elems(t) = {t[i] : i \in 1 .. n}
        /\ Elems(st) = {st[i] : i \in 1 .. m + n} /\ Elems(ts) = {ts[i] : i \in 1 .. m + n}
    BY <1>1, <1>2, <1>3 DEF Elems
  <2>2. Elems(st) = Elems(s) \union Elems(t)
    BY <1>5, <1>9, <2>1
  <2>3. Elems(ts) = Elems(s) \union Elems(t)
    <3>1. \A i \in 1 .. m + n : ts[i] \in Elems(s) \union Elems(t)
      BY <1>6, <2>1
    <3>2. (\A i \in 1 .. m : s[i] \in Elems(ts)) /\ \A i \in 1 .. n : t[i] \in Elems(ts)
      BY <1>9, <2>1
    <3> QED
      BY <2>1, <3>1, <3>2
  <2> QED
    BY <2>2, <2>3
<1> QED
  <2>1. Once(st) /\ Once(ts)
    BY <1>2, <1>3, <1>7, <1>8 DEF Once
  <2>2. m + n = n + m
    BY <1>1
  <2> QED
    BY <1>2, <1>3, <1>10, <2>1, <2>2 DEF m, n, st, ts

LEMMA GiveIs ==
  ASSUME NEW c \in Conns, NEW op \in {"LPUSH", "RPUSH"}, NEW cl \in Give(c, op)
  PROVE  New(cl.vals) /\ Elems(cl.vals) \intersect given = {} /\ Elems(cl.vals) \subseteq Values
<1>1. cl \in Calls[c] /\ cl.op = op /\ Elems(cl.vals) \intersect given = {}
  BY DEF Give
<1>2. New(cl.vals)
  BY <1>1, CallsAssumption DEF New
<1> QED
  BY <1>1, <1>2 DEF New, Elems

LEMMA ListDistinct ==
  ASSUME TypeOK
  PROVE  /\ Contents(list) \in Seq(Values) /\ Len(Contents(list)) = list.len
         /\ Once(Contents(list))
         /\ Listed \subseteq given
<1>1. MemOK /\ Valid(list)
  BY DEF TypeOK
<1>2. list = Nil => list.len = 0
  BY DEF Nil
<1>3. ASSUME NEW i \in 1 .. list.len, NEW j \in 1 .. list.len, Contents(list)[i] = Contents(list)[j]
      PROVE  i = j
  <2>1. list.off + j \in DOMAIN mem[list.arr] /\ list.off \in Nat /\ list # Nil
    BY <1>1, <1>2, PartOf
  <2>2. mem[list.arr][list.off + j] = mem[list.arr][list.off + i]
    BY <1>1, <1>3, ContentsIs
  <2>3. list.off + j = list.off + i
    BY <1>1, <2>1, <2>2, Distinct
  <2> QED
    BY <2>1, <2>3
<1>4. \A i \in 1 .. list.len : mem[list.arr][list.off + i] \in given
  BY <1>1, <1>2, PartOf
<1>5. Once(Contents(list))
  BY <1>1, <1>3, ContentsIs DEF Once
<1> QED
  BY <1>1, <1>4, <1>5, ContentsIs, ListedIs

LEMMA RPushInv ==
  ASSUME IInv, NEW c \in Conns, RPush(c)
  PROVE  IInv'
<1>1. TypeOK /\ MemOK /\ Valid(list)
  BY DEF IInv, TypeOK
<1>2. PICK cl \in Give(c, "RPUSH") : /\ Extend(cl.vals) \/ Grow(cl.vals)
                                     /\ given' = given \union Elems(cl.vals)
                                     /\ UNCHANGED <<proc, raced, base>>
                                     /\ Becomes(value \o cl.vals)
  BY DEF RPush
<1> DEFINE vs == cl.vals
<1>3. New(vs) /\ Elems(vs) \intersect given = {} /\ Elems(vs) \subseteq Values /\ vs \in Seq(Values)
  BY <1>2, GiveIs DEF New
<1>4. /\ Contents(list) \o vs \in Seq(Values) /\ Len(Contents(list) \o vs) = list.len + Len(vs)
      /\ Elems(Contents(list) \o vs) = Listed \union Elems(vs)
      /\ Once(Contents(list) \o vs)
      /\ Contents(list) \o vs # <<>>
  <2>1. DOMAIN vs = 1 .. Len(vs) /\ vs # <<>> /\ Once(vs)
    BY <1>3, SeqParts DEF New, Once
  <2>2. Contents(list) \o vs # <<>>
    BY <1>1, <1>3, <2>1, ListDistinct, ConcatSimplifications
  <2>3. /\ Contents(list) \in Seq(Values) /\ Len(Contents(list)) = list.len
        /\ Once(Contents(list))
        /\ Elems(Contents(list)) \intersect Elems(vs) = {}
    BY <1>1, <1>3, ListDistinct DEF Listed
  <2> HIDE DEF vs
  <2>4. /\ Contents(list) \o vs \in Seq(Values)
        /\ Len(Contents(list) \o vs) = Len(Contents(list)) + Len(vs)
        /\ Elems(Contents(list) \o vs) = Elems(Contents(list)) \union Elems(vs)
        /\ Once(Contents(list) \o vs)
    BY <1>3, <2>1, <2>2, <2>3, Joined
  <2> QED
    BY <2>2, <2>3, <2>4 DEF Listed
<1>5. MemOK' /\ Contents(list)' = Contents(list) \o vs /\ WritesBehind /\ Stretches
  <2>1. CASE Extend(vs)
    BY <1>1, <1>2, <1>3, <2>1, ExtendDoes
  <2>2. CASE Grow(vs)
    <3>1. PICK cap \in list.len + Len(vs) .. MaxCap : Allocate(Contents(list) \o vs, cap)
      BY <2>2 DEF Grow
    <3>2. list.len \in Nat /\ Len(vs) \in Nat
      BY <1>1, <1>3, ContentsIs
    <3>3. cap \in Nat /\ Len(Contents(list) \o vs) <= cap
      BY <1>4, <3>1, <3>2, NoneAssumption
    <3>4. given' \in SUBSET Values /\ Elems(Contents(list) \o vs) \subseteq given' /\ given \subseteq given'
      BY <1>1, <1>2, <1>3, <1>4, ListDistinct DEF MemOK
    <3> QED
      BY <1>1, <1>4, <3>1, <3>3, <3>4, AllocateDoes DEF Once
  <2> QED
    BY <1>2, <2>1, <2>2
<1>6. /\ value \o vs \in Seq(Values) /\ Len(value \o vs) = list'.len
      /\ ~raced => Contents(list)' = value \o vs
  <2>1. value \in Seq(Values) /\ Len(value) = list.len /\ (~raced => Contents(list) = value)
    BY DEF IInv, TypeOK
  <2>2. value \o vs \in Seq(Values) /\ Len(value \o vs) = list.len + Len(vs)
    <3>1. vs \in Seq(Values)
      BY <1>3
    <3> HIDE DEF vs
    <3> QED
      BY <2>1, <3>1, ConcatProperties
  <2>3. Len(Contents(list)') = list'.len
    BY <1>5, ContentsNext DEF Stretches
  <2> QED
    BY <1>4, <1>5, <2>1, <2>2, <2>3
<1>7. Listed' = Listed \union Elems(vs)
  BY <1>4, <1>5 DEF Listed
<1> QED
  BY <1>2, <1>3, <1>5, <1>6, <1>7, PushedInv DEF Pushed

LEMMA LPushInv ==
  ASSUME IInv, NEW c \in Conns, LPush(c)
  PROVE  IInv'
<1>1. TypeOK /\ MemOK /\ Valid(list)
  BY DEF IInv, TypeOK
<1>2. PICK cl \in Give(c, "LPUSH") :
        /\ Allocate(Backwards(cl.vals) \o Contents(list), Len(Backwards(cl.vals) \o Contents(list)))
        /\ given' = given \union Elems(cl.vals)
        /\ UNCHANGED <<proc, raced, base>>
        /\ Becomes(Backwards(cl.vals) \o value)
  BY DEF LPush
<1> DEFINE vs == Backwards(cl.vals)
<1>3. New(cl.vals) /\ Elems(cl.vals) \intersect given = {} /\ Elems(cl.vals) \subseteq Values
      /\ cl.vals \in Seq(Values)
  BY <1>2, GiveIs DEF New
<1>4. /\ vs \in Seq(Values) /\ vs # <<>> /\ DOMAIN vs = 1 .. Len(vs) /\ Elems(vs) = Elems(cl.vals)
      /\ Once(vs)
  <2> DEFINE n == Len(cl.vals)
  <2>1. /\ n \in Nat \ {0} /\ DOMAIN cl.vals = 1 .. n
        /\ \A i, j \in 1 .. n : cl.vals[i] = cl.vals[j] => i = j
    BY <1>3, EmptySeq, SeqParts DEF New
  <2>2. vs \in Seq(Values) /\ Len(vs) = n /\ DOMAIN vs = 1 .. n /\ \A i \in 1 .. n : vs[i] = cl.vals[n + 1 - i]
    BY <1>3, BackwardsType, SeqParts
  <2>3. \A i \in 1 .. n : n + 1 - i \in 1 .. n /\ n + 1 - (n + 1 - i) = i
    BY <2>1
  <2> HIDE DEF vs, n
  <2>4. Once(vs)
    <3>1. \A i, j \in 1 .. n : vs[i] = vs[j] => i = j
      BY <2>1, <2>2, <2>3
    <3> QED
      BY <2>2, <3>1 DEF Once
  <2>5. Elems(vs) = Elems(cl.vals)
    <3>1. \A i \in 1 .. n : vs[i] \in Elems(cl.vals)
      BY <2>1, <2>2, <2>3 DEF Elems
    <3>2. \A i \in 1 .. n : vs[n + 1 - i] = cl.vals[i]
      BY <2>2, <2>3
    <3>3. \A i \in 1 .. n : cl.vals[i] \in Elems(vs)
      BY <2>2, <2>3, <3>2 DEF Elems
    <3>4. /\ Elems(vs) = {vs[i] : i \in 1 .. n} /\ Elems(cl.vals) = {cl.vals[i] : i \in 1 .. n}
      BY <2>1, <2>2 DEF Elems
    <3> QED
      BY <3>1, <3>3, <3>4
  <2>6. vs # <<>>
    BY <2>1, <2>2, EmptySeq
  <2> QED
    BY <2>2, <2>4, <2>5, <2>6
<1> HIDE DEF vs
<1>5. /\ vs \o Contents(list) \in Seq(Values) /\ Len(vs \o Contents(list)) = list.len + Len(vs)
      /\ Elems(vs \o Contents(list)) = Listed \union Elems(vs)
      /\ Once(vs \o Contents(list))
      /\ vs \o Contents(list) # <<>>
  <2>1. vs \o Contents(list) # <<>> /\ Contents(list) \o vs # <<>>
    BY <1>1, <1>4, ListDistinct, ConcatSimplifications
  <2>2. /\ Contents(list) \in Seq(Values) /\ Len(Contents(list)) = list.len
        /\ Once(Contents(list))
        /\ Elems(Contents(list)) \intersect Elems(vs) = {}
    BY <1>1, <1>3, <1>4, ListDistinct DEF Listed
  <2>4. /\ vs \o Contents(list) \in Seq(Values)
        /\ Len(vs \o Contents(list)) = Len(Contents(list)) + Len(vs)
        /\ Elems(vs \o Contents(list)) = Elems(Contents(list)) \union Elems(vs)
        /\ Once(vs \o Contents(list))
    BY <1>4, <2>1, <2>2, Joined
  <2> QED
    BY <2>1, <2>2, <2>4 DEF Listed
<1>6. MemOK' /\ Contents(list)' = vs \o Contents(list) /\ WritesBehind /\ Stretches
  <2>1. Len(vs \o Contents(list)) \in Nat /\ Len(vs \o Contents(list)) <= Len(vs \o Contents(list))
    BY <1>5, SeqParts
  <2>2. /\ given' \in SUBSET Values /\ Elems(vs \o Contents(list)) \subseteq given' /\ given \subseteq given'
    BY <1>1, <1>2, <1>3, <1>4, <1>5, ListDistinct DEF MemOK
  <2>3. Allocate(vs \o Contents(list), Len(vs \o Contents(list)))
    BY <1>2 DEF vs
  <2> QED
    BY <1>1, <1>5, <2>1, <2>2, <2>3, AllocateDoes DEF Once
<1>7. /\ vs \o value \in Seq(Values) /\ Len(vs \o value) = list'.len
      /\ ~raced => Contents(list)' = vs \o value
  <2>1. value \in Seq(Values) /\ Len(value) = list.len /\ (~raced => Contents(list) = value)
    BY DEF IInv, TypeOK
  <2>2. vs \o value \in Seq(Values) /\ Len(vs \o value) = Len(vs) + list.len
    BY <1>4, <2>1, ConcatProperties
  <2>3. Len(Contents(list)') = list'.len
    BY <1>6, ContentsNext DEF Stretches
  <2>4. list.len \in Nat /\ Len(vs) \in Nat
    BY <1>1, <1>4, ContentsIs
  <2> QED
    BY <1>5, <1>6, <2>1, <2>2, <2>3, <2>4
<1>8. Listed' = Listed \union Elems(vs)
  BY <1>5, <1>6 DEF Listed
<1>9. Becomes(vs \o value)
  BY <1>2 DEF vs
<1> QED
  BY <1>2, <1>3, <1>4, <1>6, <1>7, <1>8, <1>9, PushedInv DEF Pushed

-------------------------------------------------------------------------------
(* Steps that make the list another part of an array.                      *)

Slots == [arr : Arrays, off : Nat, len : Nat]

LEMMA SubIs ==
  ASSUME NEW s \in Slots, NEW lo \in Nat, NEW hi \in Nat, lo <= hi
  PROVE  /\ Sub(s, lo, hi) \in Slots
         /\ Sub(s, lo, hi).arr = s.arr /\ Sub(s, lo, hi).off = s.off + lo /\ Sub(s, lo, hi).len = hi - lo
<1>1. s.off + lo \in Nat /\ hi - lo \in Nat
  BY DEF Slots
<1> DEFINE t == [s EXCEPT !.off = @ + lo]
<1>2. /\ t \in Slots
      /\ t.arr = s.arr /\ t.off = s.off + lo
  BY <1>1 DEF Slots
<1>3. Sub(s, lo, hi) = [t EXCEPT !.len = hi - lo]
  BY DEF Sub
<1> HIDE DEF t
<1> QED
  BY <1>1, <1>2, <1>3 DEF Slots

Moved(v) ==
  /\ Valid(list)' /\ v \in Seq(Values) /\ Len(v) = list'.len
  /\ UNCHANGED <<mem, call, slice, part, word, out, given, base>>
  /\ \A c \in Conns : Busy(c)' <=> Busy(c)
  /\ Becomes(v)

LEMMA MovedInv ==
  ASSUME IInv, NEW v, Moved(v), raced' \in BOOLEAN,
         pc' \in [Conns -> {"idle", "read", "set", "reply"}], \A c \in Conns : ProcOK(c)'
  PROVE  TypeOK' /\ RepliesAreOfTheTime' /\ \A c \in Conns : StayOK(c)' /\ CopyOK(c)'
<1>1. TypeOK /\ UNCHANGED <<mem, call, slice, part, word, out, given, base>>
  BY DEF IInv, Moved
<1>2. Listed' \subseteq Values
  BY ContentsNext, SeqParts DEF Moved, Listed, Elems
<1>3. /\ since' = [c \in Conns |-> since[c] \union Listed']
      /\ stayed' = [c \in Conns |-> stayed[c] \intersect Listed'] /\ value' = v
  BY DEF Moved, Becomes, Listed
<1>4. since' \in [Conns -> SUBSET Values] /\ stayed' \in [Conns -> SUBSET Values]
  BY <1>1, <1>2, <1>3 DEF TypeOK
<1>5. MemOK' /\ \A c \in Conns : Valid(slice[c])'
  BY <1>1 DEF TypeOK, MemOK, Valid
<1>6. TypeOK'
  BY <1>1, <1>3, <1>4, <1>5 DEF TypeOK, Moved
<1>7. RepliesAreOfTheTime'
  <2>1. \A c \in Conns : since[c] \subseteq since'[c] /\ stayed'[c] \subseteq stayed[c]
    BY <1>3
  <2> QED
    BY <1>1, <2>1 DEF IInv, RepliesAreOfTheTime, Original
<1>8. ASSUME NEW c \in Conns
      PROVE  StayOK(c)' /\ CopyOK(c)'
  <2>1. StayOK(c) /\ CopyOK(c)
    BY DEF IInv
  <2>2. since[c] \subseteq since'[c] /\ stayed'[c] \subseteq stayed[c] /\ stayed'[c] \subseteq Listed'
    BY <1>3
  <2> QED
    BY <1>1, <2>1, <2>2 DEF StayOK, CopyOK, Original
<1> QED
  BY <1>6, <1>7, <1>8

\* Who does not move the list himself finds everything as it was, if it only loses values
\* and does not go back to where others have taken something.
LEMMA MovedUnraced ==
  ASSUME IInv, NEW v, Moved(v), ~raced, Listed' \subseteq Listed, NEW c \in Conns, pc'[c] = pc[c],
         HasTaken(c) /\ list' # Nil /\ list'.arr = part[c].arr => part[c].off + part[c].len <= list'.off
  PROVE  Unraced(c)'
<1>1. Unraced(c) /\ UNCHANGED <<mem, call, slice, part, word, out, given, base>>
  BY DEF IInv, Moved
<1>2. stayed' = [d \in Conns |-> stayed[d] \intersect Listed']
  BY DEF Moved, Becomes, Listed
<1>3. Busy(c)' => Back(c)' /\ ReplyOK(c)'
  BY <1>1, <1>2 DEF Unraced, Back, ReplyOK, Busy, Origs, Original
<1>4. ASSUME Busy(c)', HasTaken(c)'
      PROVE  Taken(c)'
  <2>1. HasTaken(c) /\ Taken(c)
    BY <1>1, <1>4 DEF HasTaken, Unraced, Busy
  <2>2. ASSUME NEW d \in Conns, Busy(d)', Origs(d)' \subseteq stayed'[d], slice'[d].arr = part'[c].arr
        PROVE  part'[c].off + part'[c].len <= slice'[d].off
    <3>1. Busy(d) /\ Origs(d) \subseteq stayed[d]
      BY <1>1, <1>2, <2>2 DEF Moved, Origs
    <3> QED
      BY <1>1, <2>1, <2>2, <3>1 DEF Taken
  <2> QED
    BY <1>1, <2>1, <2>2 DEF Taken, Original
<1> QED
  BY <1>3, <1>4 DEF Unraced

LEMMA BlpopTakeInv ==
  ASSUME IInv, NEW c \in Conns, BlpopTake(c)
  PROVE  IInv'
<1>1. /\ TypeOK /\ MemOK /\ Valid(list) /\ list.len > 0
      /\ UNCHANGED <<mem, proc, given, raced, base>> /\ Becomes(Tail(value))
      /\ list' = IF list.len = 1 THEN Nil ELSE Sub(list, 1, list.len)
  BY DEF IInv, TypeOK, BlpopTake
<1>2. /\ list # Nil /\ list.off \in Nat /\ list.len \in Nat /\ list.arr \in Arrays
      /\ list \in [arr : Arrays, off : Nat, len : Nat]
      /\ list.off + list.len <= Len(mem[list.arr]) /\ Len(mem[list.arr]) \in Nat
      /\ \A i \in 1 .. list.len : mem[list.arr][list.off + i] \in Values
  <2>1. list # Nil
    BY <1>1 DEF Nil
  <2>2. /\ list \in [arr : Arrays, off : Nat, len : Nat] /\ list.off + list.len <= Len(mem[list.arr])
        /\ \A i \in 1 .. list.len : mem[list.arr][list.off + i] \in Values
    BY <1>1, <2>1 DEF Valid
  <2>3. list.off \in Nat /\ list.len \in Nat /\ list.arr \in Arrays
    BY <2>2
  <2>4. Len(mem[list.arr]) \in Nat
    BY <1>1, <2>1, PartOf
  <2> QED
    BY <2>1, <2>2, <2>3, <2>4
<1>3. list.len # 1 => /\ list'.arr = list.arr /\ list'.off = list.off + 1 /\ list'.len = list.len - 1
                      /\ list' \in [arr : Arrays, off : Nat, len : Nat]
  <2>1. list.len # 1 => list' = Sub(list, 1, list.len)
    BY <1>1
  <2>2. 1 \in Nat /\ 1 <= list.len
    BY <1>1, <1>2
  <2>3. list \in Slots /\ list.len \in Nat
    BY <1>2 DEF Slots
  <2>4. /\ Sub(list, 1, list.len) \in Slots /\ Sub(list, 1, list.len).arr = list.arr
        /\ Sub(list, 1, list.len).off = list.off + 1 /\ Sub(list, 1, list.len).len = list.len - 1
    BY <2>2, <2>3, SubIs
  <2> QED
    BY <2>1, <2>4 DEF Slots
<1>4. list.len = 1 => list' = Nil /\ list'.len = list.len - 1
  BY <1>1 DEF Nil
<1>5. \A i \in 1 .. list.len - 1 : 1 + i \in 1 .. list.len /\ (list.off + 1) + i = list.off + (1 + i)
  BY <1>2
<1>6. Valid(list)'
  BY <1>1, <1>2, <1>3, <1>4, <1>5 DEF Valid
<1>7. Tail(value) \in Seq(Values) /\ Len(Tail(value)) = list'.len /\ value # <<>>
      /\ Contents(list) # <<>>
  <2>1. value \in Seq(Values) /\ Len(value) = list.len
    BY <1>1 DEF TypeOK
  <2>2. Len(Contents(list)) = list.len
    BY <1>1, ContentsIs
  <2> QED
    BY <1>1, <1>2, <1>3, <1>4, <2>1, <2>2, EmptySeq, HeadTailProperties
<1>8. \A d \in Conns : ProcOK(d)' /\ (Busy(d)' <=> Busy(d))
  BY <1>1, SameHandlers
<1>9. Moved(Tail(value))
  BY <1>1, <1>6, <1>7, <1>8 DEF Moved, proc
<1>10. raced' \in BOOLEAN /\ pc' \in [Conns -> {"idle", "read", "set", "reply"}]
  BY <1>1 DEF TypeOK, proc
<1>11. Contents(list)' = Tail(Contents(list))
  <2>1. /\ Contents(list) \in Seq(Values) /\ Len(Contents(list)) = list.len
        /\ \A i \in 1 .. list.len : Contents(list)[i] = mem[list.arr][list.off + i]
    BY <1>1, ContentsIs
  <2>2. /\ Tail(Contents(list)) \in Seq(Values) /\ Len(Tail(Contents(list))) = list.len - 1
        /\ \A i \in 1 .. list.len - 1 : Tail(Contents(list))[i] = Contents(list)[i + 1]
    BY <1>7, <2>1, HeadTailProperties
  <2>3. Contents(list)' \in Seq(Values) /\ Len(Contents(list)') = list.len - 1
    BY <1>3, <1>4, <1>6, ContentsNext
  <2>4. \A i \in 1 .. list.len - 1 : Contents(list)'[i] = Tail(Contents(list))[i]
    <3>1. CASE list.len = 1
      BY <3>1
    <3>2. CASE list.len # 1
      <4>1. list' # Nil
        BY <1>2, <1>3, <3>2 DEF Nil
      <4>2. Contents(list)' = [i \in 1 .. list.len - 1 |-> mem[list.arr][(list.off + 1) + i]]
        BY <1>1, <1>3, <3>2, <4>1 DEF Contents
      <4>3. \A i \in 1 .. list.len - 1 : /\ 1 + i = i + 1 /\ 1 + i \in 1 .. list.len
                                         /\ (list.off + 1) + i = list.off + (1 + i)
        BY <1>2
      <4> QED
        BY <2>1, <2>2, <4>2, <4>3
    <3> QED
      BY <3>1, <3>2
  <2> QED
    BY <2>2, <2>3, <2>4, SeqEqual
<1>12. Listed' \subseteq Listed
  <2>1. \A i \in DOMAIN Contents(list)' : i + 1 \in DOMAIN Contents(list) /\ Contents(list)'[i] = Contents(list)[i + 1]
    <3>1. Contents(list) \in Seq(Values) /\ Tail(Contents(list)) \in Seq(Values)
      BY <1>1, <1>7, ContentsIs, HeadTailProperties
    <3> QED
      BY <1>7, <1>11, <3>1, SeqParts, HeadTailProperties
  <2> QED
    BY <2>1 DEF Listed, Elems
<1>13. ASSUME ~raced
       PROVE  Contents(list)' = value' /\ \A d \in Conns : Unraced(d)'
  <2>1. Contents(list) = value
    BY <1>13 DEF IInv
  <2>2. ASSUME NEW d \in Conns
        PROVE  Unraced(d)'
    <3>1. ASSUME HasTaken(d), list' # Nil, list'.arr = part[d].arr
          PROVE  part[d].off + part[d].len <= list'.off
      <4>1. Taken(d) /\ Busy(d)
        BY <1>13, <3>1 DEF IInv, Unraced, HasTaken, Busy
      <4>2. part[d].off \in Nat /\ part[d].len \in Nat
        BY <1>1, <4>1, Replying
      <4> QED
        BY <1>2, <1>3, <1>4, <3>1, <4>1, <4>2 DEF Taken
    <3>2. pc'[d] = pc[d]
      BY <1>1 DEF proc
    <3> QED
      BY <1>9, <1>12, <1>13, <3>1, <3>2, MovedUnraced
  <2> QED
    BY <1>1, <1>11, <2>1, <2>2 DEF Becomes
<1>14. raced' = raced
  BY <1>1
<1> QED
  BY <1>8, <1>9, <1>10, <1>13, <1>14, MovedInv DEF IInv

-------------------------------------------------------------------------------
(* Steps of one handler that leave arrays and list alone.                  *)

Types ==
  /\ pc \in [Conns -> {"idle", "read", "set", "reply"}]
  /\ slice \in [Conns -> [arr : Arrays \union {None}, off : Nat, len : Nat]]
  /\ part \in [Conns -> [arr : Arrays \union {None}, off : Nat, len : Nat]]
  /\ word \in [Conns -> Values \union {None}] /\ out \in [Conns -> Seq(Values \union {Torn})]
  /\ base \in [Conns -> Seq(Values)]
  /\ since \in [Conns -> SUBSET Values] /\ stayed \in [Conns -> SUBSET Values]
  /\ DOMAIN call = Conns

Alone(c) ==
  /\ UNCHANGED <<mem, list, value, given, raced>>
  /\ \A d \in Conns \ {c} :
       /\ pc'[d] = pc[d] /\ call'[d] = call[d] /\ slice'[d] = slice[d] /\ part'[d] = part[d]
       /\ word'[d] = word[d] /\ out'[d] = out[d] /\ base'[d] = base[d]
       /\ since'[d] = since[d] /\ stayed'[d] = stayed[d]

RepliesOf(c) ==
  \A j \in DOMAIN out[c] : /\ out[c][j] \in since[c] \union {Torn}
                           /\ Original(c, j) \in stayed[c] => out[c][j] = Original(c, j)

\* Nobody has taken anything from where c looks.
Clear(c) ==
  \A d \in Conns \ {c} :
    Busy(d) /\ HasTaken(d) /\ slice[c].arr = part[d].arr /\ Origs(c) \subseteq stayed[c] =>
      part[d].off + part[d].len <= slice[c].off

LEMMA AloneInv ==
  ASSUME IInv, NEW c \in Conns, Alone(c), Types', Valid(slice[c])', ProcOK(c)',
         StayOK(c)', CopyOK(c)', RepliesOf(c)',
         ~raced => Unraced(c)' /\ (Busy(c)' => Clear(c)')
  PROVE  IInv'
<1>1. TypeOK /\ UNCHANGED <<mem, list, value, given, raced>>
  BY DEF IInv, Alone
<1>2. ASSUME NEW d \in Conns \ {c}
      PROVE  /\ Valid(slice[d])' /\ ProcOK(d)' /\ StayOK(d)' /\ CopyOK(d)' /\ RepliesOf(d)'
             /\ (Busy(d)' <=> Busy(d)) /\ (HasTaken(d)' <=> HasTaken(d))
             /\ Back(d) => Back(d)'
             /\ ReplyOK(d) => ReplyOK(d)'
  <2>1. /\ pc'[d] = pc[d] /\ call'[d] = call[d] /\ slice'[d] = slice[d] /\ part'[d] = part[d]
        /\ word'[d] = word[d] /\ out'[d] = out[d] /\ base'[d] = base[d]
        /\ since'[d] = since[d] /\ stayed'[d] = stayed[d]
    BY <1>2 DEF Alone
  <2>2. Valid(slice[d]) /\ ProcOK(d) /\ StayOK(d) /\ CopyOK(d) /\ RepliesOf(d)
    BY <1>1 DEF IInv, TypeOK, RepliesAreOfTheTime, RepliesOf
  <2>3. Listed' = Listed /\ Contents(list)' = Contents(list)
    BY <1>1 DEF Listed, Contents
  <2>4. Valid(slice[d])' /\ ProcOK(d)'
    BY <1>1, <2>1, <2>2 DEF Valid, ProcOK, Wanted, Sub
  <2>5. \A j : Original(d, j)' = Original(d, j)
    BY <2>1 DEF Original
  <2> QED
    BY <1>1, <2>1, <2>2, <2>3, <2>4, <2>5
    DEF StayOK, CopyOK, RepliesOf, Busy, HasTaken, Back, Origs, ReplyOK
<1>3. TypeOK'
  <2>1. MemOK' /\ Valid(list)' /\ raced' \in BOOLEAN /\ value' \in Seq(Values) /\ Len(value') = list'.len
    BY <1>1 DEF TypeOK, MemOK, Valid
  <2> QED
    BY <1>2, <2>1 DEF TypeOK, Types
<1>4. RepliesAreOfTheTime'
  BY <1>2 DEF RepliesAreOfTheTime, RepliesOf
<1>5. ASSUME ~raced, NEW d \in Conns \ {c}
      PROVE  Unraced(d)'
  <2>1. Unraced(d)
    BY <1>5 DEF IInv
  <2>2. ASSUME Busy(d)', HasTaken(d)'
        PROVE  Taken(d)'
    <3>1. Busy(d) /\ HasTaken(d) /\ Taken(d)
      BY <1>2, <2>1, <2>2 DEF Unraced
    <3>2. /\ slice'[d] = slice[d] /\ part'[d] = part[d] /\ word'[d] = word[d] /\ out'[d] = out[d]
          /\ base'[d] = base[d]
      BY DEF Alone
    <3>3. ASSUME NEW e \in Conns, Busy(e)', Origs(e)' \subseteq stayed'[e], slice'[e].arr = part'[d].arr
          PROVE  part'[d].off + part'[d].len <= slice'[e].off
      <4>1. CASE e = c
        BY <1>5, <2>2, <3>3, <4>1 DEF Clear
      <4>2. CASE e # c
        <5>1. Busy(e) /\ Origs(e) \subseteq stayed[e] /\ slice'[e] = slice[e]
          BY <3>3, <4>2 DEF Alone, Busy, Origs
        <5> QED
          BY <3>1, <3>2, <3>3, <5>1 DEF Taken
      <4> QED
        BY <4>1, <4>2
    <3>4. Listed' = Listed /\ mem' = mem /\ list' = list /\ \A j : Original(d, j)' = Original(d, j)
      BY <1>1, <3>2 DEF Listed, Contents, Original
    <3> QED
      BY <3>1, <3>2, <3>3, <3>4 DEF Taken
  <2> QED
    BY <1>2, <2>1, <2>2 DEF Unraced
<1>6. ~raced' => Contents(list)' = value'
  BY <1>1 DEF IInv, Contents
<1> QED
  BY <1>1, <1>2, <1>3, <1>4, <1>5, <1>6 DEF IInv

\* What a command wants of a list is a part of it.
LEMMA WantedIs ==
  ASSUME NEW c \in Conns, NEW cl \in Calls[c], cl.op \in {"LRANGE", "LPOP", "RPOP"},
         NEW s \in Slots, s.len > 0, Wanted(cl, s).len > 0
  PROVE  /\ Wanted(cl, s) \in Slots /\ Wanted(cl, s).arr = s.arr
         /\ s.off <= Wanted(cl, s).off /\ Wanted(cl, s).off + Wanted(cl, s).len <= s.off + s.len
<1>0. s.off \in Nat /\ s.len \in Nat
  BY DEF Slots
<1>1. CASE cl.op = "LRANGE"
  <2> DEFINE i == First(cl, s.len)  j == Last(cl, s.len) + 1
  <2>1. cl.start \in Int /\ cl.end \in Int
    BY <1>1, CallsAssumption
  <2>2. i \in Nat /\ j \in Int /\ j <= s.len
    BY <1>0, <2>1 DEF First, Last
  <2>3. Wanted(cl, s) = Sub(s, i, j)
    BY <1>1 DEF Wanted
  <2> HIDE DEF i, j
  <2>4. Sub(s, i, j).len = j - i
    BY DEF Sub
  <2>5. i \in Nat /\ j \in Nat /\ i <= j
    BY <2>2, <2>3, <2>4
  <2>6. /\ Sub(s, i, j) \in Slots /\ Sub(s, i, j).arr = s.arr
        /\ Sub(s, i, j).off = s.off + i /\ Sub(s, i, j).len = j - i
    BY <2>5, SubIs
  <2> QED
    BY <1>0, <2>2, <2>3, <2>5, <2>6
<1>2. CASE cl.op = "LPOP"
  <2>1. cl.cnt \in Nat \ {0} /\ Wanted(cl, s) = Sub(s, 0, Least(cl.cnt, s.len))
    BY <1>2, CallsAssumption DEF Wanted
  <2>2. Least(cl.cnt, s.len) \in Nat /\ Least(cl.cnt, s.len) <= s.len
    BY <1>0, <2>1 DEF Least
  <2> DEFINE n == Least(cl.cnt, s.len)
  <2>3. /\ Sub(s, 0, n) \in Slots /\ Sub(s, 0, n).arr = s.arr
        /\ Sub(s, 0, n).off = s.off + 0 /\ Sub(s, 0, n).len = n - 0
    BY <2>2, SubIs
  <2> QED
    BY <1>0, <2>1, <2>2, <2>3
<1>3. CASE cl.op = "RPOP"
  <2>1. Wanted(cl, s) = Sub(s, s.len - 1, s.len) /\ s.len - 1 \in Nat
    BY <1>0, <1>3 DEF Wanted
  <2>2. /\ Sub(s, s.len - 1, s.len) \in Slots /\ Sub(s, s.len - 1, s.len).arr = s.arr
        /\ Sub(s, s.len - 1, s.len).off = s.off + (s.len - 1)
        /\ Sub(s, s.len - 1, s.len).len = s.len - (s.len - 1)
    BY <1>0, <2>1, SubIs
  <2> QED
    BY <1>0, <2>1, <2>2
<1> QED
  BY <1>1, <1>2, <1>3

LEMMA GetInv ==
  ASSUME IInv, NEW c \in Conns, Get(c)
  PROVE  IInv'
<1>1. TypeOK /\ MemOK /\ Valid(list) /\ pc[c] = "idle" /\ list.len > 0
  BY DEF IInv, TypeOK, Get
<1>2. PICK cl \in Calls[c] :
        /\ cl.op \in {"LRANGE", "LPOP", "RPOP"} /\ Wanted(cl, list).len > 0
        /\ call' = [call EXCEPT ![c] = cl]
        /\ slice' = [slice EXCEPT ![c] = list] /\ part' = [part EXCEPT ![c] = Wanted(cl, list)]
        /\ pc' = [pc EXCEPT ![c] = IF SetsFirst(cl) THEN "set" ELSE "read"]
        /\ base' = [base EXCEPT ![c] = Contents(list)]
        /\ since' = [since EXCEPT ![c] = Elems(Contents(list))]
        /\ stayed' = [stayed EXCEPT ![c] = Elems(Contents(list))]
        /\ UNCHANGED <<heap, word, out, value, given, raced>>
  BY DEF Get, Goto
<1>3. /\ list # Nil /\ list \in [arr : Arrays, off : Nat, len : Nat]
      /\ Contents(list) \in Seq(Values) /\ Len(Contents(list)) = list.len
      /\ \A i \in 1 .. list.len : Contents(list)[i] = mem[list.arr][list.off + i]
      /\ Listed \subseteq Values /\ Listed \subseteq given
  BY <1>1, ContentsIs, ListedIs, ListDistinct DEF Nil, Valid
<1>4. /\ Wanted(cl, list) \in [arr : Arrays, off : Nat, len : Nat] /\ Wanted(cl, list).arr = list.arr
      /\ list.off <= Wanted(cl, list).off
      /\ Wanted(cl, list).off + Wanted(cl, list).len <= list.off + list.len
  BY <1>1, <1>2, <1>3, WantedIs DEF Slots
<1>5. word[c] = None /\ out[c] = <<>> /\ ~Busy(c)
  BY <1>1 DEF TypeOK, ProcOK, Busy
<1> DEFINE at == IF SetsFirst(cl) THEN "set" ELSE "read"
<1>6. /\ call'[c] = cl /\ slice'[c] = list /\ part'[c] = Wanted(cl, list) /\ pc'[c] = at
      /\ base'[c] = Contents(list) /\ since'[c] = Listed /\ stayed'[c] = Listed
      /\ word' = word /\ out' = out /\ mem' = mem /\ list' = list /\ given' = given
  BY <1>1, <1>2 DEF TypeOK, heap, Listed
<1>7. Types'
  BY <1>1, <1>2, <1>3, <1>4 DEF Types, TypeOK, Listed
<1>8. Alone(c)
  BY <1>1, <1>2 DEF Alone, TypeOK, heap
<1>9. Valid(slice[c])'
  BY <1>1, <1>6 DEF Valid
<1>10. ProcOK(c)'
  <2>1. at # "idle" /\ (at = "set" => cl.op = "LPOP") /\ at # "reply" /\ at \in {"set", "read"}
    BY DEF SetsFirst
  <2>2. Len(out[c]) = 0 /\ Wanted(cl, list).len \in Nat
    BY <1>4, <1>5, EmptySeq
  <2> QED
    BY <1>1, <1>2, <1>3, <1>4, <1>5, <1>6, <2>1, <2>2 DEF ProcOK
<1>11. \A i \in 1 .. list.len : Contents(list)[i] \in Listed
  BY <1>3, SeqParts DEF Listed, Elems
<1>12. Listed' = Listed
  BY <1>6 DEF Listed, Contents
<1>13. StayOK(c)' /\ CopyOK(c)' /\ RepliesOf(c)'
  BY <1>3, <1>5, <1>6, <1>11, <1>12 DEF StayOK, CopyOK, RepliesOf
<1>14. ASSUME ~raced
       PROVE  Unraced(c)' /\ Clear(c)'
  <2>1. Back(c)' /\ ~HasTaken(c)' /\ ReplyOK(c)'
    BY <1>6, <1>12 DEF Back, HasTaken, ReplyOK, SetsFirst
  <2>2. ASSUME NEW d \in Conns \ {c}, Busy(d)', HasTaken(d)', list.arr = part'[d].arr
        PROVE  part'[d].off + part'[d].len <= list.off
    <3>1. part'[d] = part[d] /\ Busy(d) /\ HasTaken(d) /\ Unraced(d)
      BY <1>8, <1>14, <2>2 DEF Alone, Busy, HasTaken, IInv
    <3> QED
      BY <1>3, <2>2, <3>1 DEF Unraced, Taken
  <2> QED
    BY <1>6, <2>1, <2>2 DEF Unraced, Clear
<1> QED
  BY <1>7, <1>8, <1>9, <1>10, <1>13, <1>14, AloneInv

\* The slot that is read next.
LEMMA SlotIs ==
  ASSUME IInv, NEW c \in Conns, pc[c] = "read"
  PROVE  /\ Busy(c) /\ Len(out[c]) + 1 \in 1 .. part[c].len
         /\ Slot(c) = mem[part[c].arr][part[c].off + (Len(out[c]) + 1)]
         /\ Slot(c) \in Values /\ Slot(c) \in since[c]
         /\ Original(c, Len(out[c]) + 1) \in stayed[c] => Slot(c) = Original(c, Len(out[c]) + 1)
<1> DEFINE j == Len(out[c]) + 1
           k == part[c].off - slice[c].off + j
<1>1. TypeOK /\ StayOK(c) /\ Busy(c)
  BY DEF IInv, Busy
<1>2. j \in 1 .. part[c].len /\ Len(out[c]) \in Nat
  BY <1>1, Copying
<1>3. /\ part[c].arr = slice[c].arr /\ part[c].off \in Nat /\ k \in 1 .. slice[c].len
      /\ slice[c].off + k = part[c].off + j /\ Original(c, j) = base[c][k]
  BY <1>1, <1>2, Replying
<1>4. part[c].off + Len(out[c]) + 1 = part[c].off + j
  BY <1>2, <1>3
<1>5. Slot(c) = mem[part[c].arr][part[c].off + j] /\ Slot(c) = mem[slice[c].arr][slice[c].off + k]
  BY <1>3, <1>4 DEF Slot
<1> HIDE DEF j, k
<1>6. Slot(c) \in Values
  BY <1>1, <1>3, <1>5, Handling
<1>7. Slot(c) \in since[c] /\ (Original(c, j) \in stayed[c] => Slot(c) = Original(c, j))
  BY <1>1, <1>3, <1>5 DEF StayOK
<1> QED
  BY <1>1, <1>2, <1>5, <1>6, <1>7 DEF j

LEMMA CopyPointerInv ==
  ASSUME IInv, NEW c \in Conns, CopyPointer(c)
  PROVE  IInv'
<1>1. /\ TypeOK /\ pc[c] = "read" /\ word[c] = None /\ word' = [word EXCEPT ![c] = Slot(c)]
      /\ UNCHANGED <<heap, pc, call, slice, part, out, ghost>>
  BY DEF IInv, CopyPointer
<1>2. Busy(c) /\ Slot(c) \in Values /\ Len(out[c]) + 1 \in 1 .. part[c].len
  BY <1>1, SlotIs
<1>3. word' \in [Conns -> Values \union {None}] /\ word'[c] = Slot(c) /\ \A d \in Conns \ {c} : word'[d] = word[d]
  BY <1>1, <1>2 DEF TypeOK
<1>4. Types' /\ Alone(c)
  BY <1>1, <1>3 DEF Types, TypeOK, Alone, heap, ghost
<1>5. Valid(slice[c])' /\ ProcOK(c)'
  BY <1>1 DEF TypeOK, Valid, ProcOK, heap, ghost, Wanted, Sub
<1>6. /\ Listed' = Listed /\ Contents(list)' = Contents(list) /\ \A d : \A j : Original(d, j)' = Original(d, j)
      /\ part' = part /\ slice' = slice /\ out' = out /\ mem' = mem /\ base' = base /\ pc' = pc
      /\ since' = since /\ stayed' = stayed /\ given' = given /\ list' = list /\ call' = call
  BY <1>1 DEF Listed, Contents, Original, heap, ghost
<1>7. StayOK(c)' /\ RepliesOf(c)'
  BY <1>6 DEF IInv, StayOK, RepliesOf, RepliesAreOfTheTime
<1>8. CopyOK(c)'
  BY <1>1, <1>3, <1>6, SlotIs DEF CopyOK
<1>9. ASSUME ~raced
      PROVE  Unraced(c)' /\ Clear(c)'
  <2>1. Unraced(c) /\ \A d \in Conns : Unraced(d)
    BY <1>9 DEF IInv
  <2>2. Back(c)' /\ ReplyOK(c)'
    BY <1>2, <1>6, <2>1 DEF Unraced, Back, ReplyOK, Origs
  <2>3. ASSUME HasTaken(c)
        PROVE  Taken(c)'
    <3>1. Taken(c)
      BY <1>2, <2>1, <2>3 DEF Unraced
    <3>2. word'[c] = Original(c, Len(out[c]) + 1)
      BY <1>1, <1>2, <1>3, <3>1, SlotIs DEF Taken
    <3> QED
      BY <1>6, <3>1, <3>2 DEF Taken, Busy, Origs
  <2>4. HasTaken(c)' <=> HasTaken(c)
    BY <1>6 DEF HasTaken
  <2>5. Clear(c)'
    BY <1>2, <1>6, <2>1 DEF Clear, Unraced, Taken, Busy, Origs, HasTaken
  <2> QED
    BY <2>2, <2>3, <2>4, <2>5 DEF Unraced
<1> QED
  BY <1>4, <1>5, <1>7, <1>8, <1>9, AloneInv

LEMMA CopyLengthInv ==
  ASSUME IInv, NEW c \in Conns, CopyLength(c)
  PROVE  IInv'
<1> DEFINE j  == Len(out[c]) + 1
           w  == IF Slot(c) = word[c] THEN word[c] ELSE Torn
           at == IF j < part[c].len THEN "read"
                 ELSE IF call[c].op = "LRANGE" \/ SetsFirst(call[c]) THEN "reply" ELSE "set"
<1>1. /\ TypeOK /\ StayOK(c) /\ CopyOK(c) /\ RepliesOf(c) /\ pc[c] = "read" /\ word[c] # None
      /\ out' = [out EXCEPT ![c] = Append(@, w)] /\ word' = [word EXCEPT ![c] = None]
      /\ pc' = [pc EXCEPT ![c] = at]
      /\ UNCHANGED <<heap, call, slice, part, ghost>>
  BY DEF IInv, CopyLength, Goto, RepliesOf, RepliesAreOfTheTime
<1>2. /\ Busy(c) /\ j \in 1 .. part[c].len /\ Slot(c) \in Values
      /\ Original(c, j) \in stayed[c] => Slot(c) = Original(c, j)
  BY <1>1, SlotIs
<1>3. out[c] \in Seq(Values \union {Torn}) /\ Len(out[c]) \in Nat /\ DOMAIN out[c] = 1 .. Len(out[c])
      /\ part[c].len \in Nat
  BY <1>1, <1>2, Copying, Replying
<1>4. w \in Values \union {Torn} /\ at \in {"read", "reply", "set"}
  BY <1>1, <1>2
<1>5. /\ out'[c] = Append(out[c], w) /\ out'[c] \in Seq(Values \union {Torn})
      /\ Len(out'[c]) = j /\ DOMAIN out'[c] = 1 .. j
      /\ out'[c][j] = w /\ \A i \in 1 .. Len(out[c]) : out'[c][i] = out[c][i]
  <2>1. out'[c] = Append(out[c], w)
    BY <1>1 DEF TypeOK
  <2> HIDE DEF w
  <2> QED
    BY <1>3, <1>4, <2>1, AppendProperties, SeqParts
<1>6. pc'[c] = at /\ word'[c] = None /\ call' = call /\ slice' = slice /\ part' = part /\ base' = base
      /\ since' = since /\ stayed' = stayed /\ given' = given /\ mem' = mem /\ list' = list
  BY <1>1 DEF TypeOK, heap, ghost
<1>7. Listed' = Listed /\ Contents(list)' = Contents(list) /\ \A d : \A i : Original(d, i)' = Original(d, i)
  BY <1>6 DEF Listed, Contents, Original
<1> HIDE DEF j, w, at
<1>8. Types'
  <2>1. out' \in [Conns -> Seq(Values \union {Torn})]
    BY <1>1, <1>5 DEF TypeOK
  <2>2. word' \in [Conns -> Values \union {None}] /\ pc' \in [Conns -> {"idle", "read", "set", "reply"}]
    BY <1>1, <1>4 DEF TypeOK
  <2> QED
    BY <1>1, <1>6, <2>1, <2>2 DEF Types, TypeOK
<1>9. Alone(c)
  BY <1>1 DEF Alone, TypeOK, heap, ghost
<1>10. Valid(slice[c])'
  BY <1>1, <1>6 DEF TypeOK, Valid
<1>11. /\ at = "read" => j < part[c].len
       /\ at # "read" => j = part[c].len
       /\ at = "set" => call[c].op = "RPOP" /\ call[c].op # "LPOP"
       /\ at = "reply" => call[c].op # "RPOP"
  <2>1. call[c].op \in {"LRANGE", "LPOP", "RPOP"}
    BY <1>1, <1>2, Handling
  <2> QED
    BY <1>2, <1>3, <2>1 DEF at, SetsFirst
<1>12. ProcOK(c)'
  <2>1. ProcOK(c)
    BY <1>1 DEF TypeOK
  <2>2. at # "idle" /\ pc[c] # "idle"
    BY <1>1, <1>4
  <2>3. Len(out'[c]) <= part[c].len
    BY <1>2, <1>3, <1>5
  <2> QED
    BY <1>5, <1>6, <1>11, <2>1, <2>2, <2>3 DEF ProcOK, Wanted, Sub
<1>13. StayOK(c)' /\ CopyOK(c)'
  BY <1>1, <1>6, <1>7 DEF StayOK, CopyOK
<1>14. RepliesOf(c)'
  <2>1. w \in since[c] \union {Torn} /\ (Original(c, j) \in stayed[c] => w = Original(c, j))
    BY <1>1, <1>2 DEF w, j, CopyOK
  <2>2. \A i \in 1 .. j : i = j \/ i \in 1 .. Len(out[c])
    BY <1>3 DEF j
  <2> QED
    BY <1>1, <1>3, <1>5, <1>6, <1>7, <2>1, <2>2 DEF RepliesOf
<1>15. ASSUME ~raced
       PROVE  Unraced(c)' /\ Clear(c)'
  <2>1. \A d \in Conns : Unraced(d)
    BY <1>15 DEF IInv
  <2>2. Back(c)' /\ ReplyOK(c)'
    BY <1>2, <1>6, <1>7, <1>11, <2>1 DEF Unraced, Back, ReplyOK, Origs
  <2>3. ASSUME HasTaken(c)
        PROVE  Taken(c)'
    <3>1. Taken(c)
      BY <1>2, <2>1, <2>3 DEF Unraced
    <3>2. w = Original(c, j)
      BY <1>1, <1>2, <3>1, SlotIs DEF Taken, w, j
    <3>3. \A i \in 1 .. j : i = j \/ i \in 1 .. Len(out[c])
      BY <1>3 DEF j
    <3>4. \A i \in 1 .. part[c].len : i \in DOMAIN out'[c] => out'[c][i] = Original(c, i)
      BY <1>3, <1>5, <3>1, <3>2, <3>3 DEF Taken
    <3>5. \A d \in Conns : Busy(d)' => Busy(d)
      BY <1>1, <1>2 DEF Busy, TypeOK
    <3> QED
      BY <1>6, <1>7, <3>1, <3>4, <3>5 DEF Taken, Origs
  <2>4. HasTaken(c)' => HasTaken(c)
    BY <1>1, <1>6 DEF HasTaken
  <2>5. Clear(c)'
    <3>1. \A d \in Conns \ {c} : (Busy(d)' => Busy(d)) /\ (HasTaken(d)' => HasTaken(d))
      BY <1>1, <1>6 DEF Busy, HasTaken, TypeOK
    <3> QED
      BY <1>2, <1>6, <2>1, <3>1 DEF Clear, Unraced, Taken, Origs
  <2> QED
    BY <2>2, <2>3, <2>4, <2>5 DEF Unraced
<1> QED
  BY <1>8, <1>9, <1>10, <1>12, <1>13, <1>14, <1>15, AloneInv

LEMMA ReplyInv ==
  ASSUME IInv, NEW c \in Conns, Reply(c)
  PROVE  IInv'
<1>1. /\ TypeOK /\ Busy(c) /\ pc[c] = "reply" /\ word[c] = None
      /\ pc' = [pc EXCEPT ![c] = "idle"] /\ call' = [call EXCEPT ![c] = None]
      /\ slice' = [slice EXCEPT ![c] = Nil] /\ part' = [part EXCEPT ![c] = Nil]
      /\ out' = [out EXCEPT ![c] = <<>>] /\ base' = [base EXCEPT ![c] = <<>>]
      /\ since' = [since EXCEPT ![c] = {}] /\ stayed' = [stayed EXCEPT ![c] = {}]
      /\ UNCHANGED <<mem, list, word, value, given, raced>>
  <2>1. TypeOK /\ ProcOK(c)
    BY DEF IInv, TypeOK
  <2> QED
    BY <2>1 DEF Reply, Leave, Goto, Busy, ProcOK
<1>2. Types'
  <2>1. Nil \in [arr : Arrays \union {None}, off : Nat, len : Nat]
    BY DEF Nil
  <2>2. Types
    BY <1>1 DEF Types, TypeOK
  <2>3. pc' \in [Conns -> {"idle", "read", "set", "reply"}] /\ DOMAIN call' = Conns
    BY <1>1, <2>2 DEF Types
  <2>4. /\ slice' \in [Conns -> [arr : Arrays \union {None}, off : Nat, len : Nat]]
        /\ part' \in [Conns -> [arr : Arrays \union {None}, off : Nat, len : Nat]]
    BY <1>1, <2>1, <2>2 DEF Types
  <2>5. /\ word' \in [Conns -> Values \union {None}] /\ out' \in [Conns -> Seq(Values \union {Torn})]
        /\ base' \in [Conns -> Seq(Values)]
    BY <1>1, <2>2 DEF Types
  <2>6. since' \in [Conns -> SUBSET Values] /\ stayed' \in [Conns -> SUBSET Values]
    BY <1>1, <2>2 DEF Types
  <2> QED
    BY <2>3, <2>4, <2>5, <2>6 DEF Types
<1>3. Alone(c)
  BY <1>1 DEF Alone, TypeOK
<1>4. pc'[c] = "idle" /\ slice'[c] = Nil /\ part'[c] = Nil /\ word'[c] = None /\ out'[c] = <<>>
      /\ stayed'[c] = {} /\ slice'[c].len = 0
  BY <1>1 DEF TypeOK, Nil
<1>5. Valid(slice[c])' /\ ProcOK(c)' /\ StayOK(c)' /\ CopyOK(c)' /\ RepliesOf(c)' /\ Unraced(c)' /\ ~Busy(c)'
  BY <1>4 DEF Valid, ProcOK, StayOK, CopyOK, RepliesOf, Unraced, Busy
<1> QED
  BY <1>2, <1>3, <1>5, AloneInv

-------------------------------------------------------------------------------
(* LPOP and RPOP store what they leave.                                    *)

\* How much of its slice a pop leaves out in front, and where what it leaves ends.
Front(c) == IF call[c].op = "LPOP" THEN Least(call[c].cnt, slice[c].len) ELSE 0
End(c) == IF call[c].op = "LPOP" THEN slice[c].len ELSE slice[c].len - 1

LEMMA RestIs ==
  ASSUME TypeOK, NEW c \in Conns, pc[c] = "set"
  PROVE  /\ call[c].op \in {"LPOP", "RPOP"} /\ Busy(c)
         /\ Front(c) \in Nat /\ End(c) \in Nat /\ Front(c) <= End(c) /\ End(c) <= slice[c].len
         /\ Rest(call[c], slice[c]) \in Slots /\ Rest(call[c], slice[c]).arr = slice[c].arr
         /\ Rest(call[c], slice[c]).off = slice[c].off + Front(c)
         /\ Rest(call[c], slice[c]).len = End(c) - Front(c)
         /\ RestOf(call[c], base[c]) \in Seq(Values)
         /\ Len(RestOf(call[c], base[c])) = End(c) - Front(c)
         /\ \A i \in 1 .. End(c) - Front(c) : /\ Front(c) + i \in 1 .. slice[c].len
                                                /\ RestOf(call[c], base[c])[i] = base[c][Front(c) + i]
         /\ call[c].op = "LPOP" => part[c].off + part[c].len = slice[c].off + Front(c)
<1> DEFINE f == Front(c)  b == End(c)  n == slice[c].len
<1>1. /\ Busy(c) /\ call[c] \in Calls[c] /\ call[c].op \in {"LPOP", "RPOP"}
      /\ call[c].op = "LPOP" => part[c] = Wanted(call[c], slice[c])
  BY DEF TypeOK, ProcOK, Busy
<1>2. /\ slice[c].off \in Nat /\ n \in Nat \ {0} /\ base[c] \in Seq(Values) /\ Len(base[c]) = n
      /\ \A i \in 1 .. n : base[c][i] \in Values
      /\ slice[c] \in Slots
  <2>1. slice[c] \in [arr : Arrays \union {None}, off : Nat, len : Nat] /\ slice[c].arr \in Arrays
    BY <1>1, Handling DEF TypeOK
  <2>2. Len(base[c]) = n
    BY <1>1 DEF TypeOK, ProcOK, Busy
  <2> QED
    BY <1>1, <2>1, <2>2, Handling DEF Slots
<1>3. f \in Nat /\ b \in Nat /\ f <= b /\ b <= n
  BY <1>1, <1>2, CallsAssumption DEF Front, End, Least
<1>4. Rest(call[c], slice[c]) = Sub(slice[c], f, b)
  BY <1>1 DEF Rest, Front, End
<1>5. RestOf(call[c], base[c]) = SubSeq(base[c], f + 1, b)
  <2>1. CASE call[c].op = "LPOP"
    BY <1>2, <2>1 DEF RestOf, Front, End
  <2>2. CASE call[c].op = "RPOP"
    <3>1. f + 1 = 1 /\ b = n - 1
      BY <2>2 DEF Front, End
    <3> QED
      BY <1>2, <2>2, <3>1 DEF RestOf
  <2> QED
    BY <1>1, <2>1, <2>2
<1>6. call[c].op = "LPOP" => part[c] = Sub(slice[c], 0, f)
  BY <1>1 DEF Wanted, Front
<1> HIDE DEF f, b
<1>7. /\ Sub(slice[c], f, b) \in Slots /\ Sub(slice[c], f, b).arr = slice[c].arr
      /\ Sub(slice[c], f, b).off = slice[c].off + f /\ Sub(slice[c], f, b).len = b - f
  BY <1>2, <1>3, SubIs
<1>8. /\ SubSeq(base[c], f + 1, b) \in Seq(Values) /\ Len(SubSeq(base[c], f + 1, b)) = b - f
      /\ \A i \in 1 .. b - f : f + i \in 1 .. n /\ SubSeq(base[c], f + 1, b)[i] = base[c][f + i]
  <2>1. f + 1 \in Int /\ b \in Int /\ \A i \in f + 1 .. b : base[c][i] \in Values
    BY <1>2, <1>3
  <2>2. /\ SubSeq(base[c], f + 1, b) \in Seq(Values)
        /\ Len(SubSeq(base[c], f + 1, b)) = IF f + 1 <= b THEN b - (f + 1) + 1 ELSE 0
        /\ \A i \in 1 .. b - (f + 1) + 1 : SubSeq(base[c], f + 1, b)[i] = base[c][f + 1 + i - 1]
    BY <2>1, SubSeqProperties
  <2>3. b - (f + 1) + 1 = b - f /\ \A i \in 1 .. b - f : f + 1 + i - 1 = f + i /\ f + i \in 1 .. n
    BY <1>2, <1>3
  <2> QED
    BY <1>3, <2>2, <2>3
<1>9. call[c].op = "LPOP" => part[c].off + part[c].len = slice[c].off + f
  <2>1. 0 \in Nat /\ 0 <= f
    BY <1>3
  <2>2. Sub(slice[c], 0, f).off = slice[c].off + 0 /\ Sub(slice[c], 0, f).len = f - 0
    BY <1>2, <1>3, <2>1, SubIs
  <2> QED
    BY <1>2, <1>3, <1>6, <2>2
<1> QED
  BY <1>1, <1>3, <1>4, <1>5, <1>7, <1>8, <1>9 DEF f, b

LEMMA PopSetInv ==
  ASSUME IInv, NEW c \in Conns, PopSet(c)
  PROVE  IInv'
<1> DEFINE v  == RestOf(call[c], base[c])
           at == IF SetsFirst(call[c]) THEN "read" ELSE "reply"
           f  == Front(c)
           m  == End(c) - Front(c)
           a  == slice[c].arr
<1>1. /\ TypeOK /\ MemOK /\ Valid(slice[c]) /\ ProcOK(c) /\ StayOK(c) /\ pc[c] = "set"
      /\ list' = Rest(call[c], slice[c]) /\ pc' = [pc EXCEPT ![c] = at]
      /\ UNCHANGED <<mem, call, slice, part, word, out, given, base>>
      /\ raced' = (raced \/ Contents(list) # base[c]) /\ Becomes(v)
  BY DEF IInv, TypeOK, PopSet, Goto
<1>2. /\ call[c].op \in {"LPOP", "RPOP"} /\ Busy(c) /\ f \in Nat /\ m \in Nat
      /\ v \in Seq(Values) /\ Len(v) = m
      /\ \A i \in 1 .. m : f + i \in 1 .. slice[c].len /\ v[i] = base[c][f + i]
      /\ call[c].op = "LPOP" => part[c].off + part[c].len = slice[c].off + f
      /\ list' \in Slots /\ list'.arr = a /\ list'.off = slice[c].off + f /\ list'.len = m
  BY <1>1, RestIs
<1>3. /\ slice[c].off \in Nat /\ slice[c].len \in Nat \ {0} /\ a \in Arrays /\ Valid(slice[c])
      /\ slice[c].off + slice[c].len <= Len(mem[a]) /\ Len(mem[a]) \in Nat
      /\ \A i \in 1 .. slice[c].len : /\ mem[a][slice[c].off + i] \in Values
                                      /\ slice[c].off + i \in DOMAIN mem[a]
                                      /\ base[c][i] \in Values
      /\ DOMAIN base[c] = 1 .. slice[c].len /\ base[c] \in Seq(Values) /\ slice[c] # Nil
  BY <1>1, <1>2, Handling, PartOf
<1> HIDE DEF v, f, m, a, at
<1>4. \A i \in 1 .. m : (slice[c].off + f) + i = slice[c].off + (f + i) /\ i <= f + i /\ f < f + i
  <2>1. slice[c].off \in Nat /\ f \in Nat /\ m \in Nat
    BY <1>2, <1>3
  <2> QED
    BY <2>1
<1>5. Valid(list)'
  <2>1. m = 0 \/ m \in 1 .. m
    BY <1>2
  <2>2. f + m <= slice[c].len
    <3>1. f <= slice[c].len
      BY <1>1, <1>3, RestIs DEF f, m
    <3> QED
      BY <1>2, <1>3, <2>1, <3>1
  <2>3. list'.off + list'.len <= Len(mem'[list'.arr])
    <3>1. mem'[list'.arr] = mem[a] /\ list'.off = slice[c].off + f /\ list'.len = m
      BY <1>1, <1>2
    <3>2. /\ slice[c].off \in Nat /\ slice[c].len \in Nat /\ f \in Nat /\ m \in Nat /\ Len(mem[a]) \in Nat
          /\ slice[c].off + slice[c].len <= Len(mem[a])
      BY <1>2, <1>3
    <3>3. slice[c].off + f + m <= Len(mem[a])
      BY <3>2, <2>2
    <3> QED
      BY <3>1, <3>3
  <2>4. \A i \in 1 .. list'.len : mem'[list'.arr][list'.off + i] \in Values
    <3>1. mem'[list'.arr] = mem[a] /\ list'.off = slice[c].off + f /\ list'.len = m
      BY <1>1, <1>2
    <3>2. ASSUME NEW i \in 1 .. m PROVE mem[a][(slice[c].off + f) + i] \in Values
      <4>1. f + i \in 1 .. slice[c].len /\ (slice[c].off + f) + i = slice[c].off + (f + i)
        BY <1>2, <1>4
      <4> QED
        BY <4>1, <1>3
    <3> QED
      BY <3>1, <3>2
  <2> QED
    BY <1>2, <2>3, <2>4 DEF Valid, Slots
<1>6. at \in {"read", "reply"} /\ pc'[c] = at /\ (at = "read" <=> call[c].op = "LPOP")
      /\ pc' \in [Conns -> {"idle", "read", "set", "reply"}] /\ \A d \in Conns \ {c} : pc'[d] = pc[d]
  BY <1>1 DEF at, SetsFirst, TypeOK
<1>7. \A d \in Conns : ProcOK(d)' /\ (Busy(d)' <=> Busy(d))
  <2>1. ProcOK(c)'
    <3>1. part[c].len \in Nat \ {0} /\ Len(<<>>) = 0
      BY <1>1, <1>2, Replying, EmptySeq
    <3> QED
      BY <1>1, <1>2, <1>6, <3>1 DEF ProcOK, Wanted, Sub
  <2>2. ASSUME NEW d \in Conns \ {c}  PROVE  ProcOK(d)'
    <3>1. /\ pc'[d] = pc[d] /\ call'[d] = call[d] /\ slice'[d] = slice[d] /\ part'[d] = part[d]
          /\ word'[d] = word[d] /\ out'[d] = out[d] /\ base'[d] = base[d] /\ ProcOK(d)
      BY <1>1, <1>6 DEF TypeOK
    <3> QED
      BY <1>1, <3>1 DEF ProcOK, Wanted, Sub
  <2> QED
    BY <1>2, <1>6, <2>1, <2>2 DEF Busy
<1>8. Moved(v)
  BY <1>1, <1>2, <1>5, <1>7 DEF Moved
<1>9. raced' \in BOOLEAN
  BY <1>1
<1>10. ASSUME ~raced'
       PROVE  Contents(list)' = value' /\ \A d \in Conns : Unraced(d)'
  <2>1. ~raced /\ Contents(list) = base[c] /\ (\A d \in Conns : Unraced(d)) /\ Listed = Origs(c)
    BY <1>1, <1>10 DEF IInv, Listed, Origs
  <2>2. Listed \subseteq stayed[c]
    BY <1>2, <2>1 DEF Unraced, Back
  <2>3. \A i \in 1 .. slice[c].len :
          /\ base[c][i] \in Listed /\ base[c][i] \in stayed[c]
          /\ mem[a][slice[c].off + i] = base[c][i]
    BY <1>1, <1>3, <2>1, <2>2 DEF Origs, Elems, StayOK, a
  <2>4. Contents(list)' = v
    <3>1. Contents(list)' \in Seq(Values) /\ Len(Contents(list)') = m
      BY <1>2, <1>5, ContentsNext
    <3>2. \A i \in 1 .. m : Contents(list)'[i] = v[i]
      <4>1. CASE list' = Nil
        BY <1>2, <4>1 DEF Nil
      <4>2. CASE list' # Nil
        <5>1. Contents(list)' = [i \in 1 .. m |-> mem[a][(slice[c].off + f) + i]]
          BY <1>1, <1>2, <4>2 DEF Contents
        <5> QED
          BY <1>2, <1>4, <2>3, <5>1
      <4> QED
        BY <4>1, <4>2
    <3> QED
      BY <1>2, <3>1, <3>2, SeqEqual
  <2>5. /\ Listed' = {base[c][f + i] : i \in 1 .. m} /\ Listed' \subseteq Listed
        /\ stayed' = [d \in Conns |-> stayed[d] \intersect Listed']
    <3>1. DOMAIN v = 1 .. m
      BY <1>2, SeqParts
    <3>2. Listed' = {base[c][f + i] : i \in 1 .. m}
      BY <1>2, <2>4, <3>1 DEF Listed, Elems
    <3> QED
      BY <1>1, <1>2, <2>3, <3>2 DEF Becomes, Listed
  <2>6. ASSUME NEW d \in Conns \ {c}
        PROVE  Unraced(d)'
    <3>1. ASSUME HasTaken(d), list'.arr = part[d].arr
          PROVE  part[d].off + part[d].len <= list'.off
      <4>1. Taken(d) /\ Busy(d)
        BY <2>1, <3>1 DEF Unraced, HasTaken, Busy
      <4>2. part[d].off + part[d].len <= slice[c].off
        BY <1>2, <2>1, <2>2, <3>1, <4>1 DEF Taken, a
      <4>3. part[d].off \in Nat /\ part[d].len \in Nat
        BY <1>1, <4>1, Replying
      <4> QED
        BY <1>2, <1>3, <4>2, <4>3
    <3> QED
      BY <1>6, <1>8, <2>1, <2>5, <2>6, <3>1, MovedUnraced
  <2>7. Back(c)'
    BY <1>1, <2>2, <2>5 DEF Back
  <2>8. ReplyOK(c)'
    <3>1. ASSUME call[c].op = "RPOP", NEW j \in 1 .. part[c].len
          PROVE  out[c][j] = Original(c, j)
      <4>1. j \in DOMAIN out[c]
        BY <1>1, <3>1, Copying DEF ProcOK
      <4>2. Original(c, j) \in stayed[c]
        BY <1>1, <1>2, <2>3, <3>1, Replying
      <4> QED
        BY <4>1, <4>2 DEF IInv, RepliesAreOfTheTime
    <3> QED
      BY <1>1, <3>1 DEF ReplyOK, Original
  <2>9. ASSUME call[c].op = "LPOP"
        PROVE  Taken(c)'
    <3>1. part[c].off + part[c].len = list'.off /\ part[c].arr = a
          /\ part[c].off \in Nat /\ part[c].len \in Nat /\ out[c] = <<>> /\ word[c] = None
      BY <1>1, <1>2, <2>9, Replying DEF a, ProcOK
    <3>2. ASSUME NEW j \in 1 .. part[c].len
          PROVE  mem[part[c].arr][part[c].off + j] = Original(c, j) /\ Original(c, j) \notin Listed'
      <4> DEFINE k == part[c].off - slice[c].off + j
      <4>1. k \in 1 .. slice[c].len /\ slice[c].off + k = part[c].off + j /\ Original(c, j) = base[c][k]
        BY <1>1, <1>2, Replying
      <4>2. k <= f
        <5>1. list'.off = slice[c].off + f
          BY <1>2, <2>9, <3>1
        <5>2. f \in Nat /\ slice[c].off \in Nat /\ part[c].off \in Nat /\ part[c].len \in Nat /\ j \in Int
              /\ j <= part[c].len /\ part[c].off + part[c].len = slice[c].off + f
          BY <1>2, <1>3, <3>1, <5>1
        <5> QED
          BY <5>2
      <4> HIDE DEF k
      <4>3. Once(base[c]) /\ Len(base[c]) = slice[c].len
        BY <1>1, <1>2, <2>1, ListDistinct DEF ProcOK, Busy
      <4>4. \A i \in 1 .. m : base[c][f + i] # base[c][k]
        BY <1>2, <1>4, <4>1, <4>2, <4>3 DEF Once
      <4> QED
        BY <2>3, <2>5, <3>1, <4>1, <4>4
    <3>3. ASSUME NEW d \in Conns, Busy(d)', Origs(d)' \subseteq stayed'[d], slice'[d].arr = part'[c].arr
          PROVE  part'[c].off + part'[c].len <= slice'[d].off
      <4>1. /\ Busy(d) /\ slice[d].arr = a /\ Origs(d) \subseteq stayed[d] /\ Origs(d) \subseteq Listed'
            /\ StayOK(d)
        BY <1>1, <1>7, <2>5, <3>1, <3>3 DEF Origs, IInv
      <4>2. /\ slice[d].len \in Nat \ {0} /\ slice[d].off \in Nat /\ 1 \in DOMAIN base[d]
            /\ slice[d].off + 1 \in DOMAIN mem[a] /\ 1 \in 1 .. slice[d].len
        BY <1>1, <4>1, Handling
      <4>3. base[d][1] \in Listed' /\ mem[a][slice[d].off + 1] = base[d][1]
        BY <4>1, <4>2 DEF Origs, Elems, StayOK
      <4>4. PICK i \in 1 .. m : base[d][1] = base[c][f + i]
        BY <2>5, <4>3
      <4>5. f + i \in 1 .. slice[c].len /\ mem[a][slice[d].off + 1] = mem[a][slice[c].off + (f + i)]
        BY <1>2, <2>3, <4>3, <4>4
      <4>6. slice[d].off + 1 = slice[c].off + (f + i)
        BY <1>1, <1>3, <4>2, <4>5, Distinct DEF a
      <4>7. slice[c].off + f <= slice[d].off
        <5>1. i \in Nat \ {0} /\ f \in Nat /\ slice[c].off \in Nat /\ slice[d].off \in Nat
          BY <1>2, <1>3, <4>2
        <5> QED
          BY <4>6, <5>1
      <4> QED
        BY <1>1, <1>2, <3>1, <4>7
    <3> QED
      BY <1>1, <3>1, <3>2, <3>3 DEF Taken, Original
  <2>10. HasTaken(c)' => call[c].op = "LPOP"
    BY <1>1 DEF HasTaken
  <2>11. value' = v
    BY <1>1 DEF Becomes
  <2>12. Unraced(c)'
    BY <2>7, <2>8, <2>9, <2>10 DEF Unraced
  <2> QED
    BY <2>4, <2>6, <2>11, <2>12
<1> QED
  BY <1>6, <1>7, <1>8, <1>9, <1>10, MovedInv DEF IInv

-------------------------------------------------------------------------------

LEMMA InitInv == Init => IInv
<1> SUFFICES ASSUME Init PROVE IInv
  OBVIOUS
<1>1. MemOK
  BY DEF Init, MemOK
<1>2. Nil \in [arr : Arrays \union {None}, off : Nat, len : Nat] /\ Nil.len = 0 /\ Len(<<>>) = 0
      /\ <<>> \in Seq(Values)
  BY EmptySeq DEF Nil
<1>3. TypeOK
  <2>1. Valid(list) /\ raced \in BOOLEAN /\ value \in Seq(Values) /\ Len(value) = list.len
    BY <1>2 DEF Init, Valid
  <2>2. /\ pc \in [Conns -> {"idle", "read", "set", "reply"}]
        /\ slice \in [Conns -> [arr : Arrays \union {None}, off : Nat, len : Nat]]
        /\ part \in [Conns -> [arr : Arrays \union {None}, off : Nat, len : Nat]]
        /\ word \in [Conns -> Values \union {None}] /\ DOMAIN call = Conns
    BY <1>2 DEF Init
  <2>3. /\ out \in [Conns -> Seq(Values \union {Torn})] /\ base \in [Conns -> Seq(Values)]
        /\ since \in [Conns -> SUBSET Values] /\ stayed \in [Conns -> SUBSET Values]
    BY EmptySeq DEF Init
  <2>4. \A c \in Conns : Valid(slice[c]) /\ ProcOK(c)
    BY DEF Init, Valid, ProcOK
  <2> QED
    BY <1>1, <2>1, <2>2, <2>3, <2>4 DEF TypeOK
<1>4. Contents(list) = value
  BY DEF Init, Contents
<1>5. \A c \in Conns : StayOK(c) /\ CopyOK(c) /\ Unraced(c)
  BY <1>2 DEF Init, StayOK, CopyOK, Unraced, Busy
<1>6. RepliesAreOfTheTime
  BY DEF Init, RepliesAreOfTheTime
<1> QED
  BY <1>3, <1>4, <1>5, <1>6 DEF IInv

LEMMA SameInv == IInv /\ UNCHANGED vars => IInv'
<1> SUFFICES ASSUME IInv, UNCHANGED vars PROVE IInv'
  OBVIOUS
<1> USE DEF vars, heap, proc, ghost
<1>1. /\ TypeOK /\ MemOK' /\ Valid(list)' /\ Listed' = Listed /\ Contents(list)' = Contents(list)
      /\ \A c \in Conns : Valid(slice[c])'
  BY DEF IInv, TypeOK, Valid, MemOK, Listed, Contents
<1>6. \A c \in Conns : /\ ProcOK(c)' /\ Origs(c)' = Origs(c)
                       /\ Busy(c)' <=> Busy(c)
                       /\ HasTaken(c)' <=> HasTaken(c)
                       /\ \A j : Original(c, j)' = Original(c, j)
  BY <1>1, SameHandlers
<1>2. TypeOK'
  BY <1>1, <1>6 DEF TypeOK
<1>3. \A c \in Conns : StayOK(c)' /\ CopyOK(c)'
  BY <1>1, <1>6 DEF IInv, StayOK, CopyOK
<1>4. RepliesAreOfTheTime'
  BY <1>1, <1>6 DEF IInv, RepliesAreOfTheTime
<1>5. ASSUME ~raced, NEW c \in Conns
      PROVE  Unraced(c)'
  <2>1. Unraced(c)
    BY <1>5 DEF IInv
  <2>2. Back(c) => Back(c)'
    BY <1>1, <1>6 DEF Back
  <2>3. Taken(c) => Taken(c)'
    <3>1. \A d \in Conns : (Busy(d)' <=> Busy(d)) /\ Origs(d)' = Origs(d)
      BY <1>6
    <3> QED
      BY <1>1, <1>6, <3>1 DEF Taken
  <2>4. ReplyOK(c) => ReplyOK(c)'
    BY <1>6 DEF ReplyOK
  <2> QED
    BY <1>6, <2>1, <2>2, <2>3, <2>4 DEF Unraced
<1> QED
  BY <1>1, <1>2, <1>3, <1>4, <1>5 DEF IInv

LEMMA NextInv == IInv /\ [Next]_vars => IInv'
<1> SUFFICES ASSUME IInv, [Next]_vars PROVE IInv'
  OBVIOUS
<1>1. ASSUME NEW c \in Conns, RPush(c) \/ LPush(c) \/ BlpopTake(c)
      PROVE  IInv'
  BY <1>1, RPushInv, LPushInv, BlpopTakeInv
<1>2. ASSUME NEW c \in Conns, Get(c) \/ CopyPointer(c) \/ CopyLength(c) \/ PopSet(c) \/ Reply(c)
      PROVE  IInv'
  BY <1>2, GetInv, CopyPointerInv, CopyLengthInv, PopSetInv, ReplyInv
<1>3. CASE UNCHANGED vars
  BY <1>3, SameInv
<1> QED
  BY <1>1, <1>2, <1>3 DEF Next

LEMMA Invariance == Spec => []IInv
<1> QED
  BY InitInv, NextInv, PTL DEF Spec

\* Until a pop has stored into a list that had changed, an RPUSH in place, an LPUSH, a
\* BLPOP or a pop does to the slice just what it does to the list as a value.
THEOREM ListsAreValues == Spec => []SlicesAreValues
<1>1. IInv => SlicesAreValues
  BY DEF IInv, SlicesAreValues
<1> QED
  BY <1>1, Invariance, PTL

\* LRANGE, LPOP and RPOP reply strings that were in the list at some time since they got
\* it, or torn ones, and what stayed in it in its place, races or not.
THEOREM ReplyStrings == Spec => []RepliesAreOfTheTime
<1>1. IInv => RepliesAreOfTheTime
  BY DEF IInv
<1> QED
  BY <1>1, Invariance, PTL

\* Until such a race LPOP and RPOP reply the very values that they took.
THEOREM PopsAreExact == Spec => []PopsReplyWhatTheyTake
<1>1. IInv => PopsReplyWhatTheyTake
  <2> SUFFICES ASSUME IInv, NEW c \in Conns, pc[c] = "reply", call[c].op \in {"LPOP", "RPOP"}, ~raced
               PROVE  out[c] = [j \in 1 .. part[c].len |-> Original(c, j)]
    BY DEF PopsReplyWhatTheyTake
  <2>1. TypeOK /\ Busy(c) /\ Unraced(c) /\ Len(out[c]) = part[c].len
    BY DEF IInv, TypeOK, ProcOK, Busy
  <2>2. DOMAIN out[c] = 1 .. part[c].len /\ out[c] \in Seq(Values \union {Torn})
    BY <2>1, Copying
  <2>3. \A j \in 1 .. part[c].len : out[c][j] = Original(c, j)
    BY <2>1, <2>2 DEF Unraced, HasTaken, Taken, ReplyOK
  <2>4. out[c] \in [1 .. part[c].len -> Values \union {Torn}]
    BY <2>1, <2>2, LenProperties
  <2> QED
    BY <2>3, <2>4
<1> QED
  BY <1>1, Invariance, PTL

===============================================================================
