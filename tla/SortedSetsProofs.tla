--------------------------- MODULE SortedSetsProofs ----------------------------
(***************************************************************************)
(* Theorems about GeoHash, for every word of 32 bits, and about SortedSets *)
(* for every set of connections, keys, members and commands.               *)
(*                                                                         *)
(* Inv is inductive.  What the recursive functions do, the number of a     *)
(* word (Highest) and the sort (Sorted), is shown by the least place at    *)
(* which it would fail: each insertion keeps the nodes in order, and a     *)
(* sequence in order is the only one of its elements.                      *)
(***************************************************************************)
EXTENDS SortedSets, SequenceTheorems, WellFoundedInduction, FiniteSetTheorems, TLAPS

-------------------------------------------------------------------------------
(* The bits of a word of 32 spread over the even places of a word of 64.   *)

\* Where bit b is after the stage of spreadInt32ToInt64 that shifts by n.
At(b, n) == (b % n) + (2 * n) * (b \div n)

Moved(v, n) == {At(b, n) : b \in v}

\* A stage moves those bits on that the last one has left behind, and drops their copies.
Moves(n) ==
  \A b \in 0 .. 31 :
    /\ At(b, n) \in Mask(n)
    /\ At(b, n) \in {At(b, 2 * n), At(b, 2 * n) + n}
    /\ At(b, 2 * n) \in Mask(n) => At(b, n) = At(b, 2 * n)
    /\ At(b, 2 * n) + n \in Mask(n) => At(b, n) = At(b, 2 * n) + n

LEMMA Moves16 == Moves(16)
BY DEF Moves, At, Mask, Word
LEMMA Moves8 == Moves(8)
BY DEF Moves, At, Mask, Word
LEMMA Moves4 == Moves(4)
BY DEF Moves, At, Mask, Word
LEMMA Moves2 == Moves(2)
BY DEF Moves, At, Mask, Word
LEMMA Moves1 == Moves(1)
BY DEF Moves, At, Mask, Word

LEMMA SpreadStage ==
  ASSUME NEW v \in SUBSET (0 .. 31), NEW n \in Nat, NEW n2 \in Nat, n2 = 2 * n, Moves(n)
  PROVE  SpreadStep(Moved(v, n2), n) = Moved(v, n)
<1> Mask(n) \subseteq Word
  BY DEF Mask
<1> QED
  BY DEF SpreadStep, ShiftLeft, Moved, Moves

LEMMA FirstPlaces == ASSUME NEW v \in SUBSET (0 .. 31) PROVE Moved(v, 32) = v
<1>1. \A b \in v : At(b, 32) = b
  BY DEF At
<1>2. \A a : a \in Moved(v, 32) <=> a \in v
  BY <1>1 DEF Moved
<1> QED
  BY <1>2

LEMMA LastPlaces == ASSUME NEW v \in SUBSET (0 .. 31) PROVE Moved(v, 1) = {2 * b : b \in v}
<1> \A b \in 0 .. 31 : At(b, 1) = 2 * b
  BY DEF At
<1> QED
  BY DEF Moved

\* spreadInt32ToInt64 sends bit b of any word to bit 2b: no mask cuts a bit off, and no copy that
\* a shift makes is left.
THEOREM SpreadDoubles ==
  ASSUME NEW v \in SUBSET (0 .. 31)
  PROVE  spreadInt32ToInt64(v) = {2 * b : b \in v}
<1>1. SpreadStep(v, 16) = Moved(v, 16)
  BY Moves16, SpreadStage, FirstPlaces
<1>2. SpreadStep(Moved(v, 16), 8) = Moved(v, 8)
  BY Moves8, SpreadStage
<1>3. SpreadStep(Moved(v, 8), 4) = Moved(v, 4)
  BY Moves4, SpreadStage
<1>4. SpreadStep(Moved(v, 4), 2) = Moved(v, 2)
  BY Moves2, SpreadStage
<1>5. SpreadStep(Moved(v, 2), 1) = Moved(v, 1)
  BY Moves1, SpreadStage
<1> QED
  BY <1>1, <1>2, <1>3, <1>4, <1>5, LastPlaces DEF spreadInt32ToInt64

-------------------------------------------------------------------------------
(* And back.                                                               *)

\* The stage of compactInt64ToInt32 that shifts by n undoes that of spreadInt32ToInt64.
MovesBack(n) ==
  \A b \in 0 .. 31 :
    /\ At(b, 2 * n) \in Mask(2 * n)
    /\ At(b, n) \in {At(b, 2 * n), At(b, 2 * n) + n}
    /\ At(b, n) \in Mask(2 * n) => At(b, n) = At(b, 2 * n)
    /\ At(b, n) - n \in Mask(2 * n) => At(b, n) - n = At(b, 2 * n)

LEMMA MovesBack1 == MovesBack(1)
BY DEF MovesBack, At, Mask, Word
LEMMA MovesBack2 == MovesBack(2)
BY DEF MovesBack, At, Mask, Word
LEMMA MovesBack4 == MovesBack(4)
BY DEF MovesBack, At, Mask, Word
LEMMA MovesBack8 == MovesBack(8)
BY DEF MovesBack, At, Mask, Word
LEMMA MovesBack16 == MovesBack(16)
BY DEF MovesBack, At, Mask, Word

LEMMA CompactStage ==
  ASSUME NEW v \in SUBSET (0 .. 31), NEW n \in Nat, NEW n2 \in Nat, n2 = 2 * n, MovesBack(n)
  PROVE  CompactStep(Moved(v, n), n) = Moved(v, n2)
<1> Mask(n2) \subseteq Word /\ \A b \in Word : b \in Int /\ b >= 0
  BY DEF Mask, Word
<1> \A b \in 0 .. 31 : At(b, n) \in Int /\ At(b, n2) \in Int /\ At(b, n2) >= 0
  BY DEF MovesBack
<1>1. ASSUME NEW a \in Moved(v, n2)
      PROVE  a \in CompactStep(Moved(v, n), n)
  <2> PICK b \in v : a = At(b, n2)
    BY DEF Moved
  <2>1. a \in Mask(n2)
    BY DEF MovesBack
  <2>2. At(b, n) \in Moved(v, n) /\ At(b, n) \in {a, a + n}
    BY DEF Moved, MovesBack
  <2>3. CASE At(b, n) = a
    BY <2>1, <2>2, <2>3 DEF CompactStep
  <2>4. CASE At(b, n) = a + n
    <3> a \in ShiftRight(Moved(v, n), n)
      BY <2>2, <2>4 DEF ShiftRight
    <3> QED
      BY <2>1 DEF CompactStep
  <2> QED
    BY <2>2, <2>3, <2>4
<1>2. ASSUME NEW a \in CompactStep(Moved(v, n), n)
      PROVE  a \in Moved(v, n2)
  <2>1. a \in Mask(n2)
    BY DEF CompactStep
  <2>2. PICK b \in v : a = At(b, n) \/ a = At(b, n) - n
    BY DEF CompactStep, ShiftRight, Moved
  <2>3. a = At(b, n2)
    BY <2>1, <2>2 DEF MovesBack
  <2> QED
    BY <2>3 DEF Moved
<1> QED
  BY <1>1, <1>2

\* Where bit 2b of a word was, compactInt64ToInt32 leaves bit b, and nothing else.
LEMMA CompactHalves ==
  ASSUME NEW w \in SUBSET Word
  PROVE  compactInt64ToInt32(w) = {b \in 0 .. 31 : 2 * b \in w}
<1> DEFINE v == {b \in 0 .. 31 : 2 * b \in w}
<1>1. w \intersect Mask(1) = Moved(v, 1)
  <2>1. \A a \in Word : a \in Mask(1) <=> \E b \in 0 .. 31 : a = 2 * b
    BY DEF Mask, Word
  <2>2. \A a : a \in w \intersect Mask(1) <=> a \in {2 * b : b \in v}
    BY <2>1 DEF Mask
  <2> QED
    BY <2>2, LastPlaces
<1> HIDE DEF v
<1> v \in SUBSET (0 .. 31)
  BY DEF v
<1>2. CompactStep(Moved(v, 1), 1) = Moved(v, 2)
  BY MovesBack1, CompactStage
<1>3. CompactStep(Moved(v, 2), 2) = Moved(v, 4)
  BY MovesBack2, CompactStage
<1>4. CompactStep(Moved(v, 4), 4) = Moved(v, 8)
  BY MovesBack4, CompactStage
<1>5. CompactStep(Moved(v, 8), 8) = Moved(v, 16)
  BY MovesBack8, CompactStage
<1>6. CompactStep(Moved(v, 16), 16) = Moved(v, 32)
  BY MovesBack16, CompactStage
<1>7. compactInt64ToInt32(w) = v
  BY <1>1, <1>2, <1>3, <1>4, <1>5, <1>6, FirstPlaces DEF compactInt64ToInt32
<1> QED
  BY <1>7 DEF v

\* The bits of an interleaved word.
LEMMA Interleaved ==
  ASSUME NEW x \in SUBSET (0 .. 31), NEW y \in SUBSET (0 .. 31)
  PROVE  interleave(x, y) = {2 * b : b \in x} \union {2 * b + 1 : b \in y}
<1> DEFINE Y == {2 * b : b \in y}
<1>1. ASSUME NEW b \in y
      PROVE  2 * b + 1 \in ShiftLeft(Y, 1)
  <2> 2 * b \in Y /\ 2 * b + 1 \in Word
    BY DEF Word
  <2> QED
    BY DEF ShiftLeft
<1>2. ASSUME NEW a \in ShiftLeft(Y, 1)
      PROVE  a \in {2 * b + 1 : b \in y}
  <2> PICK d \in Y : a = d + 1
    BY DEF ShiftLeft
  <2> QED
    OBVIOUS
<1>3. ShiftLeft(Y, 1) = {2 * b + 1 : b \in y}
  BY <1>1, <1>2
<1> QED
  BY <1>3, SpreadDoubles DEF interleave

\* What encode interleaves, decode takes apart again.
THEOREM DecodeInterleaved ==
  ASSUME NEW x \in SUBSET (0 .. 31), NEW y \in SUBSET (0 .. 31)
  PROVE  decode(interleave(x, y)) = [lat |-> x, lon |-> y]
<1> DEFINE w == interleave(x, y)
<1>1. w = {2 * b : b \in x} \union {2 * b + 1 : b \in y}
  BY Interleaved
<1> HIDE DEF w
<1>2. w \in SUBSET Word /\ ShiftRight(w, 1) \in SUBSET Word
  BY <1>1 DEF ShiftRight, Word
<1>3. \A b \in 0 .. 31 : 2 * b \in w <=> b \in x
  BY <1>1
<1>4. ASSUME NEW b \in 0 .. 31
      PROVE  2 * b \in ShiftRight(w, 1) <=> 2 * b + 1 \in w
  <2>1. ASSUME NEW a \in w, a >= 1, 2 * b = a - 1
        PROVE  a = 2 * b + 1
    BY <1>1, <2>1
  <2> QED
    BY <2>1 DEF ShiftRight
<1>5. \A b \in 0 .. 31 : 2 * b + 1 \in w <=> b \in y
  BY <1>1
<1>6. compactInt64ToInt32(w) = x
  BY <1>2, <1>3, CompactHalves
<1>7. compactInt64ToInt32(ShiftRight(w, 1)) = y
  BY <1>2, <1>4, <1>5, CompactHalves
<1> QED
  BY <1>6, <1>7 DEF decode, w

-------------------------------------------------------------------------------
(* Recursive functions on numbers.                                         *)

LEMMA LeastNumber ==
  ASSUME NEW T \in SUBSET Nat, T # {}
  PROVE  \E x \in T : \A y \in T : x <= y
<1> DEFINE R == OpToRel(<, Nat)
<1>1. PICK x \in T : \A y \in T : <<y, x>> \notin R
  <2> HIDE DEF R
  <2>1. IsWellFoundedOn(R, Nat)
    BY NatLessThanWellFounded DEF R
  <2> QED
    BY <2>1, WFMin
<1>2. \A y \in T : <<y, x>> \in Nat \X Nat
  OBVIOUS
<1>3. \A y \in T : ~(y < x)
  BY <1>1, <1>2 DEF OpToRel
<1> QED
  BY <1>3

\* A set of numbers without a number whose predecessor is missing is empty.
LEMMA FirstNumber ==
  ASSUME NEW T \in SUBSET Nat, T # {}
  PROVE  \E x \in T : x - 1 \notin T
<1>1. PICK x \in T : \A y \in T : x <= y
  BY LeastNumber
<1>2. x \in Nat /\ ~(x <= x - 1)
  OBVIOUS
<1> QED
  BY <1>1, <1>2

\* The values of a recurrence up to n: F[i][s] is the value at i if s is the one before.
Recurs(S, s, F, n, h) ==
  h \in [0 .. n -> S] /\ h[0] = s /\ \A i \in 1 .. n : h[i] = F[i][h[i - 1]]

LEMMA RecursOneMore ==
  ASSUME NEW S, NEW s \in S, NEW N \in Nat, NEW F \in [1 .. N -> [S -> S]],
         NEW n \in 1 .. N, NEW h, Recurs(S, s, F, n - 1, h)
  PROVE  \E g : Recurs(S, s, F, n, g)
<1> DEFINE v == F[n][h[n - 1]]
           g == [i \in 0 .. n |-> IF i = n THEN v ELSE h[i]]
<1>1. n - 1 \in 0 .. n - 1 /\ h[n - 1] \in S
  BY DEF Recurs
<1>2. v \in S
  <2>1. F[n] \in [S -> S]
    OBVIOUS
  <2> QED
    BY <1>1, <2>1
<1> HIDE DEF v
<1>3. \A i \in 0 .. n : i # n => i \in 0 .. n - 1 /\ h[i] \in S
  BY DEF Recurs
<1>4. g \in [0 .. n -> S]
  BY <1>2, <1>3
<1>5. g[0] = s
  <2>1. 0 \in 0 .. n /\ 0 # n
    OBVIOUS
  <2> QED
    BY <2>1 DEF Recurs
<1>6. ASSUME NEW i \in 1 .. n PROVE g[i] = F[i][g[i - 1]]
  <2>1. i \in 0 .. n /\ i - 1 \in 0 .. n /\ i - 1 # n /\ g[i - 1] = h[i - 1]
    OBVIOUS
  <2>2. CASE i = n
    BY <2>1, <2>2 DEF v
  <2>3. CASE i # n
    <3>1. i \in 1 .. n - 1
      BY <2>3
    <3>2. h[i] = F[i][h[i - 1]]
      BY <3>1 DEF Recurs
    <3> QED
      BY <2>1, <2>3, <3>2
  <2> QED
    BY <2>2, <2>3
<1> HIDE DEF g
<1> QED
  BY <1>4, <1>5, <1>6 DEF Recurs

LEMMA RecursionExists ==
  ASSUME NEW S, NEW s \in S, NEW N \in Nat, NEW F \in [1 .. N -> [S -> S]]
  PROVE  \E h : Recurs(S, s, F, N, h)
<1> DEFINE T == {n \in 0 .. N : ~ \E h : Recurs(S, s, F, n, h)}
<1>1. SUFFICES ASSUME T # {} PROVE FALSE
  OBVIOUS
<1>2. PICK n \in T : n - 1 \notin T
  <2>1. T \in SUBSET Nat
    OBVIOUS
  <2> HIDE DEF T
  <2> QED
    BY <1>1, <2>1, FirstNumber
<1>3. CASE n = 0
  <2> DEFINE h == [i \in 0 .. 0 |-> s]
  <2>1. h \in [0 .. 0 -> S] /\ h[0] = s
    OBVIOUS
  <2>2. Recurs(S, s, F, 0, h)
    BY <2>1 DEF Recurs
  <2> QED
    BY <2>2, <1>2, <1>3
<1>4. CASE n # 0
  <2>1. n \in 1 .. N /\ n - 1 \in 0 .. N
    BY <1>2, <1>4
  <2>2. PICK h : Recurs(S, s, F, n - 1, h)
    BY <1>2, <2>1
  <2>3. \E g : Recurs(S, s, F, n, g)
    BY <2>1, <2>2, RecursOneMore
  <2> QED
    BY <2>3, <1>2
<1> QED
  BY <1>3, <1>4

-------------------------------------------------------------------------------
(* The number that a word stands for.                                      *)

Bit(grid, b) == IF b \in grid THEN 1 ELSE 0

LEMMA HighestIs ==
  ASSUME NEW grid
  PROVE  /\ Highest(grid) \in [0 .. 32 -> Nat] /\ Highest(grid)[0] = 0
         /\ \A n \in 1 .. 32 : Highest(grid)[n] = 2 * Highest(grid)[n - 1] + Bit(grid, 32 - n)
<1> DEFINE F    == [n \in 1 .. 32 |-> [v \in Nat |-> 2 * v + Bit(grid, 32 - n)]]
           G(h) == [n \in 0 .. 32 |-> IF n = 0 THEN 0 ELSE 2 * h[n - 1] + (IF 32 - n \in grid THEN 1 ELSE 0)]
<1>1. F \in [1 .. 32 -> [Nat -> Nat]]
  <2>1. \A n \in 1 .. 32, v \in Nat : 2 * v + Bit(grid, 32 - n) \in Nat
    BY DEF Bit
  <2> QED
    BY <2>1
<1>2. PICK h : Recurs(Nat, 0, F, 32, h)
  <2> HIDE DEF F
  <2> QED
    BY <1>1, RecursionExists
<1>3. \A n \in 1 .. 32 : h[n] = 2 * h[n - 1] + Bit(grid, 32 - n)
  <2> SUFFICES ASSUME NEW n \in 1 .. 32 PROVE h[n] = 2 * h[n - 1] + Bit(grid, 32 - n)
    OBVIOUS
  <2>1. h[n - 1] \in Nat /\ h[n] = F[n][h[n - 1]]
    <3> HIDE DEF F
    <3>1. h \in [0 .. 32 -> Nat] /\ n - 1 \in 0 .. 32
      BY <1>2 DEF Recurs
    <3>2. h[n] = F[n][h[n - 1]]
      BY <1>2, Zenon DEF Recurs
    <3> QED
      BY <3>1, <3>2
  <2>2. F[n][h[n - 1]] = 2 * h[n - 1] + Bit(grid, 32 - n)
    BY <2>1
  <2> QED
    BY <2>1, <2>2
<1>4. h = G(h)
  <2>1. h \in [0 .. 32 -> Nat] /\ h[0] = 0
    BY <1>2 DEF Recurs
  <2> QED
    BY <1>3, <2>1 DEF Bit
<1>5. Highest(grid) = G(Highest(grid))
  <2>1. Highest(grid) = CHOOSE x : x = G(x)
    BY DEF Highest
  <2>2. \E x : x = G(x)
    BY <1>4
  <2> HIDE DEF G
  <2> QED
    BY <2>1, <2>2
<1> HIDE DEF F
<1> QED
  <2> DEFINE g == Highest(grid)
             T == {n \in 0 .. 32 : g[n] \notin Nat}
  <2>1. g[0] = 0 /\ \A n \in 1 .. 32 : g[n] = 2 * g[n - 1] + Bit(grid, 32 - n)
    BY <1>5 DEF Bit
  <2>2. DOMAIN g = 0 .. 32 /\ g = [n \in 0 .. 32 |-> g[n]]
    BY <1>5
  <2> HIDE DEF g
  <2>3. ASSUME T # {} PROVE FALSE
    <3>1. PICK n \in T : n - 1 \notin T
      <4>1. T \in SUBSET Nat
        OBVIOUS
      <4> HIDE DEF T
      <4> QED
        BY <2>3, <4>1, FirstNumber
    <3>2. n \in 1 .. 32 /\ n - 1 \in 0 .. 32
      BY <2>1, <3>1
    <3>3. g[n - 1] \in Nat /\ Bit(grid, 32 - n) \in Nat
      BY <3>1, <3>2 DEF Bit
    <3>4. g[n] \in Nat
      BY <2>1, <3>2, <3>3
    <3> QED
      BY <3>1, <3>4
  <2>4. g \in [0 .. 32 -> Nat]
    BY <2>2, <2>3
  <2> QED
    BY <2>1, <2>4 DEF g

\* A power of two is twice the one before.
LEMMA PowersDouble ==
  /\ 2 ^ 0 = 1
  /\ \A n \in 1 .. 26 : 2 ^ (n - 1) \in Nat \ {0} /\ 2 ^ n = 2 * 2 ^ (n - 1)
<1> DEFINE P(n) == 2 ^ (n - 1) \in Nat \ {0} /\ 2 ^ n = 2 * 2 ^ (n - 1)
<1>1. 2 ^ 0 = 1
  OBVIOUS
<1>2. P(1) /\ P(2) /\ P(3) /\ P(4) /\ P(5) /\ P(6) /\ P(7) /\ P(8) /\ P(9)
  OBVIOUS
<1>3. P(10) /\ P(11) /\ P(12) /\ P(13) /\ P(14) /\ P(15) /\ P(16) /\ P(17) /\ P(18)
  OBVIOUS
<1>4. P(19) /\ P(20) /\ P(21) /\ P(22) /\ P(23) /\ P(24) /\ P(25) /\ P(26)
  OBVIOUS
<1> QED
  <2> SUFFICES ASSUME NEW n \in 1 .. 26 PROVE P(n)
    BY <1>1
  <2>1. \/ n = 1 \/ n = 2 \/ n = 3 \/ n = 4 \/ n = 5 \/ n = 6 \/ n = 7 \/ n = 8 \/ n = 9
        \/ n = 10 \/ n = 11 \/ n = 12 \/ n = 13 \/ n = 14 \/ n = 15 \/ n = 16 \/ n = 17 \/ n = 18
        \/ n = 19 \/ n = 20 \/ n = 21 \/ n = 22 \/ n = 23 \/ n = 24 \/ n = 25 \/ n = 26
    OBVIOUS
  <2> HIDE DEF P
  <2> QED
    BY <2>1, <1>2, <1>3, <1>4

\* Halving again is dividing by twice as much.
LEMMA HalfOfQuotient ==
  ASSUME NEW a \in Nat, NEW p \in Nat \ {0}
  PROVE  a \div (2 * p) = (a \div p) \div 2
<1> DEFINE q == a \div p  r == a % p  h == q \div 2
<1>1. q \in Nat /\ r \in Nat /\ r < p /\ a = p * q + r
  OBVIOUS
<1>2. h \in Nat /\ (q = 2 * h \/ q = 2 * h + 1)
  BY <1>1
<1> HIDE DEF q, r, h
<1>3. p * h \in Nat /\ p * (2 * h) = 2 * (p * h) /\ p * (2 * h + 1) = 2 * (p * h) + p
  BY <1>2
<1>4. a = (2 * p) * h + (a - 2 * (p * h)) /\ 0 <= a - 2 * (p * h) /\ a - 2 * (p * h) < 2 * p
  BY <1>1, <1>2, <1>3
<1>5. a \div (2 * p) = h
  BY <1>2, <1>4
<1> QED
  BY <1>5 DEF h, q

\* Dividing by 2 ^ n leaves the bits from n on.
LEMMA QuotientIsHighest ==
  ASSUME NEW grid
  PROVE  /\ Number(grid) \in Nat
         /\ \A n \in 0 .. 26 : Number(grid) \div 2 ^ n = Highest(grid)[32 - n]
<1> DEFINE N == Number(grid)
           g == Highest(grid)
           T == {n \in 0 .. 26 : N \div 2 ^ n # g[32 - n]}
<1>1. N \in Nat /\ N = g[32] /\ g \in [0 .. 32 -> Nat]
  BY HighestIs DEF Number
<1>2. ASSUME T # {} PROVE FALSE
  <2>1. PICK n \in T : n - 1 \notin T
    <3>1. T \in SUBSET Nat
      OBVIOUS
    <3> HIDE DEF T
    <3> QED
      BY <1>2, <3>1, FirstNumber
  <2>2. CASE n = 0
    <3>1. N \div 1 = N
      BY <1>1
    <3> QED
      BY <2>1, <2>2, <3>1, <1>1, PowersDouble
  <2>3. CASE n # 0
    <3>1. n \in 1 .. 26 /\ n - 1 \in 0 .. 26 /\ 33 - n \in 1 .. 32 /\ 32 - (n - 1) = 33 - n /\ (33 - n) - 1 = 32 - n
          /\ 32 - n \in 0 .. 32 /\ 32 - (33 - n) = n - 1
      BY <2>1, <2>3
    <3>2. 2 ^ (n - 1) \in Nat \ {0} /\ 2 ^ n = 2 * 2 ^ (n - 1)
      BY <3>1, PowersDouble
    <3>3. N \div 2 ^ n = (N \div 2 ^ (n - 1)) \div 2
      BY <1>1, <3>2, HalfOfQuotient
    <3>4. N \div 2 ^ (n - 1) = g[33 - n]
      BY <2>1, <3>1
    <3>5. g[33 - n] = 2 * g[32 - n] + Bit(grid, n - 1)
      BY <3>1, HighestIs
    <3>6. g[32 - n] \in Nat /\ Bit(grid, n - 1) \in 0 .. 1
      BY <1>1, <3>1 DEF Bit
    <3>7. g[33 - n] \div 2 = g[32 - n]
      BY <3>5, <3>6
    <3> QED
      BY <2>1, <3>3, <3>4, <3>7
  <2> QED
    BY <2>2, <2>3
<1> QED
  BY <1>1, <1>2

\* The middle of a cell lies in that cell.
LEMMA GridOfMiddle ==
  ASSUME NEW grid \in SUBSET (0 .. 26)
  PROVE  Grid(2 * Number(grid) + 1) = grid
<1> DEFINE N == Number(grid)
           g == Highest(grid)
<1>1. N \in Nat /\ \A n \in 0 .. 26 : N \div 2 ^ n = g[32 - n]
  BY QuotientIsHighest
<1>2. (2 * N + 1) \div 2 = N
  BY <1>1
<1>3. ASSUME NEW n \in 0 .. 26 PROVE (N \div 2 ^ n) % 2 = 1 <=> n \in grid
  <2>1. 32 - n \in 1 .. 32 /\ (32 - n) - 1 \in 0 .. 32 /\ 32 - (32 - n) = n
    OBVIOUS
  <2>2. g[32 - n] = 2 * g[(32 - n) - 1] + Bit(grid, n) /\ g[(32 - n) - 1] \in Nat
    BY <2>1, HighestIs
  <2>3. g[32 - n] % 2 = Bit(grid, n)
    BY <2>2 DEF Bit
  <2>4. N \div 2 ^ n = g[32 - n]
    BY <1>1
  <2> HIDE DEF N, g
  <2> QED
    BY <2>3, <2>4 DEF Bit
<1> HIDE DEF N
<1>4. Grid(2 * N + 1) = {n \in 0 .. 26 : (N \div 2 ^ n) % 2 = 1}
  BY <1>2 DEF Grid, GridBits
<1> QED
  BY <1>3, <1>4 DEF N

\* It is in range unless the cell begins at the end of the range.
LEMMA MiddleInRange ==
  ASSUME NEW grid \in SUBSET (0 .. 26)
  PROVE  2 * Number(grid) + 1 \in 0 .. 2 * Cells <=> 26 \notin grid
<1> DEFINE N == Number(grid)
           g == Highest(grid)
<1>1. N \in Nat /\ N \div 2 ^ 26 = g[6]
  BY QuotientIsHighest
<1>2. g[0] = 0 /\ \A n \in 1 .. 32 : g[n] = 2 * g[n - 1] + Bit(grid, 32 - n)
  BY HighestIs
<1>3. \A b \in 27 .. 31 : Bit(grid, b) = 0
  BY DEF Bit
<1>4. /\ g[1] = 2 * g[0] + Bit(grid, 31) /\ g[2] = 2 * g[1] + Bit(grid, 30)
      /\ g[3] = 2 * g[2] + Bit(grid, 29) /\ g[4] = 2 * g[3] + Bit(grid, 28)
      /\ g[5] = 2 * g[4] + Bit(grid, 27) /\ g[6] = 2 * g[5] + Bit(grid, 26)
  BY <1>2
<1> HIDE DEF N, g
<1>5. g[6] = Bit(grid, 26)
  BY <1>2, <1>3, <1>4 DEF Bit
<1> DEFINE p == 2 ^ 26
<1>6. p \in Nat \ {0} /\ Cells = p
  <2>1. 2 ^ (26 - 1) \in Nat \ {0} /\ p = 2 * 2 ^ (26 - 1)
    BY PowersDouble
  <2> QED
    BY <2>1 DEF Cells, GridBits
<1>7. N \div p = Bit(grid, 26)
  BY <1>1, <1>5
<1> HIDE DEF p
<1>8. N >= p <=> N \div p >= 1
  BY <1>1, <1>6
<1>9. 2 * N + 1 <= 2 * p <=> N < p
  BY <1>1, <1>6
<1> QED
  BY <1>1, <1>6, <1>7, <1>8, <1>9 DEF Bit, N

-------------------------------------------------------------------------------
(* The order of the nodes of a sorted set.                                 *)

\* A set of bits has a highest one.
LEMMA HighestBit ==
  ASSUME NEW T \in SUBSET (0 .. 53), T # {}
  PROVE  \E x \in T : \A y \in T : y <= x
<1> DEFINE U == {n \in Nat : \E y \in T : y >= 53 - n}
<1>1. 53 \in U /\ U \in SUBSET Nat /\ U # {}
  <2>1. PICK y \in T : TRUE
    OBVIOUS
  <2>2. y >= 53 - 53
    OBVIOUS
  <2> QED
    BY <2>2
<1>2. PICK n \in U : n - 1 \notin U
  <2> HIDE DEF U
  <2> QED
    BY <1>1, FirstNumber
<1>3. PICK x \in T : x >= 53 - n
  BY <1>2
<1>4. ASSUME NEW y \in T, ~(y <= x) PROVE FALSE
  <2>1. x \in 0 .. 53 /\ y \in 0 .. 53 /\ n \in Nat
    BY <1>2
  <2>2. n - 1 \in Nat /\ y >= 53 - (n - 1)
    BY <1>3, <1>4, <2>1
  <2> QED
    BY <1>2, <2>2
<1> QED
  BY <1>4

LEMMA LessBitsTotal ==
  ASSUME NEW v \in SUBSET (0 .. 53), NEW w \in SUBSET (0 .. 53), v # w
  PROVE  LessBits(v, w) \/ LessBits(w, v)
<1> DEFINE T == (v \ w) \union (w \ v)
<1>1. T \in SUBSET (0 .. 53) /\ T # {}
  OBVIOUS
<1>2. PICK b \in T : \A a \in T : a <= b
  <2> HIDE DEF T
  <2> QED
    BY <1>1, HighestBit
<1>3. \A a \in T : a # b => a < b
  BY <1>1, <1>2
<1> QED
  BY <1>2, <1>3 DEF LessBits

LEMMA LessBitsTransitive ==
  ASSUME NEW u \in SUBSET (0 .. 53), NEW v \in SUBSET (0 .. 53), NEW w \in SUBSET (0 .. 53),
         LessBits(u, v), LessBits(v, w)
  PROVE  LessBits(u, w)
<1>1. PICK b \in v \ u : \A a \in u \ v : a < b
  BY DEF LessBits
<1>2. PICK c \in w \ v : \A a \in v \ w : a < c
  BY DEF LessBits
<1>3. b \in 0 .. 53 /\ c \in 0 .. 53 /\ b # c
  BY <1>1, <1>2
<1>4. CASE c < b
  <2>1. b \in w \ u
    BY <1>1, <1>2, <1>3, <1>4
  <2>2. ASSUME NEW a \in u \ w PROVE a < b
    <3>1. a \in 0 .. 53
      OBVIOUS
    <3> QED
      BY <1>1, <1>2, <1>3, <1>4, <3>1
  <2> QED
    BY <2>1, <2>2 DEF LessBits
<1>5. CASE b < c
  <2>1. c \in w \ u
    BY <1>1, <1>2, <1>3, <1>5
  <2>2. ASSUME NEW a \in u \ w PROVE a < c
    <3>1. a \in 0 .. 53
      OBVIOUS
    <3> QED
      BY <1>1, <1>2, <1>3, <1>5, <3>1
  <2> QED
    BY <2>1, <2>2 DEF LessBits
<1> QED
  BY <1>3, <1>4, <1>5

\* Members with scores that are numbers.
Numbered(z, S) == S \subseteq Nat /\ \A m \in S : z[m] \in SUBSET (0 .. 53) /\ z[m] # NaN

LEMMA BeforeTotal ==
  ASSUME NEW z, NEW S, Numbered(z, S), NEW m \in S, NEW n \in S, m # n
  PROVE  Before(z, m, n) \/ Before(z, n, m)
<1>1. /\ m \in Nat /\ n \in Nat /\ z[m] \in SUBSET (0 .. 53) /\ z[n] \in SUBSET (0 .. 53)
      /\ z[m] # NaN /\ z[n] # NaN
  BY DEF Numbered
<1>2. CASE z[m] = z[n]
  BY <1>1, <1>2 DEF Before
<1>3. CASE z[m] # z[n]
  <2>1. LessBits(z[m], z[n]) \/ LessBits(z[n], z[m])
    BY <1>1, <1>3, LessBitsTotal
  <2> QED
    BY <1>1, <1>3, <2>1 DEF Before
<1> QED
  BY <1>2, <1>3

LEMMA BeforeTransitive ==
  ASSUME NEW z, NEW S, Numbered(z, S), NEW l \in S, NEW m \in S, NEW n \in S,
         Before(z, l, m), Before(z, m, n)
  PROVE  Before(z, l, n)
<1>1. /\ l \in Nat /\ m \in Nat /\ n \in Nat /\ NaN \notin {z[l], z[n]}
      /\ z[l] \in SUBSET (0 .. 53) /\ z[m] \in SUBSET (0 .. 53) /\ z[n] \in SUBSET (0 .. 53)
  BY DEF Numbered
<1>2. /\ (z[l] = z[m] /\ l < m) \/ (z[l] # z[m] /\ LessBits(z[l], z[m]))
      /\ (z[m] = z[n] /\ m < n) \/ (z[m] # z[n] /\ LessBits(z[m], z[n]))
  BY DEF Before
<1>3. CASE z[l] = z[m] /\ z[m] = z[n]
  BY <1>1, <1>2, <1>3 DEF Before
<1>4. CASE z[l] # z[m] \/ z[m] # z[n]
  <2>1. LessBits(z[l], z[n])
    BY <1>1, <1>2, <1>4, LessBitsTransitive
  <2>2. z[l] # z[n]
    BY <2>1 DEF LessBits
  <2> QED
    BY <1>1, <2>1, <2>2 DEF Before
<1> QED
  BY <1>3, <1>4

LEMMA BeforeIrreflexive == ASSUME NEW z, NEW m \in Nat PROVE ~Before(z, m, m)
BY DEF Before

-------------------------------------------------------------------------------
(* The sort.                                                               *)

IsSorted(z, s) == \A i, j \in DOMAIN s : i < j => Before(z, s[i], s[j])

\* The node m has been put behind the first p of s, the last of which it is not before.
Placed(z, S, s, m, p, t) ==
  /\ p > 0 => ~Before(z, m, s[p])
  /\ \A j \in p + 1 .. Len(s) : Before(z, m, s[j])
  /\ t \in Seq(S) /\ Len(t) = Len(s) + 1
  /\ \A i \in 1 .. Len(s) + 1 : t[i] = IF i <= p THEN s[i] ELSE IF i = p + 1 THEN m ELSE s[i - 1]

LEMMA InsertedIs ==
  ASSUME NEW z, NEW S, NEW s \in Seq(S), NEW m \in S
  PROVE  \E p \in 0 .. Len(s) : Placed(z, S, s, m, p, Inserted(z, s, m))
<1> DEFINE Fits(i) == /\ i > 0 => ~Before(z, m, s[i])
                      /\ \A j \in i + 1 .. Len(s) : Before(z, m, s[j])
           T == {i \in 0 .. Len(s) : \A j \in i + 1 .. Len(s) : Before(z, m, s[j])}
<1>1. Len(s) \in Nat /\ \A i \in 1 .. Len(s) : s[i] \in S
  OBVIOUS
<1>2. \E i \in 0 .. Len(s) : Fits(i)
  <2>1. T \in SUBSET Nat /\ Len(s) \in T
    BY <1>1
  <2>2. PICK i \in T : i - 1 \notin T
    <3> HIDE DEF T
    <3> QED
      BY <2>1, FirstNumber
  <2>3. i \in 0 .. Len(s)
    BY <2>2
  <2>4. CASE i = 0
    BY <2>2, <2>3, <2>4
  <2>5. CASE i # 0
    <3>1. i - 1 \in 0 .. Len(s) /\ (i - 1) + 1 = i
      BY <1>1, <2>3, <2>5
    <3>2. PICK j \in i .. Len(s) : ~Before(z, m, s[j])
      BY <2>2, <3>1
    <3>3. j = i \/ j \in i + 1 .. Len(s)
      BY <1>1, <2>3, <3>2
    <3>4. j = i
      BY <2>2, <3>2, <3>3
    <3> QED
      BY <2>2, <2>3, <3>2, <3>4
  <2> QED
    BY <2>4, <2>5
<1> DEFINE p == CHOOSE i \in 0 .. Len(s) : Fits(i)
           a == SubSeq(s, 1, p)
           b == SubSeq(s, p + 1, Len(s))
<1>3. p \in 0 .. Len(s) /\ Fits(p)
  <2> HIDE DEF Fits
  <2> QED
    BY <1>2
<1>4. Inserted(z, s, m) = (a \o <<m>>) \o b
  BY DEF Inserted
<1>5. (p > 0 => ~Before(z, m, s[p])) /\ \A j \in p + 1 .. Len(s) : Before(z, m, s[j])
  BY <1>3
<1> HIDE DEF Fits, p
<1>6. a \in Seq(S) /\ Len(a) = p /\ \A i \in 1 .. p : a[i] = s[i]
  <2>1. p \in Int /\ \A i \in 1 .. p : s[i] \in S
    BY <1>1, <1>3
  <2>2. a \in Seq(S) /\ Len(a) = (IF 1 <= p THEN p - 1 + 1 ELSE 0) /\ \A i \in 1 .. p - 1 + 1 : a[i] = s[1 + i - 1]
    BY <2>1, SubSeqProperties
  <2> HIDE DEF a
  <2>3. p - 1 + 1 = p /\ p >= 0 /\ \A i \in 1 .. p : 1 + i - 1 = i
    BY <1>3
  <2> QED
    BY <2>1, <2>2, <2>3
<1>7. b \in Seq(S) /\ Len(b) = Len(s) - p /\ \A i \in 1 .. Len(s) - p : b[i] = s[p + i]
  <2>1. p + 1 \in Int /\ Len(s) \in Int /\ \A i \in p + 1 .. Len(s) : s[i] \in S
    BY <1>1, <1>3
  <2>2. /\ b \in Seq(S) /\ Len(b) = (IF p + 1 <= Len(s) THEN Len(s) - (p + 1) + 1 ELSE 0)
        /\ \A i \in 1 .. Len(s) - (p + 1) + 1 : b[i] = s[(p + 1) + i - 1]
    BY <2>1, SubSeqProperties
  <2> HIDE DEF b
  <2>3. /\ Len(s) - (p + 1) + 1 = Len(s) - p /\ p <= Len(s) /\ p \in Int
        /\ \A i \in 1 .. Len(s) - p : (p + 1) + i - 1 = p + i
    BY <1>1, <1>3
  <2>4. Len(b) = Len(s) - p
    <3>1. p + 1 <= Len(s) \/ Len(s) - p = 0
      <4>1. p \in 0 .. Len(s) /\ Len(s) \in Nat
        BY <1>1, <1>3
      <4> QED
        BY <4>1
    <3>2. p + 1 <= Len(s) => Len(b) = Len(s) - p
      BY <2>2, <2>3
    <3>3. ~(p + 1 <= Len(s)) => Len(b) = 0
      BY <2>2
    <3> QED
      BY <3>1, <3>2, <3>3
  <2> QED
    BY <2>2, <2>3, <2>4
<1> HIDE DEF a, b
<1>8. /\ a \o <<m>> \in Seq(S) /\ Len(a \o <<m>>) = p + 1
      /\ \A i \in 1 .. p + 1 : (a \o <<m>>)[i] = IF i <= p THEN s[i] ELSE m
  <2>1. <<m>> \in Seq(S) /\ Len(<<m>>) = 1 /\ <<m>>[1] = m
    OBVIOUS
  <2>2. /\ a \o <<m>> \in Seq(S) /\ Len(a \o <<m>>) = p + 1
        /\ \A i \in 1 .. p + 1 : (a \o <<m>>)[i] = IF i <= p THEN a[i] ELSE <<m>>[i - p]
    BY <1>6, <2>1, ConcatProperties
  <2>3. \A i \in 1 .. p + 1 : i <= p \/ (i - p = 1 /\ ~(i <= p))
    BY <1>3
  <2>4. \A i \in 1 .. p + 1 : i <= p => i \in 1 .. p
    BY <1>3
  <2> QED
    BY <1>6, <2>1, <2>2, <2>3, <2>4
<1> DEFINE c == a \o <<m>>
<1>9. /\ c \o b \in Seq(S) /\ Len(c \o b) = (p + 1) + (Len(s) - p)
      /\ \A i \in 1 .. (p + 1) + (Len(s) - p) : (c \o b)[i] = IF i <= p + 1 THEN c[i] ELSE b[i - (p + 1)]
  <2>1. c \in Seq(S) /\ Len(c) = p + 1
    BY <1>8
  <2> HIDE DEF c
  <2>2. /\ c \o b \in Seq(S) /\ Len(c \o b) = Len(c) + Len(b)
        /\ \A i \in 1 .. Len(c) + Len(b) : (c \o b)[i] = IF i <= Len(c) THEN c[i] ELSE b[i - Len(c)]
    BY <1>7, <2>1, ConcatProperties
  <2>3. Len(b) = Len(s) - p
    BY <1>7
  <2> QED
    BY <2>1, <2>2, <2>3, Zenon
<1>10. ASSUME NEW i \in 1 .. Len(s) + 1
       PROVE  (c \o b)[i] = IF i <= p THEN s[i] ELSE IF i = p + 1 THEN m ELSE s[i - 1]
  <2>1. (p + 1) + (Len(s) - p) = Len(s) + 1 /\ p \in Int
    BY <1>1, <1>3
  <2>2. (c \o b)[i] = IF i <= p + 1 THEN c[i] ELSE b[i - (p + 1)]
    BY <1>9, <2>1
  <2>3. CASE i <= p + 1
    <3>1. i \in 1 .. p + 1 /\ (i <= p \/ i = p + 1) /\ (i = p + 1 => ~(i <= p))
      BY <1>3, <2>3
    <3> QED
      BY <1>8, <2>2, <2>3, <3>1
  <2>4. CASE ~(i <= p + 1)
    <3>1. i - (p + 1) \in 1 .. Len(s) - p /\ p + (i - (p + 1)) = i - 1 /\ ~(i <= p) /\ i # p + 1
      BY <1>1, <1>3, <2>4
    <3> QED
      BY <1>7, <2>2, <2>4, <3>1
  <2> QED
    BY <2>3, <2>4
<1>11. (p + 1) + (Len(s) - p) = Len(s) + 1
  BY <1>1, <1>3
<1>12. Placed(z, S, s, m, p, c \o b)
  BY <1>5, <1>9, <1>10, <1>11, Zenon DEF Placed
<1> QED
  BY <1>3, <1>4, <1>12

\* An insertion keeps the order.
LEMMA InsertedSorted ==
  ASSUME NEW z, NEW S, Numbered(z, S), NEW s \in Seq(S), IsSorted(z, s),
         NEW m \in S, \A i \in 1 .. Len(s) : s[i] # m
  PROVE  IsSorted(z, Inserted(z, s, m))
<1> DEFINE t == Inserted(z, s, m)
<1>0. PICK p \in 0 .. Len(s) : Placed(z, S, s, m, p, t)
  BY InsertedIs
<1>1. /\ p > 0 => ~Before(z, m, s[p])
      /\ \A j \in p + 1 .. Len(s) : Before(z, m, s[j])
      /\ t \in Seq(S) /\ Len(t) = Len(s) + 1
      /\ \A i \in 1 .. Len(s) + 1 : t[i] = IF i <= p THEN s[i] ELSE IF i = p + 1 THEN m ELSE s[i - 1]
  BY <1>0, Zenon DEF Placed
<1>2. /\ Len(s) \in Nat /\ DOMAIN s = 1 .. Len(s) /\ \A i \in 1 .. Len(s) : s[i] \in S
  OBVIOUS
<1> HIDE DEF t
<1>3. DOMAIN t = 1 .. Len(s) + 1
  BY <1>1
<1>4. \A i, j \in 1 .. Len(s) : i < j => Before(z, s[i], s[j])
  BY <1>2 DEF IsSorted
<1>5. ASSUME NEW i \in 1 .. p PROVE Before(z, s[i], m)
  <2>1. p > 0 /\ p \in 1 .. Len(s) /\ i \in 1 .. Len(s) /\ (i = p \/ i < p)
    BY <1>1, <1>2
  <2>2. s[p] \in S /\ s[i] \in S /\ s[p] # m /\ ~Before(z, m, s[p])
    BY <1>1, <1>2, <2>1
  <2>3. Before(z, s[p], m)
    BY <2>2, BeforeTotal
  <2>4. CASE i = p
    BY <2>3, <2>4
  <2>5. CASE i < p
    <3>1. Before(z, s[i], s[p])
      BY <1>4, <2>1, <2>5
    <3> QED
      BY <2>2, <2>3, <3>1, BeforeTransitive
  <2> QED
    BY <2>1, <2>4, <2>5
<1>6. ASSUME NEW i \in 1 .. Len(s) + 1, NEW j \in 1 .. Len(s) + 1, i < j
      PROVE  Before(z, t[i], t[j])
  <2>1. CASE j <= p
    <3>1. i <= p /\ i \in 1 .. Len(s) /\ j \in 1 .. Len(s)
      BY <1>2, <1>6, <2>1
    <3> QED
      BY <1>1, <1>4, <1>6, <2>1, <3>1
  <2>2. CASE j = p + 1
    <3>1. i \in 1 .. p /\ i <= p /\ ~(j <= p)
      BY <1>2, <1>6, <2>2
    <3>2. t[i] = s[i] /\ t[j] = m
      BY <1>1, <2>2, <3>1
    <3> QED
      BY <1>5, <3>1, <3>2
  <2>3. CASE j > p + 1
    <3>1. ~(j <= p) /\ j # p + 1 /\ j - 1 \in 1 .. Len(s) /\ j - 1 \in p + 1 .. Len(s)
      BY <1>2, <2>3
    <3>2. t[j] = s[j - 1]
      BY <1>1, <3>1
    <3>3. CASE i <= p
      <4>1. i \in 1 .. Len(s) /\ i < j - 1
        BY <1>2, <2>3, <3>3
      <4>2. t[i] = s[i]
        BY <1>1, <3>3
      <4> QED
        BY <1>4, <3>1, <3>2, <4>1, <4>2
    <3>4. CASE i = p + 1
      <4>1. ~(i <= p)
        BY <3>4
      <4>2. t[i] = m
        BY <1>1, <3>4, <4>1
      <4> QED
        BY <1>1, <3>1, <3>2, <4>2
    <3>5. CASE i > p + 1
      <4>1. ~(i <= p) /\ i # p + 1 /\ i - 1 \in 1 .. Len(s) /\ i - 1 < j - 1
        BY <1>2, <1>6, <3>5
      <4>2. t[i] = s[i - 1]
        BY <1>1, <4>1
      <4> QED
        BY <1>4, <3>1, <3>2, <4>1, <4>2
    <3> QED
      BY <3>3, <3>4, <3>5
  <2> QED
    BY <2>1, <2>2, <2>3
<1>7. IsSorted(z, t)
  BY <1>3, <1>6 DEF IsSorted
<1> QED
  BY <1>7 DEF t

\* The first n elements of s.
First(s, n) == {s[i] : i \in 1 .. n}

\* The elements are the node and what was there.
LEMMA InsertedElements ==
  ASSUME NEW z, NEW S, NEW s \in Seq(S), NEW m \in S
  PROVE  First(Inserted(z, s, m), Len(s) + 1) = First(s, Len(s)) \union {m}
<1> DEFINE t == Inserted(z, s, m)
<1>0. PICK p \in 0 .. Len(s) : Placed(z, S, s, m, p, t)
  BY InsertedIs
<1>1. /\ p > 0 => ~Before(z, m, s[p])
      /\ \A j \in p + 1 .. Len(s) : Before(z, m, s[j])
      /\ t \in Seq(S) /\ Len(t) = Len(s) + 1
      /\ \A i \in 1 .. Len(s) + 1 : t[i] = IF i <= p THEN s[i] ELSE IF i = p + 1 THEN m ELSE s[i - 1]
  BY <1>0, Zenon DEF Placed
<1>2. Len(s) \in Nat
  OBVIOUS
<1> HIDE DEF t
<1>3. ASSUME NEW i \in 1 .. Len(s) + 1 PROVE t[i] = m \/ \E j \in 1 .. Len(s) : t[i] = s[j]
  <2>1. i <= p => i \in 1 .. Len(s)
    BY <1>2
  <2>2. ~(i <= p) /\ i # p + 1 => i - 1 \in 1 .. Len(s)
    BY <1>2
  <2> QED
    BY <1>1, <2>1, <2>2
<1>4. p + 1 \in 1 .. Len(s) + 1 /\ ~(p + 1 <= p)
  BY <1>2
<1>5. t[p + 1] = m
  BY <1>1, <1>4
<1>6. ASSUME NEW j \in 1 .. Len(s) PROVE \E i \in 1 .. Len(s) + 1 : t[i] = s[j]
  <2>1. CASE j <= p
    <3>1. j \in 1 .. Len(s) + 1
      BY <1>2
    <3> QED
      BY <1>1, <2>1, <3>1
  <2>2. CASE ~(j <= p)
    <3>1. j + 1 \in 1 .. Len(s) + 1 /\ ~(j + 1 <= p) /\ j + 1 # p + 1 /\ (j + 1) - 1 = j
      BY <1>2, <2>2
    <3>2. t[j + 1] = s[(j + 1) - 1]
      BY <1>1, <3>1
    <3> QED
      BY <3>1, <3>2
  <2> QED
    BY <2>1, <2>2
<1>7. \A e : (\E i \in 1 .. Len(s) + 1 : t[i] = e) <=> e = m \/ \E i \in 1 .. Len(s) : s[i] = e
  BY <1>3, <1>4, <1>5, <1>6
<1> QED
  BY <1>7 DEF t, First

\* The sequences that sort.Slice goes through.
LEMMA SortedIs ==
  ASSUME NEW z, NEW S, NEW p \in Seq(S)
  PROVE  /\ Sorted(z, p)[0] = <<>>
         /\ \A n \in 1 .. Len(p) : Sorted(z, p)[n] = Inserted(z, Sorted(z, p)[n - 1], p[n])
<1> DEFINE F    == [n \in 1 .. Len(p) |-> [s \in Seq(S) |-> Inserted(z, s, p[n])]]
           G(h) == [n \in 0 .. Len(p) |-> IF n = 0 THEN <<>> ELSE Inserted(z, h[n - 1], p[n])]
<1>1. Len(p) \in Nat /\ \A n \in 1 .. Len(p) : p[n] \in S
  OBVIOUS
<1>2. F \in [1 .. Len(p) -> [Seq(S) -> Seq(S)]]
  <2>1. ASSUME NEW n \in 1 .. Len(p), NEW s \in Seq(S) PROVE Inserted(z, s, p[n]) \in Seq(S)
    <3>1. p[n] \in S
      BY <1>1
    <3>2. PICK k \in 0 .. Len(s) : Placed(z, S, s, p[n], k, Inserted(z, s, p[n]))
      BY <3>1, InsertedIs
    <3> QED
      BY <3>2 DEF Placed
  <2> QED
    BY <2>1
<1>3. PICK h : Recurs(Seq(S), <<>>, F, Len(p), h)
  <2>1. <<>> \in Seq(S)
    OBVIOUS
  <2> HIDE DEF F
  <2> QED
    BY <1>1, <1>2, <2>1, RecursionExists
<1>4. h = G(h)
  <2>1. h \in [0 .. Len(p) -> Seq(S)] /\ h[0] = <<>> /\ \A n \in 1 .. Len(p) : h[n] = F[n][h[n - 1]]
    BY <1>3 DEF Recurs
  <2>2. ASSUME NEW n \in 0 .. Len(p) PROVE h[n] = IF n = 0 THEN <<>> ELSE Inserted(z, h[n - 1], p[n])
    <3>1. CASE n = 0
      BY <2>1, <3>1
    <3>2. CASE n # 0
      <4>1. n \in 1 .. Len(p) /\ n - 1 \in 0 .. Len(p)
        BY <1>1, <3>2
      <4>2. h[n - 1] \in Seq(S) /\ h[n] = F[n][h[n - 1]]
        BY <2>1, <4>1
      <4>3. F[n][h[n - 1]] = Inserted(z, h[n - 1], p[n])
        BY <4>1, <4>2
      <4> QED
        BY <3>2, <4>2, <4>3
    <3> QED
      BY <3>1, <3>2
  <2>3. h = [n \in 0 .. Len(p) |-> h[n]]
    BY <2>1
  <2> QED
    BY <2>2, <2>3
<1>5. Sorted(z, p) = G(Sorted(z, p))
  <2>1. Sorted(z, p) = CHOOSE x : x = G(x)
    BY DEF Sorted
  <2>2. \E x : x = G(x)
    BY <1>4
  <2> HIDE DEF G
  <2> QED
    BY <2>1, <2>2
<1> DEFINE g == Sorted(z, p)
<1>6. \A n \in 0 .. Len(p) : g[n] = IF n = 0 THEN <<>> ELSE Inserted(z, g[n - 1], p[n])
  BY <1>5
<1> HIDE DEF g
<1>7. g[0] = <<>> /\ \A n \in 1 .. Len(p) : n \in 0 .. Len(p) /\ n # 0
  BY <1>1, <1>6
<1> QED
  BY <1>6, <1>7 DEF g

\* The first n nodes of p, in order.
InOrder(z, S, p, n, s) ==
  /\ s \in Seq(S) /\ Len(s) = n /\ IsSorted(z, s)
  /\ First(s, n) = First(p, n)

LEMMA SortedInOrder ==
  ASSUME NEW z, NEW S, Numbered(z, S), NEW p \in Seq(S),
         \A i, j \in 1 .. Len(p) : p[i] = p[j] => i = j
  PROVE  InOrder(z, S, p, Len(p), Sorted(z, p)[Len(p)])
<1> DEFINE g == Sorted(z, p)
           T == {n \in 0 .. Len(p) : ~InOrder(z, S, p, n, g[n])}
<1>1. Len(p) \in Nat /\ \A n \in 1 .. Len(p) : p[n] \in S
  OBVIOUS
<1>2. g[0] = <<>> /\ \A n \in 1 .. Len(p) : g[n] = Inserted(z, g[n - 1], p[n])
  BY SortedIs
<1> HIDE DEF g
<1>3. ASSUME T # {} PROVE FALSE
  <2>1. PICK n \in T : n - 1 \notin T
    <3>1. T \in SUBSET Nat
      BY <1>1
    <3> HIDE DEF T
    <3> QED
      BY <1>3, <3>1, FirstNumber
  <2>2. CASE n = 0
    <3>1. <<>> \in Seq(S) /\ Len(<<>>) = 0 /\ DOMAIN <<>> = {} /\ 1 .. 0 = {}
      OBVIOUS
    <3>2. InOrder(z, S, p, 0, <<>>)
      BY <3>1 DEF InOrder, IsSorted, First
    <3> QED
      BY <1>2, <2>1, <2>2, <3>2
  <2>3. CASE n # 0
    <3> DEFINE s == g[n - 1]
               t == Inserted(z, s, p[n])
    <3>1. n \in 1 .. Len(p) /\ n - 1 \in 0 .. Len(p) /\ (n - 1) + 1 = n /\ p[n] \in S
      BY <1>1, <2>1, <2>3
    <3>2. InOrder(z, S, p, n - 1, s)
      BY <2>1, <3>1
    <3>3. g[n] = t
      BY <1>2, <3>1
    <3> HIDE DEF s
    <3>4. s \in Seq(S) /\ Len(s) = n - 1 /\ IsSorted(z, s) /\ First(s, n - 1) = First(p, n - 1)
      BY <3>2 DEF InOrder
    <3>5. p[n] \notin First(p, n - 1)
      BY <1>1, <3>1 DEF First
    <3>6. \A i \in 1 .. Len(s) : s[i] # p[n]
      BY <3>4, <3>5 DEF First
    <3>7. IsSorted(z, t)
      BY <3>1, <3>4, <3>6, InsertedSorted
    <3>8. t \in Seq(S) /\ Len(t) = n
      <4>1. PICK k \in 0 .. Len(s) : Placed(z, S, s, p[n], k, t)
        BY <3>1, <3>4, InsertedIs
      <4> QED
        BY <3>1, <3>4, <4>1 DEF Placed
    <3>9. First(t, n) = First(s, n - 1) \union {p[n]}
      <4>1. First(t, Len(s) + 1) = First(s, Len(s)) \union {p[n]}
        BY <3>1, <3>4, InsertedElements
      <4>2. Len(s) + 1 = n /\ Len(s) = n - 1
        BY <3>1, <3>4
      <4> HIDE DEF t
      <4> QED
        BY <4>1, <4>2
    <3> HIDE DEF t
    <3>10. First(p, n) = First(p, n - 1) \union {p[n]}
      <4>1. n \in 1 .. n /\ \A i \in 1 .. n - 1 : i \in 1 .. n
        BY <3>1
      <4>2. \A i \in 1 .. n : i = n \/ i \in 1 .. n - 1
        BY <3>1
      <4> QED
        BY <4>1, <4>2 DEF First
    <3>11. InOrder(z, S, p, n, t)
      BY <3>4, <3>7, <3>8, <3>9, <3>10 DEF InOrder
    <3> QED
      BY <2>1, <3>3, <3>11
  <2> QED
    BY <2>2, <2>3
<1>4. Len(p) \in 0 .. Len(p)
  BY <1>1
<1> QED
  BY <1>3, <1>4 DEF g

\* Whatever order the nodes come in, all of them are in the result, in the order of Before.
LEMMA NodesAreSorted ==
  ASSUME NEW z, IsFiniteSet(InSet(z)), Numbered(z, InSet(z)), NEW s \in SortedZSetNodes(z)
  PROVE  /\ s \in Seq(InSet(z)) /\ Len(s) = Cardinality(InSet(z)) /\ IsSorted(z, s)
         /\ \A e \in InSet(z) : \E i \in 1 .. Len(s) : s[i] = e
<1> DEFINE S == InSet(z)
           N == Cardinality(S)
<1>1. N \in Nat
  BY FS_CardinalityType
<1>2. PICK p \in Orders(S) : s = Sorted(z, p)[Len(p)]
  BY DEF SortedZSetNodes
<1> HIDE DEF S, N
<1>3. p \in [1 .. N -> S] /\ \A i, j \in 1 .. N : p[i] = p[j] => i = j
  BY <1>2 DEF Orders, N
<1>4. p \in Seq(S) /\ Len(p) = N
  BY <1>1, <1>3
<1>5. InOrder(z, S, p, N, s)
  BY <1>2, <1>3, <1>4, SortedInOrder DEF S
<1>6. \A e \in S : \E i \in 1 .. N : p[i] = e
  <2>1. p \in Injection(1 .. N, S)
    BY <1>3 DEF Injection, IsInjective
  <2>2. IsFiniteSet(S) /\ Cardinality(1 .. N) = N
    BY <1>1, FS_Interval DEF S
  <2>3. p \in Surjection(1 .. N, S)
    BY <2>1, <2>2, FS_Injection DEF N
  <2> QED
    BY <2>3 DEF Surjection
<1>7. \A e \in S : \E i \in 1 .. N : s[i] = e
  BY <1>5, <1>6 DEF InOrder, First
<1> QED
  BY <1>5, <1>7 DEF InOrder, S, N

\* There is one such sequence only.
LEMMA SortedUnique ==
  ASSUME NEW z, NEW S, Numbered(z, S), NEW s \in Seq(S), NEW t \in Seq(S), Len(s) = Len(t),
         IsSorted(z, s), IsSorted(z, t),
         \A e \in S : \E i \in 1 .. Len(s) : s[i] = e,
         \A e \in S : \E i \in 1 .. Len(t) : t[i] = e
  PROVE  s = t
<1> DEFINE N == Len(s)
           T == {i \in 1 .. N : s[i] # t[i]}
<1>1. /\ N \in Nat /\ N = Len(t) /\ DOMAIN s = 1 .. N /\ DOMAIN t = 1 .. N
      /\ \A i \in 1 .. N : s[i] \in S /\ t[i] \in S
  OBVIOUS
<1>2. \A i, j \in 1 .. N : i < j => Before(z, s[i], s[j]) /\ Before(z, t[i], t[j])
  BY <1>1 DEF IsSorted
<1>3. \A m \in S, n \in S : ~(Before(z, m, n) /\ Before(z, n, m))
  <2> SUFFICES ASSUME NEW m \in S, NEW n \in S, Before(z, m, n), Before(z, n, m) PROVE FALSE
    OBVIOUS
  <2>1. Before(z, m, m) /\ m \in Nat
    BY BeforeTransitive DEF Numbered
  <2> QED
    BY <2>1, BeforeIrreflexive
<1>4. ASSUME T # {} PROVE FALSE
  <2>1. PICK i \in T : \A j \in T : i <= j
    <3>1. T \in SUBSET Nat
      BY <1>1
    <3> HIDE DEF T
    <3> QED
      BY <1>4, <3>1, LeastNumber
  <2>2. i \in 1 .. N /\ s[i] # t[i] /\ s[i] \in S /\ t[i] \in S
    BY <1>1, <2>1
  <2>3. PICK j \in 1 .. N : t[j] = s[i]
    BY <1>1, <2>2
  <2>4. PICK k \in 1 .. N : s[k] = t[i]
    BY <1>1, <2>2
  <2>5. \A l \in 1 .. N : l < i => s[l] = t[l]
    BY <1>1, <2>1
  <2>6. j > i
    <3>1. j < i => s[j] = s[i]
      BY <2>3, <2>5
    <3>2. j < i => Before(z, s[j], s[i])
      BY <1>2, <2>2
    <3>3. ~(j < i)
      BY <1>3, <2>2, <3>1, <3>2
    <3>4. j # i /\ j \in Nat /\ i \in Nat
      BY <1>1, <2>2, <2>3
    <3> QED
      BY <3>3, <3>4
  <2>7. k > i
    <3>1. k < i => t[k] = t[i]
      BY <2>4, <2>5
    <3>2. k < i => Before(z, t[k], t[i])
      BY <1>2, <2>2
    <3>3. ~(k < i)
      BY <1>3, <2>2, <3>1, <3>2
    <3>4. k # i /\ k \in Nat /\ i \in Nat
      BY <1>1, <2>2, <2>4
    <3> QED
      BY <3>3, <3>4
  <2>8. Before(z, t[i], s[i]) /\ Before(z, s[i], t[i])
    BY <1>2, <2>2, <2>3, <2>4, <2>6, <2>7
  <2> QED
    BY <1>3, <2>2, <2>8
<1>5. \A i \in 1 .. N : s[i] = t[i]
  BY <1>4
<1> QED
  BY <1>1, <1>5, SeqEqual

\* sort.Slice gives the same for every order of the map.
LEMMA OneResult ==
  ASSUME NEW z, IsFiniteSet(InSet(z)), Numbered(z, InSet(z))
  PROVE  Cardinality(SortedZSetNodes(z)) = 1
<1> DEFINE S == InSet(z)
           N == Cardinality(S)
           R == SortedZSetNodes(z)
<1>1. N \in Nat /\ ExistsBijection(1 .. N, S)
  BY FS_CardinalityType
<1>2. PICK p \in Bijection(1 .. N, S) : TRUE
  BY <1>1 DEF ExistsBijection
<1>3. p \in Orders(S)
  BY <1>2 DEF Bijection, Injection, IsInjective, Orders
<1>4. PICK s : s \in R
  BY <1>3 DEF SortedZSetNodes
<1>5. ASSUME NEW t \in R PROVE s = t
  <2>1. /\ s \in Seq(S) /\ Len(s) = N /\ IsSorted(z, s)
        /\ \A e \in S : \E i \in 1 .. Len(s) : s[i] = e
    BY <1>4, NodesAreSorted
  <2>2. /\ t \in Seq(S) /\ Len(t) = N /\ IsSorted(z, t)
        /\ \A e \in S : \E i \in 1 .. Len(t) : t[i] = e
    BY <1>5, NodesAreSorted
  <2>3. Len(s) = Len(t)
    BY <2>1, <2>2
  <2> HIDE DEF N, R
  <2> QED
    BY <2>1, <2>2, <2>3, SortedUnique
<1>6. R = {s}
  <2> HIDE DEF R
  <2> QED
    BY <1>4, <1>5
<1> QED
  BY <1>6, FS_Singleton

\* Where a range from the first node to i ends, and the one after it begins.
Cut(n, i) == IF i >= n THEN n ELSE IF i >= 0 THEN i + 1 ELSE IF n + i + 1 >= 0 THEN n + i + 1 ELSE 0

LEMMA RangesSplit ==
  ASSUME NEW S, NEW s \in Seq(S), NEW i \in Int, i # -1
  PROVE  ZRange(s, 0, i) \o ZRange(s, i + 1, -1) = s
<1> DEFINE n == Len(s)  k == Cut(n, i)
<1>1. n \in Nat /\ k \in 0 .. n
  BY DEF Cut
<1>2. ZRange(s, 0, i) = SubSeq(s, 1, k)
  <2> DEFINE last == IF i < 0 THEN n + i ELSE i
             to   == IF last >= n THEN n - 1 ELSE last
  <2>1. ZRange(s, 0, i) = IF 0 > to \/ 0 >= n THEN <<>> ELSE SubSeq(s, 0 + 1, to + 1)
    BY DEF ZRange
  <2>2. CASE 0 > to \/ 0 >= n
    <3>1. k = 0
      BY <1>1, <2>2 DEF Cut
    <3>2. SubSeq(s, 1, 0) = <<>>
      BY SubSeqEmpty
    <3> QED
      BY <2>1, <2>2, <3>1, <3>2
  <2>3. CASE ~(0 > to \/ 0 >= n)
    <3>1. to + 1 = k /\ 0 + 1 = 1
      BY <1>1, <2>3 DEF Cut
    <3> HIDE DEF to, k
    <3> QED
      BY <2>1, <2>3, <3>1
  <2> QED
    BY <2>2, <2>3
<1>3. ZRange(s, i + 1, -1) = SubSeq(s, k + 1, n)
  <2> DEFINE first == IF i + 1 < 0 THEN n + (i + 1) ELSE i + 1
             from  == IF first < 0 THEN 0 ELSE first
  <2>1. ZRange(s, i + 1, -1) = IF from > n - 1 \/ from >= n THEN <<>> ELSE SubSeq(s, from + 1, (n - 1) + 1)
    <3>1. -1 < 0 /\ n + (-1) = n - 1 /\ ~(n - 1 >= n)
      BY <1>1
    <3> QED
      BY <3>1 DEF ZRange
  <2>2. CASE from > n - 1 \/ from >= n
    <3>1. k = n
      BY <1>1, <2>2 DEF Cut
    <3>2. SubSeq(s, n + 1, n) = <<>>
      BY <1>1, SubSeqEmpty
    <3> QED
      BY <2>1, <2>2, <3>1, <3>2
  <2>3. CASE ~(from > n - 1 \/ from >= n)
    <3>1. from = k /\ (n - 1) + 1 = n
      BY <1>1, <2>3 DEF Cut
    <3> HIDE DEF from, k
    <3> QED
      BY <2>1, <2>3, <3>1
  <2> QED
    BY <2>2, <2>3
<1> HIDE DEF k
<1>4. SubSeq(s, 1, k) \o SubSeq(s, k + 1, n) = SubSeq(s, 1, n)
  <2>1. 1 \in 1 .. Len(s) + 1 /\ k \in 1 - 1 .. Len(s) /\ n \in k .. Len(s)
    BY <1>1
  <2> QED
    BY <2>1, ConcatAdjacentSubSeq
<1> QED
  BY <1>2, <1>3, <1>4, SubSeqFull

\* The rank of a member is the place at which a range of one has it.
LEMMA RankFinds ==
  ASSUME NEW S, NEW s \in Seq(S), NEW m,
         \A i, j \in 1 .. Len(s) : s[i] = s[j] => i = j
  PROVE  /\ (\E i \in 1 .. Len(s) : s[i] = m) => ZRange(s, ZRank(s, m), ZRank(s, m)) = <<m>>
         /\ ~(\E i \in 1 .. Len(s) : s[i] = m) => ZRank(s, m) = -1
<1>1. Len(s) \in Nat /\ DOMAIN s = 1 .. Len(s) /\ \A i \in 1 .. Len(s) : s[i] \in S
  OBVIOUS
<1>2. ASSUME NEW i \in 1 .. Len(s), s[i] = m
      PROVE  ZRange(s, ZRank(s, m), ZRank(s, m)) = <<m>>
  <2>1. (CHOOSE j \in DOMAIN s : s[j] = m) = i
    BY <1>1, <1>2
  <2>2. ZRank(s, m) = i - 1
    BY <1>1, <1>2, <2>1 DEF ZRank
  <2>3. /\ ~(i - 1 < 0) /\ ~(i - 1 >= Len(s)) /\ ~(i - 1 > i - 1) /\ (i - 1) + 1 = i
    BY <1>1
  <2>4. ZRange(s, i - 1, i - 1) = SubSeq(s, i, i)
    BY <2>3 DEF ZRange
  <2>5. /\ SubSeq(s, i, i) \in Seq(S) /\ Len(SubSeq(s, i, i)) = 1 /\ SubSeq(s, i, i)[1] = m
    <3>1. i \in Int /\ \A j \in i .. i : s[j] \in S
      BY <1>1
    <3>2. /\ SubSeq(s, i, i) \in Seq(S) /\ Len(SubSeq(s, i, i)) = (IF i <= i THEN i - i + 1 ELSE 0)
          /\ \A j \in 1 .. i - i + 1 : SubSeq(s, i, i)[j] = s[i + j - 1]
      BY <3>1, SubSeqProperties
    <3>3. i <= i /\ i - i + 1 = 1 /\ i + 1 - 1 = i /\ 1 \in 1 .. 1
      OBVIOUS
    <3> QED
      BY <1>2, <3>2, <3>3
  <2>6. <<m>> \in Seq(S) /\ Len(<<m>>) = 1 /\ <<m>>[1] = m
    BY <1>1, <1>2
  <2>7. SubSeq(s, i, i) = <<m>>
    <3> DEFINE a == SubSeq(s, i, i)
               b == <<m>>
    <3>1. a \in Seq(S) /\ b \in Seq(S) /\ Len(a) = Len(b) /\ \A j \in 1 .. Len(a) : a[j] = b[j]
      BY <2>5, <2>6
    <3> HIDE DEF a, b
    <3>2. a = b
      BY <3>1, SeqEqual
    <3> QED
      BY <3>2 DEF a, b
  <2> QED
    BY <2>2, <2>4, <2>7
<1>3. ~(\E i \in 1 .. Len(s) : s[i] = m) => ZRank(s, m) = -1
  BY <1>1 DEF ZRank
<1> QED
  BY <1>2, <1>3

-------------------------------------------------------------------------------
(* The invariant of SortedSets.                                            *)

\* What ZADD has gone past was parsed, and each member of it was stored some last time.
Parsed(c) ==
  Runs(c, "ZADD") =>
    /\ \A i \in 1 .. Done(c) : call[c].args[i].score # Bad
    /\ \A m \in Written(c) : \E i \in 1 .. Done(c) : IsLast(call[c].args, Done(c), m, i)

\* Nobody has changed the score of a member that a ZADD has for its own.
Owns(c) ==
  Runs(c, "ZADD") =>
    \A m \in own[c] :
      m \in Written(c) /\ zset[K(c)][m] = LastScore(call[c].args, Done(c), m)

\* A score with a cell was made from it.
Scored ==
  \A k \in Keys, m \in Members :
    cell[k][m] # None =>
      /\ cell[k][m] \in [lat : SUBSET (0 .. GridBits), lon : SUBSET (0 .. GridBits)]
      /\ zset[k][m] = Float(interleave(cell[k][m].lat, cell[k][m].lon))

Inv ==
  /\ TypeOK
  /\ \A c \in Conns : Parsed(c) /\ Owns(c)
  /\ LogMatchesStore
  /\ Scored

LEMMA CallFacts ==
  ASSUME NEW cl \in Calls
  PROVE  /\ cl.key \in Keys /\ Len(cl.args) \in Nat /\ DOMAIN cl.args = 1 .. Len(cl.args)
         /\ \A i \in 1 .. Len(cl.args) :
              /\ cl.args[i].member \in Members
              /\ cl.op = "ZADD" => cl.args[i].score \in {Bad} \union Scores
              /\ cl.op = "GEOADD" => cl.args[i].longitude \in Int /\ cl.args[i].latitude \in Int
<1> DEFINE S == {cl.args[i] : i \in DOMAIN cl.args}
<1>1. cl.args \in Seq(S)
  BY CallsAssumption
<1> HIDE DEF S
<1>2. Len(cl.args) \in Nat /\ DOMAIN cl.args = 1 .. Len(cl.args)
  BY <1>1
<1> QED
  BY <1>2, CallsAssumption

\* The last of the arguments that store a member is unique.
LEMMA LastScoreIs ==
  ASSUME NEW args, NEW n \in Nat, NEW m, NEW i \in 1 .. n, IsLast(args, n, m, i)
  PROVE  LastScore(args, n, m) = args[i].score
<1>1. ASSUME NEW j \in 1 .. n, IsLast(args, n, m, j)
      PROVE  j = i
  BY <1>1 DEF IsLast
<1> QED
  BY <1>1 DEF LastScore

\* One more argument.
LEMMA LastScoreNext ==
  ASSUME NEW args, NEW n \in Nat, NEW m, args[n + 1].member = m
  PROVE  IsLast(args, n + 1, m, n + 1) /\ LastScore(args, n + 1, m) = args[n + 1].score
<1> IsLast(args, n + 1, m, n + 1)
  BY DEF IsLast
<1> QED
  BY LastScoreIs

LEMMA LastScoreKept ==
  ASSUME NEW args, NEW n \in Nat, NEW m, NEW i \in 1 .. n, IsLast(args, n, m, i),
         args[n + 1].member # m
  PROVE  /\ IsLast(args, n + 1, m, i)
         /\ LastScore(args, n + 1, m) = LastScore(args, n, m)
<1> IsLast(args, n + 1, m, i)
  BY DEF IsLast
<1> QED
  BY LastScoreIs

\* A score that GEOADD makes has at most 54 bits.
LEMMA GeoScore ==
  ASSUME NEW latitude \in Int, NEW longitude \in Int
  PROVE  /\ Grid(latitude) \in SUBSET (0 .. GridBits) /\ Grid(longitude) \in SUBSET (0 .. GridBits)
         /\ Float(encode(latitude, longitude)) \in SUBSET (0 .. 53)
<1>1. Grid(latitude) \in SUBSET (0 .. 26) /\ Grid(longitude) \in SUBSET (0 .. 26)
  BY DEF Grid, GridBits
<1>2. encode(latitude, longitude) \in SUBSET (0 .. 53)
  <2>1. encode(latitude, longitude)
          = {2 * b : b \in Grid(latitude)} \union {2 * b + 1 : b \in Grid(longitude)}
    BY <1>1, Interleaved DEF encode
  <2> QED
    BY <1>1, <2>1
<1> QED
  BY <1>1, <1>2 DEF Float, GridBits

LEMMA InvInit == Init => Inv
BY BoundAssumption, NoneAssumption DEF Init, Inv, TypeOK, Nobody, Parsed, Owns, LogMatchesStore, Scored, Runs

\* What a step leaves alone keeps its type; a handler that returns forgets its variables.
LEMMA EndTyped ==
  ASSUME TypeOK, NEW c \in Conns, End(c)
  PROVE  /\ call' \in [Conns -> Calls \union {None}] /\ next' \in [Conns -> Nat \ {0}]
         /\ added' \in [Conns -> Nat] /\ calls' \in Nat /\ own' \in [Conns -> SUBSET Members]
         /\ \A d \in Conns :
              /\ call'[d] # None => next'[d] <= Len(call'[d].args) + 1
              /\ (call'[d] = None \/ Runs(d, "ZREM")')
                   => next'[d] = 1 /\ added'[d] = 0 /\ own'[d] = {}
BY DEF TypeOK, End, Runs

LEMMA PutTyped ==
  ASSUME TypeOK, NEW c \in Conns, call[c] # None, call[c].op # "ZREM", More(c),
         NEW m \in Members, NEW score \in Scores,
         NEW grid \in {None} \union [lat : SUBSET (0 .. GridBits), lon : SUBSET (0 .. GridBits)],
         Put(c, m, score, grid), skew' \in SUBSET (Keys \X Members)
  PROVE  TypeOK'
<1> call[c] \in Calls /\ K(c) \in Keys /\ Len(call[c].args) \in Nat
  BY CallFacts DEF TypeOK, K
<1>1. zset' \in [Keys -> [Members -> {None} \union Scores]]
  BY DEF TypeOK, Put
<1>2. cell' \in [Keys -> [Members -> {None} \union [lat : SUBSET (0 .. GridBits), lon : SUBSET (0 .. GridBits)]]]
  BY DEF TypeOK, Put
<1>3. added' \in [Conns -> Nat] /\ next' \in [Conns -> Nat \ {0}] /\ own' \in [Conns -> SUBSET Members]
  BY DEF TypeOK, Put, Touch
<1>4. \A d \in Conns : call[d] = None \/ Runs(d, "ZREM") => next'[d] = 1 /\ added'[d] = 0 /\ own'[d] = {}
  BY DEF TypeOK, Put, Touch, Runs
<1>5. \A d \in Conns : call[d] # None => next'[d] <= Len(call[d].args) + 1
  BY DEF TypeOK, Put, More
<1> QED
  BY <1>1, <1>2, <1>3, <1>4, <1>5 DEF TypeOK, Put, Runs

LEMMA TypeStep == Inv /\ [Next]_vars => TypeOK'
<1> SUFFICES ASSUME Inv, [Next]_vars PROVE TypeOK'
  OBVIOUS
<1> TypeOK
  BY DEF Inv
<1>0. CASE UNCHANGED vars
  BY <1>0 DEF TypeOK, Runs, vars, store, proc, ghost
<1> SUFFICES ASSUME Next PROVE TypeOK'
  BY <1>0
<1> PICK c \in Conns : Begin(c) \/ ZAdd(c) \/ GeoAdd(c) \/ Refuse(c) \/ Persist(c) \/ GeoReply(c) \/ ZRem(c)
  BY DEF Next
<1>1. CASE Begin(c)
  <2> PICK cl \in Calls : call[c] = None /\ call' = [call EXCEPT ![c] = cl] /\ calls' = calls + 1
    BY <1>1 DEF Begin
  <2> Len(cl.args) \in Nat
    BY CallFacts
  <2> QED
    BY <1>1, NoneAssumption DEF Begin, TypeOK, Runs, store, ghost
<1> SUFFICES ASSUME call[c] # None PROVE TypeOK'
  BY <1>1 DEF ZAdd, GeoAdd, Refuse, Persist, GeoReply, ZRem, Runs
<1>c. call[c] \in Calls /\ K(c) \in Keys /\ next[c] \in Nat \ {0}
  BY CallFacts DEF TypeOK, K
<1>w. Runs(c, "ZADD") \/ Runs(c, "GEOADD") => Written(c) \subseteq Members
  BY <1>c, CallFacts DEF TypeOK, Written, Done
<1>a. More(c) => Arg(c).member \in Members
  BY <1>c, CallFacts DEF More, Arg
<1>2. CASE ZAdd(c)
  <2> Arg(c).score \in Scores
    BY <1>2, <1>c, CallFacts DEF ZAdd, More, Arg, Runs
  <2> QED
    BY <1>2, <1>a, PutTyped DEF ZAdd, Runs, TypeOK
<1>3. CASE GeoAdd(c)
  <2> Arg(c).latitude \in Int /\ Arg(c).longitude \in Int
    BY <1>3, <1>c, CallFacts DEF GeoAdd, More, Arg, Runs
  <2> DEFINE grid == [lat |-> Grid(Arg(c).latitude), lon |-> Grid(Arg(c).longitude)]
             score == Float(encode(Arg(c).latitude, Arg(c).longitude))
  <2>1. score \in Scores /\ grid \in [lat : SUBSET (0 .. GridBits), lon : SUBSET (0 .. GridBits)]
    BY GeoScore, SMTT(30) DEF Scores
  <2>2. skew' \in SUBSET (Keys \X Members)
    BY <1>3, <1>a, <1>c DEF GeoAdd, TypeOK
  <2> QED
    BY <1>3, <1>a, <2>1, <2>2, PutTyped DEF GeoAdd, Runs
<1>t. ASSUME NEW n \in Int, Tell(c, n)
      PROVE  told' \in [Keys -> Int] /\ untold' \in [Keys -> Nat]
  <2>1. told \in [Keys -> Int] /\ untold \in [Keys -> Nat]
    BY DEF TypeOK
  <2>2. told' = [told EXCEPT ![K(c)] = told[K(c)] + n] /\ untold' = untold
    BY <1>t DEF Tell
  <2>3. told[K(c)] + n \in Int
    BY <2>1, <1>c
  <2> HIDE DEF K
  <2> QED
    BY <2>1, <2>2, <2>3
<1>n. added[c] \in Int
  BY DEF TypeOK
<1>4. ASSUME ReplyError(c), Written(c) \subseteq Members PROVE TypeOK'
  <2>1. untold' \in [Keys -> Nat] /\ skew' \in SUBSET (Keys \X Members)
    BY <1>4, <1>c DEF ReplyError, TypeOK
  <2> QED
    BY <1>4, <2>1, EndTyped DEF ReplyError, TypeOK, Runs, store
<1>5. CASE Refuse(c)
  BY <1>4, <1>5, <1>w DEF Refuse
<1>6. CASE Persist(c)
  <2>1. CASE ReplyError(c)
    BY <1>4, <1>6, <1>w, <2>1 DEF Persist
  <2>2. CASE Log(c) /\ Tell(c, added[c]) /\ End(c) /\ UNCHANGED store
    <3>1. \A m \in Written(c) : LastScore(call[c].args, Done(c), m) \in Scores
      <4> SUFFICES ASSUME NEW m \in Written(c)
                   PROVE  LastScore(call[c].args, Done(c), m) \in Scores
        OBVIOUS
      <4>1. Done(c) \in Nat /\ Done(c) <= Len(call[c].args) /\ Len(call[c].args) \in Nat
        BY <1>c, CallFacts DEF TypeOK, Done
      <4>2. Runs(c, "ZADD") /\ Parsed(c)
        BY <1>6 DEF Persist, Inv
      <4>3. PICK i \in 1 .. Done(c) : IsLast(call[c].args, Done(c), m, i)
        BY <4>2 DEF Parsed
      <4>4. call[c].args[i].score \in Scores
        BY <1>c, <4>1, <4>2, CallFacts DEF Parsed, Runs
      <4> QED
        BY <4>1, <4>3, <4>4, LastScoreIs
    <3>2. Replayed(c) \in [Members -> {None} \union Scores]
      BY <3>1, <1>c DEF Replayed, TypeOK
    <3>3. log' \in [Keys -> [Members -> {None} \union Scores]]
      BY <2>2, <3>2 DEF Log, TypeOK
    <3>4. skew' \in SUBSET (Keys \X Members)
      BY <1>6, <2>2, <1>c, <1>w DEF Log, TypeOK, Persist
    <3>5. told' \in [Keys -> Int] /\ untold' \in [Keys -> Nat]
      BY <1>n, <1>t, <2>2
    <3> QED
      BY <2>2, <3>3, <3>4, <3>5, EndTyped DEF TypeOK, Runs, store
  <2> QED
    BY <1>6, <2>1, <2>2 DEF Persist
<1>7. CASE GeoReply(c)
  <2>1. told' \in [Keys -> Int] /\ untold' \in [Keys -> Nat]
    BY <1>7, <1>n, <1>t DEF GeoReply
  <2> QED
    BY <1>7, <2>1, EndTyped DEF GeoReply, TypeOK, Runs, store
<1>8. CASE ZRem(c)
  <2> DEFINE ms == {call[c].args[i].member : i \in DOMAIN call[c].args}
             gone == ms \intersect InSet(zset[K(c)])
  <2>1. ms \subseteq Members /\ Cardinality(gone) \in Nat
    <3>1. ms \subseteq Members
      BY <1>c, CallFacts
    <3>2. IsFiniteSet(gone)
      BY <3>1, MembersAssumption, FS_Subset
    <3> QED
      BY <3>1, <3>2, FS_CardinalityType
  <2> HIDE DEF ms
  <2>2. zset' \in [Keys -> [Members -> {None} \union Scores]]
    <3> DEFINE Z == [Members -> {None} \union Scores]
    <3>1. zset \in [Keys -> Z] /\ zset' = [zset EXCEPT ![K(c)] = [m \in Members |-> IF m \in ms THEN None ELSE @[m]]]
      BY <1>8 DEF ZRem, TypeOK, ms
    <3> QED
      BY <3>1
  <2>3. cell' \in [Keys -> [Members -> {None} \union [lat : SUBSET (0 .. GridBits), lon : SUBSET (0 .. GridBits)]]]
    <3> DEFINE R == {None} \union [lat : SUBSET (0 .. GridBits), lon : SUBSET (0 .. GridBits)]
    <3>1. cell \in [Keys -> [Members -> R]] /\ None \in R
      BY DEF TypeOK
    <3> HIDE DEF R
    <3>2. cell' \in [Keys -> [Members -> R]]
      BY <1>8, <3>1 DEF ZRem
    <3> QED
      BY <3>2 DEF R
  <2>4. told' \in [Keys -> Int] /\ untold' \in [Keys -> Nat]
    BY <1>8, <1>t, <2>1 DEF ZRem, ms
  <2>5. skew' \in SUBSET (Keys \X Members)
    BY <1>8, <2>1, <1>c DEF ZRem, TypeOK, ms
  <2>6. own' \in [Conns -> SUBSET Members]
    BY <1>8 DEF ZRem, TypeOK
  <2>7. \A d \in Conns : call[d] = None \/ Runs(d, "ZREM") => next[d] = 1 /\ added[d] = 0 /\ own'[d] = {}
    BY <1>8 DEF ZRem, TypeOK
  <2> QED
    BY <1>8, <2>2, <2>3, <2>4, <2>5, <2>6, <2>7 DEF ZRem, TypeOK, Runs
<1> QED
  BY <1>1, <1>2, <1>3, <1>5, <1>6, <1>7, <1>8

\* A turn of the loop of ZADD, or of that of GEOADD.
LEMMA ParsedStep == Inv /\ [Next]_vars => \A d \in Conns : Parsed(d)'
<1> SUFFICES ASSUME Inv, [Next]_vars, NEW d \in Conns, Runs(d, "ZADD")' PROVE Parsed(d)'
  BY DEF Parsed
<1> TypeOK /\ Parsed(d)
  BY DEF Inv
<1> USE DEF Done
<1>0. CASE UNCHANGED <<call, next>>
  BY <1>0 DEF Parsed, Runs, Written
<1> SUFFICES ASSUME Next PROVE Parsed(d)'
  BY <1>0 DEF vars, proc
<1> PICK c \in Conns : Begin(c) \/ ZAdd(c) \/ GeoAdd(c) \/ Refuse(c) \/ Persist(c) \/ GeoReply(c) \/ ZRem(c)
  BY DEF Next
<1>1. CASE c # d
  <2> call'[d] = call[d] /\ next'[d] = next[d]
    BY <1>1 DEF Begin, ZAdd, GeoAdd, Put, Refuse, ReplyError, Persist, GeoReply, ZRem, End, TypeOK
  <2> QED
    BY DEF Parsed, Runs, Written
<1>2. CASE c = d /\ Begin(c)
  <2> next'[d] = 1
    BY <1>2 DEF Begin, TypeOK
  <2> QED
    BY DEF Parsed, Written
<1>3. CASE c = d /\ ZAdd(c)
  <2> DEFINE args == call[d].args  n == Done(d)
  <2>1. /\ n \in Nat /\ call' = call /\ next'[d] = n + 2 /\ Done(d)' = n + 1
        /\ args[n + 1].score # Bad /\ Runs(d, "ZADD")
    <3>1. next[d] \in Nat \ {0} /\ next'[d] = next[d] + 1
      BY <1>3 DEF ZAdd, Put, TypeOK
    <3>2. call' = call /\ Runs(d, "ZADD") /\ args[next[d]].score # Bad
      BY <1>3 DEF ZAdd, Put, Arg
    <3>3. n \in Nat /\ n + 1 = next[d] /\ next'[d] = n + 2 /\ next'[d] - 1 = n + 1
      BY <3>1
    <3> QED
      BY <3>2, <3>3
  <2>2. \A i \in 1 .. n + 1 : args[i].score # Bad
    BY <2>1 DEF Parsed
  <2>3. ASSUME NEW i \in 1 .. n + 1
        PROVE  \E j \in 1 .. n + 1 : IsLast(args, n + 1, args[i].member, j)
    <3>1. CASE args[n + 1].member = args[i].member
      BY <2>1, <3>1, LastScoreNext
    <3>2. CASE args[n + 1].member # args[i].member
      <4> i \in 1 .. n
        BY <2>1, <3>2
      <4> PICK j \in 1 .. n : IsLast(args, n, args[i].member, j)
        BY <2>1 DEF Parsed, Written
      <4> QED
        BY <2>1, <3>2, LastScoreKept
    <3> QED
      BY <3>1, <3>2
  <2> QED
    BY <2>1, <2>2, <2>3 DEF Parsed, Written
<1>4. CASE c = d /\ ~Begin(c) /\ ~ZAdd(c)
  BY <1>4, NoneAssumption DEF GeoAdd, Put, Refuse, ReplyError, Persist, GeoReply, ZRem, End, Runs, TypeOK
<1> QED
  BY <1>1, <1>2, <1>3, <1>4

LEMMA OwnsStep == Inv /\ [Next]_vars => \A d \in Conns : Owns(d)'
<1> SUFFICES ASSUME Inv, [Next]_vars, NEW d \in Conns, Runs(d, "ZADD")' PROVE Owns(d)'
  BY DEF Owns
<1> TypeOK /\ Owns(d) /\ Parsed(d)
  BY DEF Inv
<1> USE DEF Done
<1>0. CASE UNCHANGED <<call, next, own, zset>>
  BY <1>0 DEF Owns, Runs, Written, K
<1> SUFFICES ASSUME Next PROVE Owns(d)'
  BY <1>0 DEF vars, proc, ghost, store
<1> PICK c \in Conns : Begin(c) \/ ZAdd(c) \/ GeoAdd(c) \/ Refuse(c) \/ Persist(c) \/ GeoReply(c) \/ ZRem(c)
  BY DEF Next
\* Another connection takes from d what it stores or removes of the same key.
<1>1. CASE c # d
  <2>1. call'[d] = call[d] /\ next'[d] = next[d] /\ Runs(d, "ZADD") /\ K(d) \in Keys
    <3> call'[d] = call[d] /\ next'[d] = next[d]
      BY <1>1 DEF Begin, ZAdd, GeoAdd, Put, Refuse, ReplyError, Persist, GeoReply, ZRem, End, TypeOK
    <3> QED
      BY CallFacts DEF Runs, K, TypeOK
  <2>2. SUFFICES ASSUME NEW m \in own'[d]
                 PROVE  m \in own[d] /\ zset'[K(d)][m] = zset[K(d)][m]
    BY <2>1 DEF Owns, Written, K
  <2>3. CASE ZAdd(c) \/ GeoAdd(c)
    <3> PICK n, score, grid : Put(c, n, score, grid) /\ n = Arg(c).member
      BY <2>3 DEF ZAdd, GeoAdd
    <3>1. K(c) = K(d) => own'[d] = own[d] \ {n}
      BY <1>1, <2>1 DEF Put, Touch, Runs
    <3>2. K(c) # K(d) => own'[d] = own[d]
      BY <1>1 DEF Put, Touch
    <3>3. m \in Members /\ zset' = [zset EXCEPT ![K(c)][n] = score]
      BY <3>1, <3>2, <2>2 DEF Put, TypeOK
    <3> QED
      BY <2>1, <2>2, <3>1, <3>2, <3>3 DEF TypeOK
  <2>4. CASE ZRem(c)
    <3> DEFINE ms == {call[c].args[i].member : i \in DOMAIN call[c].args}
    <3>1. own'[d] = IF K(d) = K(c) THEN own[d] \ ms ELSE own[d]
      BY <2>1, <2>4 DEF ZRem, Runs
    <3>2. m \in Members /\ zset' = [zset EXCEPT ![K(c)] = [n \in Members |-> IF n \in ms THEN None ELSE @[n]]]
      BY <2>2, <2>4, <3>1 DEF ZRem, TypeOK
    <3> HIDE DEF ms
    <3> QED
      BY <2>1, <2>2, <3>1, <3>2 DEF TypeOK
  <2>5. CASE Begin(c) \/ Refuse(c) \/ Persist(c) \/ GeoReply(c)
    <3> own'[d] = own[d] /\ zset' = zset
      BY <1>1, <2>5 DEF Begin, Refuse, ReplyError, Persist, GeoReply, End, ghost, store, TypeOK
    <3> QED
      BY <2>2
  <2> QED
    BY <2>3, <2>4, <2>5
<1>2. CASE c = d /\ Begin(c)
  <2> own'[d] = {}
    BY <1>2 DEF Begin, ghost, TypeOK
  <2> QED
    BY DEF Owns
\* What d stores is its own until then.
<1>3. CASE c = d /\ ZAdd(c)
  <2> DEFINE args == call[d].args  n == Done(d)  new == args[n + 1]
  <2>1. n \in Nat /\ call' = call /\ next'[d] = n + 2 /\ Runs(d, "ZADD") /\ n < Len(args)
    <3> Len(args) \in Nat /\ next[d] \in Nat \ {0} /\ next[d] = n + 1
      BY <1>3, CallFacts DEF ZAdd, Runs, TypeOK
    <3> QED
      BY <1>3 DEF ZAdd, Put, More, TypeOK
  <2>k. K(d) \in Keys /\ new.member \in Members
    <3>1. call[d] \in Calls /\ Len(args) \in Nat
      BY <2>1, CallFacts DEF Runs, TypeOK
    <3>2. n + 1 \in 1 .. Len(args)
      BY <2>1, <3>1
    <3> QED
      BY <3>1, <3>2, CallFacts DEF K
  <2>a. Arg(d) = new
    BY <2>1 DEF Arg, TypeOK
  <2>2. own'[d] = own[d] \union {new.member}
    BY <1>3, <2>a DEF ZAdd, Put, Touch
  <2>4. zset' = [zset EXCEPT ![K(d)][new.member] = new.score]
    BY <1>3, <2>a DEF ZAdd, Put
  <2>3. Written(d)' = Written(d) \union {new.member}
    BY <2>1 DEF Written
  <2>5. ASSUME NEW m \in own'[d]
        PROVE  m \in Written(d)' /\ zset'[K(d)][m] = LastScore(args, n + 1, m)
    <3>1. CASE m = new.member
      <4> LastScore(args, n + 1, m) = new.score
        BY <2>1, <3>1, LastScoreNext
      <4> QED
        BY <2>k, <2>3, <2>4, <3>1 DEF TypeOK
    <3>2. CASE m # new.member
      <4>1. m \in Written(d) /\ zset[K(d)][m] = LastScore(args, n, m)
        BY <2>1, <2>2, <2>5, <3>2 DEF Owns
      <4>2. LastScore(args, n + 1, m) = LastScore(args, n, m)
        <5> PICK i \in 1 .. n : IsLast(args, n, m, i)
          BY <2>1, <4>1 DEF Parsed
        <5> QED
          BY <2>1, <3>2, LastScoreKept
      <4>3. zset'[K(d)][m] = zset[K(d)][m]
        BY <2>k, <2>4, <3>2, <2>2, <2>5 DEF TypeOK
      <4> QED
        BY <2>3, <4>1, <4>2, <4>3
    <3> QED
      BY <3>1, <3>2
  <2> QED
    BY <2>1, <2>5 DEF Owns, K
<1>4. CASE c = d /\ ~Begin(c) /\ ~ZAdd(c)
  BY <1>4, NoneAssumption DEF GeoAdd, Put, Refuse, ReplyError, Persist, GeoReply, ZRem, End, Runs, TypeOK
<1> QED
  BY <1>1, <1>2, <1>3, <1>4

LEMMA ScoredStep == Inv /\ [Next]_vars => Scored'
<1> SUFFICES ASSUME Inv, [Next]_vars, NEW k \in Keys, NEW m \in Members, cell'[k][m] # None
             PROVE  /\ cell'[k][m] \in [lat : SUBSET (0 .. GridBits), lon : SUBSET (0 .. GridBits)]
                    /\ zset'[k][m] = Float(interleave(cell'[k][m].lat, cell'[k][m].lon))
  BY DEF Scored
<1> TypeOK /\ Scored
  BY DEF Inv
<1>0. CASE cell'[k][m] = cell[k][m] /\ zset'[k][m] = zset[k][m]
  BY <1>0 DEF Scored
<1>5. ASSUME NEW c \in Conns, GeoAdd(c), K(c) = k, Arg(c).member = m
      PROVE  /\ cell'[k][m] \in [lat : SUBSET (0 .. GridBits), lon : SUBSET (0 .. GridBits)]
             /\ zset'[k][m] = Float(interleave(cell'[k][m].lat, cell'[k][m].lon))
  <2> DEFINE x == Arg(c).latitude  y == Arg(c).longitude
  <2>1. /\ cell'[k][m] = [lat |-> Grid(x), lon |-> Grid(y)]
        /\ zset'[k][m] = Float(interleave(Grid(x), Grid(y)))
    BY <1>5 DEF GeoAdd, Put, TypeOK, encode
  <2>2. x \in Int /\ y \in Int
    BY <1>5, CallFacts DEF GeoAdd, Runs, More, Arg, TypeOK
  <2>3. Grid(x) \in SUBSET (0 .. GridBits) /\ Grid(y) \in SUBSET (0 .. GridBits)
    BY <2>2, GeoScore
  <2> QED
    BY <2>1, <2>3
<1>6. CASE UNCHANGED vars
  BY <1>0, <1>6 DEF vars, store
<1> SUFFICES ASSUME Next
             PROVE  \/ cell'[k][m] = cell[k][m] /\ zset'[k][m] = zset[k][m]
                    \/ cell'[k][m] = None
                    \/ \E c \in Conns : GeoAdd(c) /\ K(c) = k /\ Arg(c).member = m
  BY <1>0, <1>5, <1>6
<1> PICK c \in Conns : Begin(c) \/ ZAdd(c) \/ GeoAdd(c) \/ Refuse(c) \/ Persist(c) \/ GeoReply(c) \/ ZRem(c)
  BY DEF Next
<1>1. CASE ZAdd(c)
  <2> zset' = [zset EXCEPT ![K(c)][Arg(c).member] = Arg(c).score] /\ cell' = [cell EXCEPT ![K(c)][Arg(c).member] = None]
    BY <1>1 DEF ZAdd, Put
  <2> QED
    BY DEF TypeOK
<1>2. CASE GeoAdd(c)
  <2> PICK n, score, grid : n = Arg(c).member /\ Put(c, n, score, grid)
    BY <1>2 DEF GeoAdd
  <2> zset' = [zset EXCEPT ![K(c)][n] = score] /\ cell' = [cell EXCEPT ![K(c)][n] = grid]
    BY DEF Put
  <2> QED
    BY <1>2 DEF TypeOK
<1>3. CASE ZRem(c)
  <2> PICK ms : /\ zset' = [zset EXCEPT ![K(c)] = [n \in Members |-> IF n \in ms THEN None ELSE @[n]]]
                /\ cell' = [cell EXCEPT ![K(c)] = [n \in Members |-> IF n \in ms THEN None ELSE @[n]]]
    BY <1>3 DEF ZRem
  <2> QED
    BY DEF TypeOK
<1>4. CASE Begin(c) \/ Refuse(c) \/ Persist(c) \/ GeoReply(c)
  BY <1>4 DEF Begin, Refuse, ReplyError, Persist, GeoReply, store
<1> QED
  BY <1>1, <1>2, <1>3, <1>4

LEMMA LogMatchesStep == Inv /\ [Next]_vars => LogMatchesStore'
<1> SUFFICES ASSUME Inv, [Next]_vars, NEW k \in Keys, NEW m \in Members
             PROVE  \/ log'[k][m] = zset'[k][m]
                    \/ <<k, m>> \in skew'
                    \/ \E d \in Conns : (Runs(d, "ZADD") /\ K(d) = k /\ m \in Written(d))'
  BY DEF LogMatchesStore
<1> TypeOK /\ LogMatchesStore /\ \A d \in Conns : Parsed(d) /\ Owns(d)
  BY DEF Inv
<1> DEFINE Ahead(d) == Runs(d, "ZADD") /\ K(d) = k /\ m \in Written(d)
<1>0. CASE UNCHANGED vars
  BY <1>0 DEF LogMatchesStore, vars, store, proc, ghost, Runs, K, Written, Done
<1> SUFFICES ASSUME Next PROVE log'[k][m] = zset'[k][m] \/ <<k, m>> \in skew' \/ \E d \in Conns : Ahead(d)'
  BY <1>0
<1> PICK c \in Conns : Begin(c) \/ ZAdd(c) \/ GeoAdd(c) \/ Refuse(c) \/ Persist(c) \/ GeoReply(c) \/ ZRem(c)
  BY DEF Next
\* Who else is ahead of the log stays so.
<1>a. ASSUME NEW d \in Conns, d # c, Ahead(d)
      PROVE  Ahead(d)'
  <2> call'[d] = call[d] /\ next'[d] = next[d]
    BY <1>a DEF Begin, ZAdd, GeoAdd, Put, Refuse, ReplyError, Persist, GeoReply, ZRem, End, TypeOK
  <2> QED
    BY <1>a DEF Runs, K, Written, Done
<1>1. CASE Begin(c)
  <2> ~Ahead(c) /\ log' = log /\ zset' = zset /\ skew' = skew
    BY <1>1 DEF Begin, Runs, store, ghost
  <2> QED
    BY <1>a DEF LogMatchesStore
<1>2. CASE ZAdd(c)
  <2>1. /\ Runs(c, "ZADD") /\ More(c) /\ call' = call /\ next'[c] = next[c] + 1 /\ next[c] \in Nat \ {0}
        /\ log' = log /\ skew' = skew /\ zset' = [zset EXCEPT ![K(c)][Arg(c).member] = Arg(c).score]
    BY <1>2 DEF ZAdd, Put, TypeOK
  <2>2. Written(c)' = Written(c) \union {Arg(c).member}
    BY <2>1 DEF Written, Done, Arg
  <2>3. CASE K(c) = k /\ Arg(c).member = m
    BY <2>1, <2>2, <2>3 DEF Runs, K
  <2>4. CASE ~(K(c) = k /\ Arg(c).member = m)
    <3>1. zset'[k][m] = zset[k][m]
      BY <2>1, <2>4 DEF TypeOK
    <3>2. Ahead(c) => Ahead(c)'
      BY <2>1, <2>2 DEF Runs, K
    <3> QED
      BY <1>a, <2>1, <3>1, <3>2 DEF LogMatchesStore
  <2> QED
    BY <2>3, <2>4
<1>3. CASE GeoAdd(c)
  <2> PICK n, score, grid : n = Arg(c).member /\ Put(c, n, score, grid)
    BY <1>3 DEF GeoAdd
  <2>1. /\ log' = log /\ skew' = skew \union {<<K(c), n>>} /\ ~Ahead(c)
        /\ zset' = [zset EXCEPT ![K(c)][n] = score]
    BY <1>3 DEF GeoAdd, Put, Runs
  <2>2. CASE K(c) = k /\ n = m
    BY <2>1, <2>2
  <2>3. CASE ~(K(c) = k /\ n = m)
    <3> zset'[k][m] = zset[k][m]
      BY <2>1, <2>3 DEF TypeOK
    <3> QED
      BY <1>a, <2>1 DEF LogMatchesStore
  <2> QED
    BY <2>2, <2>3
\* What a failing command has stored is known to differ.
<1>4. CASE ReplyError(c)
  <2> log' = log /\ zset' = zset /\ skew' = skew \union ({K(c)} \X Written(c))
    BY <1>4 DEF ReplyError, store
  <2> Ahead(c) => <<k, m>> \in skew'
    OBVIOUS
  <2> QED
    BY <1>a DEF LogMatchesStore
\* A command that joins the log agrees with the store upon what it owns.
<1>5. CASE Persist(c) /\ Log(c) /\ UNCHANGED store
  <2>1. /\ Runs(c, "ZADD") /\ Owns(c) /\ zset' = zset
        /\ log' = [log EXCEPT ![K(c)] = Replayed(c)]
        /\ skew' = (skew \ ({K(c)} \X own[c])) \union ({K(c)} \X (Written(c) \ own[c]))
    BY <1>5 DEF Persist, Log, store
  <2>2. CASE K(c) = k /\ m \in own[c]
    <3> m \in Written(c) /\ zset[k][m] = LastScore(call[c].args, Done(c), m)
      BY <2>1, <2>2 DEF Owns
    <3> QED
      BY <2>1, <2>2 DEF Replayed, TypeOK
  <2>3. CASE K(c) = k /\ m \in Written(c) \ own[c]
    BY <2>1, <2>3
  <2>4. CASE K(c) # k \/ m \notin Written(c)
    <3>1. log'[k][m] = log[k][m] /\ ~Ahead(c)
      BY <2>1, <2>4 DEF Replayed, TypeOK
    <3>2. <<k, m>> \in skew => <<k, m>> \in skew'
      BY <2>1, <2>4 DEF Owns
    <3> QED
      BY <1>a, <2>1, <3>1, <3>2 DEF LogMatchesStore
  <2> QED
    BY <2>2, <2>3, <2>4
<1>6. CASE GeoReply(c)
  <2> ~Ahead(c) /\ log' = log /\ zset' = zset /\ skew' = skew
    BY <1>6 DEF GeoReply, Runs, store
  <2> QED
    BY <1>a DEF LogMatchesStore
<1>7. CASE ZRem(c)
  <2> PICK ms : /\ zset' = [zset EXCEPT ![K(c)] = [n \in Members |-> IF n \in ms THEN None ELSE @[n]]]
                /\ skew' = skew \union ({K(c)} \X (ms \intersect InSet(zset[K(c)])))
    BY <1>7 DEF ZRem
  <2>1. log' = log /\ ~Ahead(c)
    BY <1>7 DEF ZRem, Runs
  <2>2. zset'[k][m] = zset[k][m] \/ <<k, m>> \in skew'
    BY DEF TypeOK, InSet
  <2> QED
    BY <1>a, <2>1, <2>2 DEF LogMatchesStore
<1> QED
  BY <1>1, <1>2, <1>3, <1>4, <1>5, <1>6, <1>7 DEF Refuse, Persist

-------------------------------------------------------------------------------
(* Counting.                                                               *)

\* The members that there are, those that clients know of, and those of running commands.
Counted(k) ==
  /\ IsFiniteSet(Unreported(k))
  /\ Cardinality(InSet(zset[k])) = told[k] + untold[k] + Cardinality(Unreported(k))

LEMMA UnreportedIs ==
  ASSUME NEW k, NEW p
  PROVE  p \in Unreported(k) <=>
           \E c \in Conns, n \in Nat : n \in 1 .. added[c] /\ p = <<c, n>> /\ call[c] # None /\ K(c) = k
BY DEF Unreported

LEMMA UnreportedNext ==
  ASSUME NEW k, NEW p
  PROVE  p \in Unreported(k)' <=>
           \E c \in Conns, n \in Nat : n \in 1 .. added'[c] /\ p = <<c, n>> /\ call'[c] # None /\ K(c)' = k
BY DEF Unreported

LEMMA MembersFinite ==
  ASSUME TypeOK, NEW k \in Keys
  PROVE  /\ IsFiniteSet(InSet(zset[k])) /\ Cardinality(InSet(zset[k])) \in Nat
         /\ told[k] \in Int /\ untold[k] \in Int
<1>1. InSet(zset[k]) \in SUBSET Members
  BY DEF InSet
<1>2. IsFiniteSet(InSet(zset[k]))
  BY <1>1, MembersAssumption, FS_Subset
<1> QED
  BY <1>2, FS_CardinalityType DEF TypeOK

\* The entries of one connection.
LEMMA EntriesOf ==
  ASSUME NEW c, NEW n \in Nat
  PROVE  IsFiniteSet({c} \X (1 .. n)) /\ Cardinality({c} \X (1 .. n)) = n
<1>1. IsFiniteSet({c}) /\ Cardinality({c}) = 1
  BY FS_Singleton
<1>2. IsFiniteSet(1 .. n) /\ Cardinality(1 .. n) = n
  BY FS_Interval
<1> DEFINE I == 1 .. n
<1> HIDE DEF I
<1>3. IsFiniteSet({c} \X I) /\ Cardinality({c} \X I) = Cardinality({c}) * Cardinality(I)
  BY <1>1, <1>2, FS_Product DEF I
<1>4. 1 * n = n
  OBVIOUS
<1> QED
  BY <1>1, <1>2, <1>3, <1>4 DEF I

\* A step that leaves the members of k and its running commands alone.
LEMMA SameCount ==
  ASSUME NEW k, Counted(k), told'[k] = told[k], untold'[k] = untold[k],
         InSet(zset[k])' = InSet(zset[k]),
         Unreported(k)' = Unreported(k)
  PROVE  Counted(k)'
BY DEF Counted

\* A connection whose command is new, over or about another key has no entries of k.
LEMMA SameEntries ==
  ASSUME NEW k, NEW c \in Conns,
         \A d \in Conns \ {c} : call'[d] = call[d] /\ added'[d] = added[d],
         call[c] # None /\ K(c) = k => added[c] = 0,
         call'[c] # None /\ K(c)' = k => added'[c] = 0
  PROVE  Unreported(k)' = Unreported(k)
<1>1. \A d \in Conns \ {c} : K(d)' = K(d)
  BY DEF K
<1>2. ASSUME NEW p PROVE p \in Unreported(k)' <=> p \in Unreported(k)
  <2>1. ASSUME p \in Unreported(k) PROVE p \in Unreported(k)'
    <3>1. PICK d \in Conns, n \in Nat : n \in 1 .. added[d] /\ p = <<d, n>> /\ call[d] # None /\ K(d) = k
      BY <2>1, UnreportedIs
    <3>2. d # c
      BY <3>1
    <3> QED
      BY <1>1, <3>1, <3>2, UnreportedNext
  <2>2. ASSUME p \in Unreported(k)' PROVE p \in Unreported(k)
    <3>1. PICK d \in Conns, n \in Nat : n \in 1 .. added'[d] /\ p = <<d, n>> /\ call'[d] # None /\ K(d)' = k
      BY <2>2, UnreportedNext
    <3>2. d # c
      BY <3>1
    <3> QED
      BY <1>1, <3>1, <3>2, UnreportedIs
  <2> QED
    BY <2>1, <2>2
<1> QED
  BY <1>2

LEMMA PutCounts ==
  ASSUME TypeOK, NEW c \in Conns, call[c] # None, NEW m \in Members, NEW score, score # None, NEW grid,
         Put(c, m, score, grid), \A k \in Keys : Counted(k), NEW k \in Keys
  PROVE  Counted(k)'
<1>1. K(c) \in Keys /\ added[c] \in Nat /\ added \in [Conns -> Nat]
      /\ zset \in [Keys -> [Members -> {None} \union Scores]]
  BY CallFacts DEF TypeOK, K
<1>2. /\ zset' = [zset EXCEPT ![K(c)][m] = score]
      /\ added' = [added EXCEPT ![c] = IF zset[K(c)][m] = None THEN @ + 1 ELSE @]
      /\ call' = call /\ told' = told /\ untold' = untold
  BY DEF Put
<1>3. \A d \in Conns : K(d)' = K(d)
  BY <1>2 DEF K
<1>4. CASE k # K(c)
  <2>1. zset'[k] = zset[k]
    BY <1>1, <1>2, <1>4
  <2>2. Unreported(k)' = Unreported(k)
    <3>1. \A d \in Conns \ {c} : call'[d] = call[d] /\ added'[d] = added[d]
      BY <1>1, <1>2
    <3> QED
      BY <1>3, <1>4, <3>1, SameEntries
  <2> QED
    BY <1>2, <2>1, <2>2, SameCount DEF InSet
<1>5. CASE k = K(c) /\ zset[k][m] # None
  <2>1. InSet(zset[k])' = InSet(zset[k])
    BY <1>1, <1>2, <1>5 DEF InSet
  <2>2. added' = added
    BY <1>1, <1>2, <1>5
  <2>3. Unreported(k)' = Unreported(k)
    BY <1>2, <2>2 DEF Unreported, K
  <2> QED
    BY <1>2, <2>1, <2>3, SameCount
<1>6. CASE k = K(c) /\ zset[k][m] = None
  <2>1. InSet(zset[k])' = InSet(zset[k]) \union {m} /\ m \notin InSet(zset[k])
    BY <1>1, <1>2, <1>6 DEF InSet
  <2>2. added'[c] = added[c] + 1 /\ \A d \in Conns \ {c} : added'[d] = added[d]
    BY <1>1, <1>2, <1>6
  <2> DEFINE e == <<c, added[c] + 1>>
  <2>3. e \notin Unreported(k)
    <3> SUFFICES ASSUME e \in Unreported(k) PROVE FALSE
      OBVIOUS
    <3>1. PICK d \in Conns, n \in Nat : n \in 1 .. added[d] /\ e = <<d, n>>
      BY UnreportedIs
    <3> QED
      BY <1>1, <3>1
  <2>4. Unreported(k)' = Unreported(k) \union {e}
    <3>1. ASSUME NEW p, p \in Unreported(k)' PROVE p \in Unreported(k) \union {e}
      <4>1. PICK d \in Conns, n \in Nat : n \in 1 .. added'[d] /\ p = <<d, n>> /\ call'[d] # None /\ K(d)' = k
        BY <3>1, UnreportedNext
      <4>2. CASE n \in 1 .. added[d]
        BY <1>2, <1>3, <4>1, <4>2, UnreportedIs
      <4>3. CASE n \notin 1 .. added[d]
        <5>1. d = c /\ n = added[c] + 1
          BY <1>1, <2>2, <4>1, <4>3
        <5> QED
          BY <4>1, <5>1
      <4> QED
        BY <4>2, <4>3
    <3>2. ASSUME NEW p, p \in Unreported(k) PROVE p \in Unreported(k)'
      <4>1. PICK d \in Conns, n \in Nat : n \in 1 .. added[d] /\ p = <<d, n>> /\ call[d] # None /\ K(d) = k
        BY <3>2, UnreportedIs
      <4>2. n \in 1 .. added'[d]
        BY <1>1, <2>2, <4>1
      <4> QED
        BY <1>2, <1>3, <4>1, <4>2, UnreportedNext
    <3>3. e \in Unreported(k)'
      <4>1. added[c] + 1 \in 1 .. added'[c]
        BY <1>1, <2>2
      <4> QED
        BY <1>2, <1>3, <1>6, <4>1, UnreportedNext
    <3> HIDE DEF e
    <3> QED
      BY <3>1, <3>2, <3>3
  <2> HIDE DEF e
  <2>5. Counted(k) /\ IsFiniteSet(InSet(zset[k])) /\ Cardinality(InSet(zset[k])) \in Nat
        /\ told[k] \in Int /\ untold[k] \in Int
    BY MembersFinite
  <2>6. Cardinality(InSet(zset[k])') = Cardinality(InSet(zset[k])) + 1
    BY <2>1, <2>5, FS_AddElement
  <2>7. IsFiniteSet(Unreported(k)') /\ Cardinality(Unreported(k)') = Cardinality(Unreported(k)) + 1
        /\ Cardinality(Unreported(k)) \in Nat
    BY <2>3, <2>4, <2>5, FS_AddElement, FS_CardinalityType DEF Counted
  <2> QED
    BY <1>2, <2>5, <2>6, <2>7 DEF Counted
<1> QED
  BY <1>4, <1>5, <1>6

\* The end of ZADD and GEOADD: what the command has added changes its account.
LEMMA EndCounts ==
  ASSUME TypeOK, NEW c \in Conns, call[c] # None, End(c), UNCHANGED zset,
         \/ told' = [told EXCEPT ![K(c)] = @ + added[c]] /\ untold' = untold
         \/ untold' = [untold EXCEPT ![K(c)] = @ + added[c]] /\ told' = told,
         \A k \in Keys : Counted(k), NEW k \in Keys
  PROVE  Counted(k)'
<1>1. K(c) \in Keys /\ added[c] \in Nat /\ added \in [Conns -> Nat]
      /\ call \in [Conns -> Calls \union {None}] /\ told \in [Keys -> Int] /\ untold \in [Keys -> Nat]
  BY CallFacts DEF TypeOK, K
<1>2. /\ call'[c] = None /\ \A d \in Conns \ {c} : call'[d] = call[d] /\ added'[d] = added[d]
  BY <1>1 DEF End
<1>3. CASE k # K(c)
  <2>1. told'[k] = told[k] /\ untold'[k] = untold[k]
    BY <1>1, <1>3
  <2>2. Unreported(k)' = Unreported(k)
    BY <1>2, <1>3, SameEntries
  <2> QED
    BY <2>1, <2>2, SameCount DEF InSet
<1>4. CASE k = K(c)
  <2> DEFINE E == {c} \X (1 .. added[c])
  <2>1. E \subseteq Unreported(k)
    BY <1>4, UnreportedIs
  <2>2. Unreported(k)' = Unreported(k) \ E
    <3>1. ASSUME NEW p, p \in Unreported(k)' PROVE p \in Unreported(k) /\ p \notin E
      <4>1. PICK d \in Conns, n \in Nat : n \in 1 .. added'[d] /\ p = <<d, n>> /\ call'[d] # None /\ K(d)' = k
        BY <3>1, UnreportedNext
      <4>2. d # c /\ K(d) = k
        BY <1>2, <4>1 DEF K
      <4> QED
        BY <1>2, <4>1, <4>2, UnreportedIs
    <3>2. ASSUME NEW p, p \in Unreported(k), p \notin E PROVE p \in Unreported(k)'
      <4>1. PICK d \in Conns, n \in Nat : n \in 1 .. added[d] /\ p = <<d, n>> /\ call[d] # None /\ K(d) = k
        BY <3>2, UnreportedIs
      <4>2. d # c
        BY <3>2, <4>1
      <4>3. K(d)' = k
        BY <1>2, <4>1, <4>2 DEF K
      <4> QED
        BY <1>2, <4>1, <4>2, <4>3, UnreportedNext
    <3> QED
      BY <3>1, <3>2
  <2>3. Cardinality(E) = added[c]
    BY <1>1, EntriesOf
  <2> HIDE DEF E
  <2>4. Unreported(k) \intersect E = E
    BY <2>1
  <2>5. Counted(k) /\ Cardinality(InSet(zset[k])) \in Nat /\ told[k] \in Int /\ untold[k] \in Int
        /\ Cardinality(Unreported(k)) \in Nat
    BY MembersFinite, FS_CardinalityType DEF Counted
  <2>6. IsFiniteSet(Unreported(k)') /\ Cardinality(Unreported(k)') = Cardinality(Unreported(k)) - added[c]
    <3> DEFINE U == Unreported(k)
    <3>1. IsFiniteSet(U)
      BY <2>5 DEF Counted
    <3> HIDE DEF U
    <3>2. IsFiniteSet(U \ E) /\ Cardinality(U \ E) = Cardinality(U) - Cardinality(U \intersect E)
      BY <3>1, FS_Difference
    <3> QED
      BY <2>2, <2>3, <2>4, <3>2 DEF U
  <2>7. told'[k] + untold'[k] = told[k] + untold[k] + added[c]
        /\ told'[k] \in Int /\ untold'[k] \in Int
    BY <1>1, <1>4
  <2>8. InSet(zset[k])' = InSet(zset[k])
    BY DEF InSet
  <2> QED
    BY <1>1, <2>5, <2>6, <2>7, <2>8 DEF Counted
<1> QED
  BY <1>3, <1>4

LEMMA RemCounts ==
  ASSUME TypeOK, NEW c \in Conns, ZRem(c), \A k \in Keys : Counted(k), NEW k \in Keys
  PROVE  Counted(k)'
<1> DEFINE ms == {call[c].args[i].member : i \in DOMAIN call[c].args}
           gone == InSet(zset[K(c)]) \intersect ms
<1>1. /\ call[c] # None /\ K(c) \in Keys /\ added[c] = 0
      /\ zset \in [Keys -> [Members -> {None} \union Scores]] /\ told \in [Keys -> Int]
      /\ call \in [Conns -> Calls \union {None}]
  BY CallFacts DEF TypeOK, K, ZRem, Runs
<1>2. /\ zset' = [zset EXCEPT ![K(c)] = [m \in Members |-> IF m \in ms THEN None ELSE @[m]]]
      /\ told' = [told EXCEPT ![K(c)] = @ + (-Cardinality(ms \intersect InSet(zset[K(c)])))]
      /\ untold' = untold /\ added' = added /\ call' = [call EXCEPT ![c] = None]
  BY DEF ZRem, Tell
<1>3. ms \intersect InSet(zset[K(c)]) = gone
  OBVIOUS
<1> HIDE DEF ms
<1>4. Unreported(k)' = Unreported(k)
  BY <1>1, <1>2, SameEntries
<1>5. CASE k # K(c)
  <2>1. zset'[k] = zset[k] /\ told'[k] = told[k] /\ untold'[k] = untold[k]
    BY <1>1, <1>2, <1>5
  <2> QED
    BY <1>4, <2>1, SameCount DEF InSet
<1>6. CASE k = K(c)
  <2>1. InSet(zset[k])' = InSet(zset[k]) \ ms
    <3>1. zset'[k] = [m \in Members |-> IF m \in ms THEN None ELSE zset[k][m]]
      BY <1>1, <1>2, <1>6
    <3> QED
      BY <3>1 DEF InSet
  <2>2. Counted(k) /\ IsFiniteSet(InSet(zset[k])) /\ Cardinality(InSet(zset[k])) \in Nat
        /\ told[k] \in Int /\ untold[k] \in Int /\ Cardinality(Unreported(k)) \in Nat
    BY MembersFinite, FS_CardinalityType DEF Counted
  <2>3. Cardinality(InSet(zset[k])') = Cardinality(InSet(zset[k])) - Cardinality(gone)
    BY <1>6, <2>1, <2>2, FS_Difference
  <2>4. Cardinality(gone) \in Nat
    <3>1. IsFiniteSet(gone)
      BY <1>6, <2>2, FS_Subset
    <3> QED
      BY <3>1, FS_CardinalityType
  <2>5. told'[k] = told[k] + (-Cardinality(gone)) /\ untold'[k] = untold[k]
    BY <1>1, <1>2, <1>3, <1>6
  <2> HIDE DEF gone
  <2> QED
    BY <1>4, <2>2, <2>3, <2>4, <2>5 DEF Counted
<1> QED
  BY <1>5, <1>6

LEMMA CountedInit == Init => \A k \in Keys : Counted(k)
<1> SUFFICES ASSUME Init, NEW k \in Keys PROVE Counted(k)
  OBVIOUS
<1>1. InSet(zset[k]) = {}
  BY DEF Init, InSet, Nobody
<1>2. Unreported(k) = {}
  BY DEF Init, Unreported
<1> QED
  BY <1>1, <1>2, FS_EmptySet DEF Init, Counted

LEMMA CountedStep == Inv /\ (\A k \in Keys : Counted(k)) /\ [Next]_vars => (\A k \in Keys : Counted(k))'
<1> SUFFICES ASSUME Inv, \A k \in Keys : Counted(k), [Next]_vars, NEW k \in Keys PROVE Counted(k)'
  OBVIOUS
<1> TypeOK
  BY DEF Inv
<1>0. CASE UNCHANGED vars
  <2>1. zset' = zset /\ told' = told /\ untold' = untold /\ added' = added /\ call' = call
    BY <1>0 DEF vars, store, proc, ghost
  <2>2. Unreported(k)' = Unreported(k) /\ InSet(zset[k])' = InSet(zset[k])
    BY <2>1 DEF Unreported, InSet, K
  <2> QED
    BY <2>1, <2>2, SameCount
<1> SUFFICES ASSUME Next PROVE Counted(k)'
  BY <1>0
<1> PICK c \in Conns : Begin(c) \/ ZAdd(c) \/ GeoAdd(c) \/ Refuse(c) \/ Persist(c) \/ GeoReply(c) \/ ZRem(c)
  BY DEF Next
<1>1. CASE Begin(c)
  <2>1. /\ call[c] = None /\ added' = added /\ zset' = zset /\ told' = told /\ untold' = untold
        /\ \A d \in Conns \ {c} : call'[d] = call[d]
    BY <1>1 DEF Begin, store, ghost
  <2>2. added[c] = 0
    BY <2>1 DEF TypeOK
  <2>3. Unreported(k)' = Unreported(k)
    BY <2>1, <2>2, SameEntries
  <2> QED
    BY <2>1, <2>3, SameCount DEF InSet
<1> SUFFICES ASSUME call[c] # None PROVE Counted(k)'
  BY <1>1 DEF ZAdd, GeoAdd, Refuse, Persist, GeoReply, ZRem, Runs
<1>c. call[c] \in Calls /\ next[c] \in Nat \ {0}
  BY DEF TypeOK
<1>a. More(c) => Arg(c).member \in Members
  BY <1>c, CallFacts DEF More, Arg
<1>d. More(c) => next[c] \in DOMAIN call[c].args
  BY <1>c, CallFacts DEF More
<1>2. CASE ZAdd(c)
  <2>1. Arg(c).score # None
    BY <1>2, <1>c, <1>d, NoneAssumption DEF ZAdd, Arg, Runs
  <2> QED
    BY <1>2, <1>a, <2>1, PutCounts DEF ZAdd
<1>3. CASE GeoAdd(c)
  <2>1. Float(encode(Arg(c).latitude, Arg(c).longitude)) # None
    BY <1>3, <1>c, <1>d, NoneAssumption DEF GeoAdd, Arg, Runs
  <2> QED
    BY <1>3, <1>a, <2>1, PutCounts DEF GeoAdd
<1>4. CASE Refuse(c) \/ Persist(c) \/ GeoReply(c)
  BY <1>4, EndCounts DEF Refuse, Persist, GeoReply, ReplyError, Tell, store
<1>5. CASE ZRem(c)
  BY <1>5, RemCounts
<1> QED
  BY <1>1, <1>2, <1>3, <1>4, <1>5

-------------------------------------------------------------------------------

LEMMA Invariant == Spec => []Inv
<1>1. Inv /\ [Next]_vars => Inv'
  BY TypeStep, ParsedStep, OwnsStep, ScoredStep, LogMatchesStep DEF Inv
<1> QED
  BY InvInit, <1>1, PTL DEF Spec

\* Every variable keeps its type: no score has more than 54 bits, no ZADD logs a score that did
\* not parse, and no loop runs past its arguments.
THEOREM TypeCorrect == Spec => []TypeOK
BY Invariant, PTL DEF Inv

\* The log gives every member the score it has, but for those whose difference is accounted for:
\* persistWriteCommand logs ZADD whole, after its last member, whoever else stores the same ones.
THEOREM LogAgrees == Spec => []LogMatchesStore
BY Invariant, PTL DEF Inv

\* What GEOADD encoded, decode finds in the score for as long as the member has that score.
THEOREM GeoposCorrect == Spec => []GeoposTellsTheCell
<1>1. Inv => GeoposTellsTheCell
  <2> SUFFICES ASSUME Inv, NEW k \in Keys, NEW m \in Members, cell[k][m] # None
               PROVE  decode(zset[k][m]) =
                        [cell[k][m] EXCEPT !.lat = IF GridBits \in cell[k][m].lon THEN @ \ {0} ELSE @]
    BY DEF GeoposTellsTheCell
  <2> PICK x \in SUBSET (0 .. GridBits), y \in SUBSET (0 .. GridBits) : cell[k][m] = [lat |-> x, lon |-> y]
    BY DEF Inv, Scored
  <2> DEFINE w == interleave(x, y)
  <2>1. x \in SUBSET (0 .. 26) /\ y \in SUBSET (0 .. 26) /\ zset[k][m] = Float(w)
    BY DEF Inv, Scored, GridBits
  <2>r. x \in SUBSET (0 .. 31) /\ x \ {0} \in SUBSET (0 .. 31) /\ y \in SUBSET (0 .. 31)
    BY <2>1
  <2>2. w = {2 * b : b \in x} \union {2 * b + 1 : b \in y}
    BY <2>r, Interleaved
  <2>3. 53 \in w <=> 26 \in y
    BY <2>1, <2>2
  <2>4. w \ {0} = interleave(x \ {0}, y)
    <3>1. interleave(x \ {0}, y) = {2 * b : b \in x \ {0}} \union {2 * b + 1 : b \in y}
      BY <2>r, Interleaved
    <3>2. 0 \notin interleave(x \ {0}, y)
      BY <2>r, <3>1
    <3>3. ASSUME NEW a, a # 0 PROVE a \in w <=> a \in interleave(x \ {0}, y)
      <4>1. a \in {2 * b : b \in x} => a \in {2 * b : b \in x \ {0}}
        <5> SUFFICES ASSUME NEW b \in x, a = 2 * b PROVE b \in x \ {0}
          OBVIOUS
        <5> QED
          BY <2>r, <3>3
      <4> HIDE DEF w
      <4> QED
        BY <4>1, <2>2, <3>1
    <3> HIDE DEF w
    <3> QED
      BY <3>2, <3>3
  <2>5. CASE 26 \in y
    <3>1. decode(interleave(x \ {0}, y)) = [lat |-> x \ {0}, lon |-> y]
      BY <2>r, DecodeInterleaved
    <3> QED
      BY <2>1, <2>3, <2>4, <2>5, <3>1 DEF Float, GridBits
  <2>6. CASE 26 \notin y
    <3>1. decode(interleave(x, y)) = [lat |-> x, lon |-> y]
      BY <2>1, DecodeInterleaved
    <3> QED
      BY <2>1, <2>3, <2>6, <3>1 DEF Float, GridBits
  <2> QED
    BY <2>5, <2>6
<1> QED
  BY <1>1, Invariant, PTL

\* What GEOPOS replies is the middle of the cell from which the score was made: GEOADD takes it and
\* makes the same score, but for cells that begin at the upper end of a range.
THEOREM GeoposRoundTrip == Spec => []GeoposCanBeAdded
<1>1. Inv /\ GeoposTellsTheCell => GeoposCanBeAdded
  <2> SUFFICES ASSUME Inv, GeoposTellsTheCell, NEW k \in Keys, NEW m \in Members, cell[k][m] # None
               PROVE  LET at  == decode(zset[k][m])
                          arg == convertGridNumbersToCoordinates(at.lat, at.lon)
                      IN  IF GridBits \in at.lat \union at.lon
                          THEN ~InRange(arg)
                          ELSE InRange(arg) /\ Float(encode(arg.latitude, arg.longitude)) = zset[k][m]
    BY DEF GeoposCanBeAdded
  <2> DEFINE at  == decode(zset[k][m])
             arg == convertGridNumbersToCoordinates(at.lat, at.lon)
  <2> PICK x \in SUBSET (0 .. GridBits), y \in SUBSET (0 .. GridBits) : cell[k][m] = [lat |-> x, lon |-> y]
    BY DEF Inv, Scored
  <2>1. x \in SUBSET (0 .. 26) /\ y \in SUBSET (0 .. 26) /\ zset[k][m] = Float(interleave(x, y))
    BY DEF Inv, Scored, GridBits
  <2>2. at = [lat |-> IF 26 \in y THEN x \ {0} ELSE x, lon |-> y]
    BY DEF GeoposTellsTheCell, GridBits
  <2>3. at.lat \in SUBSET (0 .. 26) /\ at.lon = y /\ (26 \notin y => at.lat = x)
    BY <2>1, <2>2
  <2>4. arg.latitude = 2 * Number(at.lat) + 1 /\ arg.longitude = 2 * Number(at.lon) + 1
    BY DEF convertGridNumbersToCoordinates
  <2> HIDE DEF at, arg
  <2>5. /\ arg.latitude \in 0 .. 2 * Cells <=> 26 \notin at.lat
        /\ arg.longitude \in 0 .. 2 * Cells <=> 26 \notin at.lon
    BY <2>1, <2>3, <2>4, MiddleInRange
  <2>6. Grid(arg.latitude) = at.lat /\ Grid(arg.longitude) = at.lon
    BY <2>1, <2>3, <2>4, GridOfMiddle
  <2>7. InRange(arg) <=> 26 \notin at.lat \union at.lon
    BY <2>5 DEF InRange
  <2>8. 26 \notin at.lon => Float(encode(arg.latitude, arg.longitude)) = zset[k][m]
    BY <2>1, <2>3, <2>6 DEF encode
  <2> QED
    BY <2>7, <2>8 DEF GridBits, at, arg
<1> QED
  BY <1>1, Invariant, GeoposCorrect, PTL

\* Whichever order the map is read in, ZRANGE and ZRANK get the members in one order: by score, then
\* by name. Ranges meet wherever they are cut, and ranks are the places at which ranges find members.
THEOREM RangesAgree == Spec => []RangesMeet
<1>1. TypeOK => RangesMeet
  <2> SUFFICES ASSUME TypeOK, NEW k \in Keys, NaN \notin {zset[k][m] : m \in Members}
               PROVE  /\ Cardinality(SortedZSetNodes(zset[k])) = 1
                      /\ \A nodes \in SortedZSetNodes(zset[k]) :
                           /\ \A i \in (-Cardinality(Members) - 1 .. Cardinality(Members) + 1) \ {-1} :
                                ZRange(nodes, 0, i) \o ZRange(nodes, i + 1, -1) = nodes
                           /\ \A m \in Members : LET r == ZRank(nodes, m) IN
                                IF m \in InSet(zset[k]) THEN ZRange(nodes, r, r) = <<m>> ELSE r = -1
                           /\ \A i, j \in DOMAIN nodes : i < j =>
                                LET a == zset[k][nodes[i]]  b == zset[k][nodes[j]] IN
                                  LessBits(a, b) \/ (a = b /\ nodes[i] < nodes[j])
    BY DEF RangesMeet
  <2> DEFINE z == zset[k]
             S == InSet(z)
  <2>1. z \in [Members -> {None} \union Scores]
    BY DEF TypeOK
  <2>2. S \subseteq Members /\ IsFiniteSet(S) /\ S \subseteq Nat
    <3>1. S \subseteq Members
      BY DEF InSet
    <3> QED
      BY <3>1, MembersAssumption, FS_Subset
  <2>3. Numbered(z, S)
    <3>1. \A m \in S : m \in Members /\ z[m] # None /\ z[m] # NaN /\ z[m] \in {None} \union Scores
      BY <2>1 DEF InSet
    <3> QED
      BY <2>2, <3>1 DEF Numbered, Scores
  <2>4. Cardinality(SortedZSetNodes(z)) = 1
    BY <2>2, <2>3, OneResult
  <2> SUFFICES ASSUME NEW nodes \in SortedZSetNodes(z)
               PROVE  /\ \A i \in (-Cardinality(Members) - 1 .. Cardinality(Members) + 1) \ {-1} :
                           ZRange(nodes, 0, i) \o ZRange(nodes, i + 1, -1) = nodes
                      /\ \A m \in Members : LET r == ZRank(nodes, m) IN
                           IF m \in S THEN ZRange(nodes, r, r) = <<m>> ELSE r = -1
                      /\ \A i, j \in DOMAIN nodes : i < j =>
                           LET a == z[nodes[i]]  b == z[nodes[j]] IN
                             LessBits(a, b) \/ (a = b /\ nodes[i] < nodes[j])
    BY <2>4
  <2>5. /\ nodes \in Seq(S) /\ IsSorted(z, nodes)
        /\ \A e \in S : \E i \in 1 .. Len(nodes) : nodes[i] = e
    BY <2>2, <2>3, NodesAreSorted
  <2> HIDE DEF z, S
  <2>6. /\ Len(nodes) \in Nat /\ DOMAIN nodes = 1 .. Len(nodes)
        /\ \A i \in 1 .. Len(nodes) : nodes[i] \in S
    BY <2>5
  <2>7. ASSUME NEW i \in 1 .. Len(nodes), NEW j \in 1 .. Len(nodes), nodes[i] = nodes[j]
        PROVE  i = j
    <3>1. ~Before(z, nodes[i], nodes[i])
      BY <2>2, <2>6, BeforeIrreflexive
    <3>2. ~(i < j) /\ ~(j < i)
      BY <2>5, <2>6, <2>7, <3>1 DEF IsSorted
    <3> QED
      BY <2>6, <3>2
  <2>8. ASSUME NEW i \in (-Cardinality(Members) - 1 .. Cardinality(Members) + 1) \ {-1}
        PROVE  ZRange(nodes, 0, i) \o ZRange(nodes, i + 1, -1) = nodes
    <3>1. i \in Int /\ i # -1
      OBVIOUS
    <3> QED
      BY <2>5, <3>1, RangesSplit
  <2>9. ASSUME NEW m \in Members
        PROVE  IF m \in S THEN ZRange(nodes, ZRank(nodes, m), ZRank(nodes, m)) = <<m>>
               ELSE ZRank(nodes, m) = -1
    <3>1. \A i, j \in 1 .. Len(nodes) : nodes[i] = nodes[j] => i = j
      BY <2>7
    <3>2. /\ (\E i \in 1 .. Len(nodes) : nodes[i] = m) => ZRange(nodes, ZRank(nodes, m), ZRank(nodes, m)) = <<m>>
          /\ ~(\E i \in 1 .. Len(nodes) : nodes[i] = m) => ZRank(nodes, m) = -1
      BY <2>5, <3>1, RankFinds
    <3> QED
      BY <2>5, <2>6, <3>2
  <2>10. ASSUME NEW i \in DOMAIN nodes, NEW j \in DOMAIN nodes, i < j
         PROVE  \/ LessBits(z[nodes[i]], z[nodes[j]])
                \/ z[nodes[i]] = z[nodes[j]] /\ nodes[i] < nodes[j]
    BY <2>5, <2>10 DEF IsSorted, Before
  <2> QED
    BY <2>8, <2>9, <2>10
<1> QED
  BY <1>1, TypeCorrect, PTL

\* What the clients are told adds up to the members that there are, however ZADDs, GEOADDs
\* and ZREMs of the same members interleave and fail half way.
THEOREM RepliesAreRight == Spec => []RepliesAddUp
<1>1. (\A k \in Keys : Counted(k)) => RepliesAddUp
  BY DEF Counted, RepliesAddUp
<1> QED
  BY <1>1, CountedInit, CountedStep, Invariant, PTL DEF Spec

===============================================================================
