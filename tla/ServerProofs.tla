------------------------------ MODULE ServerProofs ------------------------------
(***************************************************************************)
(* Theorems about the server seen from outside: what a start makes of the  *)
(* bytes on the disk (Startup, with the formats of Resp and RDB), and what *)
(* the sessions of its clients get for their commands (Sessions).          *)
(*                                                                         *)
(* They hold for every request, RDB file and crash, and for every set of   *)
(* connections, channels, passwords and commands, without the bounds of    *)
(* the runs.                                                               *)
(*                                                                         *)
(*   1. A value that encodeRESPArray wrote is read back by ParseRESP,      *)
(*      whatever is behind it, and a torn one is an error that says where  *)
(*      it was torn: by induction on the nesting of values (RoundTrip).    *)
(*   2. So a replay reads the log back, write by write, up to a torn one   *)
(*      (LogIsReadBack), and makes a store that has each key as the        *)
(*      server has it, with an instant of expiry no sooner: a SET, an      *)
(*      expiry and the clock keep that (ProlongedAfterSet, ...AfterExpiry, *)
(*      ...Later).  BootInv says so of every state of Startup.             *)
(*   3. A reader of the RDB file never looks behind what it takes          *)
(*      (SectionLocal), so the sections of a file are read one by one      *)
(*      (SectionsPeel), and a part of one is an error (SectionPart).       *)
(*   4. Sessions: types, subscriptions, answers and permissions.           *)
(***************************************************************************)
EXTENDS Sessions, Startup, SequenceTheorems, WellFoundedInduction, FiniteSetTheorems, TLAPS
LOCAL INSTANCE FiniteSetsExt

-------------------------------------------------------------------------------
(* Recursive functions: each has the value its definition gives, by a recursion *)
(* on the natural numbers whose steps are told apart by a record.          *)

\* A set of numbers has a least one.
LEMMA LeastNumber ==
  ASSUME NEW T \in SUBSET Nat, T # {}
  PROVE  \E x \in T : \A y \in T : x <= y
<1> DEFINE R == OpToRel(<, Nat)
<1>1. PICK x \in T : \A y \in T : <<y, x>> \notin R
  <2> HIDE DEF R
  <2>1. IsWellFoundedOn(R, Nat)
    BY NatLessThanWellFounded DEF R
  <2> QED
    BY <2>1, WFMin
<1>2. \A y \in T : <<y, x>> \in Nat \X Nat
  OBVIOUS
<1>3. \A y \in T : ~(y < x)
  BY <1>1, <1>2 DEF OpToRel
<1> QED
  BY <1>3

\* A set of numbers has one without a predecessor in it.
LEMMA FirstNumber ==
  ASSUME NEW T \in SUBSET Nat, T # {}
  PROVE  \E x \in T : x - 1 \notin T
<1>1. PICK x \in T : \A y \in T : x <= y
  BY LeastNumber
<1>2. x \in Nat /\ ~(x <= x - 1)
  OBVIOUS
<1> QED
  BY <1>1, <1>2
ValuesStep(n, x) ==
  [kind : {"string"}, of : Bytes] \union [kind : {"int"}, of : Int] \union {Nil} \union
     IF n = 0 THEN {} ELSE [kind : {"array"}, of : Seq(x)]

EncodedStep(n, x) ==
  [v \in Values[n] |-> EncodedValue(x, v)]

AsTextStep(n, x) ==
  [v \in Values[n] |-> ValueAsText(x, v)]

InStringStep(n, x) ==
  [v \in Values[n] |-> EndsInString(n, x, v)]

ParseElementsStep(n, x) ==
  [total \in Int |-> [b \in Bytes |->
   IF total <= 0 THEN Ok(<<>>, b)
   ELSE IF n = 0 THEN Fail("EOF")
   ELSE Then(ParseValue(x, b), LAMBDA v, rest :
          Then(x[total - 1][rest], LAMBDA vs, left : Ok(<<v>> \o vs, left)))]]

ParseSectionsStep(n, x) ==
  [b \in Bytes |->
   IF n = 0 \/ b = <<>> \/ b[1] = 255 THEN Ok(Nothing, <<>>)
   ELSE Then(Section(b[1], Tail(b)), LAMBDA read, rest :
          Then(x[rest], LAMBDA later, left : Ok(Over(later, read), left)))]

ReplayedStep(n, x) ==
  [b \in Bytes |->
   LET v == ParseRESP(b)
       r == x[v.rest]
   IN  IF n = 0 \/ v.err # "nil" THEN [cmds |-> <<>>, err |-> v.err]
       ELSE [cmds |-> IF v.val.kind = "array" /\ v.val.of # <<>> THEN <<v.val.of>> \o r.cmds ELSE r.cmds,
             err  |-> r.err]]

LittleEndianStep(bytes, n, x) ==
  IF n = 0 THEN IF bytes[Len(bytes)] < 128 THEN bytes[Len(bytes)] ELSE bytes[Len(bytes)] - 256
  ELSE 256 * x + bytes[Len(bytes) - n]

DigitsOfOne(i, tens) == IF i < 10 THEN <<48 + i>> ELSE tens \o <<48 + (i % 10)>>

\* The digits of all numbers up to n.
DigitsStep(n, x) == [i \in 0 .. n |-> DigitsOfOne(i, x[i \div 10])]

\* What the value at n of a recursive function is, if x is the one at n - 1.
Step(k, n, x) ==
  CASE k.of = "Values" -> ValuesStep(n, x)
    [] k.of = "Encoded" -> EncodedStep(n, x)
    [] k.of = "AsText" -> AsTextStep(n, x)
    [] k.of = "InString" -> InStringStep(n, x)
    [] k.of = "ParseElements" -> ParseElementsStep(n, x)
    [] k.of = "ParseSections" -> ParseSectionsStep(n, x)
    [] k.of = "Replayed" -> ReplayedStep(n, x)
    [] k.of = "Concat" -> IF n = 0 THEN <<>> ELSE x \o k.texts[n]
    [] k.of = "Number" -> IF n = 0 THEN 0 ELSE 10 * x + (k.digits[n] - 48)
    [] k.of = "Kept" -> IF n = 0 THEN <<>>
         ELSE IF Whole(k.writes[n]) THEN Append(x, Text(k.writes[n].cmd)) ELSE x
    [] k.of = "ApplyAll" -> IF n = 0 THEN k.store ELSE Apply(x, k.cmds[n], k.at)
    [] k.of = "Brought" -> IF n = 0 THEN Nothing ELSE Over(SectionRead(k.sections[n]), x)
    [] k.of = "LittleEndian" -> LittleEndianStep(k.bytes, n, x)
    [] k.of = "Digits" -> DigitsStep(n, x)

Unfolds(k, n, h) ==
  /\ h = [i \in 0 .. n |-> h[i]]
  /\ h[0] = Step(k, 0, <<>>)
  /\ \A i \in 1 .. n : h[i] = Step(k, i, h[i - 1])

\* Two functions that unfold the same recursion agree where both are defined.
LEMMA UnfoldsAgree ==
  ASSUME NEW k, NEW n \in Nat, NEW m \in Nat, NEW g, NEW h, Unfolds(k, n, g), Unfolds(k, m, h), n <= m
  PROVE  \A i \in 0 .. n : g[i] = h[i]
<1> DEFINE T == {i \in 0 .. n : g[i] # h[i]}
<1>1. SUFFICES ASSUME T # {} PROVE FALSE
  OBVIOUS
<1>2. PICK i \in T : i - 1 \notin T
  <2>1. T \in SUBSET Nat
    OBVIOUS
  <2> HIDE DEF T
  <2> QED
    BY <1>1, <2>1, FirstNumber
<1>3. CASE i = 0
  BY <1>2, <1>3 DEF Unfolds
<1>4. CASE i # 0
  <2>1. i \in 1 .. n /\ i \in 1 .. m /\ i - 1 \in 0 .. n
    BY <1>2, <1>4
  <2>2. g[i - 1] = h[i - 1]
    BY <1>2, <2>1
  <2>3. g[i] = Step(k, i, g[i - 1]) /\ h[i] = Step(k, i, h[i - 1])
    BY <2>1 DEF Unfolds
  <2> QED
    BY <1>2, <2>2, <2>3
<1> QED
  BY <1>3, <1>4

\* A recursion can be unfolded as far as one wants.
LEMMA UnfoldsExists ==
  ASSUME NEW k, NEW n \in Nat
  PROVE  \E h : Unfolds(k, n, h)
<1> DEFINE T == {i \in Nat : ~ \E h : Unfolds(k, i, h)}
<1>1. SUFFICES ASSUME T # {} PROVE FALSE
  OBVIOUS
<1>2. PICK i \in T : i - 1 \notin T
  <2>1. T \in SUBSET Nat
    OBVIOUS
  <2> HIDE DEF T
  <2> QED
    BY <1>1, <2>1, FirstNumber
<1>3. CASE i = 0
  <2> DEFINE h == [j \in 0 .. 0 |-> Step(k, 0, <<>>)]
  <2>1. h[0] = Step(k, 0, <<>>) /\ h = [j \in 0 .. 0 |-> h[j]]
    OBVIOUS
  <2>2. \A j \in 1 .. 0 : FALSE
    OBVIOUS
  <2>3. Unfolds(k, 0, h)
    BY <2>1, <2>2 DEF Unfolds
  <2> QED
    BY <2>3, <1>2, <1>3
<1>4. CASE i # 0
  <2>1. i \in Nat /\ i - 1 \in Nat /\ i > 0
    BY <1>2, <1>4
  <2>2. PICK g : Unfolds(k, i - 1, g)
    BY <1>2, <2>1
  <2> DEFINE h == [j \in 0 .. i |-> IF j = i THEN Step(k, i, g[i - 1]) ELSE g[j]]
  <2>3. h = [j \in 0 .. i |-> h[j]]
    OBVIOUS
  <2>4. h[0] = Step(k, 0, <<>>)
    <3>1. h[0] = g[0]
      BY <2>1
    <3> QED
      BY <2>2, <3>1 DEF Unfolds
  <2>5. ASSUME NEW j \in 1 .. i PROVE h[j] = Step(k, j, h[j - 1])
    <3>1. j \in 0 .. i /\ j - 1 \in 0 .. i /\ j - 1 # i
      BY <2>1
    <3>2. h[j - 1] = g[j - 1]
      BY <3>1
    <3>3. CASE j = i
      BY <3>1, <3>2, <3>3
    <3>4. CASE j # i
      <4>1. j \in 1 .. i - 1
        BY <3>4, <2>1
      <4>2. g[j] = Step(k, j, g[j - 1])
        BY <4>1, <2>2 DEF Unfolds
      <4>3. h[j] = g[j]
        BY <3>1, <3>4
      <4> QED
        BY <3>2, <4>2, <4>3
    <3> QED
      BY <3>3, <3>4
  <2>6. Unfolds(k, i, h)
    <3> HIDE DEF h
    <3> QED
      BY <2>3, <2>4, <2>5 DEF Unfolds
  <2> QED
    BY <2>6, <1>2
<1> QED
  BY <1>3, <1>4

\* A recursion that never ends has a value at every number.
LEMMA RecursionOnNat ==
  ASSUME NEW k
  PROVE  \E h : h = [n \in Nat |-> Step(k, n, IF n = 0 THEN <<>> ELSE h[n - 1])]
<1> DEFINE upto == [n \in Nat |-> CHOOSE g : Unfolds(k, n, g)]
           h    == [n \in Nat |-> upto[n][n]]
<1>1. \A n \in Nat : Unfolds(k, n, upto[n])
  BY UnfoldsExists
<1>2. ASSUME NEW n \in Nat PROVE h[n] = Step(k, n, IF n = 0 THEN <<>> ELSE h[n - 1])
  <2>1. CASE n = 0
    <3>1. Unfolds(k, 0, upto[0])
      BY <1>1
    <3> QED
      BY <3>1, <2>1 DEF Unfolds
  <2>2. CASE n # 0
    <3>1. n - 1 \in Nat /\ n - 1 <= n /\ n \in 1 .. n /\ n - 1 \in 0 .. n - 1
      BY <2>2
    <3>2. Unfolds(k, n, upto[n]) /\ Unfolds(k, n - 1, upto[n - 1])
      BY <1>1, <3>1
    <3>3. upto[n - 1][n - 1] = upto[n][n - 1]
      <4> HIDE DEF upto, h
      <4> DEFINE g == upto[n - 1]
                 f == upto[n]
      <4>1. Unfolds(k, n - 1, g) /\ Unfolds(k, n, f)
        BY <3>2
      <4> HIDE DEF g, f
      <4>2. \A i \in 0 .. n - 1 : g[i] = f[i]
        BY <3>1, <4>1, UnfoldsAgree
      <4>3. g[n - 1] = f[n - 1]
        BY <3>1, <4>2
      <4> QED
        BY <4>3 DEF g, f
    <3>4. upto[n][n] = Step(k, n, upto[n][n - 1])
      <4> HIDE DEF upto
      <4> QED
        BY <3>1, <3>2 DEF Unfolds
    <3>5. h[n] = upto[n][n] /\ h[n - 1] = upto[n - 1][n - 1]
      <4> HIDE DEF upto
      <4> QED
        BY <3>1
    <3> QED
      BY <3>3, <3>4, <3>5, <2>2
  <2> QED
    BY <2>1, <2>2
<1>3. h = [n \in Nat |-> h[n]]
  OBVIOUS
<1> HIDE DEF h
<1>4. h = [n \in Nat |-> Step(k, n, IF n = 0 THEN <<>> ELSE h[n - 1])]
  BY <1>2, <1>3
<1> QED
  BY <1>4

\* One that ends at N.
LEMMA RecursionUpTo ==
  ASSUME NEW k, NEW N \in Nat
  PROVE  \E h : h = [n \in 0 .. N |-> Step(k, n, IF n = 0 THEN <<>> ELSE h[n - 1])]
<1>1. PICK g : Unfolds(k, N, g)
  BY UnfoldsExists
<1>2. ASSUME NEW n \in 0 .. N PROVE g[n] = Step(k, n, IF n = 0 THEN <<>> ELSE g[n - 1])
  BY <1>1 DEF Unfolds
<1>3. g = [n \in 0 .. N |-> g[n]]
  BY <1>1 DEF Unfolds
<1>4. g = [n \in 0 .. N |-> Step(k, n, IF n = 0 THEN <<>> ELSE g[n - 1])]
  BY <1>2, <1>3
<1> QED
  BY <1>4

\* Each recursive function of the model satisfies its defining equation.
LEMMA ValuesIs ==
  ASSUME NEW n \in Nat
  PROVE  Values[n] = ValuesStep(n, Values[n - 1])
<1> DEFINE k    == [of |-> "Values"]
           G(h) == [m \in Nat |-> ValuesStep(m, h[m - 1])]
<1>1. PICK h : h = [m \in Nat |-> Step(k, m, IF m = 0 THEN <<>> ELSE h[m - 1])]
  <2> HIDE DEF k
  <2> QED
    BY RecursionOnNat
<1>2. ASSUME NEW x PROVE ValuesStep(0, x) = ValuesStep(0, <<>>)
  BY DEF ValuesStep
<1>3. h = G(h)
  <2>1. ASSUME NEW m \in Nat PROVE Step(k, m, IF m = 0 THEN <<>> ELSE h[m - 1]) = ValuesStep(m, h[m - 1])
    <3>1. Step(k, m, IF m = 0 THEN <<>> ELSE h[m - 1]) = ValuesStep(m, IF m = 0 THEN <<>> ELSE h[m - 1])
      BY DEF Step
    <3> QED
      BY <1>2, <3>1
  <2> QED
    BY <1>1, <2>1
<1>4. Values = CHOOSE x : x = G(x)
  BY DEF Values, ValuesStep
<1>5. Values = G(Values)
  <2> HIDE DEF G
  <2> QED
    BY <1>3, <1>4
<1> QED
  BY <1>5

LEMMA EncodedIs ==
  ASSUME NEW n \in Nat
  PROVE  Encoded[n] = EncodedStep(n, Encoded[n - 1])
<1> DEFINE k    == [of |-> "Encoded"]
           G(h) == [m \in Nat |-> EncodedStep(m, h[m - 1])]
<1>1. PICK h : h = [m \in Nat |-> Step(k, m, IF m = 0 THEN <<>> ELSE h[m - 1])]
  <2> HIDE DEF k
  <2> QED
    BY RecursionOnNat
<1>2. ASSUME NEW x PROVE EncodedStep(0, x) = EncodedStep(0, <<>>)
  <3>1. ASSUME NEW v \in Values[0] PROVE v.kind # "array"
    BY ValuesIs DEF ValuesStep, Nil
  <3> QED
    BY <3>1 DEF EncodedStep, EncodedValue
<1>3. h = G(h)
  <2>1. ASSUME NEW m \in Nat PROVE Step(k, m, IF m = 0 THEN <<>> ELSE h[m - 1]) = EncodedStep(m, h[m - 1])
    <3>1. Step(k, m, IF m = 0 THEN <<>> ELSE h[m - 1]) = EncodedStep(m, IF m = 0 THEN <<>> ELSE h[m - 1])
      BY DEF Step
    <3> QED
      BY <1>2, <3>1
  <2> QED
    BY <1>1, <2>1
<1>4. Encoded = CHOOSE x : x = G(x)
  BY DEF Encoded, EncodedStep
<1>5. Encoded = G(Encoded)
  <2> HIDE DEF G
  <2> QED
    BY <1>3, <1>4
<1> QED
  BY <1>5

LEMMA AsTextIs ==
  ASSUME NEW n \in Nat
  PROVE  AsText[n] = AsTextStep(n, AsText[n - 1])
<1> DEFINE k    == [of |-> "AsText"]
           G(h) == [m \in Nat |-> AsTextStep(m, h[m - 1])]
<1>1. PICK h : h = [m \in Nat |-> Step(k, m, IF m = 0 THEN <<>> ELSE h[m - 1])]
  <2> HIDE DEF k
  <2> QED
    BY RecursionOnNat
<1>2. ASSUME NEW x PROVE AsTextStep(0, x) = AsTextStep(0, <<>>)
  <3>1. ASSUME NEW v \in Values[0] PROVE v.kind # "array"
    BY ValuesIs DEF ValuesStep, Nil
  <3> QED
    BY <3>1 DEF AsTextStep, ValueAsText
<1>3. h = G(h)
  <2>1. ASSUME NEW m \in Nat PROVE Step(k, m, IF m = 0 THEN <<>> ELSE h[m - 1]) = AsTextStep(m, h[m - 1])
    <3>1. Step(k, m, IF m = 0 THEN <<>> ELSE h[m - 1]) = AsTextStep(m, IF m = 0 THEN <<>> ELSE h[m - 1])
      BY DEF Step
    <3> QED
      BY <1>2, <3>1
  <2> QED
    BY <1>1, <2>1
<1>4. AsText = CHOOSE x : x = G(x)
  BY DEF AsText, AsTextStep
<1>5. AsText = G(AsText)
  <2> HIDE DEF G
  <2> QED
    BY <1>3, <1>4
<1> QED
  BY <1>5

LEMMA InStringIs ==
  ASSUME NEW n \in Nat
  PROVE  InString[n] = InStringStep(n, InString[n - 1])
<1> DEFINE k    == [of |-> "InString"]
           G(h) == [m \in Nat |-> InStringStep(m, h[m - 1])]
<1>1. PICK h : h = [m \in Nat |-> Step(k, m, IF m = 0 THEN <<>> ELSE h[m - 1])]
  <2> HIDE DEF k
  <2> QED
    BY RecursionOnNat
<1>2. ASSUME NEW x PROVE InStringStep(0, x) = InStringStep(0, <<>>)
  <3>1. ASSUME NEW v \in Values[0] PROVE v.kind # "array"
    BY ValuesIs DEF ValuesStep, Nil
  <3> QED
    BY <3>1 DEF InStringStep, EndsInString
<1>3. h = G(h)
  <2>1. ASSUME NEW m \in Nat PROVE Step(k, m, IF m = 0 THEN <<>> ELSE h[m - 1]) = InStringStep(m, h[m - 1])
    <3>1. Step(k, m, IF m = 0 THEN <<>> ELSE h[m - 1]) = InStringStep(m, IF m = 0 THEN <<>> ELSE h[m - 1])
      BY DEF Step
    <3> QED
      BY <1>2, <3>1
  <2> QED
    BY <1>1, <2>1
<1>4. InString = CHOOSE x : x = G(x)
  BY DEF InString, InStringStep
<1>5. InString = G(InString)
  <2> HIDE DEF G
  <2> QED
    BY <1>3, <1>4
<1> QED
  BY <1>5

LEMMA ParseElementsIs ==
  ASSUME NEW n \in Nat
  PROVE  ParseElements[n] = ParseElementsStep(n, ParseElements[n - 1])
<1> DEFINE k    == [of |-> "ParseElements"]
           G(h) == [m \in Nat |-> ParseElementsStep(m, h[m - 1])]
<1>1. PICK h : h = [m \in Nat |-> Step(k, m, IF m = 0 THEN <<>> ELSE h[m - 1])]
  <2> HIDE DEF k
  <2> QED
    BY RecursionOnNat
<1>2. ASSUME NEW x PROVE ParseElementsStep(0, x) = ParseElementsStep(0, <<>>)
  BY DEF ParseElementsStep, Then
<1>3. h = G(h)
  <2>1. ASSUME NEW m \in Nat PROVE Step(k, m, IF m = 0 THEN <<>> ELSE h[m - 1]) = ParseElementsStep(m, h[m - 1])
    <3>1. Step(k, m, IF m = 0 THEN <<>> ELSE h[m - 1]) = ParseElementsStep(m, IF m = 0 THEN <<>> ELSE h[m - 1])
      BY DEF Step
    <3> QED
      BY <1>2, <3>1
  <2> QED
    BY <1>1, <2>1
<1>4. ParseElements = CHOOSE x : x = G(x)
  BY DEF ParseElements, ParseElementsStep, Then
<1>5. ParseElements = G(ParseElements)
  <2> HIDE DEF G
  <2> QED
    BY <1>3, <1>4
<1> QED
  BY <1>5

LEMMA ParseSectionsIs ==
  ASSUME NEW n \in Nat
  PROVE  ParseSections[n] = ParseSectionsStep(n, ParseSections[n - 1])
<1> DEFINE k    == [of |-> "ParseSections"]
           G(h) == [m \in Nat |-> ParseSectionsStep(m, h[m - 1])]
<1>1. PICK h : h = [m \in Nat |-> Step(k, m, IF m = 0 THEN <<>> ELSE h[m - 1])]
  <2> HIDE DEF k
  <2> QED
    BY RecursionOnNat
<1>2. ASSUME NEW x PROVE ParseSectionsStep(0, x) = ParseSectionsStep(0, <<>>)
  BY DEF ParseSectionsStep, Then
<1>3. h = G(h)
  <2>1. ASSUME NEW m \in Nat PROVE Step(k, m, IF m = 0 THEN <<>> ELSE h[m - 1]) = ParseSectionsStep(m, h[m - 1])
    <3>1. Step(k, m, IF m = 0 THEN <<>> ELSE h[m - 1]) = ParseSectionsStep(m, IF m = 0 THEN <<>> ELSE h[m - 1])
      BY DEF Step
    <3> QED
      BY <1>2, <3>1
  <2> QED
    BY <1>1, <2>1
<1>4. ParseSections = CHOOSE x : x = G(x)
  BY DEF ParseSections, ParseSectionsStep, Then
<1>5. ParseSections = G(ParseSections)
  <2> HIDE DEF G
  <2> QED
    BY <1>3, <1>4
<1> QED
  BY <1>5

LEMMA ReplayedIs ==
  ASSUME NEW n \in Nat
  PROVE  Replayed[n] = ReplayedStep(n, Replayed[n - 1])
<1> DEFINE k    == [of |-> "Replayed"]
           G(h) == [m \in Nat |-> ReplayedStep(m, h[m - 1])]
<1>1. PICK h : h = [m \in Nat |-> Step(k, m, IF m = 0 THEN <<>> ELSE h[m - 1])]
  <2> HIDE DEF k
  <2> QED
    BY RecursionOnNat
<1>2. ASSUME NEW x PROVE ReplayedStep(0, x) = ReplayedStep(0, <<>>)
  BY DEF ReplayedStep
<1>3. h = G(h)
  <2>1. ASSUME NEW m \in Nat PROVE Step(k, m, IF m = 0 THEN <<>> ELSE h[m - 1]) = ReplayedStep(m, h[m - 1])
    <3>1. Step(k, m, IF m = 0 THEN <<>> ELSE h[m - 1]) = ReplayedStep(m, IF m = 0 THEN <<>> ELSE h[m - 1])
      BY DEF Step
    <3> QED
      BY <1>2, <3>1
  <2> QED
    BY <1>1, <2>1
<1>4. Replayed = CHOOSE x : x = G(x)
  BY DEF Replayed, ReplayedStep
<1>5. Replayed = G(Replayed)
  <2> HIDE DEF G
  <2> QED
    BY <1>3, <1>4
<1> QED
  BY <1>5

-------------------------------------------------------------------------------
(* Folds as recursions over the positions of a sequence.                   *)

\* The value at N of the recursion k.
Result(k, N) == (CHOOSE h : h = [n \in 0 .. N |-> Step(k, n, IF n = 0 THEN <<>> ELSE h[n - 1])])[N]

\* Any function that unfolds k has its value at N.
LEMMA ResultIs ==
  ASSUME NEW k, NEW N \in Nat, NEW h, Unfolds(k, N, h)
  PROVE  Result(k, N) = h[N]
<1> DEFINE G(x) == [n \in 0 .. N |-> Step(k, n, IF n = 0 THEN <<>> ELSE x[n - 1])]
           g    == CHOOSE x : x = G(x)
<1>1. g = G(g)
  <2>1. \E x : x = G(x)
    BY RecursionUpTo
  <2> HIDE DEF G
  <2> QED
    BY <2>1
<1>2. Unfolds(k, N, g)
  <2> HIDE DEF g
  <2>1. \A i \in 0 .. N : g[i] = Step(k, i, IF i = 0 THEN <<>> ELSE g[i - 1])
    BY <1>1
  <2>2. g = [i \in 0 .. N |-> g[i]]
    BY <1>1
  <2>3. g[0] = Step(k, 0, <<>>)
    BY <2>1
  <2>4. ASSUME NEW i \in 1 .. N PROVE g[i] = Step(k, i, g[i - 1])
    BY <2>1
  <2> HIDE DEF G
  <2> QED
    BY <2>2, <2>3, <2>4 DEF Unfolds
<1>3. Result(k, N) = g[N]
  BY DEF Result
<1> HIDE DEF g, G
<1>4. \A i \in 0 .. N : g[i] = h[i]
  BY <1>2, UnfoldsAgree, N <= N
<1> QED
  BY <1>3, <1>4

\* Where a recursion begins, and how it goes on.
LEMMA ResultAt0 ==
  ASSUME NEW k
  PROVE  Result(k, 0) = Step(k, 0, <<>>)
<1>1. PICK h : Unfolds(k, 0, h)
  BY UnfoldsExists
<1>2. h[0] = Step(k, 0, <<>>)
  BY <1>1 DEF Unfolds
<1> QED
  BY <1>1, <1>2, ResultIs

LEMMA ResultNext ==
  ASSUME NEW k, NEW N \in Nat
  PROVE  Result(k, N + 1) = Step(k, N + 1, Result(k, N))
<1>1. PICK h : Unfolds(k, N + 1, h)
  BY UnfoldsExists
<1>2. h[N + 1] = Step(k, N + 1, h[N])
  <2>1. N + 1 \in 1 .. N + 1 /\ (N + 1) - 1 = N
    OBVIOUS
  <2> QED
    BY <1>1, <2>1 DEF Unfolds
<1> DEFINE g == [i \in 0 .. N |-> h[i]]
<1>3. Unfolds(k, N, g)
  <2>1. g = [i \in 0 .. N |-> g[i]] /\ g[0] = h[0]
    OBVIOUS
  <2>2. ASSUME NEW i \in 1 .. N PROVE g[i] = Step(k, i, g[i - 1])
    <3>1. i \in 1 .. N + 1 /\ i - 1 \in 0 .. N /\ i \in 0 .. N
      OBVIOUS
    <3>2. h[i] = Step(k, i, h[i - 1])
      BY <1>1, <3>1 DEF Unfolds
    <3> QED
      BY <3>1, <3>2
  <2> HIDE DEF g
  <2> QED
    BY <2>1, <2>2, <1>1 DEF Unfolds
<1>4. g[N] = h[N]
  OBVIOUS
<1> HIDE DEF g
<1>5. Result(k, N) = g[N] /\ Result(k, N + 1) = h[N + 1]
  BY <1>1, <1>3, ResultIs
<1> QED
  BY <1>2, <1>4, <1>5

\* Two recursions that do the same up to N have the same value there.
LEMMA ResultSame ==
  ASSUME NEW k, NEW l, NEW N \in Nat, Step(k, 0, <<>>) = Step(l, 0, <<>>),
         \A n \in 1 .. N : \A x : Step(k, n, x) = Step(l, n, x)
  PROVE  Result(k, N) = Result(l, N)
<1>1. PICK h : Unfolds(k, N, h)
  BY UnfoldsExists
<1>2. Unfolds(l, N, h)
  <2>1. ASSUME NEW i \in 1 .. N PROVE h[i] = Step(l, i, h[i - 1])
    BY <1>1 DEF Unfolds
  <2> QED
    BY <1>1, <2>1 DEF Unfolds
<1> QED
  BY <1>1, <1>2, ResultIs

\* The folds of the model are recursions over the positions of a sequence.
LEMMA ConcatIs ==
  ASSUME NEW texts, Len(texts) \in Nat
  PROVE  Concat(texts) = Result([of |-> "Concat", texts |-> texts], Len(texts))
<1> DEFINE k    == [of |-> "Concat", texts |-> texts]
           N    == Len(texts)
           G(x) == [i \in 0 .. N |-> IF i = 0 THEN <<>> ELSE x[i - 1] \o texts[i]]
           g    == CHOOSE x : x = G(x)
<1>1. PICK h : Unfolds(k, N, h)
  BY UnfoldsExists
<1>2. h = G(h)
  <2>1. ASSUME NEW i \in 0 .. N PROVE h[i] = IF i = 0 THEN <<>> ELSE h[i - 1] \o texts[i]
    <3>1. h[i] = Step(k, i, IF i = 0 THEN <<>> ELSE h[i - 1])
      <4>1. N \in Nat
        OBVIOUS
      <4> HIDE DEF k, N
      <4>2. i = 0 \/ i \in 1 .. N
        BY <4>1
      <4> QED
        BY <1>1, <4>2 DEF Unfolds
    <3> QED
      BY <3>1 DEF Step
  <2>2. h = [i \in 0 .. N |-> h[i]]
    BY <1>1 DEF Unfolds
  <2> QED
    BY <2>1, <2>2
<1>3. g = G(g)
  <2> HIDE DEF G
  <2> QED
    BY <1>2
<1>4. Concat(texts) = g[N]
  BY DEF Concat
<1>5. Unfolds(k, N, g)
  <2> HIDE DEF g
  <2>1. ASSUME NEW i \in 0 .. N PROVE g[i] = Step(k, i, IF i = 0 THEN <<>> ELSE g[i - 1])
    <3>1. g[i] = IF i = 0 THEN <<>> ELSE g[i - 1] \o texts[i]
      BY <1>3
    <3> QED
      BY <3>1 DEF Step
  <2>2. g = [i \in 0 .. N |-> g[i]]
    BY <1>3
  <2>3. ASSUME NEW i \in 1 .. N PROVE g[i] = Step(k, i, g[i - 1])
    <3> HIDE DEF k
    <3>1. i \in 0 .. N /\ i # 0
      OBVIOUS
    <3> QED
      BY <2>1, <3>1
  <2>4. g[0] = Step(k, 0, <<>>)
    <3> HIDE DEF k
    <3>1. 0 \in 0 .. N
      OBVIOUS
    <3> QED
      BY <2>1, <3>1
  <2> HIDE DEF G, k, N
  <2> QED
    BY <2>2, <2>3, <2>4 DEF Unfolds
<1>6. Result(k, N) = g[N]
  <2> HIDE DEF g, G, k
  <2>1. N \in Nat
    OBVIOUS
  <2> HIDE DEF N
  <2> QED
    BY <1>5, <2>1, ResultIs
<1> QED
  BY <1>4, <1>6

LEMMA NumberIs ==
  ASSUME NEW digits, Len(digits) \in Nat
  PROVE  Number(digits) = Result([of |-> "Number", digits |-> digits], Len(digits))
<1> DEFINE k    == [of |-> "Number", digits |-> digits]
           N    == Len(digits)
           G(x) == [i \in 0 .. N |-> IF i = 0 THEN 0 ELSE 10 * x[i - 1] + (digits[i] - 48)]
           g    == CHOOSE x : x = G(x)
<1>1. PICK h : Unfolds(k, N, h)
  BY UnfoldsExists
<1>2. h = G(h)
  <2>1. ASSUME NEW i \in 0 .. N PROVE h[i] = IF i = 0 THEN 0 ELSE 10 * h[i - 1] + (digits[i] - 48)
    <3>1. h[i] = Step(k, i, IF i = 0 THEN <<>> ELSE h[i - 1])
      <4>1. N \in Nat
        OBVIOUS
      <4> HIDE DEF k, N
      <4>2. i = 0 \/ i \in 1 .. N
        BY <4>1
      <4> QED
        BY <1>1, <4>2 DEF Unfolds
    <3> QED
      BY <3>1 DEF Step
  <2>2. h = [i \in 0 .. N |-> h[i]]
    BY <1>1 DEF Unfolds
  <2> QED
    BY <2>1, <2>2
<1>3. g = G(g)
  <2> HIDE DEF G
  <2> QED
    BY <1>2
<1>4. Number(digits) = g[N]
  BY DEF Number
<1>5. Unfolds(k, N, g)
  <2> HIDE DEF g
  <2>1. ASSUME NEW i \in 0 .. N PROVE g[i] = Step(k, i, IF i = 0 THEN <<>> ELSE g[i - 1])
    <3>1. g[i] = IF i = 0 THEN 0 ELSE 10 * g[i - 1] + (digits[i] - 48)
      BY <1>3
    <3> QED
      BY <3>1 DEF Step
  <2>2. g = [i \in 0 .. N |-> g[i]]
    BY <1>3
  <2>3. ASSUME NEW i \in 1 .. N PROVE g[i] = Step(k, i, g[i - 1])
    <3> HIDE DEF k
    <3>1. i \in 0 .. N /\ i # 0
      OBVIOUS
    <3> QED
      BY <2>1, <3>1
  <2>4. g[0] = Step(k, 0, <<>>)
    <3> HIDE DEF k
    <3>1. 0 \in 0 .. N
      OBVIOUS
    <3> QED
      BY <2>1, <3>1
  <2> HIDE DEF G, k, N
  <2> QED
    BY <2>2, <2>3, <2>4 DEF Unfolds
<1>6. Result(k, N) = g[N]
  <2> HIDE DEF g, G, k
  <2>1. N \in Nat
    OBVIOUS
  <2> HIDE DEF N
  <2> QED
    BY <1>5, <2>1, ResultIs
<1> QED
  BY <1>4, <1>6

LEMMA KeptIs ==
  ASSUME NEW writes, Len(writes) \in Nat
  PROVE  Kept(writes) = Result([of |-> "Kept", writes |-> writes], Len(writes))
<1> DEFINE k    == [of |-> "Kept", writes |-> writes]
           N    == Len(writes)
           G(x) == [i \in 0 .. N |-> IF i = 0 THEN <<>> ELSE IF Whole(writes[i]) THEN Append(x[i - 1], Text(writes[i].cmd)) ELSE x[i - 1]]
           g    == CHOOSE x : x = G(x)
<1>1. PICK h : Unfolds(k, N, h)
  BY UnfoldsExists
<1>2. h = G(h)
  <2>1. ASSUME NEW i \in 0 .. N PROVE h[i] = IF i = 0 THEN <<>> ELSE IF Whole(writes[i]) THEN Append(h[i - 1], Text(writes[i].cmd)) ELSE h[i - 1]
    <3>1. h[i] = Step(k, i, IF i = 0 THEN <<>> ELSE h[i - 1])
      <4>1. N \in Nat
        OBVIOUS
      <4> HIDE DEF k, N
      <4>2. i = 0 \/ i \in 1 .. N
        BY <4>1
      <4> QED
        BY <1>1, <4>2 DEF Unfolds
    <3> QED
      BY <3>1 DEF Step
  <2>2. h = [i \in 0 .. N |-> h[i]]
    BY <1>1 DEF Unfolds
  <2> QED
    BY <2>1, <2>2
<1>3. g = G(g)
  <2> HIDE DEF G
  <2> QED
    BY <1>2
<1>4. Kept(writes) = g[N]
  BY DEF Kept
<1>5. Unfolds(k, N, g)
  <2> HIDE DEF g
  <2>1. ASSUME NEW i \in 0 .. N PROVE g[i] = Step(k, i, IF i = 0 THEN <<>> ELSE g[i - 1])
    <3>1. g[i] = IF i = 0 THEN <<>> ELSE IF Whole(writes[i]) THEN Append(g[i - 1], Text(writes[i].cmd)) ELSE g[i - 1]
      BY <1>3
    <3> QED
      BY <3>1 DEF Step
  <2>2. g = [i \in 0 .. N |-> g[i]]
    BY <1>3
  <2>3. ASSUME NEW i \in 1 .. N PROVE g[i] = Step(k, i, g[i - 1])
    <3> HIDE DEF k
    <3>1. i \in 0 .. N /\ i # 0
      OBVIOUS
    <3> QED
      BY <2>1, <3>1
  <2>4. g[0] = Step(k, 0, <<>>)
    <3> HIDE DEF k
    <3>1. 0 \in 0 .. N
      OBVIOUS
    <3> QED
      BY <2>1, <3>1
  <2> HIDE DEF G, k, N
  <2> QED
    BY <2>2, <2>3, <2>4 DEF Unfolds
<1>6. Result(k, N) = g[N]
  <2> HIDE DEF g, G, k
  <2>1. N \in Nat
    OBVIOUS
  <2> HIDE DEF N
  <2> QED
    BY <1>5, <2>1, ResultIs
<1> QED
  BY <1>4, <1>6

LEMMA ApplyAllIs ==
  ASSUME NEW s, NEW cmds, NEW at, Len(cmds) \in Nat
  PROVE  ApplyAll(s, cmds, at) = Result([of |-> "ApplyAll", store |-> s, cmds |-> cmds, at |-> at], Len(cmds))
<1> DEFINE k    == [of |-> "ApplyAll", store |-> s, cmds |-> cmds, at |-> at]
           N    == Len(cmds)
           G(x) == [i \in 0 .. N |-> IF i = 0 THEN s ELSE Apply(x[i - 1], cmds[i], at)]
           g    == CHOOSE x : x = G(x)
<1>1. PICK h : Unfolds(k, N, h)
  BY UnfoldsExists
<1>2. h = G(h)
  <2>1. ASSUME NEW i \in 0 .. N PROVE h[i] = IF i = 0 THEN s ELSE Apply(h[i - 1], cmds[i], at)
    <3>1. h[i] = Step(k, i, IF i = 0 THEN <<>> ELSE h[i - 1])
      <4>1. N \in Nat
        OBVIOUS
      <4> HIDE DEF k, N
      <4>2. i = 0 \/ i \in 1 .. N
        BY <4>1
      <4> QED
        BY <1>1, <4>2 DEF Unfolds
    <3> QED
      BY <3>1 DEF Step
  <2>2. h = [i \in 0 .. N |-> h[i]]
    BY <1>1 DEF Unfolds
  <2> QED
    BY <2>1, <2>2
<1>3. g = G(g)
  <2> HIDE DEF G
  <2> QED
    BY <1>2
<1>4. ApplyAll(s, cmds, at) = g[N]
  BY DEF ApplyAll
<1>5. Unfolds(k, N, g)
  <2> HIDE DEF g
  <2>1. ASSUME NEW i \in 0 .. N PROVE g[i] = Step(k, i, IF i = 0 THEN <<>> ELSE g[i - 1])
    <3>1. g[i] = IF i = 0 THEN s ELSE Apply(g[i - 1], cmds[i], at)
      BY <1>3
    <3> QED
      BY <3>1 DEF Step
  <2>2. g = [i \in 0 .. N |-> g[i]]
    BY <1>3
  <2>3. ASSUME NEW i \in 1 .. N PROVE g[i] = Step(k, i, g[i - 1])
    <3> HIDE DEF k
    <3>1. i \in 0 .. N /\ i # 0
      OBVIOUS
    <3> QED
      BY <2>1, <3>1
  <2>4. g[0] = Step(k, 0, <<>>)
    <3> HIDE DEF k
    <3>1. 0 \in 0 .. N
      OBVIOUS
    <3> QED
      BY <2>1, <3>1
  <2> HIDE DEF G, k, N
  <2> QED
    BY <2>2, <2>3, <2>4 DEF Unfolds
<1>6. Result(k, N) = g[N]
  <2> HIDE DEF g, G, k
  <2>1. N \in Nat
    OBVIOUS
  <2> HIDE DEF N
  <2> QED
    BY <1>5, <2>1, ResultIs
<1> QED
  BY <1>4, <1>6

LEMMA BroughtIs ==
  ASSUME NEW sections, Len(sections) \in Nat
  PROVE  Brought(sections) = Result([of |-> "Brought", sections |-> sections], Len(sections))
<1> DEFINE k    == [of |-> "Brought", sections |-> sections]
           N    == Len(sections)
           G(x) == [i \in 0 .. N |-> IF i = 0 THEN Nothing ELSE Over(SectionRead(sections[i]), x[i - 1])]
           g    == CHOOSE x : x = G(x)
<1>1. PICK h : Unfolds(k, N, h)
  BY UnfoldsExists
<1>2. h = G(h)
  <2>1. ASSUME NEW i \in 0 .. N PROVE h[i] = IF i = 0 THEN Nothing ELSE Over(SectionRead(sections[i]), h[i - 1])
    <3>1. h[i] = Step(k, i, IF i = 0 THEN <<>> ELSE h[i - 1])
      <4>1. N \in Nat
        OBVIOUS
      <4> HIDE DEF k, N
      <4>2. i = 0 \/ i \in 1 .. N
        BY <4>1
      <4> QED
        BY <1>1, <4>2 DEF Unfolds
    <3> QED
      BY <3>1 DEF Step
  <2>2. h = [i \in 0 .. N |-> h[i]]
    BY <1>1 DEF Unfolds
  <2> QED
    BY <2>1, <2>2
<1>3. g = G(g)
  <2> HIDE DEF G
  <2> QED
    BY <1>2
<1>4. Brought(sections) = g[N]
  BY DEF Brought
<1>5. Unfolds(k, N, g)
  <2> HIDE DEF g
  <2>1. ASSUME NEW i \in 0 .. N PROVE g[i] = Step(k, i, IF i = 0 THEN <<>> ELSE g[i - 1])
    <3>1. g[i] = IF i = 0 THEN Nothing ELSE Over(SectionRead(sections[i]), g[i - 1])
      BY <1>3
    <3> QED
      BY <3>1 DEF Step
  <2>2. g = [i \in 0 .. N |-> g[i]]
    BY <1>3
  <2>3. ASSUME NEW i \in 1 .. N PROVE g[i] = Step(k, i, g[i - 1])
    <3> HIDE DEF k
    <3>1. i \in 0 .. N /\ i # 0
      OBVIOUS
    <3> QED
      BY <2>1, <3>1
  <2>4. g[0] = Step(k, 0, <<>>)
    <3> HIDE DEF k
    <3>1. 0 \in 0 .. N
      OBVIOUS
    <3> QED
      BY <2>1, <3>1
  <2> HIDE DEF G, k, N
  <2> QED
    BY <2>2, <2>3, <2>4 DEF Unfolds
<1>6. Result(k, N) = g[N]
  <2> HIDE DEF g, G, k
  <2>1. N \in Nat
    OBVIOUS
  <2> HIDE DEF N
  <2> QED
    BY <1>5, <2>1, ResultIs
<1> QED
  BY <1>4, <1>6

LEMMA LittleEndianIs ==
  ASSUME NEW bytes, Len(bytes) \in Nat, Len(bytes) > 0
  PROVE  LittleEndian(bytes) = Result([of |-> "LittleEndian", bytes |-> bytes], Len(bytes) - 1)
<1> DEFINE k    == [of |-> "LittleEndian", bytes |-> bytes]
           N    == Len(bytes) - 1
           G(x) == [i \in 0 .. N |-> IF i = 0 THEN IF bytes[Len(bytes)] < 128 THEN bytes[Len(bytes)] ELSE bytes[Len(bytes)] - 256 ELSE 256 * x[i - 1] + bytes[Len(bytes) - i]]
           g    == CHOOSE x : x = G(x)
<1>0. ASSUME NEW n, NEW x
      PROVE  Step(k, n, x) = IF n = 0 THEN IF bytes[Len(bytes)] < 128 THEN bytes[Len(bytes)] ELSE bytes[Len(bytes)] - 256
                             ELSE 256 * x + bytes[Len(bytes) - n]
  <2>1. Step(k, n, x) = LittleEndianStep(bytes, n, x)
    BY DEF Step
  <2> QED
    BY <2>1 DEF LittleEndianStep
<1>1. PICK h : Unfolds(k, N, h)
  BY UnfoldsExists
<1>2. h = G(h)
  <2>1. ASSUME NEW i \in 0 .. N PROVE h[i] = IF i = 0 THEN IF bytes[Len(bytes)] < 128 THEN bytes[Len(bytes)] ELSE bytes[Len(bytes)] - 256 ELSE 256 * h[i - 1] + bytes[Len(bytes) - i]
    <3>1. h[i] = Step(k, i, IF i = 0 THEN <<>> ELSE h[i - 1])
      <4>1. N \in Nat
        OBVIOUS
      <4> HIDE DEF k, N
      <4>2. i = 0 \/ i \in 1 .. N
        BY <4>1
      <4> QED
        BY <1>1, <4>2 DEF Unfolds
    <3> QED
      BY <3>1, <1>0
  <2>2. h = [i \in 0 .. N |-> h[i]]
    BY <1>1 DEF Unfolds
  <2> QED
    BY <2>1, <2>2
<1>3. g = G(g)
  <2> HIDE DEF G
  <2> QED
    BY <1>2
<1>4. LittleEndian(bytes) = g[N]
  BY DEF LittleEndian
<1>5. Unfolds(k, N, g)
  <2> HIDE DEF g
  <2>1. ASSUME NEW i \in 0 .. N PROVE g[i] = Step(k, i, IF i = 0 THEN <<>> ELSE g[i - 1])
    <3>1. g[i] = IF i = 0 THEN IF bytes[Len(bytes)] < 128 THEN bytes[Len(bytes)] ELSE bytes[Len(bytes)] - 256 ELSE 256 * g[i - 1] + bytes[Len(bytes) - i]
      BY <1>3
    <3> QED
      BY <3>1, <1>0
  <2>2. g = [i \in 0 .. N |-> g[i]]
    BY <1>3
  <2>3. ASSUME NEW i \in 1 .. N PROVE g[i] = Step(k, i, g[i - 1])
    <3> HIDE DEF k
    <3>1. i \in 0 .. N /\ i # 0
      OBVIOUS
    <3> QED
      BY <2>1, <3>1
  <2>4. g[0] = Step(k, 0, <<>>)
    <3> HIDE DEF k
    <3>1. 0 \in 0 .. N
      OBVIOUS
    <3> QED
      BY <2>1, <3>1
  <2> HIDE DEF G, k, N
  <2> QED
    BY <2>2, <2>3, <2>4 DEF Unfolds
<1>6. Result(k, N) = g[N]
  <2> HIDE DEF g, G, k
  <2>1. N \in Nat
    OBVIOUS
  <2> HIDE DEF N
  <2> QED
    BY <1>5, <2>1, ResultIs
<1> QED
  BY <1>4, <1>6

\* Texts behind one another: one more is behind the others.
LEMMA ConcatOfNone ==
  Concat(<<>>) = <<>>
<1>1. Len(<<>>) = 0
  OBVIOUS
<1> DEFINE k == [of |-> "Concat", texts |-> <<>>]
<1>2. Step(k, 0, <<>>) = <<>>
  BY DEF Step
<1>3. Concat(<<>>) = Result(k, 0)
  BY <1>1, ConcatIs
<1> QED
  BY <1>2, <1>3, ResultAt0

LEMMA ConcatOfMore ==
  ASSUME NEW S, NEW s \in Seq(S), NEW e \in S
  PROVE  Concat(Append(s, e)) = Concat(s) \o e
<1> DEFINE t == Append(s, e)
           N == Len(s)
           k == [of |-> "Concat", texts |-> s]
           l == [of |-> "Concat", texts |-> t]
<1>1. N \in Nat /\ Len(t) = N + 1 /\ t[N + 1] = e /\ \A i \in 1 .. N : t[i] = s[i]
  BY AppendProperties, LenProperties
<1> HIDE DEF t
<1>2. Step(k, 0, <<>>) = Step(l, 0, <<>>)
  BY DEF Step
<1>3. ASSUME NEW n \in 1 .. N, NEW x PROVE Step(k, n, x) = Step(l, n, x)
  BY <1>1 DEF Step
<1>4. Result(k, N) = Result(l, N)
  <2> HIDE DEF k, l, N
  <2> QED
    BY <1>1, <1>2, <1>3, ResultSame
<1>5. Result(l, N + 1) = Step(l, N + 1, Result(l, N))
  <2> HIDE DEF l, N
  <2> QED
    BY <1>1, ResultNext
<1>6. Step(l, N + 1, Result(l, N)) = Result(l, N) \o t[N + 1]
  <2>1. N + 1 # 0
    BY <1>1
  <2> DEFINE x == Result(l, N)
             m == N + 1
  <2> HIDE DEF x, m
  <2>2. Step(l, m, x) = x \o t[m]
    BY <2>1 DEF Step, m
  <2> QED
    BY <2>2 DEF x, m
<1>7. Concat(s) = Result(k, N) /\ Concat(t) = Result(l, N + 1)
  BY <1>1, ConcatIs
<1> QED
  BY <1>1, <1>4, <1>5, <1>6, <1>7 DEF t

\* The number of digits: one more makes ten times as much.
LEMMA NumberOfNone ==
  Number(<<>>) = 0
<1>1. Len(<<>>) = 0
  OBVIOUS
<1> DEFINE k == [of |-> "Number", digits |-> <<>>]
<1>2. Step(k, 0, <<>>) = 0
  BY DEF Step
<1>3. Number(<<>>) = Result(k, 0)
  BY <1>1, NumberIs
<1> QED
  BY <1>2, <1>3, ResultAt0

LEMMA NumberOfMore ==
  ASSUME NEW S, NEW s \in Seq(S), NEW e \in S
  PROVE  Number(Append(s, e)) = 10 * Number(s) + (e - 48)
<1> DEFINE t == Append(s, e)
           N == Len(s)
           k == [of |-> "Number", digits |-> s]
           l == [of |-> "Number", digits |-> t]
<1>1. N \in Nat /\ Len(t) = N + 1 /\ t[N + 1] = e /\ \A i \in 1 .. N : t[i] = s[i]
  BY AppendProperties, LenProperties
<1> HIDE DEF t
<1>2. Step(k, 0, <<>>) = Step(l, 0, <<>>)
  BY DEF Step
<1>3. ASSUME NEW n \in 1 .. N, NEW x PROVE Step(k, n, x) = Step(l, n, x)
  BY <1>1 DEF Step
<1>4. Result(k, N) = Result(l, N)
  <2> HIDE DEF k, l, N
  <2> QED
    BY <1>1, <1>2, <1>3, ResultSame
<1>5. Result(l, N + 1) = Step(l, N + 1, Result(l, N))
  <2> HIDE DEF l, N
  <2> QED
    BY <1>1, ResultNext
<1>6. Step(l, N + 1, Result(l, N)) = 10 * Result(l, N) + (t[N + 1] - 48)
  <2>1. N + 1 # 0
    BY <1>1
  <2> DEFINE x == Result(l, N)
             m == N + 1
  <2> HIDE DEF x, m
  <2>2. Step(l, m, x) = 10 * x + (t[m] - 48)
    BY <2>1 DEF Step, m
  <2> QED
    BY <2>2 DEF x, m
<1>7. Number(s) = Result(k, N) /\ Number(t) = Result(l, N + 1)
  BY <1>1, NumberIs
<1> QED
  BY <1>1, <1>4, <1>5, <1>6, <1>7 DEF t

\* The commands kept of writes, as replayAOFCommands would give them back.
LEMMA KeptOfNone ==
  Kept(<<>>) = <<>>
<1>1. Len(<<>>) = 0
  OBVIOUS
<1> DEFINE k == [of |-> "Kept", writes |-> <<>>]
<1>2. Step(k, 0, <<>>) = <<>>
  BY DEF Step
<1>3. Kept(<<>>) = Result(k, 0)
  BY <1>1, KeptIs
<1> QED
  BY <1>2, <1>3, ResultAt0

LEMMA KeptOfMore ==
  ASSUME NEW S, NEW s \in Seq(S), NEW e \in S
  PROVE  Kept(Append(s, e)) = (IF Whole(e) THEN Append(Kept(s), Text(e.cmd)) ELSE Kept(s))
<1> DEFINE t == Append(s, e)
           N == Len(s)
           k == [of |-> "Kept", writes |-> s]
           l == [of |-> "Kept", writes |-> t]
<1>1. N \in Nat /\ Len(t) = N + 1 /\ t[N + 1] = e /\ \A i \in 1 .. N : t[i] = s[i]
  BY AppendProperties, LenProperties
<1> HIDE DEF t
<1>2. Step(k, 0, <<>>) = Step(l, 0, <<>>)
  BY DEF Step
<1>3. ASSUME NEW n \in 1 .. N, NEW x PROVE Step(k, n, x) = Step(l, n, x)
  BY <1>1 DEF Step
<1>4. Result(k, N) = Result(l, N)
  <2> HIDE DEF k, l, N
  <2> QED
    BY <1>1, <1>2, <1>3, ResultSame
<1>5. Result(l, N + 1) = Step(l, N + 1, Result(l, N))
  <2> HIDE DEF l, N
  <2> QED
    BY <1>1, ResultNext
<1>6. Step(l, N + 1, Result(l, N)) = (IF Whole(t[N + 1]) THEN Append(Result(l, N), Text(t[N + 1].cmd)) ELSE Result(l, N))
  <2>1. N + 1 # 0
    BY <1>1
  <2> DEFINE x == Result(l, N)
             m == N + 1
  <2> HIDE DEF x, m
  <2>2. Step(l, m, x) = (IF Whole(t[m]) THEN Append(x, Text(t[m].cmd)) ELSE x)
    BY <2>1 DEF Step, m
  <2> QED
    BY <2>2 DEF x, m
<1>7. Kept(s) = Result(k, N) /\ Kept(t) = Result(l, N + 1)
  BY <1>1, KeptIs
<1> QED
  BY <1>1, <1>4, <1>5, <1>6, <1>7 DEF t

\* Commands applied to a store, the last one last.
LEMMA ApplyAllOfNone ==
  ASSUME NEW st, NEW at
  PROVE  ApplyAll(st, <<>>, at) = st
<1>1. Len(<<>>) = 0
  OBVIOUS
<1> DEFINE k == [of |-> "ApplyAll", store |-> st, cmds |-> <<>>, at |-> at]
<1>2. Step(k, 0, <<>>) = st
  BY DEF Step
<1>3. ApplyAll(st, <<>>, at) = Result(k, 0)
  BY <1>1, ApplyAllIs
<1> QED
  BY <1>2, <1>3, ResultAt0

LEMMA ApplyAllOfMore ==
  ASSUME NEW S, NEW s \in Seq(S), NEW e \in S, NEW st, NEW at
  PROVE  ApplyAll(st, Append(s, e), at) = Apply(ApplyAll(st, s, at), e, at)
<1> DEFINE t == Append(s, e)
           N == Len(s)
           k == [of |-> "ApplyAll", store |-> st, cmds |-> s, at |-> at]
           l == [of |-> "ApplyAll", store |-> st, cmds |-> t, at |-> at]
<1>1. N \in Nat /\ Len(t) = N + 1 /\ t[N + 1] = e /\ \A i \in 1 .. N : t[i] = s[i]
  BY AppendProperties, LenProperties
<1> HIDE DEF t
<1>2. Step(k, 0, <<>>) = Step(l, 0, <<>>)
  BY DEF Step
<1>3. ASSUME NEW n \in 1 .. N, NEW x PROVE Step(k, n, x) = Step(l, n, x)
  BY <1>1 DEF Step
<1>4. Result(k, N) = Result(l, N)
  <2> HIDE DEF k, l, N
  <2> QED
    BY <1>1, <1>2, <1>3, ResultSame
<1>5. Result(l, N + 1) = Step(l, N + 1, Result(l, N))
  <2> HIDE DEF l, N
  <2> QED
    BY <1>1, ResultNext
<1>6. Step(l, N + 1, Result(l, N)) = Apply(Result(l, N), t[N + 1], at)
  <2>1. N + 1 # 0
    BY <1>1
  <2> DEFINE x == Result(l, N)
             m == N + 1
  <2> HIDE DEF x, m
  <2>2. Step(l, m, x) = Apply(x, t[m], at)
    BY <2>1 DEF Step, m
  <2> QED
    BY <2>2 DEF x, m
<1>7. ApplyAll(st, s, at) = Result(k, N) /\ ApplyAll(st, t, at) = Result(l, N + 1)
  BY <1>1, ApplyAllIs
<1> QED
  BY <1>1, <1>4, <1>5, <1>6, <1>7 DEF t

\* What sections bring, the later ones over the earlier ones.
LEMMA BroughtOfNone ==
  Brought(<<>>) = Nothing
<1>1. Len(<<>>) = 0
  OBVIOUS
<1> DEFINE k == [of |-> "Brought", sections |-> <<>>]
<1>2. Step(k, 0, <<>>) = Nothing
  BY DEF Step
<1>3. Brought(<<>>) = Result(k, 0)
  BY <1>1, BroughtIs
<1> QED
  BY <1>2, <1>3, ResultAt0

LEMMA BroughtOfMore ==
  ASSUME NEW S, NEW s \in Seq(S), NEW e \in S
  PROVE  Brought(Append(s, e)) = Over(SectionRead(e), Brought(s))
<1> DEFINE t == Append(s, e)
           N == Len(s)
           k == [of |-> "Brought", sections |-> s]
           l == [of |-> "Brought", sections |-> t]
<1>1. N \in Nat /\ Len(t) = N + 1 /\ t[N + 1] = e /\ \A i \in 1 .. N : t[i] = s[i]
  BY AppendProperties, LenProperties
<1> HIDE DEF t
<1>2. Step(k, 0, <<>>) = Step(l, 0, <<>>)
  BY DEF Step
<1>3. ASSUME NEW n \in 1 .. N, NEW x PROVE Step(k, n, x) = Step(l, n, x)
  BY <1>1 DEF Step
<1>4. Result(k, N) = Result(l, N)
  <2> HIDE DEF k, l, N
  <2> QED
    BY <1>1, <1>2, <1>3, ResultSame
<1>5. Result(l, N + 1) = Step(l, N + 1, Result(l, N))
  <2> HIDE DEF l, N
  <2> QED
    BY <1>1, ResultNext
<1>6. Step(l, N + 1, Result(l, N)) = Over(SectionRead(t[N + 1]), Result(l, N))
  <2>1. N + 1 # 0
    BY <1>1
  <2> DEFINE x == Result(l, N)
             m == N + 1
  <2> HIDE DEF x, m
  <2>2. Step(l, m, x) = Over(SectionRead(t[m]), x)
    BY <2>1 DEF Step, m
  <2> QED
    BY <2>2 DEF x, m
<1>7. Brought(s) = Result(k, N) /\ Brought(t) = Result(l, N + 1)
  BY <1>1, BroughtIs
<1> QED
  BY <1>1, <1>4, <1>5, <1>6, <1>7 DEF t

-------------------------------------------------------------------------------
(* Parts of sequences.                                                     *)

\* The least and the greatest of a set.
LEMMA MinIs ==
  ASSUME NEW S, NEW x \in S, \A y \in S : x <= y, S \subseteq Int
  PROVE  Min(S) = x
<1>1. Min(S) = CHOOSE y \in S : \A z \in S : y =< z
  BY DEF Min
<1>2. \A y \in S : (\A z \in S : y =< z) => y = x
  OBVIOUS
<1> QED
  BY <1>1, <1>2

LEMMA MaxIs ==
  ASSUME NEW S, NEW x \in S, \A y \in S : x >= y, S \subseteq Int
  PROVE  Max(S) = x
<1>1. Max(S) = CHOOSE y \in S : \A z \in S : y >= z
  BY DEF Max
<1>2. \A y \in S : (\A z \in S : y >= z) => y = x
  OBVIOUS
<1> QED
  BY <1>1, <1>2

\* A set of numbers that ends somewhere has a greatest one.
LEMMA MaxOf ==
  ASSUME NEW N \in Nat, NEW S \in SUBSET (0 .. N), S # {}
  PROVE  Max(S) \in S
<1> DEFINE over == {N - i : i \in S}
<1>1. over \in SUBSET Nat /\ over # {}
  <2>1. \A i \in S : N - i \in Nat
    OBVIOUS
  <2> QED
    BY <2>1
<1>2. PICK m \in over : \A j \in over : m <= j
  <2> HIDE DEF over
  <2> QED
    BY <1>1, LeastNumber
<1>3. PICK l \in S : m = N - l
  BY <1>2
<1>4. ASSUME NEW j \in S PROVE l >= j
  <2>1. N - l <= N - j
    BY <1>2, <1>3
  <2> QED
    BY <2>1
<1>5. S \subseteq Int
  OBVIOUS
<1>6. Max(S) = l
  BY <1>4, <1>5, MaxIs
<1> QED
  BY <1>6

\* The first n elements of two sequences, one behind the other.
LEMMA FirstOfTwo ==
  ASSUME NEW S, NEW s \in Seq(S), NEW t \in Seq(S), NEW n \in 0 .. Len(s) + Len(t)
  PROVE  SubSeq(s \o t, 1, n) = IF n <= Len(s) THEN SubSeq(s, 1, n) ELSE s \o SubSeq(t, 1, n - Len(s))
<1>1. Len(s) \in Nat /\ Len(t) \in Nat /\ n \in Nat
  BY LenProperties
<1>2. s \o t \in Seq(S) /\ Len(s \o t) = Len(s) + Len(t)
  BY ConcatProperties
<1>3. \A i \in 1 .. Len(s) + Len(t) : (s \o t)[i] = IF i <= Len(s) THEN s[i] ELSE t[i - Len(s)]
  BY ConcatProperties
<1>4. SubSeq(s \o t, 1, n) \in Seq(S) /\ Len(SubSeq(s \o t, 1, n)) = n
      /\ \A i \in 1 .. n : SubSeq(s \o t, 1, n)[i] = (s \o t)[i]
  <2>1. \A i \in 1 .. n : (s \o t)[i] \in S
    BY <1>1, <1>2, ElementOfSeq
  <2> QED
    BY <2>1, <1>1, SubSeqProperties
<1>5. CASE n <= Len(s)
  <2>1. \A i \in 1 .. n : s[i] \in S
    BY <1>1, <1>5, ElementOfSeq
  <2>2. SubSeq(s, 1, n) \in Seq(S) /\ Len(SubSeq(s, 1, n)) = n /\ \A i \in 1 .. n : SubSeq(s, 1, n)[i] = s[i]
    BY <2>1, <1>1, SubSeqProperties
  <2>3. \A i \in 1 .. n : SubSeq(s \o t, 1, n)[i] = SubSeq(s, 1, n)[i]
    BY <2>2, <1>4, <1>3, <1>1, <1>5
  <2>4. SubSeq(s \o t, 1, n) = SubSeq(s, 1, n)
    BY <2>2, <2>3, <1>4, SeqEqual
  <2> QED
    BY <2>4, <1>5
<1>6. CASE ~(n <= Len(s))
  <2> DEFINE j == n - Len(s)
             u == SubSeq(t, 1, j)
  <2>1. j \in 1 .. Len(t) /\ j \in Nat
    BY <1>1, <1>6
  <2>2. \A i \in 1 .. j : t[i] \in S
    BY <2>1, <1>1, ElementOfSeq
  <2>3. u \in Seq(S) /\ Len(u) = j /\ \A i \in 1 .. j : u[i] = t[i]
    BY <2>1, <2>2, SubSeqProperties
  <2> HIDE DEF u
  <2>4. s \o u \in Seq(S) /\ Len(s \o u) = Len(s) + Len(u)
        /\ \A i \in 1 .. Len(s) + Len(u) : (s \o u)[i] = IF i <= Len(s) THEN s[i] ELSE u[i - Len(s)]
    BY <2>3, ConcatProperties
  <2>5. Len(s \o u) = n
    BY <2>3, <2>4, <1>1
  <2>6. ASSUME NEW i \in 1 .. n PROVE SubSeq(s \o t, 1, n)[i] = (s \o u)[i]
    <3>1. i \in 1 .. Len(s) + Len(t) /\ i \in 1 .. Len(s) + Len(u)
      BY <1>1, <2>3
    <3>2. CASE i <= Len(s)
      BY <3>1, <3>2, <2>4, <1>4, <1>3
    <3>3. CASE ~(i <= Len(s))
      <4>1. i - Len(s) \in 1 .. j
        BY <3>3, <1>1
      <4> QED
        BY <4>1, <3>1, <3>3, <2>3, <2>4, <1>4, <1>3
    <3> QED
      BY <3>2, <3>3
  <2>7. SubSeq(s \o t, 1, n) = s \o u
    BY <2>4, <2>5, <2>6, <1>4, SeqEqual
  <2> QED
    BY <2>7, <1>6 DEF u
<1> QED
  BY <1>5, <1>6

\* What is behind the first of two sequences.
LEMMA LastOfTwo ==
  ASSUME NEW S, NEW s \in Seq(S), NEW t \in Seq(S)
  PROVE  SubSeq(s \o t, Len(s) + 1, Len(s \o t)) = t
<1>1. Len(s) \in Nat /\ Len(t) \in Nat
  BY LenProperties
<1>2. s \o t \in Seq(S) /\ Len(s \o t) = Len(s) + Len(t)
      /\ \A i \in 1 .. Len(s) + Len(t) : (s \o t)[i] = IF i <= Len(s) THEN s[i] ELSE t[i - Len(s)]
  BY ConcatProperties
<1> DEFINE u == SubSeq(s \o t, Len(s) + 1, Len(s \o t))
<1>3. \A i \in Len(s) + 1 .. Len(s \o t) : (s \o t)[i] \in S
  BY <1>1, <1>2, ElementOfSeq
<1>4. u \in Seq(S) /\ Len(u) = Len(t) /\ \A i \in 1 .. Len(t) : u[i] = (s \o t)[Len(s) + i]
  <2>1. u \in Seq(S) /\ Len(u) = (IF Len(s) + 1 <= Len(s \o t) THEN Len(s \o t) - (Len(s) + 1) + 1 ELSE 0)
        /\ \A i \in 1 .. Len(s \o t) - (Len(s) + 1) + 1 : u[i] = (s \o t)[Len(s) + 1 + i - 1]
    BY <1>1, <1>2, <1>3, SubSeqProperties
  <2> HIDE DEF u
  <2>2. Len(s \o t) - (Len(s) + 1) + 1 = Len(t)
    BY <1>1, <1>2
  <2>3. Len(u) = Len(t)
    BY <1>1, <1>2, <2>1
  <2>4. \A i \in 1 .. Len(t) : Len(s) + 1 + i - 1 = Len(s) + i
    BY <1>1
  <2> QED
    BY <2>1, <2>2, <2>3, <2>4
<1> HIDE DEF u
<1>5. \A i \in 1 .. Len(t) : u[i] = t[i]
  <2>1. ASSUME NEW i \in 1 .. Len(t) PROVE u[i] = t[i]
    <3>1. Len(s) + i \in 1 .. Len(s) + Len(t) /\ ~(Len(s) + i <= Len(s)) /\ (Len(s) + i) - Len(s) = i
      BY <1>1
    <3> QED
      BY <3>1, <1>2, <1>4
  <2> QED
    BY <2>1
<1>6. u = t
  BY <1>4, <1>5, SeqEqual
<1> QED
  BY <1>6 DEF u

\* A part of a sequence.
LEMMA PartOf ==
  ASSUME NEW S, NEW s \in Seq(S), NEW m \in Nat, m > 0, NEW n \in Int, n <= Len(s)
  PROVE  SubSeq(s, m, n) \in Seq(S) /\ Len(SubSeq(s, m, n)) = (IF m <= n THEN n - m + 1 ELSE 0)
         /\ \A i \in 1 .. n - m + 1 : SubSeq(s, m, n)[i] = s[m + i - 1]
<1>1. \A i \in m .. n : s[i] \in S
  BY ElementOfSeq
<1> QED
  BY <1>1, SubSeqProperties

\* A sequence that begins with x.
LEMMA Behind ==
  ASSUME NEW S, NEW x \in S, NEW s \in Seq(S)
  PROVE  <<x>> \o s \in Seq(S) /\ <<x>> \o s # <<>> /\ (<<x>> \o s)[1] = x /\ Tail(<<x>> \o s) = s
         /\ Len(<<x>> \o s) = Len(s) + 1
<1>1. <<x>> \in Seq(S) /\ Len(<<x>>) = 1 /\ <<x>>[1] = x
  OBVIOUS
<1>2. <<x>> \o s \in Seq(S) /\ Len(<<x>> \o s) = 1 + Len(s) /\ (<<x>> \o s)[1] = x /\ Len(s) \in Nat
  BY <1>1, ConcatProperties, LenProperties
<1>3. <<x>> \o s # <<>>
  BY <1>2, EmptySeq
<1>4. Tail(<<x>> \o s) = SubSeq(<<x>> \o s, 2, Len(<<x>> \o s))
  BY <1>2, <1>3, TailIsSubSeq
<1>5. SubSeq(<<x>> \o s, Len(<<x>>) + 1, Len(<<x>> \o s)) = s
  BY <1>1, LastOfTwo
<1> QED
  BY <1>1, <1>2, <1>3, <1>4, <1>5

-------------------------------------------------------------------------------
(* Numbers as text, and lines.                                             *)

\* A number of two digits or more, without its last digit.
LEMMA Halves ==
  ASSUME NEW i \in Nat, i >= 10
  PROVE  i \div 10 \in 0 .. i - 1 /\ i % 10 \in 0 .. 9 /\ i = 10 * (i \div 10) + (i % 10) /\ i \div 10 > 0
OBVIOUS

\* A digit is written as itself.
LEMMA SmallDigits ==
  ASSUME NEW i \in Nat, i < 10, NEW x, NEW y
  PROVE  DigitsOfOne(i, x) = DigitsOfOne(i, y)
BY DEF DigitsOfOne

\* strconv.Itoa writes the digits of a number from the right.
LEMMA DigitsIs ==
  ASSUME NEW n \in Nat
  PROVE  Digits[n] = DigitsOfOne(n, Digits[n \div 10])
<1> DEFINE k    == [of |-> "Digits"]
           G(h) == [m \in Nat |-> DigitsOfOne(m, h[m \div 10])]
<1>1. PICK t : t = [m \in Nat |-> Step(k, m, IF m = 0 THEN <<>> ELSE t[m - 1])]
  <2> HIDE DEF k
  <2> QED
    BY RecursionOnNat
<1>2. ASSUME NEW m \in Nat PROVE t[m] = DigitsStep(m, IF m = 0 THEN <<>> ELSE t[m - 1])
  <2>1. t[m] = Step(k, m, IF m = 0 THEN <<>> ELSE t[m - 1])
    <3> HIDE DEF k
    <3> QED
      BY <1>1
  <2>2. Step(k, m, IF m = 0 THEN <<>> ELSE t[m - 1]) = DigitsStep(m, IF m = 0 THEN <<>> ELSE t[m - 1])
    BY DEF Step
  <2> QED
    BY <2>1, <2>2
<1>3. ASSUME NEW m \in Nat, NEW i \in 0 .. m
      PROVE  t[m][i] = DigitsOfOne(i, t[m - 1][i \div 10])
  <2>0. i \in Nat
    OBVIOUS
  <2>1. CASE m = 0
    <3>1. i = 0
      BY <2>1
    <3>2. t[0] = DigitsStep(0, <<>>)
      BY <1>2
    <3>3. t[0][0] = DigitsOfOne(0, <<>>[0 \div 10])
      <4> DEFINE e == <<>>
      <4> HIDE DEF e
      <4>1. DigitsStep(0, e)[0] = DigitsOfOne(0, e[0 \div 10])
        BY DEF DigitsStep
      <4> QED
        BY <4>1, <3>2 DEF e
    <3>4. DigitsOfOne(0, <<>>[0 \div 10]) = DigitsOfOne(0, t[0 - 1][0 \div 10])
      BY SmallDigits
    <3> QED
      BY <3>1, <3>3, <3>4, <2>1
  <2>2. CASE m # 0
    <3> DEFINE e == t[m - 1]
    <3>1. t[m] = DigitsStep(m, e)
      BY <2>2, <1>2
    <3> HIDE DEF e
    <3>2. DigitsStep(m, e)[i] = DigitsOfOne(i, e[i \div 10])
      BY DEF DigitsStep
    <3> QED
      BY <3>1, <3>2 DEF e
  <2> QED
    BY <2>1, <2>2
<1>4. \A m \in Nat : \A i \in 0 .. m : t[m][i] = t[i][i]
  <2> DEFINE T == {m \in Nat : \E i \in 0 .. m : t[m][i] # t[i][i]}
  <2>1. SUFFICES ASSUME T # {} PROVE FALSE
    OBVIOUS
  <2>2. PICK m \in T : \A j \in T : m <= j
    <3>1. T \in SUBSET Nat
      OBVIOUS
    <3> HIDE DEF T
    <3> QED
      BY <2>1, <3>1, LeastNumber
  <2>3. PICK i \in 0 .. m : t[m][i] # t[i][i]
    BY <2>2
  <2>4. m \in Nat /\ i \in Nat /\ i < m /\ i \in 0 .. i
    BY <2>2, <2>3
  <2>5. \A l \in 0 .. m - 1 : \A j \in 0 .. l : t[l][j] = t[j][j]
    BY <2>2, <2>4
  <2> HIDE DEF T
  <2> DEFINE j == i \div 10
             u == t[m - 1][j]
             v == t[i - 1][j]
  <2>6. t[m][i] = DigitsOfOne(i, u) /\ t[i][i] = DigitsOfOne(i, v)
    BY <2>4, <1>3
  <2>7. CASE i < 10
    <3> HIDE DEF u, v
    <3> QED
      BY <2>7, <2>3, <2>4, <2>6, SmallDigits
  <2>8. CASE i >= 10
    <3>1. j \in 0 .. i - 1 /\ j \in 0 .. m - 1
      BY <2>4, <2>8, Halves
    <3> HIDE DEF j
    <3>3. t[m - 1][j] = t[j][j] /\ t[i - 1][j] = t[j][j]
      <4>1. m - 1 \in 0 .. m - 1 /\ i - 1 \in 0 .. m - 1
        BY <2>4, <3>1
      <4> QED
        BY <2>5, <3>1, <4>1
    <3> QED
      BY <3>3, <2>3, <2>6
  <2> QED
    BY <2>7, <2>8, <2>4
<1> DEFINE h == [m \in Nat |-> t[m][m]]
<1>5. ASSUME NEW m \in Nat PROVE h[m] = DigitsOfOne(m, h[m \div 10])
  <2> DEFINE j == m \div 10
             u == t[m - 1][j]
  <2>0. h[m] = t[m][m] /\ j \in Nat /\ h[j] = t[j][j]
    OBVIOUS
  <2>3. t[m][m] = DigitsOfOne(m, u)
    BY <1>3
  <2> HIDE DEF h
  <2>1. CASE m < 10
    <3> HIDE DEF u, j
    <3>1. DigitsOfOne(m, u) = DigitsOfOne(m, h[j])
      BY <2>1, SmallDigits
    <3> QED
      BY <2>0, <2>3, <3>1 DEF j
  <2>2. CASE m >= 10
    <3>1. j \in 0 .. m - 1 /\ j \in Nat /\ m - 1 \in Nat
      BY <2>2, Halves
    <3> HIDE DEF j
    <3>3. u = t[j][j]
      BY <1>4, <3>1
    <3> QED
      BY <2>0, <2>3, <3>3 DEF j
  <2> QED
    BY <2>1, <2>2
<1>6. h = [m \in Nat |-> h[m]]
  OBVIOUS
<1> HIDE DEF h
<1>7. h = G(h)
  BY <1>5, <1>6
<1>8. Digits = CHOOSE x : x = G(x)
  BY DEF Digits, DigitsOfOne
<1>9. Digits = G(Digits)
  <2> HIDE DEF G
  <2> QED
    BY <1>7, <1>8
<1> QED
  BY <1>9

\* The digits of a number stand for it.
LEMMA DigitsOf ==
  ASSUME NEW n \in Nat
  PROVE  Digits[n] \in Seq(Digit) /\ Digits[n] # <<>> /\ Number(Digits[n]) = n
<1> DEFINE P(m) == Digits[m] \in Seq(Digit) /\ Digits[m] # <<>> /\ Number(Digits[m]) = m
           T == {m \in Nat : ~P(m)}
<1>1. SUFFICES ASSUME T # {} PROVE FALSE
  OBVIOUS
<1>2. PICK m \in T : \A j \in T : m <= j
  <2>1. T \in SUBSET Nat
    OBVIOUS
  <2> HIDE DEF T
  <2> QED
    BY <1>1, <2>1, LeastNumber
<1>3. ASSUME NEW s \in Seq(Digit), NEW d \in Digit
      PROVE  s \o <<d>> \in Seq(Digit) /\ s \o <<d>> # <<>> /\ Number(s \o <<d>>) = 10 * Number(s) + (d - 48)
  <2>1. Append(s, d) = s \o <<d>>
    BY AppendIsConcat
  <2>2. Append(s, d) \in Seq(Digit) /\ Append(s, d) # <<>>
    BY AppendProperties
  <2>3. Number(Append(s, d)) = 10 * Number(s) + (d - 48)
    BY NumberOfMore
  <2> QED
    BY <2>1, <2>2, <2>3
<1>4. CASE m < 10
  <2>1. 48 + m \in Digit
    BY <1>2, <1>4 DEF Digit
  <2>2. <<>> \in Seq(Digit) /\ <<>> \o <<48 + m>> = <<48 + m>>
    BY <2>1
  <2>3. Number(<<48 + m>>) = 10 * 0 + ((48 + m) - 48)
    BY ZenonT(30), <2>1, <2>2, <1>3, NumberOfNone
  <2>4. <<48 + m>> \in Seq(Digit) /\ <<48 + m>> # <<>>
    BY <2>1
  <2>5. Digits[m] = <<48 + m>>
    BY <1>2, <1>4, DigitsIs DEF DigitsOfOne
  <2>6. Number(<<48 + m>>) = m
    BY <2>3, <1>2
  <2>7. P(m)
    BY <2>4, <2>5, <2>6
  <2> QED
    BY <2>7, <1>2
<1>5. CASE m >= 10
  <2> DEFINE j == m \div 10
             d == 48 + (m % 10)
  <2>1. j \in Nat /\ j < m /\ d \in Digit /\ m = 10 * j + (d - 48)
    BY <1>2, <1>5, Halves DEF Digit
  <2>2. Digits[m] = Digits[j] \o <<d>>
    <3>1. Digits[m] = DigitsOfOne(m, Digits[j])
      BY <1>2, DigitsIs
    <3>2. ~(m < 10)
      BY <1>2, <1>5
    <3> DEFINE x == Digits[j]
    <3> HIDE DEF x
    <3>3. DigitsOfOne(m, x) = x \o <<d>>
      BY <3>2 DEF DigitsOfOne
    <3> QED
      BY <3>1, <3>3 DEF x
  <2> HIDE DEF j, d
  <2>3. P(j)
    BY <1>2, <2>1
  <2>4. Digits[j] \o <<d>> \in Seq(Digit) /\ Digits[j] \o <<d>> # <<>>
        /\ Number(Digits[j] \o <<d>>) = 10 * j + (d - 48)
    BY <1>3, <2>1, <2>3
  <2>5. P(m)
    BY <2>1, <2>2, <2>4
  <2> QED
    BY <2>5, <1>2
<1> QED
  BY <1>2, <1>4, <1>5

\* A number as text: bytes that are digits, behind a minus sign when it is negative.
LEMMA ItoaOf ==
  ASSUME NEW n \in Int
  PROVE  /\ Itoa(n) \in Bytes /\ Itoa(n) # <<>>
         /\ \A i \in 1 .. Len(Itoa(n)) : Itoa(n)[i] \in Digit \union {Minus}
         /\ n < 0 => Itoa(n) = <<Minus>> \o Digits[-n]
         /\ n >= 0 => Itoa(n) = Digits[n]
<1>1. Digit \subseteq Byte /\ Minus \in Byte /\ Minus \notin Digit
  BY DEF Digit, Byte, Minus
<1>2. CASE n >= 0
  <2>1. Digits[n] \in Seq(Digit) /\ Digits[n] # <<>>
    BY <1>2, DigitsOf
  <2>2. Digits[n] \in Seq(Byte)
    BY <2>1, <1>1, SeqMonotonic
  <2>3. \A i \in 1 .. Len(Digits[n]) : Digits[n][i] \in Digit
    BY <2>1, ElementOfSeq
  <2> QED
    BY <2>1, <2>2, <2>3, <1>2 DEF Itoa, Bytes
<1>3. CASE n < 0
  <2>1. -n \in Nat
    BY <1>3
  <2> DEFINE d == Digits[-n]
  <2>2. d \in Seq(Digit) /\ d # <<>>
    BY <2>1, DigitsOf
  <2>3. d \in Seq(Digit \union {Minus}) /\ Minus \in Digit \union {Minus}
    BY <2>2, SeqMonotonic
  <2> HIDE DEF d
  <2>4. <<Minus>> \o d \in Seq(Digit \union {Minus}) /\ <<Minus>> \o d # <<>>
    BY <2>3, Behind
  <2>5. <<Minus>> \o d \in Seq(Byte)
    BY <2>4, <1>1, SeqMonotonic
  <2>6. Itoa(n) = <<Minus>> \o d
    BY <1>3 DEF Itoa, d
  <2>7. \A i \in 1 .. Len(<<Minus>> \o d) : (<<Minus>> \o d)[i] \in Digit \union {Minus}
    BY <2>4, ElementOfSeq
  <2> QED
    BY <2>4, <2>5, <2>6, <2>7, <1>3 DEF Bytes, d
<1> QED
  BY <1>2, <1>3

\* What ends a line.
LEMMA CRLFIs == CRLF \in Bytes /\ Len(CRLF) = 2 /\ CRLF[1] = CR /\ CRLF[2] = LF /\ CRLF # <<>>
BY DEF CRLF, Bytes, Byte, CR, LF

\* strings.TrimSpace takes the end of the line away, and no more.
LEMMA TrimmedLine ==
  ASSUME NEW s \in Bytes, s # <<>>, \A i \in 1 .. Len(s) : s[i] \notin Space
  PROVE  TrimSpace(s \o CRLF) = s
<1> DEFINE l == s \o CRLF
           kept == {i \in DOMAIN l : l[i] \notin Space}
<1>1. s \in Seq(Byte) /\ CRLF \in Seq(Byte) /\ Len(s) \in Nat /\ Len(s) > 0
  BY CRLFIs, EmptySeq, LenProperties DEF Bytes
<1>2. l \in Seq(Byte) /\ Len(l) = Len(s) + 2 /\ DOMAIN l = 1 .. Len(s) + 2
      /\ \A i \in 1 .. Len(s) + 2 : l[i] = IF i <= Len(s) THEN s[i] ELSE CRLF[i - Len(s)]
  <2>1. l \in Seq(Byte) /\ Len(l) = Len(s) + Len(CRLF)
        /\ \A i \in 1 .. Len(s) + Len(CRLF) : l[i] = IF i <= Len(s) THEN s[i] ELSE CRLF[i - Len(s)]
    BY <1>1, ConcatProperties
  <2> HIDE DEF l
  <2>2. DOMAIN l = 1 .. Len(l)
    BY <2>1, LenProperties
  <2> QED
    BY <2>1, <2>2, CRLFIs
<1>3. \A i \in 1 .. 2 : CRLF[i] \in Space
  BY CRLFIs DEF Space, CR, LF
<1> HIDE DEF l
<1>4. kept = 1 .. Len(s)
  <2>1. ASSUME NEW i \in 1 .. Len(s) + 2, i > Len(s) PROVE l[i] \in Space
    <3>1. i - Len(s) \in 1 .. 2
      BY <1>1, <2>1
    <3> QED
      BY <3>1, <1>1, <1>2, <1>3, <2>1
  <2>2. ASSUME NEW i \in 1 .. Len(s) PROVE l[i] \notin Space
    BY <1>1, <1>2
  <2>3. \A i \in 1 .. Len(s) + 2 : l[i] \notin Space <=> i \in 1 .. Len(s)
    BY <1>1, <2>1, <2>2
  <2> QED
    BY <2>3, <1>1, <1>2
<1> HIDE DEF kept
<1>5. Min(kept) = 1 /\ Max(kept) = Len(s)
  BY <1>1, <1>4, MinIs, MaxIs
<1>6. TrimSpace(l) = SubSeq(l, 1, Len(s))
  <2>1. TrimSpace(l) = IF kept = {} THEN <<>> ELSE SubSeq(l, Min(kept), Max(kept))
    BY DEF TrimSpace, kept
  <2>2. 1 \in kept
    BY <1>1, <1>4
  <2> QED
    BY <1>5, <2>1, <2>2
<1>7. SubSeq(l, 1, Len(s)) = SubSeq(s, 1, Len(s))
  BY <1>1, FirstOfTwo DEF l
<1> QED
  BY <1>1, <1>6, <1>7, SubSeqFull DEF l

\* A number in a line is read as that number.
LEMMA AtoiOfItoa ==
  ASSUME NEW n \in Int
  PROVE  Atoi(TrimSpace(Itoa(n) \o CRLF)) = Ok(n, <<>>)
<1> DEFINE s == Itoa(n)
<1>1. s \in Bytes /\ s # <<>> /\ \A i \in 1 .. Len(s) : s[i] \in Digit \union {Minus}
  BY ItoaOf
<1>2. \A x \in Digit \union {Minus} : x \notin Space
  BY DEF Digit, Minus, Space
<1> HIDE DEF s
<1>3. TrimSpace(s \o CRLF) = s
  BY <1>1, <1>2, TrimmedLine
<1>4. CASE n >= 0
  <2>1. s = Digits[n] /\ s \in Seq(Digit) /\ Number(s) = n
    BY <1>4, ItoaOf, DigitsOf DEF s
  <2>2. \A i \in DOMAIN s : s[i] \in Digit
    BY <2>1, ElementOfSeq, LenProperties
  <2>3. s[1] \in Digit
    BY <2>1, <1>1, ElementOfSeq, EmptySeq
  <2>4. s[1] # Minus /\ s[1] # Plus
    BY <2>3 DEF Digit, Minus, Plus
  <2> QED
    BY <2>1, <2>2, <2>4, <1>1, <1>3 DEF Atoi, s
<1>5. CASE n < 0
  <2> DEFINE d == Digits[-n]
  <2>0. -n \in Nat
    BY <1>5
  <2>1. s = <<Minus>> \o d /\ d \in Seq(Digit) /\ Number(d) = -n /\ d # <<>>
    BY <1>5, <2>0, ItoaOf, DigitsOf DEF s
  <2> HIDE DEF d
  <2>2. \A i \in DOMAIN d : d[i] \in Digit
    BY <2>1, ElementOfSeq, LenProperties
  <2>3. s[1] = Minus /\ Tail(s) = d
    <3>1. d \in Seq(Digit \union {Minus}) /\ Minus \in Digit \union {Minus}
      BY <2>1, SeqMonotonic
    <3> QED
      BY <2>1, <3>1, Behind
  <2>4. -Number(d) = n
    BY <2>1
  <2>5. Atoi(TrimSpace(s \o CRLF)) = Ok(-Number(d), <<>>)
    BY <1>1, <1>3, <2>1, <2>2, <2>3 DEF Atoi
  <2> QED
    BY <2>4, <2>5 DEF s
<1> QED
  BY <1>4, <1>5

\* ReadString(LF) reads up to the line feed, and leaves what is behind it.
LEMMA LineRead ==
  ASSUME NEW l \in Bytes, NEW rest \in Bytes, \A i \in 1 .. Len(l) : l[i] = LF <=> i = Len(l), l # <<>>
  PROVE  ReadLine(l \o rest) = Ok(l, rest)
<1> DEFINE b == l \o rest
           ends == {i \in DOMAIN b : b[i] = LF}
<1>1. l \in Seq(Byte) /\ rest \in Seq(Byte) /\ Len(l) \in Nat /\ Len(l) > 0 /\ Len(rest) \in Nat
  BY EmptySeq, LenProperties DEF Bytes
<1>2. b \in Seq(Byte) /\ Len(b) = Len(l) + Len(rest) /\ DOMAIN b = 1 .. Len(b)
      /\ \A i \in 1 .. Len(l) + Len(rest) : b[i] = IF i <= Len(l) THEN l[i] ELSE rest[i - Len(l)]
  BY <1>1, ConcatProperties, LenProperties
<1> HIDE DEF b
<1>3. Len(l) \in ends /\ ends \subseteq Int /\ \A i \in ends : Len(l) <= i
  BY <1>1, <1>2
<1> HIDE DEF ends
<1>4. Min(ends) = Len(l)
  BY <1>3, MinIs
<1>5. SubSeq(b, 1, Len(l)) = l
  <2>1. SubSeq(b, 1, Len(l)) = SubSeq(l, 1, Len(l))
    BY <1>1, FirstOfTwo DEF b
  <2> QED
    BY <2>1, <1>1, SubSeqFull
<1>6. SubSeq(b, Len(l) + 1, Len(b)) = rest
  BY <1>1, LastOfTwo DEF b
<1>7. ReadLine(b) = Ok(SubSeq(b, 1, Min(ends)), SubSeq(b, Min(ends) + 1, Len(b)))
  BY <1>3 DEF ReadLine, ends
<1> QED
  BY <1>4, <1>5, <1>6, <1>7 DEF b

\* Without a line feed it fails with EOF.
LEMMA NoLineRead ==
  ASSUME NEW b \in Bytes, \A i \in 1 .. Len(b) : b[i] # LF
  PROVE  ReadLine(b) = Fail("EOF")
<1>1. DOMAIN b = 1 .. Len(b)
  BY LenProperties DEF Bytes
<1> QED
  BY <1>1 DEF ReadLine

-------------------------------------------------------------------------------
(* What a reader leaves of the bytes it gets.                              *)

\* The first elements of a sequence, one by one.
LEMMA FirstMore ==
  ASSUME NEW S, NEW s \in Seq(S), NEW i \in 1 .. Len(s)
  PROVE  /\ SubSeq(s, 1, i) = Append(SubSeq(s, 1, i - 1), s[i])
         /\ SubSeq(s, 1, i - 1) \in Seq(S) /\ Len(SubSeq(s, 1, i - 1)) = i - 1 /\ s[i] \in S
         /\ SubSeq(s, 1, i) \in Seq(S) /\ Len(SubSeq(s, 1, i)) = i
<1>1. Len(s) \in Nat /\ i \in Nat /\ i - 1 \in Int /\ i - 1 <= Len(s)
  BY LenProperties
<1>2. SubSeq(s, 1, i - 1) \in Seq(S) /\ Len(SubSeq(s, 1, i - 1)) = IF 1 <= i - 1 THEN (i - 1) - 1 + 1 ELSE 0
  BY <1>1, PartOf
<1>3. SubSeq(s, 1, i) \in Seq(S) /\ Len(SubSeq(s, 1, i)) = IF 1 <= i THEN i - 1 + 1 ELSE 0
  BY <1>1, PartOf
<1>4. SubSeq(s, 1, i) = SubSeq(s, 1, i - 1) \o <<s[i]>>
  <2>1. 1 \in 1 .. Len(s) /\ i \in 1 .. Len(s)
    BY <1>1
  <2> QED
    BY <2>1, SubSeqRecursiveSecond
<1>5. s[i] \in S
  BY ElementOfSeq
<1> QED
  BY <1>1, <1>2, <1>3, <1>4, <1>5, AppendIsConcat

\* None of the elements.
LEMMA FirstNone ==
  ASSUME NEW s
  PROVE  SubSeq(s, 1, 0) = <<>>
BY SubSeqEmpty

\* Digits stand for a number.
LEMMA NumberType ==
  ASSUME NEW s \in Seq(Digit)
  PROVE  Number(s) \in Int
<1> DEFINE T == {i \in 0 .. Len(s) : Number(SubSeq(s, 1, i)) \notin Int}
<1>0. Len(s) \in Nat
  BY LenProperties
<1>1. T = {}
  <2>1. SUFFICES ASSUME T # {} PROVE FALSE
    OBVIOUS
  <2>2. PICK i \in T : i - 1 \notin T
    <3>1. T \in SUBSET Nat
      BY <1>0
    <3> HIDE DEF T
    <3> QED
      BY <2>1, <3>1, FirstNumber
  <2>3. CASE i = 0
    <3>1. SubSeq(s, 1, i) = <<>>
      BY <2>3, FirstNone
    <3>2. Number(SubSeq(s, 1, i)) = 0
      BY <3>1, NumberOfNone
    <3> QED
      BY <2>2, <3>2
  <2>4. CASE i # 0
    <3>1. i \in 1 .. Len(s) /\ i - 1 \in 0 .. Len(s)
      BY <2>2, <2>4, <1>0
    <3> DEFINE f == SubSeq(s, 1, i - 1)
               g == SubSeq(s, 1, i)
    <3>2. g = Append(f, s[i]) /\ f \in Seq(Digit) /\ s[i] \in Digit
      BY <3>1, FirstMore
    <3>3. Number(f) \in Int
      BY <2>2, <3>1
    <3>4. Number(g) \notin Int
      BY <2>2
    <3> HIDE DEF f, g
    <3>5. Number(g) = 10 * Number(f) + (s[i] - 48)
      BY <3>2, NumberOfMore
    <3>6. s[i] \in Int
      BY <3>2 DEF Digit
    <3> HIDE DEF T
    <3> QED
      BY <3>3, <3>4, <3>5, <3>6
  <2> QED
    BY <2>3, <2>4
<1>2. Number(SubSeq(s, 1, Len(s))) \in Int
  BY <1>0, <1>1
<1> QED
  BY <1>2, SubSeqFull

\* What a parser leaves of b, where it finds no error.
Leaves(r, b)   == r.err = "nil" => r.rest \in Bytes /\ Len(r.rest) <= Len(b)
Consumes(r, b) == r.err = "nil" => r.rest \in Bytes /\ Len(r.rest) < Len(b)

\* The fields of a result and of an error.
LEMMA OkIs ==
  ASSUME NEW v, NEW rest
  PROVE  Ok(v, rest).err = "nil" /\ Ok(v, rest).val = v /\ Ok(v, rest).rest = rest
BY DEF Ok

LEMMA FailIs ==
  ASSUME NEW e
  PROVE  Fail(e).err = e /\ Fail(e).val = Nil /\ Fail(e).rest = <<>>
BY DEF Fail

\* A text of bytes is a sequence.
LEMMA BytesHaveLength ==
  ASSUME NEW b \in Bytes
  PROVE  b \in Seq(Byte) /\ Len(b) \in Nat /\ DOMAIN b = 1 .. Len(b) /\ (b # <<>> => Len(b) > 0)
BY LenProperties, EmptySeq DEF Bytes

\* Reading a line takes at least a byte.
LEMMA ReadLineConsumes ==
  ASSUME NEW b \in Bytes
  PROVE  /\ Consumes(ReadLine(b), b)
         /\ ReadLine(b).err = "nil" => ReadLine(b).val \in Bytes
<1> DEFINE ends == {i \in DOMAIN b : b[i] = LF}
<1>1. b \in Seq(Byte) /\ Len(b) \in Nat /\ DOMAIN b = 1 .. Len(b)
  BY BytesHaveLength
<1>2. ReadLine(b) = IF ends = {} THEN Fail("EOF")
                    ELSE Ok(SubSeq(b, 1, Min(ends)), SubSeq(b, Min(ends) + 1, Len(b)))
  BY DEF ReadLine
<1>3. CASE ends = {}
  BY <1>2, <1>3 DEF Fail, Consumes
<1>4. CASE ends # {}
  <2>1. ends \in SUBSET Nat
    BY <1>1
  <2>2. PICK i \in ends : \A j \in ends : i <= j
    <3> HIDE DEF ends
    <3> QED
      BY <1>4, <2>1, LeastNumber
  <2>3. i \in 1 .. Len(b)
    BY <1>1
  <2> HIDE DEF ends
  <2>4. Min(ends) = i
    <3>1. ends \subseteq Int
      BY <2>1
    <3> QED
      BY <2>2, <3>1, MinIs
  <2>5. SubSeq(b, i + 1, Len(b)) \in Seq(Byte) /\ Len(SubSeq(b, i + 1, Len(b))) = IF i + 1 <= Len(b) THEN Len(b) - (i + 1) + 1 ELSE 0
    BY <1>1, <2>3, PartOf
  <2>6. SubSeq(b, 1, i) \in Seq(Byte)
    BY <1>1, <2>3, PartOf
  <2>7. ReadLine(b) = Ok(SubSeq(b, 1, i), SubSeq(b, i + 1, Len(b)))
    BY <1>2, <1>4, <2>4
  <2>8. Len(SubSeq(b, i + 1, Len(b))) < Len(b)
    BY <1>1, <2>3, <2>5
  <2> DEFINE l == SubSeq(b, 1, i)
             rest == SubSeq(b, i + 1, Len(b))
  <2>9. l \in Bytes /\ rest \in Bytes /\ Len(rest) < Len(b) /\ ReadLine(b) = Ok(l, rest)
    BY <2>5, <2>6, <2>7, <2>8 DEF Bytes
  <2> HIDE DEF l, rest
  <2>10. ReadLine(b).val = l /\ ReadLine(b).rest = rest
    BY <2>9, OkIs
  <2> QED
    BY <2>9, <2>10 DEF Consumes
<1> QED
  BY <1>3, <1>4

\* A trimmed text is a text.
LEMMA TrimSpaceType ==
  ASSUME NEW b \in Bytes
  PROVE  TrimSpace(b) \in Bytes
<1> DEFINE kept == {i \in DOMAIN b : b[i] \notin Space}
<1>1. b \in Seq(Byte) /\ Len(b) \in Nat /\ DOMAIN b = 1 .. Len(b)
  BY BytesHaveLength
<1>2. TrimSpace(b) = IF kept = {} THEN <<>> ELSE SubSeq(b, Min(kept), Max(kept))
  BY DEF TrimSpace
<1>3. CASE kept = {}
  BY <1>2, <1>3 DEF Bytes
<1>4. CASE kept # {}
  <2>1. kept \in SUBSET Nat /\ kept \subseteq 1 .. Len(b)
    BY <1>1
  <2> DEFINE over == {Len(b) - i : i \in kept}
  <2>2. over \in SUBSET Nat /\ over # {}
    BY <1>1, <1>4
  <2> HIDE DEF kept
  <2>3. PICK i \in kept : \A j \in kept : i <= j
    BY <1>4, <2>1, LeastNumber
  <2>4. PICK m \in over : \A j \in over : m <= j
    <3> HIDE DEF over
    <3> QED
      BY <2>2, LeastNumber
  <2>5. PICK l \in kept : m = Len(b) - l
    BY <2>4
  <2>6. ASSUME NEW j \in kept PROVE j <= l
    <3>1. Len(b) - l <= Len(b) - j
      BY <2>4, <2>5
    <3> QED
      BY <3>1, <2>1, <1>1
  <2>7. \A j \in kept : l >= j
    BY <2>6, <2>1
  <2>8. kept \subseteq Int
    BY <2>1
  <2>9. Min(kept) = i /\ Max(kept) = l
    BY <2>3, <2>7, <2>8, MinIs, MaxIs
  <2>10. i \in 1 .. Len(b) /\ l \in 1 .. Len(b)
    BY <2>1
  <2>11. SubSeq(b, i, l) \in Seq(Byte)
    BY <2>10, <1>1, PartOf
  <2> QED
    BY <1>2, <1>4, <2>9, <2>11 DEF Bytes
<1> QED
  BY <1>3, <1>4

\* strconv.Atoi gives a number or an error.
LEMMA AtoiType ==
  ASSUME NEW s \in Bytes
  PROVE  \/ Atoi(s) = Fail("syntax")
         \/ \E n \in Int : Atoi(s) = Ok(n, <<>>)
<1> DEFINE signed == s # <<>> /\ s[1] \in {Plus, Minus}
           digits == IF signed THEN Tail(s) ELSE s
<1>1. s \in Seq(Byte)
  BY DEF Bytes
<1>2. digits \in Seq(Byte)
  <2>1. s # <<>> => Tail(s) \in Seq(Byte)
    BY <1>1, HeadTailProperties
  <2> QED
    BY <1>1, <2>1
<1>3. Atoi(s) = IF digits = <<>> \/ (\E i \in DOMAIN digits : digits[i] \notin Digit) THEN Fail("syntax")
                   ELSE Ok(IF s[1] = Minus THEN -Number(digits) ELSE Number(digits), <<>>)
  BY DEF Atoi
<1> HIDE DEF digits
<1>4. ASSUME \A i \in DOMAIN digits : digits[i] \in Digit PROVE Number(digits) \in Int
  <2>1. digits \in [1 .. Len(digits) -> Digit] /\ Len(digits) \in Nat
    BY <1>2, <1>4, LenProperties
  <2>2. digits \in Seq(Digit)
    BY <2>1
  <2> QED
    BY <2>2, NumberType
<1>5. CASE digits = <<>> \/ (\E i \in DOMAIN digits : digits[i] \notin Digit)
  BY <1>3, <1>5
<1>6. CASE ~(digits = <<>> \/ (\E i \in DOMAIN digits : digits[i] \notin Digit))
  <2> DEFINE n == IF s[1] = Minus THEN -Number(digits) ELSE Number(digits)
  <2>1. n \in Int
    BY <1>4, <1>6
  <2>2. Atoi(s) = Ok(n, <<>>)
    BY <1>3, <1>6
  <2> QED
    BY <2>1, <2>2
<1> QED
  BY <1>5, <1>6

\* So does a line with a number, and it takes at least a byte.
LEMMA ReadNumberConsumes ==
  ASSUME NEW b \in Bytes
  PROVE  \/ ReadNumber(b).err # "nil"
         \/ \E n \in Int : \E rest \in Bytes : ReadNumber(b) = Ok(n, rest) /\ Len(rest) < Len(b)
<1> DEFINE r == ReadLine(b)
<1>1. CASE r.err # "nil"
  <2>1. ReadNumber(b) = r
    BY <1>1 DEF ReadNumber, Then
  <2> QED
    BY <1>1, <2>1
<1>2. CASE r.err = "nil"
  <2>1. r.val \in Bytes /\ r.rest \in Bytes /\ Len(r.rest) < Len(b)
    BY <1>2, ReadLineConsumes DEF Consumes
  <2>2. ReadNumber(b) = IF Atoi(TrimSpace(r.val)).err # "nil" THEN Atoi(TrimSpace(r.val))
                        ELSE Ok(Atoi(TrimSpace(r.val)).val, r.rest)
    BY <1>2 DEF ReadNumber, Then
  <2> DEFINE line == TrimSpace(r.val)
             rest == r.rest
  <2> HIDE DEF r
  <2>3. line \in Bytes /\ rest \in Bytes /\ Len(rest) < Len(b)
    BY <2>1, TrimSpaceType
  <2>4. ReadNumber(b) = IF Atoi(line).err # "nil" THEN Atoi(line) ELSE Ok(Atoi(line).val, rest)
    BY <2>2
  <2> HIDE DEF line, rest
  <2>5. CASE Atoi(line) = Fail("syntax")
    BY <2>4, <2>5 DEF Fail
  <2>6. CASE \E n \in Int : Atoi(line) = Ok(n, <<>>)
    <3>1. PICK n \in Int : Atoi(line) = Ok(n, <<>>)
      BY <2>6
    <3> DEFINE a == Atoi(line)
    <3>2. a.err = "nil" /\ a.val = n
      BY <3>1, OkIs
    <3>3. ReadNumber(b) = IF a.err # "nil" THEN a ELSE Ok(a.val, rest)
      BY <2>4
    <3> HIDE DEF a
    <3>4. ReadNumber(b) = Ok(n, rest)
      BY <3>2, <3>3
    <3> QED
      BY <2>3, <3>4
  <2> QED
    BY <2>3, <2>5, <2>6, AtoiType
<1> QED
  BY <1>1, <1>2

\* io.ReadFull and Discard take no more than there is.
LEMMA ReadFullLeaves ==
  ASSUME NEW b \in Bytes, NEW n \in Nat
  PROVE  /\ Leaves(ReadFull(b, n), b)
         /\ ReadFull(b, n).err = "nil" => ReadFull(b, n).val \in Bytes /\ Len(ReadFull(b, n).val) = n
<1>1. b \in Seq(Byte) /\ Len(b) \in Nat
  BY BytesHaveLength
<1>2. CASE Len(b) >= n
  <2> DEFINE v == SubSeq(b, 1, n)
             rest == SubSeq(b, n + 1, Len(b))
  <2>1. v \in Seq(Byte) /\ Len(v) = IF 1 <= n THEN n - 1 + 1 ELSE 0
    BY <1>1, <1>2, PartOf
  <2>2. rest \in Seq(Byte) /\ Len(rest) = IF n + 1 <= Len(b) THEN Len(b) - (n + 1) + 1 ELSE 0
    BY <1>1, <1>2, PartOf
  <2>3. ReadFull(b, n) = Ok(v, rest)
    BY <1>2 DEF ReadFull
  <2> HIDE DEF v, rest
  <2>4. v \in Bytes /\ Len(v) = n /\ rest \in Bytes /\ Len(rest) <= Len(b)
    BY <1>1, <1>2, <2>1, <2>2 DEF Bytes
  <2> QED
    BY <2>3, <2>4 DEF Leaves, Ok
<1>3. CASE ~(Len(b) >= n)
  <2>1. ReadFull(b, n) = Fail(IF b = <<>> THEN "EOF" ELSE "unexpected EOF")
    BY <1>3 DEF ReadFull
  <2> DEFINE e == IF b = <<>> THEN "EOF" ELSE "unexpected EOF"
  <2>3. e # "nil"
    OBVIOUS
  <2> HIDE DEF e
  <2>2. ReadFull(b, n).err # "nil"
    BY <2>1, <2>3, FailIs DEF e
  <2> QED
    BY <2>2 DEF Leaves
<1> QED
  BY <1>2, <1>3

LEMMA DiscardLeaves ==
  ASSUME NEW b \in Bytes, NEW n \in Nat
  PROVE  Leaves(Discard(b, n), b)
<1>1. b \in Seq(Byte) /\ Len(b) \in Nat
  BY BytesHaveLength
<1>2. CASE Len(b) >= n
  <2> DEFINE rest == SubSeq(b, n + 1, Len(b))
  <2>2. rest \in Seq(Byte) /\ Len(rest) = IF n + 1 <= Len(b) THEN Len(b) - (n + 1) + 1 ELSE 0
    BY <1>1, <1>2, PartOf
  <2>3. Discard(b, n) = Ok(Nil, rest)
    BY <1>2 DEF Discard
  <2> HIDE DEF rest
  <2>4. rest \in Bytes /\ Len(rest) <= Len(b)
    BY <1>1, <1>2, <2>2 DEF Bytes
  <2> QED
    BY <2>3, <2>4, OkIs DEF Leaves
<1>3. CASE ~(Len(b) >= n)
  <2>1. Discard(b, n) = Fail("EOF")
    BY <1>3 DEF Discard
  <2> QED
    BY <2>1 DEF Leaves, Fail
<1> QED
  BY <1>2, <1>3

\* What handleRESPBulkString makes of a length and what is behind it.
BulkBody(n, rest) ==
  IF n = -1 THEN Ok(Nil, rest)
  ELSE IF n < 0 THEN Fail("panic")
  ELSE LET r == ReadFull(rest, n) IN
    IF r.err # "nil" THEN r
    ELSE LET d == Discard(r.rest, 2) IN IF d.err # "nil" THEN d ELSE Ok(Str(r.val), d.rest)

LEMMA BulkOf ==
  ASSUME NEW b, NEW n, NEW rest, ReadNumber(b) = Ok(n, rest)
  PROVE  handleRESPBulkString(b) = BulkBody(n, rest)
<1>1. handleRESPBulkString(b) = LET r == ReadNumber(b) IN IF r.err # "nil" THEN r ELSE BulkBody(r.val, r.rest)
  BY DEF handleRESPBulkString, BulkBody, Then
<1> QED
  BY <1>1, OkIs

\* It fails as its length does.
LEMMA BulkFails ==
  ASSUME NEW b, ReadNumber(b).err # "nil"
  PROVE  handleRESPBulkString(b) = ReadNumber(b)
BY DEF handleRESPBulkString, Then

\* handleRESPBulkString takes at least a byte.
LEMMA BulkConsumes ==
  ASSUME NEW b \in Bytes
  PROVE  Consumes(handleRESPBulkString(b), b)
<1>1. CASE ReadNumber(b).err # "nil"
  BY <1>1, BulkFails DEF Consumes
<1>2. ASSUME NEW n \in Int, NEW rest \in Bytes, ReadNumber(b) = Ok(n, rest), Len(rest) < Len(b)
      PROVE  Consumes(handleRESPBulkString(b), b)
  <2>1. handleRESPBulkString(b) = BulkBody(n, rest)
    BY <1>2, BulkOf
  <2>2. CASE n = -1
    BY <1>2, <2>1, <2>2, OkIs DEF BulkBody, Consumes
  <2>3. CASE n < 0 /\ n # -1
    <3>1. BulkBody(n, rest) = Fail("panic")
      BY <2>3 DEF BulkBody
    <3> QED
      BY <2>1, <3>1, FailIs DEF Consumes
  <2>4. CASE n >= 0
    <3> DEFINE r == ReadFull(rest, n)
               d == Discard(r.rest, 2)
    <3>1. BulkBody(n, rest) = IF r.err # "nil" THEN r
                              ELSE IF d.err # "nil" THEN d ELSE Ok(Str(r.val), d.rest)
      BY <2>4 DEF BulkBody
    <3>2. Leaves(r, rest)
      BY <2>4, ReadFullLeaves
    <3>3. r.err = "nil" => Leaves(d, r.rest)
      <4> HIDE DEF r
      <4> QED
        BY <3>2, DiscardLeaves DEF Leaves
    <3> HIDE DEF r, d
    <3>4. CASE r.err # "nil"
      BY <2>1, <3>1, <3>4 DEF Consumes
    <3>5. CASE r.err = "nil" /\ d.err # "nil"
      BY <2>1, <3>1, <3>5 DEF Consumes
    <3>6. CASE r.err = "nil" /\ d.err = "nil"
      <4>1. handleRESPBulkString(b) = Ok(Str(r.val), d.rest)
        BY <2>1, <3>1, <3>6
      <4>2. d.rest \in Bytes /\ Len(d.rest) <= Len(r.rest) /\ Len(r.rest) <= Len(rest) /\ r.rest \in Bytes
        BY <3>2, <3>3, <3>6 DEF Leaves
      <4>3. Len(d.rest) < Len(b)
        <5>1. Len(d.rest) \in Nat /\ Len(r.rest) \in Nat /\ Len(rest) \in Nat /\ Len(b) \in Nat
          BY <4>2, BytesHaveLength
        <5> QED
          BY <5>1, <4>2, <1>2
      <4> QED
        BY <4>1, <4>2, <4>3, OkIs DEF Consumes
    <3> QED
      BY <3>4, <3>5, <3>6
  <2> QED
    BY <2>2, <2>3, <2>4
<1> QED
  BY <1>1, <1>2, ReadNumberConsumes

\* So does handleRESPSimpleString.
LEMMA SimpleStringConsumes ==
  ASSUME NEW b \in Bytes
  PROVE  Consumes(handleRESPSimpleString(b), b)
<1> DEFINE r == ReadLine(b)
<1>1. handleRESPSimpleString(b) = IF r.err # "nil" THEN r ELSE Ok(Str(TrimRight(r.val)), r.rest)
  BY DEF handleRESPSimpleString, Then
<1>2. Consumes(r, b)
  BY ReadLineConsumes
<1> HIDE DEF r
<1> QED
  BY <1>1, <1>2, OkIs DEF Consumes

\* handleRESPError is always an error.
LEMMA ErrorFails ==
  ASSUME NEW b
  PROVE  handleRESPError(b).err # "nil"
<1> DEFINE r == ReadLine(b)
<1>1. handleRESPError(b) = IF r.err # "nil" THEN r ELSE Fail("received")
  BY DEF handleRESPError, Then
<1> HIDE DEF r
<1> QED
  BY <1>1, FailIs

\* handleRESPInteger takes at least a byte.
LEMMA IntegerConsumes ==
  ASSUME NEW b \in Bytes
  PROVE  Consumes(handleRESPInteger(b), b)
<1> DEFINE r == ReadNumber(b)
<1>1. handleRESPInteger(b) = IF r.err # "nil" THEN r ELSE Ok(Integer(r.val), r.rest)
  BY DEF handleRESPInteger, Then
<1>2. Consumes(r, b)
  BY ReadNumberConsumes, OkIs DEF Consumes
<1> HIDE DEF r
<1> QED
  BY <1>1, <1>2, OkIs DEF Consumes

\* What handleRESPArray makes of a total and what is behind it.
ArrayBody(Elements, n, rest) ==
  IF n = -1 THEN Ok(Nil, rest)
  ELSE LET r == Elements[n][rest] IN IF r.err # "nil" THEN r ELSE Ok(Arr(r.val), r.rest)

LEMMA ArrayOf ==
  ASSUME NEW Elements, NEW b, NEW n, NEW rest, ReadNumber(b) = Ok(n, rest)
  PROVE  handleRESPArray(Elements, b) = ArrayBody(Elements, n, rest)
<1>1. handleRESPArray(Elements, b)
        = LET r == ReadNumber(b) IN IF r.err # "nil" THEN r ELSE ArrayBody(Elements, r.val, r.rest)
  BY DEF handleRESPArray, ArrayBody, Then
<1> QED
  BY <1>1, OkIs

\* It fails as its count does.
LEMMA ArrayFails ==
  ASSUME NEW Elements, NEW b, ReadNumber(b).err # "nil"
  PROVE  handleRESPArray(Elements, b) = ReadNumber(b)
BY DEF handleRESPArray, Then

\* Parsers of elements that leave less than they get, up to k bytes.
LEMMA ArrayConsumes ==
  ASSUME NEW b \in Bytes, NEW Elements,
         \A n \in Int : \A rest \in Bytes : Len(rest) < Len(b) => Leaves(Elements[n][rest], rest)
  PROVE  Consumes(handleRESPArray(Elements, b), b)
<1>1. CASE ReadNumber(b).err # "nil"
  BY <1>1, ArrayFails DEF Consumes
<1>2. ASSUME NEW n \in Int, NEW rest \in Bytes, ReadNumber(b) = Ok(n, rest), Len(rest) < Len(b)
      PROVE  Consumes(handleRESPArray(Elements, b), b)
  <2>1. handleRESPArray(Elements, b) = ArrayBody(Elements, n, rest)
    BY <1>2, ArrayOf
  <2>2. CASE n = -1
    BY <1>2, <2>1, <2>2, OkIs DEF ArrayBody, Consumes
  <2>3. CASE n # -1
    <3> DEFINE r == Elements[n][rest]
    <3>1. ArrayBody(Elements, n, rest) = IF r.err # "nil" THEN r ELSE Ok(Arr(r.val), r.rest)
      BY <2>3 DEF ArrayBody
    <3>2. Leaves(r, rest)
      BY <1>2
    <3> HIDE DEF r
    <3>3. CASE r.err # "nil"
      BY <2>1, <3>1, <3>3 DEF Consumes
    <3>4. CASE r.err = "nil"
      <4>1. handleRESPArray(Elements, b) = Ok(Arr(r.val), r.rest)
        BY <2>1, <3>1, <3>4
      <4>2. r.rest \in Bytes /\ Len(r.rest) <= Len(rest)
        BY <3>2, <3>4 DEF Leaves
      <4>3. Len(r.rest) < Len(b)
        <5>1. Len(r.rest) \in Nat /\ Len(rest) \in Nat /\ Len(b) \in Nat
          BY <4>2, BytesHaveLength
        <5> QED
          BY <5>1, <4>2, <1>2
      <4> QED
        BY <4>1, <4>2, <4>3, OkIs DEF Consumes
    <3> QED
      BY <3>3, <3>4
  <2> QED
    BY <2>2, <2>3
<1> QED
  BY <1>1, <1>2, ReadNumberConsumes

\* What is behind the first byte.
LEMMA TailOf ==
  ASSUME NEW b \in Bytes, b # <<>>
  PROVE  Tail(b) \in Bytes /\ Len(Tail(b)) = Len(b) - 1 /\ b[1] \in Byte
BY HeadTailProperties, BytesHaveLength, ElementOfSeq DEF Bytes

\* So ParseRESP leaves less than it gets, if the elements of an array leave no more.
LEMMA ValueConsumes ==
  ASSUME NEW b \in Bytes, NEW Elements,
         \A n \in Int : \A rest \in Bytes : Len(rest) < Len(b) => Leaves(Elements[n][rest], rest)
  PROVE  Consumes(ParseValue(Elements, b), b)
<1>1. CASE b = <<>>
  BY <1>1, FailIs DEF ParseValue, Consumes
<1>2. CASE b # <<>>
  <2> DEFINE t == Tail(b)
  <2>1. t \in Bytes /\ Len(t) = Len(b) - 1 /\ Len(t) \in Nat /\ Len(b) \in Nat
    BY <1>2, TailOf, BytesHaveLength
  <2>2. ParseValue(Elements, b) =
          CASE b[1] = Star   -> handleRESPArray(Elements, t)
            [] b[1] = Dollar -> handleRESPBulkString(t)
            [] b[1] = Plus   -> handleRESPSimpleString(t)
            [] b[1] = Minus  -> handleRESPError(t)
            [] b[1] = Colon  -> handleRESPInteger(t)
            [] OTHER         -> Fail("unknown prefix")
    BY <1>2 DEF ParseValue
  <2> HIDE DEF t
  <2>3. \A n \in Int : \A rest \in Bytes : Len(rest) < Len(t) => Leaves(Elements[n][rest], rest)
    BY <2>1, BytesHaveLength
  <2>4. ASSUME NEW r, Consumes(r, t) PROVE Consumes(r, b)
    <3>1. r.err = "nil" => Len(r.rest) \in Nat
      BY <2>4, BytesHaveLength DEF Consumes
    <3> QED
      BY <2>1, <2>4, <3>1 DEF Consumes
  <2>5. Consumes(handleRESPArray(Elements, t), b)
    BY <2>1, <2>3, <2>4, ArrayConsumes
  <2>6. Consumes(handleRESPBulkString(t), b) /\ Consumes(handleRESPSimpleString(t), b)
        /\ Consumes(handleRESPInteger(t), b)
    BY <2>1, <2>4, BulkConsumes, SimpleStringConsumes, IntegerConsumes
  <2>7. Consumes(handleRESPError(t), b)
    BY ErrorFails DEF Consumes
  <2>8. Consumes(Fail("unknown prefix"), b)
    BY DEF Consumes, Fail
  <2>9. CASE b[1] = Star
    BY <2>2, <2>5, <2>9 DEF Star, Dollar, Plus, Minus, Colon
  <2>10. CASE b[1] # Star
    <3> DEFINE w == handleRESPArray(Elements, t)
    <3>1. ParseValue(Elements, b) \in {handleRESPBulkString(t), handleRESPSimpleString(t), handleRESPError(t),
                                       handleRESPInteger(t), Fail("unknown prefix")}
      BY <2>2, <2>10
    <3> QED
      BY <3>1, <2>6, <2>7, <2>8
  <2> QED
    BY <2>9, <2>10
<1> QED
  BY <1>1, <1>2

-------------------------------------------------------------------------------
(* The elements of an array: enough rounds for the bytes there are.        *)

\* One more element, and those behind it.
ElementsFrom(E, total, b) ==
  LET r == ParseValue(E, b) IN
    IF r.err # "nil" THEN r
    ELSE LET q == E[total - 1][r.rest] IN IF q.err # "nil" THEN q ELSE Ok(<<r.val>> \o q.val, q.rest)

\* One round of the loop of handleRESPArray.
LEMMA ElementsAre ==
  ASSUME NEW k \in Nat, NEW total \in Int, NEW b \in Bytes
  PROVE  ParseElements[k][total][b] =
           IF total <= 0 THEN Ok(<<>>, b) ELSE IF k = 0 THEN Fail("EOF")
           ELSE ElementsFrom(ParseElements[k - 1], total, b)
<1> DEFINE E == ParseElements[k - 1]
<1>1. ParseElements[k] = ParseElementsStep(k, E)
  BY ParseElementsIs
<1> HIDE DEF E
<1>2. ParseElementsStep(k, E)[total][b] =
           IF total <= 0 THEN Ok(<<>>, b) ELSE IF k = 0 THEN Fail("EOF") ELSE ElementsFrom(E, total, b)
  BY DEF ParseElementsStep, ElementsFrom, Then
<1> QED
  BY <1>1, <1>2 DEF E

\* Elements leave no more than they get.
LEMMA ElementsLeave ==
  ASSUME NEW k \in Nat
  PROVE  \A total \in Int : \A b \in Bytes : Leaves(ParseElements[k][total][b], b)
<1> DEFINE P(j) == \A total \in Int : \A b \in Bytes : Leaves(ParseElements[j][total][b], b)
           T == {j \in Nat : ~P(j)}
<1>1. SUFFICES ASSUME T # {} PROVE FALSE
  OBVIOUS
<1>2. PICK j \in T : j - 1 \notin T
  <2>1. T \in SUBSET Nat
    OBVIOUS
  <2> HIDE DEF T
  <2> QED
    BY <1>1, <2>1, FirstNumber
<1>3. PICK total \in Int, b \in Bytes : ~Leaves(ParseElements[j][total][b], b)
  BY <1>2
<1>4. total > 0
  <2>1. SUFFICES ASSUME total <= 0 PROVE FALSE
    OBVIOUS
  <2>2. ParseElements[j][total][b] = Ok(<<>>, b)
    BY <1>2, <2>1, ElementsAre
  <2>3. Leaves(Ok(<<>>, b), b)
    BY BytesHaveLength, OkIs DEF Leaves
  <2> QED
    BY <1>3, <2>2, <2>3
<1>5. j # 0
  <2>1. SUFFICES ASSUME j = 0 PROVE FALSE
    OBVIOUS
  <2>2. ParseElements[j][total][b] = Fail("EOF")
    BY <1>2, <1>4, <2>1, ElementsAre
  <2>3. Leaves(Fail("EOF"), b)
    BY DEF Leaves, Fail
  <2> QED
    BY <1>3, <2>2, <2>3
<1> DEFINE E == ParseElements[j - 1]
<1>6. \A n \in Int : \A rest \in Bytes : Leaves(E[n][rest], rest)
  BY <1>2, <1>5
<1>7. ParseElements[j][total][b] = ElementsFrom(E, total, b)
  BY <1>2, <1>4, <1>5, ElementsAre
<1> HIDE DEF E, T
<1> DEFINE r == ParseValue(E, b)
           q == E[total - 1][r.rest]
<1>8. Consumes(r, b)
  BY <1>6, ValueConsumes
<1>9. ElementsFrom(E, total, b) =
        IF r.err # "nil" THEN r ELSE IF q.err # "nil" THEN q ELSE Ok(<<r.val>> \o q.val, q.rest)
  BY DEF ElementsFrom
<1>10. r.err = "nil" => Leaves(q, r.rest)
  <2> HIDE DEF r
  <2>1. r.err = "nil" => r.rest \in Bytes
    BY <1>8 DEF Consumes
  <2> QED
    BY <1>6, <2>1
<1> HIDE DEF r, q
<1>11. CASE r.err # "nil" \/ q.err # "nil"
  BY <1>3, <1>7, <1>9, <1>11 DEF Leaves
<1>12. CASE r.err = "nil" /\ q.err = "nil"
  <2>1. r.rest \in Bytes /\ Len(r.rest) < Len(b) /\ q.rest \in Bytes /\ Len(q.rest) <= Len(r.rest)
    BY <1>8, <1>10, <1>12 DEF Leaves, Consumes
  <2>2. Len(q.rest) <= Len(b)
    BY <2>1, BytesHaveLength
  <2>3. Leaves(Ok(<<r.val>> \o q.val, q.rest), b)
    BY <2>1, <2>2, OkIs DEF Leaves
  <2> QED
    BY <1>3, <1>7, <1>9, <1>12, <2>3
<1> QED
  BY <1>11, <1>12

\* What parses the elements behind b matters only for what can be behind.
LEMMA ValueSame ==
  ASSUME NEW b \in Bytes, NEW E, NEW F,
         \A n \in Int : \A rest \in Bytes : Len(rest) < Len(b) => E[n][rest] = F[n][rest]
  PROVE  ParseValue(E, b) = ParseValue(F, b)
<1>1. CASE b = <<>>
  BY <1>1 DEF ParseValue
<1>2. CASE b # <<>>
  <2> DEFINE t == Tail(b)
  <2>1. t \in Bytes /\ Len(t) = Len(b) - 1 /\ Len(t) \in Nat /\ Len(b) \in Nat
    BY <1>2, TailOf, BytesHaveLength
  <2>2. handleRESPArray(E, t) = handleRESPArray(F, t)
    <3> HIDE DEF t
    <3>1. CASE ReadNumber(t).err # "nil"
      BY <3>1, ArrayFails
    <3>2. ASSUME NEW n \in Int, NEW rest \in Bytes, ReadNumber(t) = Ok(n, rest), Len(rest) < Len(t)
          PROVE  handleRESPArray(E, t) = handleRESPArray(F, t)
      <4>1. Len(rest) < Len(b)
        BY <2>1, <3>2, BytesHaveLength
      <4>2. ArrayBody(E, n, rest) = ArrayBody(F, n, rest)
        BY <4>1 DEF ArrayBody
      <4> QED
        BY <3>2, <4>2, ArrayOf
    <3> QED
      BY <2>1, <3>1, <3>2, ReadNumberConsumes
  <2> HIDE DEF t
  <2>3. ParseValue(E, b) =
          CASE b[1] = Star   -> handleRESPArray(E, t)
            [] b[1] = Dollar -> handleRESPBulkString(t)
            [] b[1] = Plus   -> handleRESPSimpleString(t)
            [] b[1] = Minus  -> handleRESPError(t)
            [] b[1] = Colon  -> handleRESPInteger(t)
            [] OTHER         -> Fail("unknown prefix")
    BY <1>2 DEF ParseValue, t
  <2>4. ParseValue(F, b) =
          CASE b[1] = Star   -> handleRESPArray(F, t)
            [] b[1] = Dollar -> handleRESPBulkString(t)
            [] b[1] = Plus   -> handleRESPSimpleString(t)
            [] b[1] = Minus  -> handleRESPError(t)
            [] b[1] = Colon  -> handleRESPInteger(t)
            [] OTHER         -> Fail("unknown prefix")
    BY <1>2 DEF ParseValue, t
  <2> QED
    BY <2>2, <2>3, <2>4
<1> QED
  BY <1>1, <1>2

\* The same of the elements from the first one on.
LEMMA ElementsFromSame ==
  ASSUME NEW b \in Bytes, NEW E, NEW F, NEW total \in Int,
         \A n \in Int : \A rest \in Bytes : Len(rest) < Len(b) => E[n][rest] = F[n][rest],
         \A n \in Int : \A rest \in Bytes : Leaves(E[n][rest], rest)
  PROVE  ElementsFrom(E, total, b) = ElementsFrom(F, total, b)
<1> DEFINE r == ParseValue(E, b)
<1>1. r = ParseValue(F, b)
  BY ValueSame
<1>2. Consumes(r, b)
  BY ValueConsumes
<1>3. ElementsFrom(E, total, b) = IF r.err # "nil" THEN r
        ELSE LET q == E[total - 1][r.rest] IN IF q.err # "nil" THEN q ELSE Ok(<<r.val>> \o q.val, q.rest)
  BY DEF ElementsFrom
<1>4. ElementsFrom(F, total, b) = IF r.err # "nil" THEN r
        ELSE LET q == F[total - 1][r.rest] IN IF q.err # "nil" THEN q ELSE Ok(<<r.val>> \o q.val, q.rest)
  BY <1>1 DEF ElementsFrom
<1> HIDE DEF r
<1>5. r.err = "nil" => E[total - 1][r.rest] = F[total - 1][r.rest]
  BY <1>2 DEF Consumes
<1> QED
  BY <1>3, <1>4, <1>5

\* The bound on the rounds of the loop plays no role once it is the number of bytes.
LEMMA MoreFuel ==
  ASSUME NEW k \in Nat
  PROVE  \A l \in Nat : \A total \in Int : \A b \in Bytes :
           l >= k /\ Len(b) <= k => ParseElements[k][total][b] = ParseElements[l][total][b]
<1> DEFINE P(j) == \A l \in Nat : \A total \in Int : \A b \in Bytes :
                     l >= j /\ Len(b) <= j => ParseElements[j][total][b] = ParseElements[l][total][b]
           T == {j \in Nat : ~P(j)}
<1>1. SUFFICES ASSUME T # {} PROVE FALSE
  OBVIOUS
<1>2. PICK j \in T : j - 1 \notin T
  <2>1. T \in SUBSET Nat
    OBVIOUS
  <2> HIDE DEF T
  <2> QED
    BY <1>1, <2>1, FirstNumber
<1>3. PICK l \in Nat, total \in Int, b \in Bytes :
        l >= j /\ Len(b) <= j /\ ParseElements[j][total][b] # ParseElements[l][total][b]
  BY <1>2
<1>4. j \in Nat /\ (j # 0 => P(j - 1))
  BY <1>2
<1> HIDE DEF T, P
<1>5. total > 0
  <2>1. SUFFICES ASSUME total <= 0 PROVE FALSE
    OBVIOUS
  <2>2. ParseElements[j][total][b] = Ok(<<>>, b) /\ ParseElements[l][total][b] = Ok(<<>>, b)
    BY <1>4, <2>1, ElementsAre
  <2> QED
    BY <1>3, <2>2
<1>6. CASE j = 0
  <2>1. b = <<>>
    BY <1>3, <1>6, BytesHaveLength
  <2>2. ParseElements[j][total][b] = Fail("EOF")
    BY <1>4, <1>5, <1>6, ElementsAre
  <2>3. l # 0
    BY <1>3, <1>6
  <2>4. ParseElements[l][total][b] = ElementsFrom(ParseElements[l - 1], total, b)
    BY <1>5, <2>3, ElementsAre
  <2>5. ParseValue(ParseElements[l - 1], b) = Fail("EOF")
    BY <2>1 DEF ParseValue
  <2> DEFINE E == ParseElements[l - 1]
  <2> HIDE DEF E
  <2>6. ElementsFrom(E, total, b) = Fail("EOF")
    <3>1. Fail("EOF").err # "nil"
      BY DEF Fail
    <3>2. ParseValue(E, b) = Fail("EOF")
      BY <2>5 DEF E
    <3> QED
      BY <3>1, <3>2 DEF ElementsFrom
  <2> QED
    BY <1>3, <2>2, <2>4, <2>6 DEF E
<1>7. CASE j # 0
  <2> DEFINE E == ParseElements[j - 1]
             F == ParseElements[l - 1]
  <2>1. l # 0 /\ l - 1 \in Nat /\ j - 1 \in Nat /\ l - 1 >= j - 1
    BY <1>3, <1>4, <1>7
  <2>2. ASSUME NEW n \in Int, NEW rest \in Bytes, Len(rest) < Len(b) PROVE E[n][rest] = F[n][rest]
    <3>1. Len(rest) <= j - 1
      BY <1>3, <1>4, <2>2, BytesHaveLength
    <3> QED
      BY <2>1, <3>1, <1>4, <1>7 DEF P
  <2>3. \A n \in Int : \A rest \in Bytes : Leaves(E[n][rest], rest)
    BY <2>1, ElementsLeave
  <2>4. ParseElements[j][total][b] = ElementsFrom(E, total, b)
    BY <1>4, <1>5, <1>7, ElementsAre
  <2>5. ParseElements[l][total][b] = ElementsFrom(F, total, b)
    BY <1>5, <2>1, ElementsAre
  <2> HIDE DEF E, F
  <2>6. ElementsFrom(E, total, b) = ElementsFrom(F, total, b)
    BY <2>2, <2>3, ElementsFromSame
  <2> QED
    BY <1>3, <2>4, <2>5, <2>6
<1> QED
  BY <1>6, <1>7

\* The elements, however many bytes there are.
ElementsIn == [total \in Int |-> [b \in Bytes |-> ParseElements[Len(b)][total][b]]]

\* ParseRESP is the parser without the bound.
LEMMA ElementsEnough ==
  ASSUME NEW k \in Nat, NEW total \in Int, NEW b \in Bytes, Len(b) <= k
  PROVE  ParseElements[k][total][b] = ElementsIn[total][b]
<1>1. Len(b) \in Nat
  BY BytesHaveLength
<1>2. ParseElements[Len(b)][total][b] = ParseElements[k][total][b]
  <2> DEFINE j == Len(b)
  <2>1. j \in Nat /\ Len(b) <= j /\ k >= j
    BY <1>1
  <2> HIDE DEF j
  <2>2. ParseElements[j][total][b] = ParseElements[k][total][b]
    BY <2>1, MoreFuel
  <2> QED
    BY <2>2 DEF j
<1> QED
  BY <1>2 DEF ElementsIn

LEMMA AllElementsLeave ==
  ASSUME NEW total \in Int, NEW b \in Bytes
  PROVE  Leaves(ElementsIn[total][b], b)
<1> DEFINE k == Len(b)
<1>1. k \in Nat
  BY BytesHaveLength
<1> HIDE DEF k
<1>2. Leaves(ParseElements[k][total][b], b)
  BY <1>1, ElementsLeave
<1> QED
  BY <1>2 DEF ElementsIn, k

LEMMA ParseRESPIs ==
  ASSUME NEW b \in Bytes
  PROVE  ParseRESP(b) = ParseValue(ElementsIn, b) /\ Consumes(ParseRESP(b), b)
<1> DEFINE k == Len(b)
           E == ParseElements[k]
<1>1. k \in Nat
  BY BytesHaveLength
<1>2. ASSUME NEW n \in Int, NEW rest \in Bytes, Len(rest) < Len(b) PROVE E[n][rest] = ElementsIn[n][rest]
  <2>1. Len(rest) <= k
    BY <1>1, <1>2, BytesHaveLength
  <2> HIDE DEF k
  <2> QED
    BY <1>1, <2>1, ElementsEnough
<1>3. ParseRESP(b) = ParseValue(E, b)
  BY DEF ParseRESP
<1>4. \A n \in Int : \A rest \in Bytes : Leaves(ElementsIn[n][rest], rest)
  BY AllElementsLeave
<1> HIDE DEF E
<1>5. ParseValue(E, b) = ParseValue(ElementsIn, b)
  BY <1>2, ValueSame
<1>6. Consumes(ParseValue(ElementsIn, b), b)
  BY <1>4, ValueConsumes
<1> QED
  BY <1>3, <1>5, <1>6

LEMMA AllElementsAre ==
  ASSUME NEW total \in Int, NEW b \in Bytes
  PROVE  ElementsIn[total][b] = IF total <= 0 THEN Ok(<<>>, b) ELSE ElementsFrom(ElementsIn, total, b)
<1> DEFINE k == Len(b) + 1
           E == ParseElements[k - 1]
<1>1. k \in Nat /\ k - 1 \in Nat /\ Len(b) <= k /\ k - 1 = Len(b) /\ k # 0
  BY BytesHaveLength
<1>2. ASSUME NEW n \in Int, NEW rest \in Bytes, Len(rest) < Len(b) PROVE ElementsIn[n][rest] = E[n][rest]
  <2>1. Len(rest) <= k - 1
    BY <1>1, <1>2, BytesHaveLength
  <2> HIDE DEF k
  <2> QED
    BY <1>1, <2>1, ElementsEnough
<1>3. \A n \in Int : \A rest \in Bytes : Leaves(ElementsIn[n][rest], rest)
  BY AllElementsLeave
<1> HIDE DEF k
<1>4. ParseElements[k][total][b] = ElementsIn[total][b]
  BY <1>1, ElementsEnough
<1>5. ParseElements[k][total][b] = IF total <= 0 THEN Ok(<<>>, b) ELSE ElementsFrom(E, total, b)
  BY <1>1, ElementsAre
<1> HIDE DEF E
<1>6. ElementsFrom(ElementsIn, total, b) = ElementsFrom(E, total, b)
  BY <1>2, <1>3, ElementsFromSame
<1> QED
  BY <1>4, <1>5, <1>6

-------------------------------------------------------------------------------
(* Lines and bulk strings are read back, and torn ones are errors.         *)

\* Texts of bytes behind one another.
LEMMA Joined ==
  ASSUME NEW s \in Bytes, NEW t \in Bytes
  PROVE  s \o t \in Bytes /\ Len(s \o t) = Len(s) + Len(t) /\ Len(s) \in Nat /\ Len(t) \in Nat
BY ConcatProperties, LenProperties DEF Bytes

LEMMA JoinedThrice ==
  ASSUME NEW s \in Bytes, NEW t \in Bytes, NEW u \in Bytes
  PROVE  (s \o t) \o u = s \o (t \o u)
BY ConcatAssociative DEF Bytes

\* The first bytes of a text.
LEMMA FirstOfTwoTexts ==
  ASSUME NEW s \in Bytes, NEW t \in Bytes, NEW n \in 0 .. Len(s) + Len(t)
  PROVE  SubSeq(s \o t, 1, n) = IF n <= Len(s) THEN SubSeq(s, 1, n) ELSE s \o SubSeq(t, 1, n - Len(s))
BY FirstOfTwo DEF Bytes

LEMMA FirstPart ==
  ASSUME NEW s \in Bytes, NEW n \in 0 .. Len(s)
  PROVE  SubSeq(s, 1, n) \in Bytes /\ Len(SubSeq(s, 1, n)) = n
         /\ \A i \in 1 .. n : SubSeq(s, 1, n)[i] = s[i]
<1>1. s \in Seq(Byte) /\ Len(s) \in Nat
  BY BytesHaveLength
<1>2. SubSeq(s, 1, n) \in Seq(Byte) /\ Len(SubSeq(s, 1, n)) = (IF 1 <= n THEN n - 1 + 1 ELSE 0)
      /\ \A i \in 1 .. n - 1 + 1 : SubSeq(s, 1, n)[i] = s[1 + i - 1]
  BY <1>1, PartOf
<1>3. n - 1 + 1 = n /\ \A i \in 1 .. n : 1 + i - 1 = i
  BY <1>1
<1> QED
  BY <1>1, <1>2, <1>3 DEF Bytes

\* A byte in front of a text.
LEMMA OneByte ==
  ASSUME NEW x \in Byte, NEW s \in Bytes
  PROVE  /\ <<x>> \o s \in Bytes /\ <<x>> \o s # <<>> /\ (<<x>> \o s)[1] = x /\ Tail(<<x>> \o s) = s
         /\ Len(<<x>> \o s) = Len(s) + 1 /\ Len(s) \in Nat
BY Behind, BytesHaveLength DEF Bytes

\* A text that begins with x breaks off.
LEMMA OneByteTorn ==
  ASSUME NEW x \in Byte, NEW s \in Bytes, NEW n \in 0 .. Len(s) + 1
  PROVE  SubSeq(<<x>> \o s, 1, n) = IF n = 0 THEN <<>> ELSE <<x>> \o SubSeq(s, 1, n - 1)
<1>1. <<x>> \in Bytes /\ Len(<<x>>) = 1 /\ Len(s) \in Nat
  BY BytesHaveLength DEF Bytes
<1>2. n \in 0 .. Len(<<x>>) + Len(s)
  BY <1>1
<1>3. SubSeq(<<x>> \o s, 1, n) = IF n <= 1 THEN SubSeq(<<x>>, 1, n) ELSE <<x>> \o SubSeq(s, 1, n - 1)
  <2> DEFINE p == <<x>>
  <2>1. p \in Bytes /\ Len(p) = 1
    BY <1>1
  <2> HIDE DEF p
  <2>2. SubSeq(p \o s, 1, n) = IF n <= 1 THEN SubSeq(p, 1, n) ELSE p \o SubSeq(s, 1, n - 1)
    BY <1>2, <2>1, FirstOfTwoTexts DEF p
  <2> QED
    BY <2>2 DEF p
<1>4. CASE n = 0
  BY <1>3, <1>4, FirstNone
<1>5. CASE n = 1
  <2>1. SubSeq(<<x>>, 1, 1) = <<x>>
    BY <1>1, SubSeqFull DEF Bytes
  <2>2. SubSeq(s, 1, 0) = <<>> /\ <<x>> \o <<>> = <<x>>
    BY FirstNone, <1>1, ConcatEmptySeq DEF Bytes
  <2> QED
    BY <1>3, <1>5, <2>1, <2>2
<1>6. CASE n > 1
  BY <1>3, <1>6, <1>1
<1> QED
  BY <1>1, <1>4, <1>5, <1>6

\* A number in a line.
Line(n) == Itoa(n) \o CRLF

\* It has one line feed, at its end.
LEMMA LineOf ==
  ASSUME NEW n \in Int
  PROVE  /\ Line(n) \in Bytes /\ Len(Line(n)) > 1 /\ Line(n) # <<>>
         /\ \A i \in 1 .. Len(Line(n)) : Line(n)[i] = LF <=> i = Len(Line(n))
<1> DEFINE s == Itoa(n)
<1>1. s \in Seq(Byte) /\ CRLF \in Seq(Byte) /\ Len(s) \in Nat /\ Len(s) > 0
      /\ \A i \in 1 .. Len(s) : s[i] \in Digit \union {Minus}
  BY ItoaOf, CRLFIs, BytesHaveLength
<1>2. \A x \in Digit \union {Minus} : x # LF
  BY DEF Digit, Minus, LF
<1> HIDE DEF s
<1> DEFINE l == s \o CRLF
<1>3. l \in Seq(Byte) /\ Len(l) = Len(s) + Len(CRLF)
      /\ \A i \in 1 .. Len(s) + Len(CRLF) : l[i] = IF i <= Len(s) THEN s[i] ELSE CRLF[i - Len(s)]
  BY <1>1, ConcatProperties
<1>4. Len(CRLF) = 2 /\ CRLF[1] # LF /\ CRLF[2] = LF
  BY CRLFIs DEF CR, LF
<1> HIDE DEF l
<1>5. ASSUME NEW i \in 1 .. Len(l) PROVE l[i] = LF <=> i = Len(l)
  <2>1. CASE i <= Len(s)
    BY <1>1, <1>2, <1>3, <1>4, <2>1
  <2>2. CASE i = Len(s) + 1
    <3>1. l[i] = CRLF[1] /\ i # Len(l)
      BY <1>1, <1>3, <1>4, <2>2
    <3> QED
      BY <3>1, <1>4
  <2>3. CASE i = Len(s) + 2
    <3>1. l[i] = CRLF[2] /\ i = Len(l)
      BY <1>1, <1>3, <1>4, <2>3
    <3> QED
      BY <3>1, <1>4
  <2> QED
    BY <1>1, <1>3, <1>4, <2>1, <2>2, <2>3
<1>6. l # <<>> /\ Len(l) > 1
  <2>1. Len(l) > 1
    BY <1>1, <1>3, <1>4
  <2> QED
    BY <2>1, EmptySeq
<1>7. Line(n) = l
  BY DEF Line, l, s
<1> QED
  BY <1>3, <1>5, <1>6, <1>7 DEF Bytes

\* It is read as the number; torn, it is read as the end of the file.
LEMMA NumberRead ==
  ASSUME NEW n \in Int, NEW rest \in Bytes
  PROVE  ReadNumber(Line(n) \o rest) = Ok(n, rest)
<1> DEFINE l == Line(n)
           b == l \o rest
<1>1. l \in Bytes /\ l # <<>> /\ \A i \in 1 .. Len(l) : l[i] = LF <=> i = Len(l)
  BY LineOf
<1>2. Atoi(TrimSpace(l)) = Ok(n, <<>>)
  BY AtoiOfItoa DEF Line
<1> HIDE DEF l
<1>3. ReadLine(b) = Ok(l, rest)
  BY <1>1, LineRead
<1> HIDE DEF b
<1>4. ReadNumber(b) = LET r == ReadLine(b) IN IF r.err # "nil" THEN r ELSE
                        LET a == Atoi(TrimSpace(r.val)) IN IF a.err # "nil" THEN a ELSE Ok(a.val, r.rest)
  BY DEF ReadNumber, Then
<1>5. ReadNumber(b) = Ok(n, rest)
  BY <1>2, <1>3, <1>4, OkIs
<1> QED
  BY <1>5 DEF b, l

LEMMA NumberTorn ==
  ASSUME NEW n \in Int, NEW m \in 0 .. Len(Line(n)) - 1
  PROVE  ReadNumber(SubSeq(Line(n), 1, m)) = Fail("EOF")
<1> DEFINE l == Line(n)
           b == SubSeq(l, 1, m)
<1>1. l \in Bytes /\ Len(l) \in Nat /\ \A i \in 1 .. Len(l) : l[i] = LF <=> i = Len(l)
  BY LineOf, BytesHaveLength
<1>2. m \in 0 .. Len(l) /\ m < Len(l)
  BY <1>1
<1> HIDE DEF l
<1>3. b \in Bytes /\ Len(b) = m /\ \A i \in 1 .. m : b[i] = l[i]
  BY <1>1, <1>2, FirstPart
<1> HIDE DEF b
<1>4. \A i \in 1 .. Len(b) : b[i] # LF
  BY <1>1, <1>2, <1>3
<1>5. ReadLine(b) = Fail("EOF")
  BY <1>3, <1>4, NoLineRead
<1>6. Fail("EOF").err # "nil"
  BY DEF Fail
<1>7. ReadNumber(b) = Fail("EOF")
  BY <1>5, <1>6 DEF ReadNumber, Then
<1> QED
  BY <1>7 DEF b, l

\* What the prefixes of a string and of an array make of what is behind them.
LEMMA Prefixes ==
  Dollar \in Byte /\ Star \in Byte
BY DEF Dollar, Star, Byte

LEMMA DollarValue ==
  ASSUME NEW E, NEW t \in Bytes
  PROVE  ParseValue(E, <<Dollar>> \o t) = handleRESPBulkString(t)
<1> DEFINE b == <<Dollar>> \o t
<1>1. b # <<>> /\ b[1] = Dollar /\ Tail(b) = t
  BY OneByte, Prefixes
<1> HIDE DEF b
<1>2. ParseValue(E, b) =
        CASE b[1] = Star   -> handleRESPArray(E, t)
          [] b[1] = Dollar -> handleRESPBulkString(t)
          [] b[1] = Plus   -> handleRESPSimpleString(t)
          [] b[1] = Minus  -> handleRESPError(t)
          [] b[1] = Colon  -> handleRESPInteger(t)
          [] OTHER         -> Fail("unknown prefix")
  BY <1>1 DEF ParseValue
<1>3. ParseValue(E, b) = handleRESPBulkString(t)
  BY <1>1, <1>2 DEF Star, Dollar, Plus, Minus, Colon
<1> QED
  BY <1>3 DEF b

LEMMA StarValue ==
  ASSUME NEW E, NEW t \in Bytes
  PROVE  ParseValue(E, <<Star>> \o t) = handleRESPArray(E, t)
<1> DEFINE b == <<Star>> \o t
<1>1. b # <<>> /\ b[1] = Star /\ Tail(b) = t
  BY OneByte, Prefixes
<1> HIDE DEF b
<1>2. ParseValue(E, b) =
        CASE b[1] = Star   -> handleRESPArray(E, t)
          [] b[1] = Dollar -> handleRESPBulkString(t)
          [] b[1] = Plus   -> handleRESPSimpleString(t)
          [] b[1] = Minus  -> handleRESPError(t)
          [] b[1] = Colon  -> handleRESPInteger(t)
          [] OTHER         -> Fail("unknown prefix")
  BY <1>1 DEF ParseValue
<1>3. ParseValue(E, b) = handleRESPArray(E, t)
  BY <1>1, <1>2 DEF Star, Dollar, Plus, Minus, Colon
<1> QED
  BY <1>3 DEF b

\* A bulk string: its length in a line, its bytes and the end of a line.
LEMMA BulkIs ==
  ASSUME NEW s \in Bytes
  PROVE  /\ Bulk(s) = <<Dollar>> \o (Line(Len(s)) \o (s \o CRLF))
         /\ Bulk(s) \in Bytes /\ Len(Bulk(s)) = 1 + Len(Line(Len(s))) + Len(s) + 2
         /\ Len(s) \in Nat /\ Line(Len(s)) \in Bytes /\ Len(Line(Len(s))) \in Nat
<1> DEFINE d == <<Dollar>>
           i == Itoa(Len(s))
<1>1. Len(s) \in Nat
  BY BytesHaveLength
<1>2. d \in Bytes /\ i \in Bytes /\ CRLF \in Bytes /\ Len(d) = 1 /\ Len(CRLF) = 2
  BY <1>1, Prefixes, ItoaOf, CRLFIs DEF Bytes
<1>3. Bulk(s) = (((d \o i) \o CRLF) \o s) \o CRLF
  BY DEF Bulk
<1>4. Line(Len(s)) = i \o CRLF
  BY DEF Line
<1> HIDE DEF d, i
<1> DEFINE x == i \o CRLF
           y == s \o CRLF
           z == x \o s
<1>5. x \in Bytes /\ y \in Bytes /\ Len(x) = Len(i) + 2 /\ Len(x) \in Nat /\ Len(y) = Len(s) + 2
  BY ZenonT(30), <1>2, Joined
<1>6. (d \o i) \o CRLF = d \o x
  BY <1>2, JoinedThrice
<1> HIDE DEF x
<1>7. z \in Bytes
  BY <1>5, Joined
<1>8. (d \o x) \o s = d \o z
  BY SMTT(30), <1>2, <1>5, JoinedThrice
<1>9. z \o CRLF = x \o y
  BY SMTT(30), <1>2, <1>5, JoinedThrice
<1> HIDE DEF z
<1>10. (d \o z) \o CRLF = d \o (z \o CRLF)
  BY <1>2, <1>7, JoinedThrice
<1>11. Bulk(s) = d \o (x \o y)
  BY <1>3, <1>6, <1>8, <1>9, <1>10
<1> HIDE DEF y
<1>12. x \o y \in Bytes /\ Len(x \o y) = Len(x) + Len(y)
  BY <1>5, Joined
<1>13. d \o (x \o y) \in Bytes /\ Len(d \o (x \o y)) = Len(d) + Len(x \o y)
  BY <1>2, <1>12, Joined
<1>14. Len(Bulk(s)) = 1 + Len(x) + Len(s) + 2
  BY <1>1, <1>2, <1>5, <1>11, <1>12, <1>13
<1>15. Line(Len(s)) = x
  BY <1>4 DEF x
<1> QED
  BY <1>1, <1>5, <1>11, <1>13, <1>14, <1>15 DEF d, y

\* A string and what is behind it.
LEMMA StringRead ==
  ASSUME NEW s \in Bytes, NEW rest \in Bytes
  PROVE  BulkBody(Len(s), (s \o CRLF) \o rest) = Ok(Str(s), rest)
<1> DEFINE n == Len(s)
           c == CRLF \o rest
           b == s \o c
<1>1. n \in Nat /\ CRLF \in Bytes /\ Len(CRLF) = 2
  BY BytesHaveLength, CRLFIs
<1>2. c \in Bytes /\ Len(c) = 2 + Len(rest) /\ Len(rest) \in Nat
  BY ZenonT(30), <1>1, Joined
<1>3. SubSeq(c, 3, Len(c)) = rest
  <2>1. SubSeq(CRLF \o rest, Len(CRLF) + 1, Len(CRLF \o rest)) = rest
    BY <1>1, LastOfTwo DEF Bytes
  <2> QED
    BY <2>1, <1>1
<1>4. (s \o CRLF) \o rest = b
  BY <1>1, JoinedThrice
<1> HIDE DEF c
<1>5. b \in Bytes /\ Len(b) = n + Len(c)
  BY <1>2, Joined
<1>6. SubSeq(b, 1, n) = s
  <2>1. n \in 0 .. Len(s) + Len(c) /\ n <= Len(s)
    BY <1>1, <1>2
  <2>2. SubSeq(s \o c, 1, n) = SubSeq(s, 1, n)
    BY <2>1, <1>2, FirstOfTwoTexts
  <2>3. SubSeq(s, 1, Len(s)) = s
    BY SubSeqFull DEF Bytes
  <2> QED
    BY <2>2, <2>3
<1>7. SubSeq(b, n + 1, Len(b)) = c
  BY <1>2, LastOfTwo DEF Bytes
<1> HIDE DEF b
<1>8. ReadFull(b, n) = Ok(s, c)
  <2> HIDE DEF n
  <2>1. Len(b) >= n
    BY <1>1, <1>2, <1>5
  <2>2. ReadFull(b, n) = Ok(SubSeq(b, 1, n), SubSeq(b, n + 1, Len(b)))
    BY <2>1 DEF ReadFull
  <2> QED
    BY <2>2, <1>6, <1>7
<1>9. Discard(c, 2) = Ok(Nil, rest)
  <2>1. Len(c) >= 2
    BY <1>2
  <2>2. Discard(c, 2) = Ok(Nil, SubSeq(c, 3, Len(c)))
    BY <2>1 DEF Discard
  <2> QED
    BY <2>2, <1>3
<1>10. n # -1 /\ ~(n < 0)
  BY <1>1
<1> HIDE DEF n
<1>11. BulkBody(n, b) = Ok(Str(s), rest)
  BY <1>8, <1>9, <1>10, OkIs DEF BulkBody
<1> QED
  BY <1>4, <1>11 DEF n

\* A string that breaks off in its bytes is an unexpected EOF, else it is EOF.
LEMMA StringTorn ==
  ASSUME NEW s \in Bytes, NEW m \in 0 .. Len(s) + 1
  PROVE  BulkBody(Len(s), SubSeq(s \o CRLF, 1, m))
           = Fail(IF m \in 1 .. Len(s) - 1 THEN "unexpected EOF" ELSE "EOF")
<1> DEFINE n == Len(s)
           b == SubSeq(s \o CRLF, 1, m)
<1>1. n \in Nat /\ CRLF \in Bytes /\ Len(CRLF) = 2 /\ s \o CRLF \in Bytes /\ Len(s \o CRLF) = n + 2
  BY BytesHaveLength, CRLFIs, Joined
<1>2. m \in 0 .. Len(s \o CRLF)
  BY <1>1
<1>3. b \in Bytes /\ Len(b) = m
  BY <1>1, <1>2, FirstPart
<1>4. BulkBody(n, b) = LET r == ReadFull(b, n) IN IF r.err # "nil" THEN r
        ELSE LET d == Discard(r.rest, 2) IN IF d.err # "nil" THEN d ELSE Ok(Str(r.val), d.rest)
  <2> HIDE DEF b
  <2> QED
    BY <1>1 DEF BulkBody
<1>5. CASE m < n
  <2>1. b = <<>> <=> m = 0
    <3> HIDE DEF b
    <3> QED
      BY <1>3, BytesHaveLength, EmptySeq
  <2> HIDE DEF b
  <2> HIDE DEF n
  <2>2. ReadFull(b, n) = Fail(IF b = <<>> THEN "EOF" ELSE "unexpected EOF")
    <3>1. ~(Len(b) >= n)
      BY <1>1, <1>3, <1>5
    <3> QED
      BY <3>1 DEF ReadFull
  <2> DEFINE e == IF m \in 1 .. n - 1 THEN "unexpected EOF" ELSE "EOF"
  <2>3. ReadFull(b, n) = Fail(e) /\ e # "nil"
    <3>1. m \in 1 .. n - 1 <=> m # 0
      BY <1>1, <1>5
    <3> QED
      BY <2>1, <2>2, <3>1
  <2> HIDE DEF e
  <2>4. BulkBody(n, b) = Fail(e)
    BY <1>4, <2>3, FailIs
  <2> QED
    BY <2>4 DEF e, b, n
<1>6. CASE m >= n
  <2> DEFINE rest == SubSeq(b, n + 1, Len(b))
  <2>1. rest \in Seq(Byte) /\ Len(rest) = IF n + 1 <= m THEN m - (n + 1) + 1 ELSE 0
    <3> HIDE DEF b
    <3> QED
      BY <1>1, <1>3, PartOf DEF Bytes
  <2>2. Len(rest) < 2
    <3> HIDE DEF rest
    <3> QED
      BY <1>1, <2>1
  <2> HIDE DEF b
  <2>3. ReadFull(b, n) = Ok(SubSeq(b, 1, n), rest)
    BY <1>1, <1>3, <1>6 DEF ReadFull
  <2>4. Discard(rest, 2) = Fail("EOF")
    <3> HIDE DEF rest
    <3>1. Len(rest) \in Nat
      BY <2>1, LenProperties
    <3> QED
      BY <2>2, <3>1 DEF Discard
  <2>5. Fail("EOF").err # "nil"
    BY DEF Fail
  <2> HIDE DEF rest
  <2>6. BulkBody(n, b) = Fail("EOF")
    BY <1>4, <2>3, <2>4, <2>5, OkIs
  <2>7. m \notin 1 .. n - 1
    BY <1>1, <1>6
  <2> QED
    BY <2>6, <2>7 DEF b
<1>7. m < n \/ m >= n
  <2> HIDE DEF n
  <2> QED
    BY <1>1
<1> QED
  BY <1>5, <1>6, <1>7

\* A bulk string is read back, whatever is behind it.
LEMMA BulkRead ==
  ASSUME NEW E, NEW s \in Bytes, NEW rest \in Bytes
  PROVE  ParseValue(E, Bulk(s) \o rest) = Ok(Str(s), rest)
<1> DEFINE l == Line(Len(s))
           c == s \o CRLF
           t == l \o c
<1>1. Len(s) \in Nat /\ l \in Bytes /\ c \in Bytes /\ t \in Bytes
  BY BytesHaveLength, LineOf, CRLFIs, Joined
<1>2. Bulk(s) = <<Dollar>> \o t
  BY BulkIs
<1>3. BulkBody(Len(s), c \o rest) = Ok(Str(s), rest)
  BY StringRead
<1>4. ReadNumber(l \o (c \o rest)) = Ok(Len(s), c \o rest)
  <2>1. c \o rest \in Bytes
    BY <1>1, Joined
  <2> QED
    BY <1>1, <2>1, NumberRead
<1> HIDE DEF c, l
<1>5. t \o rest = l \o (c \o rest) /\ t \o rest \in Bytes
  <2>1. t \o rest = l \o (c \o rest)
    BY <1>1, JoinedThrice
  <2> HIDE DEF t
  <2> QED
    BY <1>1, <2>1, Joined
<1> HIDE DEF t
<1>6. handleRESPBulkString(t \o rest) = Ok(Str(s), rest)
  BY <1>3, <1>4, <1>5, BulkOf
<1>7. Bulk(s) \o rest = <<Dollar>> \o (t \o rest)
  <2>1. <<Dollar>> \in Bytes
    BY Prefixes DEF Bytes
  <2> QED
    BY <1>1, <1>2, <2>1, JoinedThrice
<1> QED
  BY <1>5, <1>6, <1>7, DollarValue

\* A bulk string that breaks off is an error, and which one says where.
LEMMA BulkTorn ==
  ASSUME NEW E, NEW s \in Bytes, NEW m \in 0 .. Len(Bulk(s)) - 1
  PROVE  ParseValue(E, SubSeq(Bulk(s), 1, m))
           = Fail(IF m \in StringEnds(Bulk(s), s) THEN "unexpected EOF" ELSE "EOF")
<1> DEFINE n == Len(s)
           l == Line(n)
           c == s \o CRLF
           t == l \o c
           L == Len(l)
<1>1. n \in Nat /\ l \in Bytes /\ c \in Bytes /\ t \in Bytes /\ Len(t) = L + Len(c) /\ Len(c) = n + 2 /\ L \in Nat
  <2>1. n \in Nat /\ CRLF \in Bytes /\ Len(CRLF) = 2
    BY BytesHaveLength, CRLFIs
  <2>2. c \in Bytes /\ Len(c) = n + 2
    BY <2>1, Joined
  <2> HIDE DEF n, c
  <2>3. l \in Bytes
    BY <2>1, LineOf
  <2> HIDE DEF l
  <2>4. t \in Bytes /\ Len(t) = L + Len(c) /\ L \in Nat
    BY <2>2, <2>3, Joined
  <2> QED
    BY <2>1, <2>2, <2>3, <2>4
<1>2. Bulk(s) = <<Dollar>> \o t /\ Len(Bulk(s)) = 1 + L + n + 2
  BY BulkIs
<1>3. StringEnds(Bulk(s), s) = L + 2 .. L + n
  <2>1. StringEnds(Bulk(s), s) = Len(Bulk(s)) - n - 1 .. Len(Bulk(s)) - 3
    BY DEF StringEnds
  <2> HIDE DEF n, l, L
  <2>2. Len(Bulk(s)) - n - 1 = L + 2 /\ Len(Bulk(s)) - 3 = L + n
    BY <1>1, <1>2
  <2> QED
    BY <2>1, <2>2
<1>4. m \in 0 .. L + n + 2
  <2> HIDE DEF n, l, L
  <2> QED
    BY <1>1, <1>2
<1>5. CASE m = 0
  <2>1. SubSeq(Bulk(s), 1, m) = <<>>
    BY <1>5, FirstNone
  <2>2. m \notin L + 2 .. L + n
    <3> HIDE DEF n, l, L
    <3> QED
      BY <1>1, <1>5
  <2> QED
    BY <1>3, <2>1, <2>2 DEF ParseValue
<1>6. CASE m # 0
  <2> DEFINE k == m - 1
             p == SubSeq(t, 1, k)
  <2>0. k \in 0 .. Len(t) /\ k \in 0 .. L + Len(c) /\ m \in 0 .. Len(t) + 1 /\ m = k + 1
    <3> HIDE DEF n, l, L, t, c
    <3> QED
      BY <1>1, <1>4, <1>6
  <2>1. SubSeq(Bulk(s), 1, m) = <<Dollar>> \o p
    <3> HIDE DEF t
    <3> QED
      BY <1>1, <1>2, <1>6, <2>0, Prefixes, OneByteTorn
  <2>2. p \in Bytes
    <3> HIDE DEF t, k
    <3> QED
      BY <1>1, <2>0, FirstPart
  <2>3. ParseValue(E, SubSeq(Bulk(s), 1, m)) = handleRESPBulkString(p)
    <3> HIDE DEF p
    <3> QED
      BY <2>1, <2>2, DollarValue
  <2>4. p = IF k <= L THEN SubSeq(l, 1, k) ELSE l \o SubSeq(c, 1, k - L)
    <3> HIDE DEF l, c, k
    <3> QED
      BY <1>1, <2>0, FirstOfTwoTexts
  <2>5. CASE k < L
    <3>1. ReadNumber(p) = Fail("EOF")
      <4>1. k \in 0 .. Len(Line(n)) - 1
        <5> HIDE DEF n, k, c, t
        <5> QED
          BY <1>1, <2>0, <2>5
      <4>2. p = SubSeq(l, 1, k)
        <5> HIDE DEF p, k, L, l, c, n
        <5> QED
          BY <2>4, <2>5, <1>1, <2>0
      <4> HIDE DEF p, k
      <4> QED
        BY <1>1, <4>1, <4>2, NumberTorn
    <3> HIDE DEF p
    <3>2. handleRESPBulkString(p) = Fail("EOF")
      <4>1. Fail("EOF").err # "nil"
        BY DEF Fail
      <4> QED
        BY <3>1, <4>1, BulkFails
    <3>3. m \notin L + 2 .. L + n
      <4> HIDE DEF n, l, L
      <4> QED
        BY <1>1, <2>0, <2>5
    <3> QED
      BY <2>3, <1>3, <3>2, <3>3
  <2>6. CASE k >= L
    <3> DEFINE j == k - L
               q == SubSeq(c, 1, j)
    <3>0. j \in 0 .. n + 1 /\ j \in 0 .. Len(c) /\ m = L + j + 1
      <4> HIDE DEF n, l, L, c, t
      <4> QED
        BY <1>1, <1>4, <2>0, <2>6
    <3>1. q \in Bytes
      <4> HIDE DEF c, j
      <4> QED
        BY <1>1, <3>0, FirstPart
    <3>2. p = l \o q
      <4>1. CASE k = L
        <5>1. SubSeq(l, 1, L) = l
          BY <1>1, SubSeqFull DEF Bytes
        <5>2. j = 0
          <6> HIDE DEF n, l, L, c, t
          <6> QED
            BY <4>1, <1>1
        <5>3. q = <<>>
          <6> HIDE DEF j, c
          <6> QED
            BY <5>2, FirstNone
        <5>4. l \o <<>> = l
          <6> HIDE DEF l
          <6> QED
            BY <1>1, ConcatEmptySeq DEF Bytes
        <5>5. p = SubSeq(l, 1, L)
          <6> HIDE DEF p, k, L, l, c, n
          <6> QED
            BY <2>4, <4>1, <1>1
        <5> QED
          BY <5>1, <5>3, <5>4, <5>5
      <4>2. CASE k # L
        <5> HIDE DEF p, L, l, c, n, k
        <5> QED
          BY <2>4, <4>2, <2>6, <1>1, <2>0
      <4> QED
        BY <4>1, <4>2
    <3>3. BulkBody(n, q) = Fail(IF j \in 1 .. n - 1 THEN "unexpected EOF" ELSE "EOF")
      <4> HIDE DEF j
      <4> QED
        BY <3>0, StringTorn
    <3>4. ReadNumber(l \o q) = Ok(n, q)
      <4> HIDE DEF q, n
      <4> QED
        BY <1>1, <3>1, NumberRead
    <3>5. j \in 1 .. n - 1 <=> m \in L + 2 .. L + n
      <4> HIDE DEF n, l, L, c, t, j
      <4> QED
        BY <1>1, <3>0
    <3> HIDE DEF p, q, l, n
    <3>6. handleRESPBulkString(p) = BulkBody(n, q)
      BY <3>2, <3>4, BulkOf
    <3> QED
      BY <1>3, <2>3, <3>3, <3>5, <3>6
  <2>7. k < L \/ k >= L
    <3> HIDE DEF k, l, L, n, t, c
    <3> QED
      BY <2>0, <1>1
  <2> QED
    BY <2>5, <2>6, <2>7
<1> QED
  BY <1>5, <1>6

-------------------------------------------------------------------------------
(* Texts behind one another.                                               *)

\* The first i texts, one behind the other.
Upto(es, i) == Concat(SubSeq(es, 1, i))

\* None, all, and one more of them.
LEMMA UptoNone ==
  ASSUME NEW es
  PROVE  Upto(es, 0) = <<>>
<1>1. SubSeq(es, 1, 0) = <<>>
  BY FirstNone
<1> QED
  BY <1>1, ConcatOfNone DEF Upto

LEMMA UptoAll ==
  ASSUME NEW es \in Seq(Bytes)
  PROVE  Upto(es, Len(es)) = Concat(es)
BY SubSeqFull DEF Upto

LEMMA UptoMore ==
  ASSUME NEW es \in Seq(Bytes), NEW i \in 1 .. Len(es)
  PROVE  Upto(es, i) = Upto(es, i - 1) \o es[i]
<1> DEFINE f == SubSeq(es, 1, i - 1)
           g == SubSeq(es, 1, i)
<1>1. g = Append(f, es[i]) /\ f \in Seq(Bytes) /\ es[i] \in Bytes
  BY FirstMore
<1> HIDE DEF f, g
<1>2. Concat(g) = Concat(f) \o es[i]
  BY <1>1, ConcatOfMore
<1> QED
  BY <1>2 DEF Upto, f, g

LEMMA UptoType ==
  ASSUME NEW es \in Seq(Bytes)
  PROVE  \A i \in 0 .. Len(es) : Upto(es, i) \in Bytes
<1> DEFINE T == {i \in 0 .. Len(es) : Upto(es, i) \notin Bytes}
<1>0. Len(es) \in Nat
  BY LenProperties
<1>1. SUFFICES ASSUME T # {} PROVE FALSE
  OBVIOUS
<1>2. PICK i \in T : i - 1 \notin T
  <2>1. T \in SUBSET Nat
    BY <1>0
  <2> HIDE DEF T
  <2> QED
    BY <1>1, <2>1, FirstNumber
<1>3. CASE i = 0
  <2>1. Upto(es, i) = <<>>
    BY <1>3, UptoNone
  <2>2. <<>> \in Bytes
    BY DEF Bytes
  <2> QED
    BY <1>2, <2>1, <2>2
<1>4. CASE i # 0
  <2>1. i \in 1 .. Len(es) /\ i - 1 \in 0 .. Len(es)
    BY <1>2, <1>4, <1>0
  <2>2. Upto(es, i - 1) \in Bytes
    BY <1>2, <2>1
  <2>3. Upto(es, i) = Upto(es, i - 1) \o es[i] /\ es[i] \in Bytes
    BY <2>1, UptoMore, ElementOfSeq
  <2>4. Upto(es, i) \in Bytes
    BY <2>2, <2>3, Joined
  <2> QED
    BY <1>2, <2>4
<1> QED
  BY <1>3, <1>4

LEMMA ConcatType ==
  ASSUME NEW es \in Seq(Bytes)
  PROVE  Concat(es) \in Bytes
<1>1. Len(es) \in 0 .. Len(es)
  BY LenProperties
<1> QED
  BY <1>1, UptoType, UptoAll

\* More texts are no shorter.
LEMMA UptoGrows ==
  ASSUME NEW es \in Seq(Bytes), NEW i \in 0 .. Len(es)
  PROVE  \A j \in 0 .. Len(es) : i <= j => Len(Upto(es, i)) <= Len(Upto(es, j))
<1> DEFINE T == {j \in 0 .. Len(es) : i <= j /\ ~(Len(Upto(es, i)) <= Len(Upto(es, j)))}
<1>0. Len(es) \in Nat /\ Upto(es, i) \in Bytes /\ Len(Upto(es, i)) \in Nat
  BY LenProperties, UptoType, BytesHaveLength
<1>1. SUFFICES ASSUME T # {} PROVE FALSE
  OBVIOUS
<1>2. PICK j \in T : j - 1 \notin T
  <2>1. T \in SUBSET Nat
    BY <1>0
  <2> HIDE DEF T
  <2> QED
    BY <1>1, <2>1, FirstNumber
<1>3. j # i
  BY <1>0, <1>2
<1>4. j \in 1 .. Len(es) /\ j - 1 \in 0 .. Len(es) /\ i <= j - 1
  BY <1>0, <1>2, <1>3
<1>5. Len(Upto(es, i)) <= Len(Upto(es, j - 1))
  BY <1>2, <1>4
<1>6. Upto(es, j) = Upto(es, j - 1) \o es[j] /\ es[j] \in Bytes /\ Upto(es, j - 1) \in Bytes
  BY <1>4, UptoMore, ElementOfSeq, UptoType
<1>7. Len(Upto(es, j)) = Len(Upto(es, j - 1)) + Len(es[j]) /\ Len(es[j]) \in Nat /\ Len(Upto(es, j - 1)) \in Nat
  BY <1>6, Joined
<1>8. ~(Len(Upto(es, i)) <= Len(Upto(es, j)))
  BY <1>2
<1> HIDE DEF T
<1> DEFINE x == Len(Upto(es, i))
           y == Len(Upto(es, j - 1))
           z == Len(Upto(es, j))
           e == Len(es[j])
<1>9. x \in Nat /\ x <= y /\ z = y + e /\ e \in Nat /\ y \in Nat /\ ~(x <= z)
  BY <1>0, <1>5, <1>7, <1>8
<1> HIDE DEF x, y, z, e
<1> QED
  BY <1>9

\* A text made of texts that breaks off does so in one of them.
TornIn(es, b, m, j) ==
  LET at == Len(Upto(es, j - 1)) IN
    /\ m - at \in 0 .. Len(es[j]) - 1
    /\ SubSeq(b, 1, m) = Upto(es, j - 1) \o SubSeq(es[j], 1, m - at)

\* It does, in one of the first i or in one of all.
LEMMA TornUpto ==
  ASSUME NEW es \in Seq(Bytes), NEW m \in Nat
  PROVE  \A i \in 0 .. Len(es) : m < Len(Upto(es, i)) => \E j \in 1 .. i : TornIn(es, Upto(es, i), m, j)
<1> DEFINE T == {i \in 0 .. Len(es) : m < Len(Upto(es, i)) /\ \A j \in 1 .. i : ~TornIn(es, Upto(es, i), m, j)}
<1>0. Len(es) \in Nat
  BY LenProperties
<1>1. SUFFICES ASSUME T # {} PROVE FALSE
  OBVIOUS
<1>2. PICK i \in T : i - 1 \notin T
  <2>1. T \in SUBSET Nat
    BY <1>0
  <2> HIDE DEF T
  <2> QED
    BY <1>1, <2>1, FirstNumber
<1>3. i \in 0 .. Len(es) /\ m < Len(Upto(es, i)) /\ \A j \in 1 .. i : ~TornIn(es, Upto(es, i), m, j)
  BY <1>2
<1>4. i # 0
  <2>1. SUFFICES ASSUME i = 0 PROVE FALSE
    OBVIOUS
  <2>2. Len(Upto(es, i)) = 0
    BY <2>1, UptoNone, EmptySeq
  <2> QED
    BY <1>3, <2>2
<1>5. i \in 1 .. Len(es) /\ i - 1 \in 0 .. Len(es) /\ i \in 1 .. i
  BY <1>3, <1>4, <1>0
<1>6. m < Len(Upto(es, i - 1)) => \E j \in 1 .. i - 1 : TornIn(es, Upto(es, i - 1), m, j)
  BY <1>2, <1>5
<1> HIDE DEF T
<1> DEFINE u == Upto(es, i - 1)
           e == es[i]
           w == Upto(es, i)
<1>7. w = u \o e /\ u \in Bytes /\ e \in Bytes
  BY <1>5, UptoMore, UptoType, ElementOfSeq
<1>8. Len(w) = Len(u) + Len(e) /\ Len(u) \in Nat /\ Len(e) \in Nat
  <2> HIDE DEF w, u, e
  <2> QED
    BY <1>7, Joined
<1>9. SubSeq(w, 1, m) = IF m <= Len(u) THEN SubSeq(u, 1, m) ELSE u \o SubSeq(e, 1, m - Len(u))
  <2>1. m < Len(w)
    BY <1>3
  <2> HIDE DEF w, u, e
  <2>2. m \in 0 .. Len(u) + Len(e)
    BY <1>8, <2>1
  <2> QED
    BY <1>7, <2>2, FirstOfTwoTexts
<1>10. CASE m < Len(u)
  <2>1. PICK j \in 1 .. i - 1 : TornIn(es, u, m, j)
    BY <1>6, <1>10
  <2>2. SubSeq(w, 1, m) = SubSeq(u, 1, m)
    <3> HIDE DEF w, u, e
    <3> QED
      BY <1>8, <1>9, <1>10
  <2>3. TornIn(es, w, m, j) /\ j \in 1 .. i
    <3>1. j \in 1 .. i
      BY <1>5, <1>0
    <3> HIDE DEF w, u
    <3> QED
      BY <2>1, <2>2, <3>1 DEF TornIn
  <2> QED
    BY <1>3, <2>3
<1>11. CASE ~(m < Len(u))
  <2> DEFINE k == m - Len(u)
  <2>1. k \in 0 .. Len(e) - 1
    <3>1. m < Len(w)
      BY <1>3
    <3> HIDE DEF w, u, e
    <3> QED
      BY <1>8, <1>11, <3>1
  <2>2. SubSeq(w, 1, m) = u \o SubSeq(e, 1, k)
    <3>1. CASE m = Len(u)
      <4>1. SubSeq(u, 1, Len(u)) = u /\ u \o <<>> = u
        <5> HIDE DEF u
        <5> QED
          BY <1>7, SubSeqFull, ConcatEmptySeq DEF Bytes
      <4>2. k = 0 /\ m <= Len(u)
        <5> HIDE DEF u
        <5> QED
          BY <3>1, <1>8
      <4> HIDE DEF w, u, e, k
      <4>3. SubSeq(e, 1, k) = <<>>
        BY <4>2, FirstNone
      <4> QED
        BY <1>9, <3>1, <4>1, <4>2, <4>3
    <3>2. CASE m # Len(u)
      <4>1. ~(m <= Len(u))
        <5> HIDE DEF u
        <5> QED
          BY <3>2, <1>11, <1>8
      <4> HIDE DEF w, u, e
      <4> QED
        BY <1>9, <4>1
    <3> QED
      BY <3>1, <3>2
  <2>3. TornIn(es, w, m, i)
    BY <2>1, <2>2 DEF TornIn
  <2> QED
    BY <1>3, <1>5, <2>3
<1> QED
  BY <1>10, <1>11

LEMMA TornTexts ==
  ASSUME NEW es \in Seq(Bytes), NEW m \in Nat, m < Len(Concat(es))
  PROVE  \E j \in 1 .. Len(es) : TornIn(es, Concat(es), m, j)
<1>1. Len(es) \in 0 .. Len(es)
  BY LenProperties
<1>2. Upto(es, Len(es)) = Concat(es)
  BY UptoAll
<1> QED
  BY <1>1, <1>2, TornUpto

\* The text in which it breaks off is the only one.
LEMMA TornInOne ==
  ASSUME NEW es \in Seq(Bytes), NEW m \in Nat, NEW i \in 1 .. Len(es), NEW j \in 1 .. Len(es),
         m - Len(Upto(es, i - 1)) \in 0 .. Len(es[i]) - 1, m - Len(Upto(es, j - 1)) \in 0 .. Len(es[j]) - 1
  PROVE  i = j
<1>0. Len(es) \in Nat
  BY LenProperties
<1>1. ASSUME NEW k \in 1 .. Len(es), NEW l \in 1 .. Len(es), k < l,
             m - Len(Upto(es, k - 1)) \in 0 .. Len(es[k]) - 1, m - Len(Upto(es, l - 1)) \in 0 .. Len(es[l]) - 1
      PROVE  FALSE
  <2>1. k - 1 \in 0 .. Len(es) /\ k \in 0 .. Len(es) /\ l - 1 \in 0 .. Len(es) /\ k <= l - 1
    BY <1>0, <1>1
  <2>2. Len(Upto(es, k)) <= Len(Upto(es, l - 1))
    BY <2>1, UptoGrows
  <2>3. Upto(es, k) = Upto(es, k - 1) \o es[k] /\ Upto(es, k - 1) \in Bytes /\ es[k] \in Bytes
    BY <2>1, UptoMore, UptoType, ElementOfSeq
  <2>4. Len(Upto(es, k)) = Len(Upto(es, k - 1)) + Len(es[k]) /\ Len(Upto(es, k - 1)) \in Nat /\ Len(es[k]) \in Nat
    BY <2>3, Joined
  <2>5. Upto(es, l - 1) \in Bytes /\ Len(Upto(es, l - 1)) \in Nat /\ es[l] \in Bytes /\ Len(es[l]) \in Nat
    BY <2>1, UptoType, BytesHaveLength, ElementOfSeq
  <2> DEFINE x == Len(Upto(es, k - 1))
             y == Len(Upto(es, l - 1))
             z == Len(Upto(es, k))
             e == Len(es[k])
             f == Len(es[l])
  <2>6. z <= y /\ z = x + e /\ x \in Nat /\ e \in Nat /\ y \in Nat /\ f \in Nat /\ m - x \in 0 .. e - 1 /\ m - y \in 0 .. f - 1
    BY <1>1, <2>2, <2>4, <2>5
  <2> HIDE DEF x, y, z, e, f
  <2> QED
    BY <2>6
<1>2. ~(i < j) /\ ~(j < i)
  BY <1>1
<1> QED
  BY <1>2

\* What is read of elements, behind others that were read.
Prepended(vs, r) == IF r.err # "nil" THEN r ELSE Ok(vs \o r.val, r.rest)

\* Every text is read as its value, whatever is behind it.
ReadAs(es, ws) ==
  Len(ws) = Len(es) /\ \A i \in 1 .. Len(es) : \A rest \in Bytes : ParseRESP(es[i] \o rest) = Ok(ws[i], rest)

\* The first i are read before what is behind them.
ReadFirst(es, W, ws, i) ==
  \A c \in Nat : \A tail \in Bytes :
    (ElementsIn[c][tail].err = "nil" => ElementsIn[c][tail].val \in Seq(W))
      => ElementsIn[i + c][Upto(es, i) \o tail] = Prepended(SubSeq(ws, 1, i), ElementsIn[c][tail])

\* So are all elements, one after the other, by handleRESPArray.
LEMMA ElementsRead ==
  ASSUME NEW es \in Seq(Bytes), NEW W, NEW ws \in Seq(W), ReadAs(es, ws)
  PROVE  \A i \in 0 .. Len(es) : ReadFirst(es, W, ws, i)
<1> DEFINE P(i) == ReadFirst(es, W, ws, i)
           T == {i \in 0 .. Len(es) : ~P(i)}
<1>0. Len(es) \in Nat
  BY LenProperties
<1>1. SUFFICES ASSUME T # {} PROVE FALSE
  OBVIOUS
<1>2. PICK i \in T : i - 1 \notin T
  <2>1. T \in SUBSET Nat
    BY <1>0
  <2> HIDE DEF T
  <2> QED
    BY <1>1, <2>1, FirstNumber
<1>3. PICK c \in Nat, tail \in Bytes :
        /\ ElementsIn[c][tail].err = "nil" => ElementsIn[c][tail].val \in Seq(W)
        /\ ElementsIn[i + c][Upto(es, i) \o tail] # Prepended(SubSeq(ws, 1, i), ElementsIn[c][tail])
  BY <1>2 DEF ReadFirst
<1>4. i \in 0 .. Len(es) /\ (i - 1 \in 0 .. Len(es) => P(i - 1))
  BY <1>2
<1> HIDE DEF P, T
<1>11. Leaves(ElementsIn[c][tail], tail)
  BY AllElementsLeave
<1> DEFINE q == ElementsIn[c][tail]
<1>5. CASE i = 0
  <2>1. Upto(es, i) \o tail = tail /\ SubSeq(ws, 1, i) = <<>> /\ i + c = c
    <3>1. Upto(es, i) = <<>>
      BY <1>5, UptoNone
    <3>2. SubSeq(ws, 1, i) = <<>>
      BY <1>5, FirstNone
    <3> QED
      BY <1>5, <3>1, <3>2, ConcatEmptySeq DEF Bytes
  <2>2. q = Prepended(<<>>, q)
    <3>1. q.err = "nil" => <<>> \o q.val = q.val
      <4> HIDE DEF q
      <4>1. q.err = "nil" => q.val \in Seq(W)
        BY <1>3 DEF q
      <4> QED
        BY <4>1, ConcatEmptySeq
    <3>2. q.err = "nil" => q = Ok(q.val, q.rest)
      <4>1. q = IF c <= 0 THEN Ok(<<>>, tail) ELSE ElementsFrom(ElementsIn, c, tail)
        BY AllElementsAre
      <4>2. CASE c <= 0
        BY <4>1, <4>2, OkIs
      <4>3. CASE ~(c <= 0)
        <5> DEFINE r == ParseValue(ElementsIn, tail)
                   z == ElementsIn[c - 1][r.rest]
        <5>1. q = IF r.err # "nil" THEN r ELSE IF z.err # "nil" THEN z ELSE Ok(<<r.val>> \o z.val, z.rest)
          BY <4>1, <4>3 DEF ElementsFrom
        <5> HIDE DEF q, r, z
        <5> QED
          BY <5>1, OkIs
      <4> QED
        BY <4>2, <4>3
    <3> HIDE DEF q
    <3> QED
      BY <3>1, <3>2 DEF Prepended
  <2> QED
    BY <1>3, <2>1, <2>2
<1>6. CASE i # 0
  <2> DEFINE e == es[i]
             u == Upto(es, i - 1)
             b == e \o tail
             d == c + 1
             r == ElementsIn[d][b]
             vs == SubSeq(ws, 1, i - 1)
             w == ws[i]
  <2>1. i \in 1 .. Len(es) /\ i - 1 \in 0 .. Len(es) /\ d \in Nat /\ (i - 1) + d = i + c /\ d > 0 /\ d - 1 = c
    BY <1>4, <1>6, <1>0
  <2>2. e \in Bytes /\ u \in Bytes /\ Upto(es, i) = u \o e
    BY <2>1, UptoMore, UptoType, ElementOfSeq
  <2>3. b \in Bytes /\ (u \o e) \o tail = u \o b
    BY <2>2, Joined, JoinedThrice
  <2>4. SubSeq(ws, 1, i) = Append(vs, w) /\ vs \in Seq(W) /\ w \in W
    <3>1. Len(ws) = Len(es)
      BY DEF ReadAs
    <3> QED
      BY <2>1, <3>1, FirstMore
  <2>5. ParseRESP(b) = Ok(w, tail)
    BY <2>1 DEF ReadAs
  <2>6. r = IF q.err # "nil" THEN q ELSE Ok(<<w>> \o q.val, q.rest)
    <3>1. ParseValue(ElementsIn, b) = Ok(w, tail)
      BY <2>3, <2>5, ParseRESPIs
    <3>2. r = ElementsFrom(ElementsIn, d, b)
      <4> HIDE DEF d, b
      <4> QED
        BY <2>1, <2>3, AllElementsAre
    <3> HIDE DEF b, d, r, w
    <3>3. ElementsFrom(ElementsIn, d, b) =
            LET y == ParseValue(ElementsIn, b) IN
            IF y.err # "nil" THEN y
            ELSE LET z == ElementsIn[d - 1][y.rest] IN IF z.err # "nil" THEN z ELSE Ok(<<y.val>> \o z.val, z.rest)
      BY DEF ElementsFrom
    <3> QED
      BY <2>1, <3>1, <3>2, <3>3, OkIs
  <2>7. r.err = "nil" => r.val \in Seq(W)
    <3>1. q.err = "nil" => q.val \in Seq(W)
      BY <1>3
    <3> HIDE DEF r, q, w
    <3>2. q.err = "nil" => <<w>> \o q.val \in Seq(W)
      BY <2>4, <3>1, Behind
    <3>3. CASE q.err # "nil"
      BY <2>6, <3>3
    <3>4. CASE q.err = "nil"
      <4>1. r = Ok(<<w>> \o q.val, q.rest)
        BY <2>6, <3>4
      <4>2. r.val = <<w>> \o q.val
        BY <4>1, OkIs
      <4> QED
        BY <3>2, <3>4, <4>2
    <3> QED
      BY <3>3, <3>4
  <2>8. ElementsIn[(i - 1) + d][u \o b] = Prepended(vs, r)
    <3>1. P(i - 1)
      BY <1>4, <2>1
    <3>2. ElementsIn[d][b].err = "nil" => ElementsIn[d][b].val \in Seq(W)
      BY <2>7
    <3> HIDE DEF d, b
    <3> QED
      BY <2>1, <2>3, <3>1, <3>2 DEF P, ReadFirst
  <2>9. Prepended(vs, r) = Prepended(Append(vs, w), q)
    <3>1. q.err = "nil" => q.val \in Seq(W)
      BY <1>3
    <3> HIDE DEF r, q, w, vs
    <3>2. CASE q.err # "nil"
      BY <2>6, <3>2 DEF Prepended
    <3>3. CASE q.err = "nil"
      <4>1. r = Ok(<<w>> \o q.val, q.rest)
        BY <2>6, <3>3
      <4>2. Prepended(vs, r) = Ok(vs \o (<<w>> \o q.val), q.rest)
        BY <4>1, OkIs DEF Prepended
      <4>3. Prepended(Append(vs, w), q) = Ok(Append(vs, w) \o q.val, q.rest)
        BY <3>3 DEF Prepended
      <4>4. vs \o (<<w>> \o q.val) = Append(vs, w) \o q.val
        <5>1. <<w>> \in Seq(W)
          BY <2>4
        <5>2. vs \o (<<w>> \o q.val) = (vs \o <<w>>) \o q.val
          <6> DEFINE x == q.val
                     y == <<w>>
          <6>1. x \in Seq(W) /\ y \in Seq(W) /\ vs \in Seq(W)
            BY <2>4, <3>1, <3>3, <5>1
          <6> HIDE DEF x, y
          <6>2. vs \o (y \o x) = (vs \o y) \o x
            BY SMTT(30), <6>1, ConcatAssociative
          <6> QED
            BY <6>2 DEF x, y
        <5>3. Append(vs, w) = vs \o <<w>>
          BY <2>4, AppendIsConcat
        <5> QED
          BY <5>2, <5>3
      <4> QED
        BY <4>2, <4>3, <4>4
    <3> QED
      BY <3>2, <3>3
  <2>10. ElementsIn[i + c][Upto(es, i) \o tail] = Prepended(SubSeq(ws, 1, i), q)
    BY <2>1, <2>2, <2>3, <2>4, <2>8, <2>9
  <2> QED
    BY <1>3, <2>10
<1> QED
  BY <1>5, <1>6

\* e is read as w whatever is behind it, and torn it ends where a string is torn or not.
Back(e, w, ends) ==
  /\ e \in Bytes /\ Len(e) \in Nat /\ Len(e) > 0
  /\ ends \subseteq 0 .. Len(e) - 1
  /\ \A rest \in Bytes : ParseRESP(e \o rest) = Ok(w, rest)
  /\ \A m \in 0 .. Len(e) - 1 :
       ParseRESP(SubSeq(e, 1, m)) = Fail(IF m \in ends THEN "unexpected EOF" ELSE "EOF")

\* A bulk string is one such text.
LEMMA StringBack ==
  ASSUME NEW s \in Bytes
  PROVE  Back(Bulk(s), Str(s), StringEnds(Bulk(s), s))
<1>1. Bulk(s) \in Bytes /\ Len(Bulk(s)) = 1 + Len(Line(Len(s))) + Len(s) + 2 /\ Len(s) \in Nat /\ Len(Line(Len(s))) \in Nat
  BY BulkIs
<1> DEFINE e == Bulk(s)
           n == Len(s)
           l == Len(Line(Len(s)))
<1>2. Len(e) \in Nat /\ Len(e) > 0 /\ StringEnds(e, s) \subseteq 0 .. Len(e) - 1
  <2>1. StringEnds(e, s) = Len(e) - n - 1 .. Len(e) - 3
    BY DEF StringEnds
  <2>2. Len(e) = 1 + l + n + 2 /\ n \in Nat /\ l \in Nat
    BY <1>1
  <2> HIDE DEF e, n, l
  <2> QED
    BY <2>1, <2>2
<1>3. ASSUME NEW rest \in Bytes PROVE ParseRESP(e \o rest) = Ok(Str(s), rest)
  <2>1. ParseValue(ElementsIn, Bulk(s) \o rest) = Ok(Str(s), rest)
    BY BulkRead
  <2>2. e \o rest \in Bytes
    BY <1>1, Joined
  <2> QED
    BY <2>1, <2>2, ParseRESPIs
<1>4. ASSUME NEW m \in 0 .. Len(e) - 1
      PROVE  ParseRESP(SubSeq(e, 1, m)) = Fail(IF m \in StringEnds(e, s) THEN "unexpected EOF" ELSE "EOF")
  <2>1. ParseValue(ElementsIn, SubSeq(Bulk(s), 1, m)) = Fail(IF m \in StringEnds(Bulk(s), s) THEN "unexpected EOF" ELSE "EOF")
    BY BulkTorn
  <2>2. SubSeq(e, 1, m) \in Bytes
    <3>1. m \in 0 .. Len(e)
      <4> HIDE DEF e
      <4> QED
        BY <1>2
    <3> QED
      BY <1>1, <3>1, FirstPart
  <2> QED
    BY <2>1, <2>2, ParseRESPIs
<1> HIDE DEF e
<1> QED
  BY <1>1, <1>2, <1>3, <1>4 DEF Back, e

\* A line behind a prefix.
LEMMA LineBehind ==
  ASSUME NEW x \in Byte, NEW n \in Int, NEW c \in Bytes
  PROVE  /\ <<x>> \o Line(n) \in Bytes /\ Len(<<x>> \o Line(n)) = Len(Line(n)) + 1 /\ Len(Line(n)) \in Nat
         /\ Line(n) \in Bytes /\ (<<x>> \o Line(n)) \o c = <<x>> \o (Line(n) \o c) /\ Line(n) \o c \in Bytes
<1>1. Line(n) \in Bytes /\ <<x>> \in Bytes
  BY LineOf DEF Bytes
<1> DEFINE l == Line(n)
           y == <<x>>
<1> HIDE DEF l
<1>2. y \o l \in Bytes /\ Len(y \o l) = Len(l) + 1 /\ Len(l) \in Nat
  BY <1>1, OneByte DEF l
<1>3. l \o c \in Bytes
  BY <1>1, Joined DEF l
<1>4. (y \o l) \o c = y \o (l \o c)
  <2> HIDE DEF y
  <2> QED
    BY <1>1, JoinedThrice DEF l, y
<1> QED
  BY <1>1, <1>2, <1>3, <1>4 DEF l

\* The nil string is another.
LEMMA NilBack == Back(<<Dollar>> \o Line(-1), Nil, {})
<1> DEFINE l == Line(-1)
           e == <<Dollar>> \o l
           L == Len(l)
<1>0. Dollar \in Byte /\ -1 \in Int
  BY Prefixes
<1>1. l \in Bytes /\ L \in Nat /\ e \in Bytes /\ Len(e) = L + 1
  BY <1>0, LineOf, OneByte, BytesHaveLength
<1>2. ASSUME NEW rest \in Bytes PROVE ParseRESP(e \o rest) = Ok(Nil, rest)
  <2> DEFINE t == l \o rest
  <2>1. e \o rest = <<Dollar>> \o t /\ t \in Bytes
    BY <1>0, LineBehind
  <2>2. ReadNumber(t) = Ok(-1, rest)
    BY <1>0, NumberRead
  <2>3. e \o rest \in Bytes
    <3> HIDE DEF e
    <3> QED
      BY <1>1, Joined
  <2> HIDE DEF t, e
  <2>4. handleRESPBulkString(t) = Ok(Nil, rest)
    BY <2>2, BulkOf DEF BulkBody
  <2> QED
    BY <2>1, <2>3, <2>4, DollarValue, ParseRESPIs
<1>3. ASSUME NEW m \in 0 .. Len(e) - 1 PROVE ParseRESP(SubSeq(e, 1, m)) = Fail("EOF")
  <2>0. SubSeq(e, 1, m) \in Bytes
    <3> HIDE DEF e, L
    <3>1. m \in 0 .. Len(e)
      BY <1>1
    <3> QED
      BY <1>1, <3>1, FirstPart
  <2>1. CASE m = 0
    <3>1. SubSeq(e, 1, m) = <<>>
      BY <2>1, FirstNone
    <3> QED
      BY <2>0, <3>1, ParseRESPIs DEF ParseValue
  <2>2. CASE m # 0
    <3> DEFINE k == m - 1
               p == SubSeq(l, 1, k)
    <3>1. k \in 0 .. L - 1 /\ k \in 0 .. L /\ m \in 0 .. L + 1
      <4> HIDE DEF e, L
      <4> QED
        BY <1>1, <2>2
    <3>2. SubSeq(e, 1, m) = <<Dollar>> \o p
      <4> HIDE DEF l
      <4> QED
        BY <1>0, <1>1, <2>2, <3>1, OneByteTorn
    <3>3. ReadNumber(p) = Fail("EOF")
      <4> HIDE DEF k
      <4> QED
        BY <1>0, <3>1, NumberTorn
    <3>4. p \in Bytes
      <4> HIDE DEF k, l
      <4> QED
        BY <1>1, <3>1, FirstPart
    <3> HIDE DEF p
    <3>5. handleRESPBulkString(p) = Fail("EOF")
      <4>1. Fail("EOF").err # "nil"
        BY DEF Fail
      <4> QED
        BY <3>3, <4>1, BulkFails
    <3> QED
      BY <2>0, <3>2, <3>4, <3>5, DollarValue, ParseRESPIs
  <2> QED
    BY <2>1, <2>2
<1> HIDE DEF e
<1>4. Len(e) \in Nat /\ Len(e) > 0
  <2> HIDE DEF L
  <2> QED
    BY <1>1
<1> QED
  BY <1>1, <1>2, <1>3, <1>4 DEF Back, e

-------------------------------------------------------------------------------
(* Arrays.                                                                 *)

\* A text that breaks off behind its first part.
LEMMA TextBehind ==
  ASSUME NEW l \in Bytes, NEW body \in Bytes, NEW k \in 0 .. Len(body)
  PROVE  SubSeq(l \o body, 1, Len(l) + k) = l \o SubSeq(body, 1, k)
<1> DEFINE L == Len(l)
           B == Len(body)
           m == L + k
<1>1. L \in Nat /\ B \in Nat /\ k \in 0 .. B
  BY BytesHaveLength
<1>2. m \in 0 .. L + B /\ (m <= L <=> k = 0) /\ m - L = k /\ (k = 0 => m = L)
  <2> HIDE DEF L, B
  <2> QED
    BY <1>1
<1>3. SubSeq(l \o body, 1, m) = IF m <= L THEN SubSeq(l, 1, m) ELSE l \o SubSeq(body, 1, m - L)
  <2> HIDE DEF m
  <2> QED
    BY <1>2, FirstOfTwoTexts
<1>4. CASE k = 0
  <2>1. SubSeq(body, 1, k) = <<>>
    BY <1>4, FirstNone
  <2>2. SubSeq(l, 1, L) = l /\ l \o <<>> = l
    BY SubSeqFull, ConcatEmptySeq DEF Bytes
  <2> HIDE DEF m, L
  <2> QED
    BY <1>2, <1>3, <1>4, <2>1, <2>2 DEF m, L
<1>5. CASE k # 0
  <2> HIDE DEF m, L
  <2> QED
    BY <1>2, <1>3, <1>5 DEF m, L
<1> QED
  BY <1>4, <1>5

\* The header of an array of c values, and the text of its values.
Headed(c, body) == <<Star>> \o (Line(c) \o body)

\* It is a text.
LEMMA HeadedType ==
  ASSUME NEW c \in Nat, NEW body \in Bytes
  PROVE  /\ Headed(c, body) \in Bytes /\ Len(Headed(c, body)) = Len(Line(c)) + 1 + Len(body)
         /\ Len(Line(c)) \in Nat /\ Line(c) \in Bytes /\ Len(body) \in Nat /\ Line(c) \o body \in Bytes
         /\ Len(Line(c) \o body) = Len(Line(c)) + Len(body)
<1> DEFINE l == Line(c)
           t == l \o body
<1>1. l \in Bytes
  BY LineOf
<1> HIDE DEF l
<1>2. t \in Bytes /\ Len(t) = Len(l) + Len(body) /\ Len(l) \in Nat /\ Len(body) \in Nat
  BY <1>1, Joined
<1> HIDE DEF t
<1>3. <<Star>> \o t \in Bytes /\ Len(<<Star>> \o t) = Len(t) + 1
  BY <1>2, Prefixes, OneByte
<1> QED
  BY <1>1, <1>2, <1>3 DEF Headed, l, t

\* It is read as an array of what the elements are read as.
LEMMA HeadedRead ==
  ASSUME NEW c \in Nat, NEW t \in Bytes, NEW r, r = ElementsIn[c][t]
  PROVE  ParseRESP(Headed(c, t)) = IF r.err # "nil" THEN r ELSE Ok(Arr(r.val), r.rest)
<1> DEFINE b == Line(c) \o t
<1>1. b \in Bytes /\ Headed(c, t) \in Bytes
  BY HeadedType
<1>2. ReadNumber(b) = Ok(c, t)
  BY NumberRead
<1> HIDE DEF b
<1>3. handleRESPArray(ElementsIn, b) = ArrayBody(ElementsIn, c, t)
  BY <1>2, ArrayOf
<1>4. ParseRESP(Headed(c, t)) = handleRESPArray(ElementsIn, b)
  <2>1. Headed(c, t) = <<Star>> \o b
    BY DEF Headed, b
  <2> QED
    BY <1>1, <2>1, StarValue, ParseRESPIs
<1>5. c # -1
  OBVIOUS
<1> QED
  BY <1>3, <1>4, <1>5 DEF ArrayBody

\* Broken off in the header it is EOF.
LEMMA HeadTorn ==
  ASSUME NEW c \in Nat, NEW body \in Bytes, NEW m \in 0 .. Len(Line(c))
  PROVE  ParseRESP(SubSeq(Headed(c, body), 1, m)) = Fail("EOF")
<1> DEFINE l == Line(c)
           L == Len(l)
           t == l \o body
           e == Headed(c, body)
<1>1. e \in Bytes /\ Len(e) = L + 1 + Len(body) /\ L \in Nat /\ l \in Bytes /\ Len(body) \in Nat /\ t \in Bytes
      /\ Len(t) = L + Len(body)
  BY HeadedType
<1>2. m \in 0 .. Len(e) /\ m \in 0 .. Len(t) + 1 /\ m \in 0 .. L
  <2>1. m \in 0 .. L
    OBVIOUS
  <2> HIDE DEF L, t, e
  <2> QED
    BY <1>1, <2>1
<1>3. SubSeq(e, 1, m) \in Bytes
  <2> HIDE DEF e
  <2> QED
    BY <1>1, <1>2, FirstPart
<1>4. CASE m = 0
  <2>1. SubSeq(e, 1, m) = <<>>
    BY <1>4, FirstNone
  <2> QED
    BY <1>3, <2>1, ParseRESPIs DEF ParseValue
<1>5. CASE m # 0
  <2> DEFINE k == m - 1
             p == SubSeq(l, 1, k)
  <2>1. k \in 0 .. L - 1 /\ k \in 0 .. L /\ k <= L /\ k \in 0 .. L + Len(body)
    <3> HIDE DEF L, e, t
    <3> QED
      BY <1>1, <1>2, <1>5
  <2>2. SubSeq(e, 1, m) = <<Star>> \o SubSeq(t, 1, k)
    <3>1. e = <<Star>> \o t
      BY DEF Headed
    <3> HIDE DEF e, t
    <3> QED
      BY <1>1, <1>2, <1>5, <3>1, Prefixes, OneByteTorn
  <2>3. SubSeq(t, 1, k) = p
    <3> HIDE DEF l, k
    <3> QED
      BY <1>1, <2>1, FirstOfTwoTexts
  <2>4. ReadNumber(p) = Fail("EOF")
    <3> HIDE DEF k
    <3> QED
      BY <2>1, NumberTorn
  <2>5. p \in Bytes
    <3> HIDE DEF k, l
    <3> QED
      BY <1>1, <2>1, FirstPart
  <2> HIDE DEF p
  <2>6. handleRESPArray(ElementsIn, p) = Fail("EOF")
    <3>1. Fail("EOF").err # "nil"
      BY DEF Fail
    <3> QED
      BY <2>4, <3>1, ArrayFails
  <2> HIDE DEF t, e
  <2>7. SubSeq(e, 1, m) = <<Star>> \o p
    BY <2>2, <2>3
  <2> QED
    BY <1>3, <2>5, <2>6, <2>7, StarValue, ParseRESPIs DEF e
<1> QED
  BY <1>4, <1>5

\* Broken off behind the header it is a header and a text that breaks off.
LEMMA BehindHead ==
  ASSUME NEW c \in Nat, NEW body \in Bytes, NEW k \in 0 .. Len(body)
  PROVE  SubSeq(Headed(c, body), 1, Len(Line(c)) + 1 + k) = Headed(c, SubSeq(body, 1, k))
<1> DEFINE l == Line(c)
           L == Len(l)
           t == l \o body
           e == Headed(c, body)
           m == L + 1 + k
<1>1. L \in Nat /\ l \in Bytes /\ Len(body) \in Nat /\ t \in Bytes /\ Len(t) = L + Len(body)
  BY HeadedType
<1>2. m \in 0 .. Len(t) + 1 /\ m # 0 /\ m - 1 = L + k
  <2> HIDE DEF L, t
  <2> QED
    BY <1>1
<1>3. SubSeq(<<Star>> \o t, 1, m) = <<Star>> \o SubSeq(t, 1, m - 1)
  <2> HIDE DEF t, m
  <2> QED
    BY <1>1, <1>2, Prefixes, OneByteTorn
<1>4. SubSeq(t, 1, L + k) = l \o SubSeq(body, 1, k)
  <2> HIDE DEF l
  <2> QED
    BY <1>1, TextBehind
<1> QED
  BY <1>2, <1>3, <1>4 DEF Headed

\* Where texts are torn inside a string, each with its own such places.
ElementEnds(c, es, ends) ==
  UNION {{Len(Line(c)) + 1 + Len(Upto(es, j - 1)) + m : m \in ends[j]} : j \in 1 .. c}

\* The first i elements are read, and then those in the tail.
LEMMA ElementsReadFirst ==
  ASSUME NEW es \in Seq(Bytes), NEW W, NEW ws \in Seq(W), ReadAs(es, ws),
         NEW i \in 0 .. Len(es), NEW c \in Nat, NEW tail \in Bytes, NEW q, q = ElementsIn[c][tail],
         q.err = "nil" => q.val \in Seq(W)
  PROVE  ElementsIn[i + c][Upto(es, i) \o tail] = Prepended(SubSeq(ws, 1, i), q)
<1>1. ReadFirst(es, W, ws, i)
  BY ElementsRead
<1> QED
  BY <1>1 DEF ReadFirst

\* An array of texts that are read back is read back.
LEMMA ArrayRead ==
  ASSUME NEW es \in Seq(Bytes), NEW W, NEW ws \in Seq(W), NEW c \in Nat, c = Len(es), ReadAs(es, ws),
         NEW rest \in Bytes
  PROVE  ParseRESP(Headed(c, Concat(es)) \o rest) = Ok(Arr(ws), rest)
<1> DEFINE body == Concat(es)
           t == body \o rest
           r == ElementsIn[c][t]
<1>1. body \in Bytes /\ t \in Bytes
  BY ConcatType, Joined
<1>2. Headed(c, body) \o rest = Headed(c, t)
  <2> DEFINE l == Line(c)
             y == <<Star>>
             u == l \o body
  <2>1. l \in Bytes /\ y \in Bytes /\ u \in Bytes
    <3>1. l \in Bytes /\ u \in Bytes
      BY <1>1, HeadedType
    <3>2. y \in Bytes
      BY DEF Star, Bytes, Byte
    <3> QED
      BY <3>1, <3>2
  <2> HIDE DEF y, l, body
  <2>2. u \o rest = l \o (body \o rest)
    BY SMTT(30), <1>1, <2>1, JoinedThrice
  <2> HIDE DEF u
  <2>3. (y \o u) \o rest = y \o (u \o rest)
    BY <2>1, JoinedThrice
  <2> QED
    BY <2>2, <2>3 DEF Headed, y, l, u
<1>3. r = Ok(ws, rest)
  <2> DEFINE q == ElementsIn[0][rest]
  <2>1. q = Ok(<<>>, rest)
    BY AllElementsAre
  <2>2. q.err = "nil" /\ q.val = <<>> /\ q.rest = rest /\ q.val \in Seq(W)
    <3>1. q.err = "nil" /\ q.val = <<>> /\ q.rest = rest
      <4> HIDE DEF q
      <4> QED
        BY <2>1, OkIs
    <3>2. <<>> \in Seq(W)
      OBVIOUS
    <3> QED
      BY <3>1, <3>2
  <2>3. Upto(es, c) = body /\ c \in 0 .. Len(es) /\ c + 0 = c
    BY UptoAll
  <2>6. ElementsIn[c + 0][Upto(es, c) \o rest] = Prepended(SubSeq(ws, 1, c), q)
    <3>1. c \in 0 .. Len(es) /\ (q.err = "nil" => q.val \in Seq(W)) /\ 0 \in Nat
      BY <2>2, <2>3
    <3> HIDE DEF q
    <3> QED
      BY <3>1, ElementsReadFirst DEF q
  <2>7. SubSeq(ws, 1, c) = ws /\ ws \o <<>> = ws
    <3>1. Len(ws) = c
      BY DEF ReadAs
    <3> QED
      BY <3>1, SubSeqFull, ConcatEmptySeq
  <2> HIDE DEF q
  <2>8. Prepended(ws, q) = Ok(ws, rest)
    BY <2>2, <2>7 DEF Prepended
  <2> QED
    BY <2>3, <2>6, <2>7, <2>8
<1> HIDE DEF body, t, r
<1>4. ParseRESP(Headed(c, t)) = IF r.err # "nil" THEN r ELSE Ok(Arr(r.val), r.rest)
  BY <1>1, HeadedRead DEF r
<1> QED
  BY <1>2, <1>3, <1>4, OkIs DEF body

\* Texts that break off in the element j.
LEMMA ArrayTorn ==
  ASSUME NEW es \in Seq(Bytes), NEW W, NEW ws \in Seq(W), NEW c \in Nat, c = Len(es), ReadAs(es, ws),
         NEW j \in 1 .. c, NEW p \in Bytes, NEW x, x # "nil", ParseRESP(p) = Fail(x)
  PROVE  ParseRESP(Headed(c, Upto(es, j - 1) \o p)) = Fail(x)
<1> DEFINE u == Upto(es, j - 1)
           t == u \o p
           i == j - 1
           d == c - i
           q == ElementsIn[d][p]
           r == ElementsIn[c][t]
<1>1. i \in 0 .. Len(es) /\ d \in Nat /\ d > 0 /\ i + d = c
  OBVIOUS
<1>2. t \in Bytes
  BY <1>1, UptoType, Joined
<1>3. q = Fail(x)
  <2>1. ParseValue(ElementsIn, p) = Fail(x)
    BY ParseRESPIs
  <2>2. q = ElementsFrom(ElementsIn, d, p)
    <3> HIDE DEF d
    <3> QED
      BY <1>1, AllElementsAre
  <2> HIDE DEF q, d
  <2> QED
    BY <2>1, <2>2, FailIs DEF ElementsFrom
<1>4. r = Fail(x)
  <2>3. q.err # "nil"
    BY <1>3, FailIs
  <2> HIDE DEF i, d, q
  <2>4. ElementsIn[i + d][Upto(es, i) \o p] = Prepended(SubSeq(ws, 1, i), q)
    <3>1. q.err = "nil" => q.val \in Seq(W)
      BY <2>3
    <3> QED
      BY <1>1, <3>1, ElementsReadFirst DEF q
  <2>5. Prepended(SubSeq(ws, 1, i), q) = q
    BY <2>3 DEF Prepended
  <2> QED
    BY <1>1, <1>3, <2>4, <2>5 DEF i
<1> HIDE DEF t, r
<1>5. ParseRESP(Headed(c, t)) = IF r.err # "nil" THEN r ELSE Ok(Arr(r.val), r.rest)
  BY <1>2, HeadedRead DEF r
<1> QED
  BY <1>4, <1>5, FailIs DEF t

AllBack(es, ws, ends) == Len(ws) = Len(es) /\ \A i \in 1 .. Len(es) : Back(es[i], ws[i], ends[i])

\* So an array of such texts is one, and its places are those of its elements.
LEMMA ArrayBack ==
  ASSUME NEW es \in Seq(Bytes), NEW W, NEW ws \in Seq(W), NEW ends, NEW c \in Nat, c = Len(es), AllBack(es, ws, ends)
  PROVE  Back(Headed(c, Concat(es)), Arr(ws), ElementEnds(c, es, ends))
<1> DEFINE body == Concat(es)
           e == Headed(c, body)
           L == Len(Line(c))
           B == Len(body)
           all == ElementEnds(c, es, ends)
<1>1. body \in Bytes /\ e \in Bytes /\ Len(e) = L + 1 + B /\ L \in Nat /\ B \in Nat
  BY ConcatType, HeadedType
<1>2. Len(e) \in Nat /\ Len(e) > 0
  <2> HIDE DEF e, L, B
  <2> QED
    BY <1>1
<1>0. \A i \in 1 .. c : Back(es[i], ws[i], ends[i])
  BY DEF AllBack
<1>3. ReadAs(es, ws)
  BY DEF AllBack, ReadAs, Back
<1>4. ASSUME NEW rest \in Bytes PROVE ParseRESP(e \o rest) = Ok(Arr(ws), rest)
  BY <1>3, ArrayRead
<1>5. ASSUME NEW j \in 1 .. c, NEW m \in ends[j]
      PROVE  L + 1 + Len(Upto(es, j - 1)) + m \in L + 1 .. Len(e) - 1 /\ m \in 0 .. Len(es[j]) - 1
             /\ Len(Upto(es, j - 1)) \in Nat
  <2>1. m \in 0 .. Len(es[j]) - 1
    BY <1>0 DEF Back
  <2>2. j \in 1 .. Len(es) /\ j \in 0 .. Len(es) /\ j - 1 \in 0 .. Len(es) /\ Len(es) \in 0 .. Len(es) /\ j <= Len(es)
    OBVIOUS
  <2>3. Upto(es, j) = Upto(es, j - 1) \o es[j] /\ Upto(es, j - 1) \in Bytes /\ es[j] \in Bytes
    BY <2>2, UptoMore, UptoType, ElementOfSeq
  <2>4. Len(Upto(es, j)) = Len(Upto(es, j - 1)) + Len(es[j]) /\ Len(Upto(es, j - 1)) \in Nat /\ Len(es[j]) \in Nat
    BY <2>3, Joined
  <2>5. Len(Upto(es, j)) <= B
    BY <2>2, UptoGrows, UptoAll
  <2> DEFINE x == Len(Upto(es, j - 1))
             y == Len(es[j])
             z == Len(Upto(es, j))
  <2>6. z = x + y /\ x \in Nat /\ y \in Nat /\ z <= B /\ m \in 0 .. y - 1
    BY <2>1, <2>4, <2>5
  <2> HIDE DEF x, y, z, L, B, e
  <2>7. L + 1 + x + m \in L + 1 .. Len(e) - 1
    BY <1>1, <2>6
  <2> QED
    BY <2>6, <2>7 DEF x, y
<1>6. all \subseteq L + 1 .. Len(e) - 1
  BY <1>5 DEF ElementEnds
<1>7. all \subseteq 0 .. Len(e) - 1
  <2> HIDE DEF all, e, L, B
  <2> QED
    BY <1>1, <1>6
<1>8. ASSUME NEW m \in 0 .. Len(e) - 1
      PROVE  ParseRESP(SubSeq(e, 1, m)) = Fail(IF m \in all THEN "unexpected EOF" ELSE "EOF")
  <2>1. CASE m <= L
    <3>1. m \in 0 .. L /\ m \notin all
      <4> HIDE DEF all, e, L, B
      <4> QED
        BY <1>1, <1>6, <2>1
    <3>2. ParseRESP(SubSeq(e, 1, m)) = Fail("EOF")
      <4> HIDE DEF body
      <4> QED
        BY <1>1, <3>1, HeadTorn
    <3> QED
      BY <3>1, <3>2
  <2>2. CASE ~(m <= L)
    <3> DEFINE k == m - L - 1
    <3>1. k \in Nat /\ k < B /\ k \in 0 .. B /\ m = L + 1 + k
      <4> HIDE DEF e, L, B
      <4> QED
        BY <1>1, <2>2
    <3>2. SubSeq(e, 1, m) = Headed(c, SubSeq(body, 1, k))
      <4> HIDE DEF k, body
      <4> QED
        BY <1>1, <3>1, BehindHead
    <3>3. PICK j \in 1 .. Len(es) : TornIn(es, body, k, j)
      <4> HIDE DEF k
      <4> QED
        BY <3>1, TornTexts
    <3> DEFINE u == Upto(es, j - 1)
               n == k - Len(u)
               p == SubSeq(es[j], 1, n)
               x == IF n \in ends[j] THEN "unexpected EOF" ELSE "EOF"
    <3>4. n \in 0 .. Len(es[j]) - 1 /\ SubSeq(body, 1, k) = u \o p
      BY <3>3 DEF TornIn
    <3>5. es[j] \in Bytes /\ u \in Bytes /\ Len(u) \in Nat /\ Len(es[j]) \in Nat
      <4>1. j - 1 \in 0 .. Len(es)
        OBVIOUS
      <4> QED
        BY <4>1, ElementOfSeq, UptoType, BytesHaveLength
    <3>6. p \in Bytes
      <4>1. n \in 0 .. Len(es[j])
        <5> HIDE DEF n
        <5> QED
          BY <3>4, <3>5
      <4> HIDE DEF n
      <4> QED
        BY <3>5, <4>1, FirstPart
    <3>7. ParseRESP(p) = Fail(x)
      <4> HIDE DEF n
      <4>1. Back(es[j], ws[j], ends[j])
        BY <1>0
      <4> QED
        BY <3>4, <4>1 DEF Back
    <3>8. x # "nil"
      OBVIOUS
    <3>9. n \in ends[j] <=> m \in all
      <4>1. ASSUME n \in ends[j] PROVE m \in all
        <5>1. L + 1 + Len(u) + n = m
          <6> HIDE DEF L, B
          <6> QED
            BY <1>1, <3>1, <3>5
        <5> HIDE DEF k, n
        <5>2. m \in {Len(Line(c)) + 1 + Len(Upto(es, j - 1)) + l : l \in ends[j]}
          BY <4>1, <5>1
        <5> QED
          BY <5>2 DEF ElementEnds
      <4>2. ASSUME m \in all PROVE n \in ends[j]
        <5>1. PICK i \in 1 .. c : \E l \in ends[i] : m = L + 1 + Len(Upto(es, i - 1)) + l
          BY <4>2 DEF ElementEnds
        <5>0. PICK l \in ends[i] : m = L + 1 + Len(Upto(es, i - 1)) + l
          BY <5>1
        <5>2. l \in 0 .. Len(es[i]) - 1 /\ Len(Upto(es, i - 1)) \in Nat
          BY <1>5
        <5>3. k - Len(Upto(es, i - 1)) = l
          <6> HIDE DEF L, B
          <6> QED
            BY <1>1, <3>1, <5>0, <5>2
        <5>4. i = j
          <6>1. k - Len(Upto(es, i - 1)) \in 0 .. Len(es[i]) - 1
            BY <5>2, <5>3
          <6>2. k - Len(Upto(es, j - 1)) \in 0 .. Len(es[j]) - 1
            BY <3>4
          <6> HIDE DEF k, n
          <6>3. k \in Nat /\ i \in 1 .. Len(es) /\ j \in 1 .. Len(es)
            BY <3>1
          <6> QED
            BY <6>1, <6>2, <6>3, TornInOne
        <5> QED
          BY <5>0, <5>3, <5>4
      <4> QED
        BY <4>1, <4>2
    <3>10. ParseRESP(Headed(c, u \o p)) = Fail(x)
      <4>1. j \in 1 .. c
        OBVIOUS
      <4> HIDE DEF x, p, n, k
      <4> QED
        BY <1>3, <4>1, <3>6, <3>7, <3>8, ArrayTorn
    <3> QED
      BY <3>2, <3>4, <3>9, <3>10
  <2> QED
    BY <2>1, <2>2
<1> HIDE DEF e, all
<1> QED
  BY <1>1, <1>2, <1>4, <1>7, <1>8 DEF Back, e, all

-------------------------------------------------------------------------------
(* Values: what encodeRESPArray writes, ParseRESP reads.                   *)

\* A value as it is encoded, as it is read back, and where it is torn inside a string.
LEMMA CodeOf ==
  ASSUME NEW n \in Nat, NEW v \in Values[n]
  PROVE  /\ Encoded[n][v] = EncodedValue(Encoded[n - 1], v)
         /\ AsText[n][v] = ValueAsText(AsText[n - 1], v)
         /\ InString[n][v] = EndsInString(n, InString[n - 1], v)
<1>1. Encoded[n][v] = EncodedValue(Encoded[n - 1], v)
  BY EncodedIs DEF EncodedStep
<1>2. AsText[n][v] = ValueAsText(AsText[n - 1], v)
  BY AsTextIs DEF AsTextStep
<1>3. InString[n][v] = EndsInString(n, InString[n - 1], v)
  BY InStringIs DEF InStringStep
<1> QED
  BY <1>1, <1>2, <1>3

\* The four kinds of values.
LEMMA ValueCases ==
  ASSUME NEW n \in Nat, NEW v \in Values[n]
  PROVE  \/ v.kind = "string" /\ v = Str(v.of) /\ v.of \in Bytes
         \/ v.kind = "int" /\ v = Integer(v.of) /\ v.of \in Int
         \/ v.kind = "nil" /\ v = Nil
         \/ n # 0 /\ v.kind = "array" /\ v = Arr(v.of) /\ v.of \in Seq(Values[n - 1])
<1>1. Values[n] = ValuesStep(n, Values[n - 1])
  BY ValuesIs
<1>2. \/ v \in [kind : {"string"}, of : Bytes] \/ v \in [kind : {"int"}, of : Int] \/ v = Nil
      \/ n # 0 /\ v \in [kind : {"array"}, of : Seq(Values[n - 1])]
  BY <1>1 DEF ValuesStep
<1> QED
  BY <1>2 DEF Str, Integer, Nil, Arr

\* All of them are values.
LEMMA ValuesAre ==
  ASSUME NEW n \in Nat
  PROVE  /\ \A s \in Bytes : Str(s) \in Values[n]
         /\ \A i \in Int : Integer(i) \in Values[n]
         /\ Nil \in Values[n]
         /\ n # 0 => \A a \in Seq(Values[n - 1]) : Arr(a) \in Values[n]
<1>1. Values[n] = ValuesStep(n, Values[n - 1])
  BY ValuesIs
<1> QED
  BY <1>1 DEF ValuesStep, Str, Integer, Nil, Arr

\* What is read of a value that was encoded, and that it is encoded as the same bytes again.
Coded(n, v) ==
  /\ Back(Encoded[n][v], AsText[n][v], InString[n][v])
  /\ AsText[n][v] \in Values[n] /\ Encoded[n][AsText[n][v]] = Encoded[n][v]

\* This is so of strings, of numbers, which are read back as strings, and of nil.
LEMMA StringCoded ==
  ASSUME NEW n \in Nat, NEW s \in Bytes
  PROVE  Coded(n, Str(s)) /\ Encoded[n][Str(s)] = Bulk(s) /\ AsText[n][Str(s)] = Str(s)
<1> DEFINE v == Str(s)
<1>1. v.kind = "string" /\ v.of = s
  BY DEF Str
<1>2. v \in Values[n]
  BY ValuesAre
<1> HIDE DEF v
<1>3. Encoded[n][v] = Bulk(s) /\ AsText[n][v] = v /\ InString[n][v] = StringEnds(Bulk(s), s)
  <2>1. EncodedValue(Encoded[n - 1], v) = Bulk(s)
    BY <1>1 DEF EncodedValue
  <2>2. ValueAsText(AsText[n - 1], v) = v
    BY <1>1 DEF ValueAsText
  <2>3. EndsInString(n, InString[n - 1], v) = StringEnds(Bulk(s), s)
    BY <1>1 DEF EndsInString
  <2> QED
    BY <1>2, <2>1, <2>2, <2>3, CodeOf
<1> QED
  BY <1>2, <1>3, StringBack DEF Coded, v

LEMMA IntCoded ==
  ASSUME NEW n \in Nat, NEW i \in Int
  PROVE  Coded(n, Integer(i))
<1> DEFINE v == Integer(i)
           s == Itoa(i)
<1>1. v.kind = "int" /\ v.of = i
  BY DEF Integer
<1>2. v \in Values[n] /\ s \in Bytes
  BY ValuesAre, ItoaOf
<1> HIDE DEF v
<1>3. Encoded[n][v] = Bulk(s) /\ AsText[n][v] = Str(s) /\ InString[n][v] = StringEnds(Bulk(s), s)
  <2>1. EncodedValue(Encoded[n - 1], v) = Bulk(s)
    BY <1>1 DEF EncodedValue
  <2>2. ValueAsText(AsText[n - 1], v) = Str(s)
    BY <1>1 DEF ValueAsText
  <2>3. EndsInString(n, InString[n - 1], v) = StringEnds(Bulk(s), s)
    BY <1>1 DEF EndsInString
  <2> QED
    BY <1>2, <2>1, <2>2, <2>3, CodeOf
<1> HIDE DEF s
<1>4. Str(s) \in Values[n] /\ Encoded[n][Str(s)] = Bulk(s)
  BY <1>2, ValuesAre, StringCoded
<1> QED
  BY <1>2, <1>3, <1>4, StringBack DEF Coded, v

LEMMA NilCoded ==
  ASSUME NEW n \in Nat
  PROVE  Coded(n, Nil)
<1>1. Nil.kind = "nil"
  BY DEF Nil
<1>2. Nil \in Values[n]
  BY ValuesAre
<1>3. Encoded[n][Nil] = <<Dollar>> \o Line(-1) /\ AsText[n][Nil] = Nil /\ InString[n][Nil] = {}
  <2>1. EncodedValue(Encoded[n - 1], Nil) = <<Dollar>> \o Line(-1)
    <3>1. EncodedValue(Encoded[n - 1], Nil) = <<Dollar>> \o Itoa(-1) \o CRLF
      BY <1>1 DEF EncodedValue
    <3>2. <<Dollar>> \in Bytes /\ Itoa(-1) \in Bytes /\ CRLF \in Bytes
      BY ItoaOf, CRLFIs DEF Bytes, Dollar, Byte
    <3>3. (<<Dollar>> \o Itoa(-1)) \o CRLF = <<Dollar>> \o (Itoa(-1) \o CRLF)
      BY <3>2, JoinedThrice
    <3> QED
      BY <3>1, <3>3 DEF Line
  <2>2. ValueAsText(AsText[n - 1], Nil) = Nil
    BY <1>1 DEF ValueAsText
  <2>3. EndsInString(n, InString[n - 1], Nil) = {}
    BY <1>1 DEF EndsInString
  <2> QED
    BY <1>2, <2>1, <2>2, <2>3, CodeOf
<1> QED
  BY <1>2, <1>3, NilBack DEF Coded

\* The texts of values, what is read of them and where they are torn inside a string.
Texts(n, a) == [i \in DOMAIN a |-> Encoded[n][a[i]]]
Reads(n, a) == [i \in DOMAIN a |-> AsText[n][a[i]]]
Tears(n, a) == [i \in DOMAIN a |-> InString[n][a[i]]]

\* The header that encodeRESPArray writes.
LEMMA HeaderIs ==
  ASSUME NEW c \in Nat, NEW body \in Bytes
  PROVE  ArrayHeader(c) \o body = Headed(c, body) /\ Len(ArrayHeader(c)) = Len(Line(c)) + 1
         /\ ArrayHeader(c) \in Bytes /\ Len(ArrayHeader(c)) \in Nat
<1> DEFINE x == <<Star>>
           i == Itoa(c)
           l == Line(c)
<1>1. x \in Bytes /\ i \in Bytes /\ CRLF \in Bytes /\ l \in Bytes /\ Star \in Byte
  <2>1. x \in Bytes
    BY Prefixes DEF Bytes
  <2>2. i \in Bytes /\ CRLF \in Bytes /\ l \in Bytes /\ Star \in Byte
    BY ItoaOf, CRLFIs, LineOf, Prefixes
  <2> QED
    BY <2>1, <2>2
<1>2. ArrayHeader(c) = x \o l
  <2>1. ArrayHeader(c) = (x \o i) \o CRLF
    BY DEF ArrayHeader
  <2> HIDE DEF x, i
  <2>2. (x \o i) \o CRLF = x \o (i \o CRLF)
    BY <1>1, JoinedThrice
  <2> QED
    BY <2>1, <2>2 DEF Line, i
<1> HIDE DEF l
<1>3. (x \o l) \o body = x \o (l \o body)
  <2> HIDE DEF x
  <2> QED
    BY <1>1, JoinedThrice
<1>4. x \o l \in Bytes /\ Len(x \o l) = Len(l) + 1 /\ Len(l) \in Nat
  BY <1>1, OneByte
<1> QED
  BY <1>2, <1>3, <1>4 DEF Headed, l

\* If the elements are read back, their texts are.
LEMMA TextsOf ==
  ASSUME NEW n \in Nat, NEW a \in Seq(Values[n]), \A v \in Values[n] : Coded(n, v)
  PROVE  /\ Texts(n, a) \in Seq(Bytes) /\ Len(Texts(n, a)) = Len(a)
         /\ Reads(n, a) \in Seq(Values[n]) /\ Len(Reads(n, a)) = Len(a)
         /\ AllBack(Texts(n, a), Reads(n, a), Tears(n, a))
         /\ Texts(n, Reads(n, a)) = Texts(n, a)
<1>1. Len(a) \in Nat /\ DOMAIN a = 1 .. Len(a) /\ \A i \in 1 .. Len(a) : a[i] \in Values[n]
  BY LenProperties, ElementOfSeq
<1>2. ASSUME NEW i \in 1 .. Len(a)
      PROVE  /\ Encoded[n][a[i]] \in Bytes /\ AsText[n][a[i]] \in Values[n]
             /\ Encoded[n][AsText[n][a[i]]] = Encoded[n][a[i]]
             /\ Back(Encoded[n][a[i]], AsText[n][a[i]], InString[n][a[i]])
  <2>1. Coded(n, a[i])
    BY <1>1
  <2> QED
    BY <2>1 DEF Coded, Back
<1>3. Texts(n, a) \in Seq(Bytes) /\ Len(Texts(n, a)) = Len(a)
  BY <1>1, <1>2 DEF Texts
<1>4. Reads(n, a) \in Seq(Values[n]) /\ Len(Reads(n, a)) = Len(a) /\ DOMAIN Reads(n, a) = 1 .. Len(a)
  BY <1>1, <1>2 DEF Reads
<1>5. AllBack(Texts(n, a), Reads(n, a), Tears(n, a))
  <2>1. ASSUME NEW i \in 1 .. Len(a) PROVE Back(Texts(n, a)[i], Reads(n, a)[i], Tears(n, a)[i])
    BY <1>1, <1>2 DEF Texts, Reads, Tears
  <2> QED
    BY <1>3, <1>4, <2>1 DEF AllBack
<1>6. Texts(n, Reads(n, a)) = Texts(n, a)
  <2>1. ASSUME NEW i \in 1 .. Len(a) PROVE Encoded[n][Reads(n, a)[i]] = Encoded[n][a[i]]
    BY <1>1, <1>2 DEF Reads
  <2> QED
    BY <1>1, <1>4, <2>1 DEF Texts
<1> QED
  BY <1>3, <1>4, <1>5, <1>6

\* An array as encodeRESPArray writes it.
LEMMA ArrayCodeOf ==
  ASSUME NEW n \in Nat, n # 0, NEW a \in Seq(Values[n - 1]), Concat(Texts(n - 1, a)) \in Bytes,
         Texts(n - 1, a) \in Seq(Bytes)
  PROVE  /\ Encoded[n][Arr(a)] = Headed(Len(a), Concat(Texts(n - 1, a)))
         /\ AsText[n][Arr(a)] = Arr(Reads(n - 1, a))
         /\ InString[n][Arr(a)] = ElementEnds(Len(a), Texts(n - 1, a), Tears(n - 1, a))
<1> DEFINE v == Arr(a)
           c == Len(a)
           p == n - 1
           es == Texts(p, a)
<1>1. v.kind = "array" /\ v.of = a /\ v \in Values[n] /\ c \in Nat /\ DOMAIN a = 1 .. c
  BY ValuesAre, LenProperties DEF Arr
<1>2. Encoded[n][v] = EncodedValue(Encoded[p], v) /\ AsText[n][v] = ValueAsText(AsText[p], v)
      /\ InString[n][v] = EndsInString(n, InString[p], v)
  BY <1>1, CodeOf
<1> HIDE DEF v
<1>3. EncodedValue(Encoded[p], v) = Headed(c, Concat(es))
  <2>1. EncodedValue(Encoded[p], v) = ArrayHeader(c) \o Concat(es)
    BY <1>1 DEF EncodedValue, Texts
  <2> HIDE DEF c, es
  <2> QED
    BY <1>1, <2>1, HeaderIs DEF es
<1>4. ValueAsText(AsText[p], v) = Arr(Reads(p, a))
  BY <1>1 DEF ValueAsText, Reads
<1>5. EndsInString(n, InString[p], v) = ElementEnds(c, es, Tears(p, a))
  <2>1. EndsInString(n, InString[p], v) = UNION {{ElementAt(p, v, j) + m : m \in InString[p][a[j]]} : j \in 1 .. c}
    BY <1>1 DEF EndsInString
  <2>2. ASSUME NEW j \in 1 .. c PROVE ElementAt(p, v, j) = Len(Line(c)) + 1 + Len(Upto(es, j - 1))
    <3>1. ElementAt(p, v, j) = Len(ArrayHeader(c)) + Len(Concat([i \in 1 .. j - 1 |-> Encoded[p][a[i]]]))
      BY <1>1 DEF ElementAt
    <3>2. SubSeq(es, 1, j - 1) = [i \in 1 .. j - 1 |-> Encoded[p][a[i]]]
      <4>1. Len(es) = c /\ \A i \in 1 .. c : es[i] = Encoded[p][a[i]]
        BY <1>1 DEF Texts
      <4>2. j - 1 <= c /\ j - 1 \in Nat /\ c \in Nat
        BY <1>1
      <4> DEFINE k == j - 1
      <4>3. \A i \in 1 .. k : i \in 1 .. c
        BY <4>2
      <4>4. SubSeq(es, 1, k) = [i \in 1 .. k |-> es[i]]
        <5> HIDE DEF es, k, c
        <5> QED
          BY <4>1, <4>2, <4>3 DEF k
      <4> HIDE DEF es, k, c
      <4>5. \A i \in 1 .. k : es[i] = Encoded[p][a[i]]
        BY <4>1, <4>3
      <4> QED
        BY <4>4, <4>5 DEF k
    <3> HIDE DEF es, c
    <3>3. Len(ArrayHeader(c)) = Len(Line(c)) + 1
      BY <1>1, HeaderIs DEF es
    <3> QED
      BY <3>1, <3>2, <3>3 DEF Upto
  <2>3. \A j \in 1 .. c : Tears(p, a)[j] = InString[p][a[j]]
    BY <1>1 DEF Tears
  <2> DEFINE F(j) == {ElementAt(p, v, j) + m : m \in InString[p][a[j]]}
             G(j) == {Len(Line(c)) + 1 + Len(Upto(es, j - 1)) + m : m \in Tears(p, a)[j]}
  <2>4. ASSUME NEW j \in 1 .. c PROVE F(j) = G(j)
    <3>1. ElementAt(p, v, j) = Len(Line(c)) + 1 + Len(Upto(es, j - 1)) /\ Tears(p, a)[j] = InString[p][a[j]]
      BY <2>2, <2>3
    <3> HIDE DEF es, c, p
    <3> QED
      BY <3>1
  <2>5. EndsInString(n, InString[p], v) = UNION {F(j) : j \in 1 .. c}
    BY <2>1
  <2>6. ElementEnds(c, es, Tears(p, a)) = UNION {G(j) : j \in 1 .. c}
    BY DEF ElementEnds
  <2> HIDE DEF F, G, es, c, p
  <2> QED
    BY <2>4, <2>5, <2>6
<1> QED
  BY <1>2, <1>3, <1>4, <1>5 DEF v

\* An array is read back if its elements are.
LEMMA ArrayCoded ==
  ASSUME NEW n \in Nat, n # 0, NEW a \in Seq(Values[n - 1]), \A v \in Values[n - 1] : Coded(n - 1, v)
  PROVE  /\ Coded(n, Arr(a)) /\ AsText[n][Arr(a)] = Arr(Reads(n - 1, a))
         /\ Encoded[n][Arr(a)] = Headed(Len(a), Concat(Texts(n - 1, a)))
<1> DEFINE p == n - 1
           c == Len(a)
           es == Texts(p, a)
           ws == Reads(p, a)
<1>0. p \in Nat /\ c \in Nat
  BY LenProperties
<1>1. /\ es \in Seq(Bytes) /\ Len(es) = c
      /\ ws \in Seq(Values[p]) /\ Len(ws) = c
      /\ AllBack(es, ws, Tears(p, a)) /\ Texts(p, ws) = es
  <2> HIDE DEF p
  <2> QED
    BY <1>0, TextsOf DEF p
<1>2. Concat(es) \in Bytes
  <2> HIDE DEF es
  <2> QED
    BY <1>1, ConcatType
<1>3. /\ Encoded[n][Arr(a)] = Headed(c, Concat(es)) /\ AsText[n][Arr(a)] = Arr(ws)
      /\ InString[n][Arr(a)] = ElementEnds(c, es, Tears(p, a))
  BY <1>1, <1>2, ArrayCodeOf
<1>4. Encoded[n][Arr(ws)] = Headed(c, Concat(es)) /\ Arr(ws) \in Values[n]
  <2>1. Texts(n - 1, ws) \in Seq(Bytes) /\ Concat(Texts(n - 1, ws)) \in Bytes /\ ws \in Seq(Values[n - 1])
    BY <1>1, <1>2
  <2> HIDE DEF ws, es
  <2>2. Encoded[n][Arr(ws)] = Headed(Len(ws), Concat(Texts(n - 1, ws)))
    BY <2>1, ArrayCodeOf
  <2>3. Arr(ws) \in Values[n]
    BY <2>1, ValuesAre
  <2> QED
    BY <1>1, <2>2, <2>3
<1>5. Back(Headed(c, Concat(es)), Arr(ws), ElementEnds(c, es, Tears(p, a)))
  <2> HIDE DEF es, ws, c, p
  <2> QED
    BY <1>0, <1>1, ArrayBack
<1> HIDE DEF es, ws, c, p
<1> QED
  BY <1>3, <1>4, <1>5 DEF Coded, p, c, es, ws

\* The round trip of every value: ParseRESP reads it back from what encodeRESPArray wrote, with its
\* numbers as text, whatever is behind it; torn anywhere, it is an error.
THEOREM RoundTrip ==
  ASSUME NEW n \in Nat, NEW v \in Values[n]
  PROVE  Coded(n, v)
<1> DEFINE P(i) == \A w \in Values[i] : Coded(i, w)
           T == {i \in Nat : ~P(i)}
<1>1. SUFFICES ASSUME T # {} PROVE FALSE
  OBVIOUS
<1>2. PICK i \in T : i - 1 \notin T
  <2>1. T \in SUBSET Nat
    OBVIOUS
  <2> HIDE DEF T
  <2> QED
    BY <1>1, <2>1, FirstNumber
<1>3. i \in Nat /\ (i # 0 => P(i - 1)) /\ ~P(i)
  BY <1>2
<1> HIDE DEF T
<1>4. PICK w \in Values[i] : ~Coded(i, w)
  BY <1>3
<1>5. CASE i # 0 /\ w = Arr(w.of) /\ w.of \in Seq(Values[i - 1])
  <2> DEFINE a == w.of
  <2>1. \A u \in Values[i - 1] : Coded(i - 1, u)
    BY <1>3, <1>5
  <2>2. a \in Seq(Values[i - 1]) /\ i # 0 /\ i \in Nat /\ w = Arr(a)
    BY <1>3, <1>5
  <2> HIDE DEF a, P
  <2>3. Coded(i, Arr(a))
    BY <2>1, <2>2, ArrayCoded
  <2> QED
    BY <1>4, <2>2, <2>3
<1>6. CASE w = Str(w.of) /\ w.of \in Bytes
  BY <1>3, <1>4, <1>6, StringCoded
<1>7. CASE w = Integer(w.of) /\ w.of \in Int
  BY <1>3, <1>4, <1>7, IntCoded
<1>8. CASE w = Nil
  BY <1>3, <1>4, <1>8, NilCoded
<1> QED
  BY <1>3, <1>4, <1>5, <1>6, <1>7, <1>8, ValueCases

-------------------------------------------------------------------------------
(* The replay of the log.                                                  *)

\* Whatever may be read as a command.
Readable == {ParseRESP(b).val.of : b \in Bytes}

IsCommand(v) == v.val.kind = "array" /\ v.val.of # <<>>

\* A value v that was read, and what is made of the bytes behind it.
WithNext(v, r) == [cmds |-> IF IsCommand(v) THEN <<v.val.of>> \o r.cmds ELSE r.cmds, err |-> r.err]

\* One round of the loop of replayAOFCommands.
LEMMA ReplayedAre ==
  ASSUME NEW k \in Nat, NEW b \in Bytes, NEW v, v = ParseRESP(b)
  PROVE  Replayed[k][b] = IF k = 0 \/ v.err # "nil" THEN [cmds |-> <<>>, err |-> v.err]
                          ELSE WithNext(v, Replayed[k - 1][v.rest])
<1> DEFINE x == Replayed[k - 1]
           r == x[v.rest]
<1>1. Replayed[k] = ReplayedStep(k, x)
  BY ReplayedIs
<1> HIDE DEF x
<1>2. ReplayedStep(k, x)[b] = IF k = 0 \/ v.err # "nil" THEN [cmds |-> <<>>, err |-> v.err]
        ELSE [cmds |-> IF v.val.kind = "array" /\ v.val.of # <<>> THEN <<v.val.of>> \o r.cmds ELSE r.cmds,
              err  |-> r.err]
  BY DEF ReplayedStep
<1>3. WithNext(v, r) = [cmds |-> IF v.val.kind = "array" /\ v.val.of # <<>> THEN <<v.val.of>> \o r.cmds ELSE r.cmds,
                        err  |-> r.err]
  BY DEF WithNext, IsCommand
<1> QED
  BY <1>1, <1>2, <1>3 DEF x

AllTyped(k) == \A b \in Bytes : Replayed[k][b].cmds \in Seq(Readable)

\* It gives commands and an error.
LEMMA ReplayedType ==
  ASSUME NEW k \in Nat
  PROVE  AllTyped(k)
<1> DEFINE T == {i \in Nat : ~AllTyped(i)}
<1>1. SUFFICES ASSUME T # {} PROVE FALSE
  OBVIOUS
<1>2. PICK i \in T : i - 1 \notin T
  <2>1. T \in SUBSET Nat
    OBVIOUS
  <2> HIDE DEF T
  <2> QED
    BY <1>1, <2>1, FirstNumber
<1>3. i \in Nat /\ (i # 0 => AllTyped(i - 1)) /\ ~AllTyped(i)
  BY <1>2
<1> HIDE DEF T
<1>4. PICK b \in Bytes : ~(Replayed[i][b].cmds \in Seq(Readable))
  BY <1>3 DEF AllTyped
<1> DEFINE v == ParseRESP(b)
           r == Replayed[i - 1][v.rest]
<1>5. Replayed[i][b] = IF i = 0 \/ v.err # "nil" THEN [cmds |-> <<>>, err |-> v.err] ELSE WithNext(v, r)
  BY <1>3, ReplayedAre
<1>6. CASE i = 0 \/ v.err # "nil"
  <2>1. <<>> \in Seq(Readable)
    OBVIOUS
  <2> HIDE DEF v, r
  <2> QED
    BY <1>4, <1>5, <1>6, <2>1
<1>7. CASE ~(i = 0 \/ v.err # "nil")
  <2>1. v.rest \in Bytes
    BY <1>7, ParseRESPIs DEF Consumes
  <2>2. v.val.of \in Readable
    BY DEF Readable
  <2> HIDE DEF v
  <2>3. r.cmds \in Seq(Readable)
    BY <1>3, <1>7, <2>1 DEF AllTyped
  <2> HIDE DEF r
  <2>4. <<v.val.of>> \o r.cmds \in Seq(Readable)
    BY <2>2, <2>3, Behind
  <2> QED
    BY <1>4, <1>5, <1>7, <2>3, <2>4 DEF WithNext
<1> QED
  BY <1>6, <1>7

\* The bound on its rounds plays no role once it is the number of bytes.
LEMMA ReplayedSame ==
  ASSUME NEW k \in Nat
  PROVE  \A l \in Nat : \A b \in Bytes : l >= k /\ Len(b) <= k => Replayed[k][b] = Replayed[l][b]
<1> DEFINE P(i) == \A l \in Nat : \A b \in Bytes : l >= i /\ Len(b) <= i => Replayed[i][b] = Replayed[l][b]
           T == {i \in Nat : ~P(i)}
<1>1. SUFFICES ASSUME T # {} PROVE FALSE
  OBVIOUS
<1>2. PICK i \in T : i - 1 \notin T
  <2>1. T \in SUBSET Nat
    OBVIOUS
  <2> HIDE DEF T
  <2> QED
    BY <1>1, <2>1, FirstNumber
<1>3. i \in Nat /\ (i # 0 => P(i - 1)) /\ ~P(i)
  BY <1>2
<1> HIDE DEF T
<1>4. PICK l \in Nat, b \in Bytes : l >= i /\ Len(b) <= i /\ Replayed[i][b] # Replayed[l][b]
  BY <1>3
<1> DEFINE v == ParseRESP(b)
<1>5. Replayed[i][b] = IF i = 0 \/ v.err # "nil" THEN [cmds |-> <<>>, err |-> v.err]
                       ELSE WithNext(v, Replayed[i - 1][v.rest])
  BY <1>3, ReplayedAre
<1>6. Replayed[l][b] = IF l = 0 \/ v.err # "nil" THEN [cmds |-> <<>>, err |-> v.err]
                       ELSE WithNext(v, Replayed[l - 1][v.rest])
  BY ReplayedAre
<1>7. v.err = "nil" => v.rest \in Bytes /\ Len(v.rest) < Len(b)
  BY ParseRESPIs DEF Consumes
<1>8. Len(b) \in Nat
  BY BytesHaveLength
<1> HIDE DEF v
<1>9. CASE v.err # "nil"
  BY <1>4, <1>5, <1>6, <1>9
<1>10. CASE v.err = "nil"
  <2>0. v.rest \in Bytes /\ Len(v.rest) \in Nat
    BY <1>7, <1>10, BytesHaveLength
  <2> DEFINE x == Len(v.rest)
             B == Len(b)
  <2>1. i # 0 /\ l # 0 /\ i - 1 \in Nat /\ l - 1 \in Nat /\ l - 1 >= i - 1 /\ x <= i - 1
    <3>1. x \in Nat /\ x < B /\ B \in Nat /\ B <= i
      BY <1>4, <1>7, <1>8, <1>10, <2>0
    <3> HIDE DEF x, B
    <3> QED
      BY <1>3, <1>4, <3>1
  <2>2. Replayed[i - 1][v.rest] = Replayed[l - 1][v.rest]
    <3>1. P(i - 1)
      BY <1>3, <2>1
    <3> QED
      BY <2>0, <2>1, <3>1
  <2> QED
    BY <1>4, <1>5, <1>6, <1>10, <2>1, <2>2
<1> QED
  BY <1>9, <1>10

\* A replay of bytes, without a bound on the commands.
LEMMA ReplayIs ==
  ASSUME NEW b \in Bytes, NEW v, v = ParseRESP(b)
  PROVE  /\ replay(b) = IF v.err # "nil" THEN [cmds |-> <<>>, err |-> v.err] ELSE WithNext(v, replay(v.rest))
         /\ replay(b).cmds \in Seq(Readable)
<1> DEFINE B == Len(b)
<1>1. B \in Nat
  BY BytesHaveLength
<1>2. replay(b) = IF B = 0 \/ v.err # "nil" THEN [cmds |-> <<>>, err |-> v.err]
                  ELSE WithNext(v, Replayed[B - 1][v.rest])
  BY <1>1, ReplayedAre DEF replay
<1>3. replay(b).cmds \in Seq(Readable)
  BY <1>1, ReplayedType DEF AllTyped, replay
<1>4. v.err = "nil" => v.rest \in Bytes /\ Len(v.rest) < B
  BY ParseRESPIs DEF Consumes
<1>5. CASE v.err # "nil"
  BY <1>2, <1>3, <1>5
<1>6. CASE v.err = "nil"
  <2> DEFINE x == Len(v.rest)
  <2>1. v.rest \in Bytes /\ x \in Nat /\ x < B
    BY <1>4, <1>6, BytesHaveLength
  <2>2. B # 0 /\ B - 1 \in Nat /\ B - 1 >= x
    <3> HIDE DEF x, B
    <3> QED
      BY <1>1, <2>1
  <2>3. Replayed[x][v.rest] = Replayed[B - 1][v.rest]
    <3> HIDE DEF B
    <3> QED
      BY <2>1, <2>2, ReplayedSame
  <2> HIDE DEF B
  <2> QED
    BY <1>2, <1>3, <1>6, <2>2, <2>3 DEF replay
<1> QED
  BY <1>5, <1>6

\* The commands, at the least a name and two arguments, and the writes of them.
CommandArrays == {v.of : v \in {w \in Values[MaxDepth] : w.kind = "array" /\ Len(w.of) >= 3}}
Writes == {w \in [cmd : CommandArrays, bytes : Nat] : w.bytes <= Len(encodeRESPArray(w.cmd))}

Written(w) == SubSeq(encodeRESPArray(w.cmd), 1, w.bytes)
IsTorn(w)  == w.bytes > 0 /\ ~Whole(w)

\* What a command is.
LEMMA CommandIs ==
  ASSUME NEW a \in CommandArrays
  PROVE  MaxDepth \in Nat /\ MaxDepth # 0 /\ a \in Seq(Values[MaxDepth - 1]) /\ Len(a) >= 3 /\ Len(a) \in Nat
         /\ DOMAIN a = 1 .. Len(a) /\ Arr(a) \in Values[MaxDepth]
<1>0. MaxDepth \in Nat
  BY DepthAssumption
<1>1. PICK v \in Values[MaxDepth] : v.kind = "array" /\ Len(v.of) >= 3 /\ a = v.of
  BY DEF CommandArrays
<1>2. MaxDepth # 0 /\ v = Arr(v.of) /\ v.of \in Seq(Values[MaxDepth - 1])
  BY <1>0, <1>1, ValueCases
<1>3. Len(a) \in Nat /\ DOMAIN a = 1 .. Len(a)
  BY <1>1, <1>2, LenProperties
<1> QED
  BY <1>0, <1>1, <1>2, <1>3

\* A command that encodeRESPArray writes is read back as its text.
LEMMA CommandCoded ==
  ASSUME NEW a \in CommandArrays, NEW e, e = encodeRESPArray(a), NEW t, t = Text(a)
  PROVE  /\ e \in Bytes /\ Len(e) \in Nat /\ Len(e) > 0
         /\ Back(e, Arr(t), InString[MaxDepth][Arr(a)])
         /\ Len(t) = Len(a) /\ t \in CommandArrays /\ encodeRESPArray(t) = e
         /\ \A j \in 1 .. Len(a) : t[j] = AsText[MaxDepth - 1][a[j]]
<1> DEFINE n == MaxDepth
           p == n - 1
<1>1. n \in Nat /\ n # 0 /\ a \in Seq(Values[p]) /\ Len(a) >= 3 /\ Arr(a) \in Values[n] /\ Len(a) \in Nat
      /\ p \in Nat /\ DOMAIN a = 1 .. Len(a)
  BY CommandIs
<1> HIDE DEF n, p
<1>2. \A v \in Values[p] : Coded(p, v)
  BY <1>1, RoundTrip
<1> DEFINE ws == Reads(p, a)
<1>3. Coded(n, Arr(a)) /\ AsText[n][Arr(a)] = Arr(ws)
  BY <1>1, <1>2, ArrayCoded DEF p
<1>4. ws \in Seq(Values[p]) /\ Len(ws) = Len(a)
  BY <1>1, <1>2, TextsOf
<1>5. \A j \in 1 .. Len(a) : ws[j] = AsText[p][a[j]]
  BY <1>1 DEF Reads
<1> HIDE DEF ws
<1>6. t = ws
  BY <1>3 DEF Text, Arr, n
<1>7. Back(e, Arr(t), InString[n][Arr(a)])
  BY <1>3, <1>6 DEF Coded, encodeRESPArray, n
<1>8. e \in Bytes /\ Len(e) \in Nat /\ Len(e) > 0
  BY <1>7 DEF Back
<1>9. encodeRESPArray(t) = e
  BY <1>3, <1>6 DEF Coded, encodeRESPArray, n
<1>10. t \in CommandArrays
  <2>1. Arr(ws) \in Values[n] /\ Arr(ws).kind = "array" /\ Arr(ws).of = ws
    BY <1>3 DEF Coded, Arr
  <2>2. Len(ws) >= 3
    BY <1>1, <1>4
  <2> QED
    BY <1>6, <2>1, <2>2 DEF CommandArrays, n
<1> QED
  BY <1>4, <1>5, <1>6, <1>7, <1>8, <1>9, <1>10 DEF n, p

\* So it is in front of anything.
LEMMA CommandRead ==
  ASSUME NEW a \in CommandArrays, NEW tail \in Bytes
  PROVE  /\ ParseRESP(encodeRESPArray(a) \o tail) = Ok(Arr(Text(a)), tail)
         /\ encodeRESPArray(a) \o tail \in Bytes
         /\ IsCommand(Ok(Arr(Text(a)), tail)) /\ Text(a) \in Readable /\ Text(a) \in CommandArrays
<1> DEFINE e == encodeRESPArray(a)
           t == Text(a)
           b == e \o tail
<1>1. e \in Bytes /\ Back(e, Arr(t), InString[MaxDepth][Arr(a)]) /\ t \in CommandArrays
  BY CommandCoded
<1> HIDE DEF e, t
<1>2. b \in Bytes /\ ParseRESP(b) = Ok(Arr(t), tail)
  BY <1>1, Joined DEF Back
<1> HIDE DEF b
<1>3. Ok(Arr(t), tail).val.kind = "array" /\ Ok(Arr(t), tail).val.of = t
  BY OkIs DEF Arr
<1>4. t # <<>>
  <2>1. Len(t) >= 3
    BY <1>1, CommandIs
  <2>2. Len(<<>>) = 0
    OBVIOUS
  <2> QED
    BY <2>1, <2>2
<1>5. t \in Readable
  BY <1>2, <1>3 DEF Readable
<1> QED
  BY <1>1, <1>2, <1>3, <1>4, <1>5 DEF IsCommand, e, t, b

\* replayAOFCommands reads it, and then what is behind it.
LEMMA ReplayWhole ==
  ASSUME NEW a \in CommandArrays, NEW tail \in Bytes
  PROVE  replay(encodeRESPArray(a) \o tail)
           = [cmds |-> <<Text(a)>> \o replay(tail).cmds, err |-> replay(tail).err]
<1> DEFINE t == Text(a)
           b == encodeRESPArray(a) \o tail
           v == ParseRESP(b)
<1>1. v = Ok(Arr(t), tail) /\ b \in Bytes /\ IsCommand(v)
  BY CommandRead
<1> HIDE DEF b
<1>2. replay(b) = IF v.err # "nil" THEN [cmds |-> <<>>, err |-> v.err] ELSE WithNext(v, replay(v.rest))
  BY <1>1, ReplayIs
<1> HIDE DEF t, v
<1>3. v.err = "nil" /\ v.rest = tail /\ v.val.of = t
  BY <1>1, OkIs DEF Arr
<1>4. replay(b) = WithNext(v, replay(tail))
  BY <1>2, <1>3
<1> QED
  BY <1>1, <1>3, <1>4 DEF WithNext, b, t

\* What a write leaves in the file.
LEMMA WrittenIs ==
  ASSUME NEW w \in Writes
  PROVE  /\ Written(w) \in Bytes /\ w.cmd \in CommandArrays /\ w.bytes \in Nat
         /\ encodeRESPArray(w.cmd) \in Bytes
         /\ Len(encodeRESPArray(w.cmd)) \in Nat /\ Len(encodeRESPArray(w.cmd)) > 0
         /\ w.bytes \in 0 .. Len(encodeRESPArray(w.cmd))
         /\ Whole(w) => Written(w) = encodeRESPArray(w.cmd)
         /\ ~Whole(w) /\ ~IsTorn(w) => Written(w) = <<>>
<1> DEFINE e == encodeRESPArray(w.cmd)
           n == w.bytes
<1>1. w.cmd \in CommandArrays /\ n \in Nat /\ n <= Len(e)
  BY DEF Writes
<1>2. e \in Bytes /\ Len(e) \in Nat /\ Len(e) > 0
  BY <1>1, CommandCoded
<1> HIDE DEF e, n
<1>3. n \in 0 .. Len(e)
  BY <1>1, <1>2
<1>4. SubSeq(e, 1, n) \in Bytes
  BY <1>2, <1>3, FirstPart
<1>5. SubSeq(e, 1, Len(e)) = e
  BY <1>2, SubSeqFull DEF Bytes
<1>6. SubSeq(e, 1, 0) = <<>>
  BY FirstNone
<1>7. Whole(w) <=> n = Len(e)
  BY DEF Whole, e, n
<1>8. IsTorn(w) <=> n > 0 /\ ~Whole(w)
  BY DEF IsTorn, n
<1> QED
  BY <1>1, <1>2, <1>3, <1>4, <1>5, <1>6, <1>7, <1>8 DEF Written, e, n

-------------------------------------------------------------------------------
(* The log as the writes it consists of.                                   *)

\* A replay has commands and an error.
LEMMA ReplayRecord ==
  ASSUME NEW b \in Bytes
  PROVE  replay(b) = [cmds |-> replay(b).cmds, err |-> replay(b).err] /\ replay(b).cmds \in Seq(Readable)
<1> DEFINE v == ParseRESP(b)
           r == replay(b)
           q == replay(v.rest)
<1>1. r = (IF v.err # "nil" THEN [cmds |-> <<>>, err |-> v.err] ELSE WithNext(v, q)) /\ r.cmds \in Seq(Readable)
  BY ReplayIs
<1> HIDE DEF r, v, q
<1>2. CASE v.err # "nil"
  BY <1>1, <1>2 DEF r
<1>3. CASE v.err = "nil"
  BY <1>1, <1>3 DEF WithNext, r
<1> QED
  BY <1>2, <1>3

\* The pieces of the log.
Pieces(ws) == [i \in DOMAIN ws |-> Written(ws[i])]

\* There is one for every write.
LEMMA PiecesAre ==
  ASSUME NEW ws \in Seq(Writes)
  PROVE  Pieces(ws) \in Seq(Bytes) /\ Len(Pieces(ws)) = Len(ws) /\ Len(ws) \in Nat
         /\ \A i \in 1 .. Len(ws) : Pieces(ws)[i] = Written(ws[i]) /\ ws[i] \in Writes
<1>1. Len(ws) \in Nat /\ DOMAIN ws = 1 .. Len(ws) /\ \A i \in 1 .. Len(ws) : ws[i] \in Writes
  BY LenProperties, ElementOfSeq
<1>2. \A i \in 1 .. Len(ws) : Written(ws[i]) \in Bytes
  BY <1>1, WrittenIs
<1> QED
  BY <1>1, <1>2 DEF Pieces

\* One write more.
LEMMA PiecesMore ==
  ASSUME NEW ws \in Seq(Writes), NEW w \in Writes
  PROVE  Pieces(Append(ws, w)) = Append(Pieces(ws), Written(w))
<1> DEFINE t == Append(ws, w)
           n == Len(ws)
<1>1. n \in Nat /\ DOMAIN ws = 1 .. n /\ t \in Seq(Writes) /\ Len(t) = n + 1 /\ DOMAIN t = 1 .. n + 1
      /\ t[n + 1] = w /\ \A i \in 1 .. n : t[i] = ws[i]
  BY AppendProperties, LenProperties
<1>2. Pieces(ws) \in Seq(Bytes) /\ Len(Pieces(ws)) = n /\ \A i \in 1 .. n : Pieces(ws)[i] = Written(ws[i])
  BY PiecesAre
<1>3. Written(w) \in Bytes
  BY WrittenIs
<1> DEFINE p == Pieces(ws)
           q == Append(p, Written(w))
<1>4. q \in Seq(Bytes) /\ Len(q) = n + 1 /\ q[n + 1] = Written(w) /\ \A i \in 1 .. n : q[i] = p[i]
  <2> HIDE DEF p, n
  <2> QED
    BY <1>1, <1>2, <1>3, AppendProperties DEF p
<1>5. Pieces(t) \in Seq(Bytes) /\ Len(Pieces(t)) = n + 1 /\ \A i \in 1 .. n + 1 : Pieces(t)[i] = Written(t[i])
  <2> HIDE DEF t, n
  <2> QED
    BY <1>1, PiecesAre
<1>6. \A i \in 1 .. n + 1 : Pieces(t)[i] = q[i]
  <2> HIDE DEF t, q, p
  <2> QED
    BY <1>1, <1>2, <1>4, <1>5 DEF p
<1> HIDE DEF t, q, p, n
<1>7. Pieces(t) = q
  BY <1>1, <1>4, <1>5, <1>6, SeqEqual
<1> QED
  BY <1>7 DEF t, q, p

\* What is kept of the first writes.
LEMMA KeptNext ==
  ASSUME NEW ws \in Seq(Writes), NEW i \in 1 .. Len(ws)
  PROVE  Kept(SubSeq(ws, 1, i)) = IF Whole(ws[i]) THEN Append(Kept(SubSeq(ws, 1, i - 1)), Text(ws[i].cmd))
                                  ELSE Kept(SubSeq(ws, 1, i - 1))
<1> DEFINE s == SubSeq(ws, 1, i - 1)
           e == ws[i]
<1>1. SubSeq(ws, 1, i) = Append(s, e) /\ s \in Seq(Writes) /\ e \in Writes
  BY FirstMore
<1> HIDE DEF s, e
<1>2. Kept(Append(s, e)) = IF Whole(e) THEN Append(Kept(s), Text(e.cmd)) ELSE Kept(s)
  BY <1>1, KeptOfMore
<1> QED
  BY <1>1, <1>2 DEF s, e

\* Commands are kept.
LEMMA KeptType ==
  ASSUME NEW ws \in Seq(Writes)
  PROVE  \A i \in 0 .. Len(ws) : Kept(SubSeq(ws, 1, i)) \in Seq(Readable \intersect CommandArrays)
<1> DEFINE U == Readable \intersect CommandArrays
           K(i) == Kept(SubSeq(ws, 1, i))
           T == {i \in 0 .. Len(ws) : K(i) \notin Seq(U)}
<1>0. Len(ws) \in Nat
  BY LenProperties
<1>1. SUFFICES ASSUME T # {} PROVE FALSE
  OBVIOUS
<1>2. PICK i \in T : i - 1 \notin T
  <2>1. T \in SUBSET Nat
    BY <1>0
  <2> HIDE DEF T
  <2> QED
    BY <1>1, <2>1, FirstNumber
<1>3. i \in 0 .. Len(ws) /\ (i - 1 \in 0 .. Len(ws) => K(i - 1) \in Seq(U)) /\ K(i) \notin Seq(U)
  BY <1>2
<1> HIDE DEF T
<1>4. CASE i = 0
  <2>1. K(i) = <<>>
    BY <1>4, FirstNone, KeptOfNone
  <2>2. <<>> \in Seq(U)
    OBVIOUS
  <2> QED
    BY <1>3, <2>1, <2>2
<1>5. CASE i # 0
  <2>1. i \in 1 .. Len(ws) /\ i - 1 \in 0 .. Len(ws)
    BY <1>0, <1>3, <1>5
  <2>2. K(i) = IF Whole(ws[i]) THEN Append(K(i - 1), Text(ws[i].cmd)) ELSE K(i - 1)
    BY <2>1, KeptNext
  <2>3. ws[i] \in Writes
    BY <2>1, ElementOfSeq
  <2>4. ws[i].cmd \in CommandArrays /\ <<>> \in Bytes
    BY <2>3, WrittenIs DEF Bytes
  <2>5. Text(ws[i].cmd) \in U
    BY <2>4, CommandRead
  <2> DEFINE k == K(i - 1)
             t == Text(ws[i].cmd)
  <2>6. k \in Seq(U)
    BY <1>3, <2>1
  <2> HIDE DEF k, t, U
  <2>7. Append(k, t) \in Seq(U)
    BY <2>5, <2>6, AppendProperties DEF t
  <2> QED
    BY <1>3, <2>2, <2>6, <2>7 DEF k, t
<1> QED
  BY <1>4, <1>5

\* The first i writes are read before what is behind them.
ReadsLog(ws, i) ==
  \A tail \in Bytes :
    replay(Upto(Pieces(ws), i) \o tail)
      = [cmds |-> Kept(SubSeq(ws, 1, i)) \o replay(tail).cmds, err |-> replay(tail).err]

\* So they are, as long as none of them broke off.
LEMMA LogRead ==
  ASSUME NEW ws \in Seq(Writes)
  PROVE  \A i \in 0 .. Len(ws) : (\A j \in 1 .. i : ~IsTorn(ws[j])) => ReadsLog(ws, i)
<1> DEFINE Whole_(i) == \A j \in 1 .. i : ~IsTorn(ws[j])
           T == {i \in 0 .. Len(ws) : Whole_(i) /\ ~ReadsLog(ws, i)}
<1>0. Len(ws) \in Nat
  BY LenProperties
<1>1. SUFFICES ASSUME T # {} PROVE FALSE
  OBVIOUS
<1>2. PICK i \in T : i - 1 \notin T
  <2>1. T \in SUBSET Nat
    BY <1>0
  <2> HIDE DEF T
  <2> QED
    BY <1>1, <2>1, FirstNumber
<1>3. i \in 0 .. Len(ws) /\ Whole_(i) /\ (i - 1 \in 0 .. Len(ws) /\ Whole_(i - 1) => ReadsLog(ws, i - 1))
      /\ ~ReadsLog(ws, i)
  BY <1>2
<1> HIDE DEF T
<1>4. PICK tail \in Bytes :
        replay(Upto(Pieces(ws), i) \o tail)
          # [cmds |-> Kept(SubSeq(ws, 1, i)) \o replay(tail).cmds, err |-> replay(tail).err]
  BY <1>3 DEF ReadsLog
<1> DEFINE r == replay(tail)
<1>5. r = [cmds |-> r.cmds, err |-> r.err] /\ r.cmds \in Seq(Readable)
  BY ReplayRecord
<1>6. CASE i = 0
  <2>1. Upto(Pieces(ws), i) \o tail = tail
    <3>1. Upto(Pieces(ws), i) = <<>>
      BY <1>6, UptoNone
    <3> QED
      BY <3>1, ConcatEmptySeq DEF Bytes
  <2>2. Kept(SubSeq(ws, 1, i)) = <<>>
    BY <1>6, FirstNone, KeptOfNone
  <2> HIDE DEF r
  <2>3. <<>> \o r.cmds = r.cmds
    BY <1>5, ConcatEmptySeq
  <2> QED
    BY <1>4, <1>5, <2>1, <2>2, <2>3 DEF r
<1>7. CASE i # 0
  <2> DEFINE w == ws[i]
             u == Upto(Pieces(ws), i - 1)
             p == Written(w)
             k == Kept(SubSeq(ws, 1, i - 1))
             t == Text(w.cmd)
             b == p \o tail
             q == replay(b)
  <2>1. i \in 1 .. Len(ws) /\ i - 1 \in 0 .. Len(ws) /\ i \in 1 .. i /\ Whole_(i - 1)
    BY <1>0, <1>3, <1>7
  <2>2. w \in Writes /\ ~IsTorn(w)
    BY <1>3, <2>1, ElementOfSeq
  <2>3. p \in Bytes /\ w.cmd \in CommandArrays /\ (Whole(w) => p = encodeRESPArray(w.cmd)) /\ (~Whole(w) => p = <<>>)
    <3> HIDE DEF w
    <3> QED
      BY <2>2, WrittenIs
  <2>4. Upto(Pieces(ws), i) = u \o p /\ u \in Bytes
    <3>1. Pieces(ws) \in Seq(Bytes) /\ Len(Pieces(ws)) = Len(ws) /\ Pieces(ws)[i] = p
      BY <2>1, PiecesAre
    <3> HIDE DEF p, w
    <3> QED
      BY <2>1, <3>1, UptoMore, UptoType
  <2>5. b \in Bytes /\ (u \o p) \o tail = u \o b
    <3> HIDE DEF p, u, w
    <3> QED
      BY <2>3, <2>4, Joined, JoinedThrice
  <2>6. replay(u \o b) = [cmds |-> k \o q.cmds, err |-> q.err]
    <3>1. ReadsLog(ws, i - 1)
      BY <1>3, <2>1
    <3> HIDE DEF b
    <3> QED
      BY <2>5, <3>1 DEF ReadsLog
  <2>7. k \in Seq(Readable)
    <3>1. k \in Seq(Readable \intersect CommandArrays)
      BY <2>1, KeptType
    <3> HIDE DEF k
    <3> QED
      BY <3>1
  <2>8. t \in Readable
    <3> HIDE DEF w
    <3> QED
      BY <2>3, CommandRead DEF t
  <2>9. Kept(SubSeq(ws, 1, i)) = IF Whole(w) THEN Append(k, t) ELSE k
    BY <2>1, KeptNext
  <2>10. CASE Whole(w)
    <3>1. q = [cmds |-> <<t>> \o r.cmds, err |-> r.err]
      <4> HIDE DEF w, p
      <4> QED
        BY <2>3, <2>10, ReplayWhole DEF t
    <3> HIDE DEF q, r, t, k
    <3>2. q.cmds = <<t>> \o r.cmds /\ q.err = r.err
      BY <3>1
    <3>3. k \o (<<t>> \o r.cmds) = Append(k, t) \o r.cmds
      <4> DEFINE x == r.cmds
                 y == <<t>>
      <4>1. x \in Seq(Readable) /\ y \in Seq(Readable)
        BY <1>5, <2>8 DEF r
      <4> HIDE DEF x, y
      <4>2. k \o (y \o x) = (k \o y) \o x
        BY SMTT(30), <2>7, <4>1, ConcatAssociative
      <4>3. Append(k, t) = k \o <<t>>
        BY <2>7, <2>8, AppendIsConcat
      <4> QED
        BY <4>2, <4>3 DEF x, y
    <3> HIDE DEF u, p, w, b
    <3>4. replay(Upto(Pieces(ws), i) \o tail) = [cmds |-> k \o (<<t>> \o r.cmds), err |-> r.err]
      BY <2>4, <2>5, <2>6, <3>2 DEF q
    <3>5. Kept(SubSeq(ws, 1, i)) = Append(k, t)
      BY <2>9, <2>10
    <3> QED
      BY <1>4, <3>3, <3>4, <3>5 DEF r
  <2>11. CASE ~Whole(w)
    <3>1. b = tail
      <4>1. p = <<>>
        BY <2>3, <2>11
      <4> QED
        BY <4>1, ConcatEmptySeq DEF Bytes
    <3> HIDE DEF u, p, w, b, k
    <3>2. replay(Upto(Pieces(ws), i) \o tail) = [cmds |-> k \o r.cmds, err |-> r.err]
      BY <2>4, <2>5, <2>6, <3>1
    <3>3. Kept(SubSeq(ws, 1, i)) = k
      BY <2>9, <2>11
    <3> QED
      BY <1>4, <3>2, <3>3
  <2> QED
    BY <2>10, <2>11
<1> QED
  BY <1>6, <1>7

Codes(cmds) == [i \in DOMAIN cmds |-> encodeRESPArray(cmds[i])]

\* The bytes of commands.
LEMMA CodesAre ==
  ASSUME NEW cmds \in Seq(CommandArrays)
  PROVE  Codes(cmds) \in Seq(Bytes) /\ Len(Codes(cmds)) = Len(cmds) /\ Len(cmds) \in Nat
         /\ \A i \in 1 .. Len(cmds) : Codes(cmds)[i] = encodeRESPArray(cmds[i])
<1>1. Len(cmds) \in Nat /\ DOMAIN cmds = 1 .. Len(cmds) /\ \A i \in 1 .. Len(cmds) : cmds[i] \in CommandArrays
  BY LenProperties, ElementOfSeq
<1>2. \A i \in 1 .. Len(cmds) : encodeRESPArray(cmds[i]) \in Bytes
  BY <1>1, CommandCoded
<1> QED
  BY <1>1, <1>2 DEF Codes

\* One command more.
LEMMA CodesMore ==
  ASSUME NEW cmds \in Seq(CommandArrays), NEW c \in CommandArrays
  PROVE  Codes(Append(cmds, c)) = Append(Codes(cmds), encodeRESPArray(c))
<1> DEFINE t == Append(cmds, c)
           n == Len(cmds)
           x == encodeRESPArray(c)
           p == Codes(cmds)
           q == Append(p, x)
<1>1. n \in Nat /\ t \in Seq(CommandArrays) /\ Len(t) = n + 1 /\ t[n + 1] = c /\ \A i \in 1 .. n : t[i] = cmds[i]
  BY AppendProperties, LenProperties
<1>2. p \in Seq(Bytes) /\ Len(p) = n /\ \A i \in 1 .. n : p[i] = encodeRESPArray(cmds[i])
  BY CodesAre
<1>3. x \in Bytes
  BY CommandCoded
<1>4. q \in Seq(Bytes) /\ Len(q) = n + 1 /\ q[n + 1] = x /\ \A i \in 1 .. n : q[i] = p[i]
  <2> HIDE DEF p, n, x
  <2> QED
    BY <1>1, <1>2, <1>3, AppendProperties
<1>5. Codes(t) \in Seq(Bytes) /\ Len(Codes(t)) = n + 1 /\ \A i \in 1 .. n + 1 : Codes(t)[i] = encodeRESPArray(t[i])
  <2> HIDE DEF t, n
  <2> QED
    BY <1>1, CodesAre
<1>6. \A i \in 1 .. n + 1 : Codes(t)[i] = q[i]
  <2> HIDE DEF t, q, p
  <2> QED
    BY <1>1, <1>2, <1>4, <1>5
<1> HIDE DEF t, q, p, n, x
<1>7. Codes(t) = q
  BY <1>1, <1>4, <1>5, <1>6, SeqEqual
<1> QED
  BY <1>7 DEF t, q, p, x

\* What is kept of the first writes is encoded as the bytes that were written.
LEMMA KeptCodes ==
  ASSUME NEW ws \in Seq(Writes)
  PROVE  \A i \in 0 .. Len(ws) : (\A j \in 1 .. i : ~IsTorn(ws[j])) =>
           Concat(Codes(Kept(SubSeq(ws, 1, i)))) = Upto(Pieces(ws), i)
<1> DEFINE Whole_(i) == \A j \in 1 .. i : ~IsTorn(ws[j])
           K(i) == Kept(SubSeq(ws, 1, i))
           P(i) == Concat(Codes(K(i))) = Upto(Pieces(ws), i)
           T == {i \in 0 .. Len(ws) : Whole_(i) /\ ~P(i)}
<1>0. Len(ws) \in Nat
  BY LenProperties
<1>1. SUFFICES ASSUME T # {} PROVE FALSE
  OBVIOUS
<1>2. PICK i \in T : i - 1 \notin T
  <2>1. T \in SUBSET Nat
    BY <1>0
  <2> HIDE DEF T
  <2> QED
    BY <1>1, <2>1, FirstNumber
<1>3. i \in 0 .. Len(ws) /\ Whole_(i) /\ (i - 1 \in 0 .. Len(ws) /\ Whole_(i - 1) => P(i - 1)) /\ ~P(i)
  <2> HIDE DEF Whole_, P
  <2> QED
    BY <1>2
<1> HIDE DEF T
<1>4. CASE i = 0
  <2>1. K(i) = <<>> /\ Upto(Pieces(ws), i) = <<>>
    BY <1>4, FirstNone, KeptOfNone, UptoNone
  <2>2. Codes(<<>>) = <<>>
    BY DEF Codes
  <2> QED
    BY <1>3, <2>1, <2>2, ConcatOfNone
<1>5. CASE i # 0
  <2> DEFINE w == ws[i]
             k == K(i - 1)
             t == Text(w.cmd)
             p == Written(w)
             u == Upto(Pieces(ws), i - 1)
  <2>1. i \in 1 .. Len(ws) /\ i - 1 \in 0 .. Len(ws) /\ i \in 1 .. i /\ Whole_(i - 1)
    BY <1>0, <1>3, <1>5
  <2>2. w \in Writes /\ ~IsTorn(w)
    BY <1>3, <2>1, ElementOfSeq
  <2>3. p \in Bytes /\ w.cmd \in CommandArrays /\ (Whole(w) => p = encodeRESPArray(w.cmd)) /\ (~Whole(w) => p = <<>>)
    <3> HIDE DEF w
    <3> QED
      BY <2>2, WrittenIs
  <2>4. Upto(Pieces(ws), i) = u \o p /\ u \in Bytes
    <3>1. Pieces(ws) \in Seq(Bytes) /\ Len(Pieces(ws)) = Len(ws) /\ Pieces(ws)[i] = p
      BY <2>1, PiecesAre
    <3> HIDE DEF p, w
    <3> QED
      BY <2>1, <3>1, UptoMore, UptoType
  <2>5. K(i) = IF Whole(w) THEN Append(k, t) ELSE k
    BY <2>1, KeptNext
  <2>6. k \in Seq(CommandArrays)
    <3>1. k \in Seq(Readable \intersect CommandArrays)
      BY <2>1, KeptType
    <3> HIDE DEF k
    <3> QED
      BY <3>1
  <2>7. t \in CommandArrays /\ encodeRESPArray(t) = encodeRESPArray(w.cmd)
    <3> HIDE DEF w
    <3> QED
      BY <2>3, CommandCoded
  <2>8. Concat(Codes(k)) = u
    BY <1>3, <2>1
  <2> HIDE DEF K, t, k, u, p, w
  <2>9. CASE Whole(w)
    <3>1. Codes(Append(k, t)) = Append(Codes(k), encodeRESPArray(t))
      BY <2>6, <2>7, CodesMore
    <3>2. Codes(k) \in Seq(Bytes) /\ encodeRESPArray(t) \in Bytes
      BY <2>6, <2>7, CodesAre, CommandCoded
    <3> DEFINE x == encodeRESPArray(t)
               y == Codes(k)
    <3>3. x \in Bytes /\ y \in Seq(Bytes)
      BY <3>2
    <3> HIDE DEF x, y
    <3>4. Concat(Append(y, x)) = Concat(y) \o x
      BY <3>3, ConcatOfMore
    <3> QED
      BY <1>3, <2>3, <2>4, <2>5, <2>7, <2>8, <2>9, <3>1, <3>4 DEF x, y
  <2>10. CASE ~Whole(w)
    <3>1. u \o p = u
      BY <2>3, <2>4, <2>10, ConcatEmptySeq DEF Bytes
    <3> QED
      BY <1>3, <2>4, <2>5, <2>8, <2>10, <3>1
  <2> QED
    BY <2>9, <2>10
<1> QED
  BY <1>4, <1>5

\* More texts are the first ones and a rest.
LEMMA UptoSplit ==
  ASSUME NEW es \in Seq(Bytes), NEW i \in 0 .. Len(es)
  PROVE  \A j \in 0 .. Len(es) : i <= j => \E rest \in Bytes : Upto(es, j) = Upto(es, i) \o rest
<1> DEFINE S(j) == \E rest \in Bytes : Upto(es, j) = Upto(es, i) \o rest
           T == {j \in 0 .. Len(es) : i <= j /\ ~S(j)}
<1>0. Len(es) \in Nat /\ Upto(es, i) \in Bytes
  BY LenProperties, UptoType
<1>1. SUFFICES ASSUME T # {} PROVE FALSE
  OBVIOUS
<1>2. PICK j \in T : j - 1 \notin T
  <2>1. T \in SUBSET Nat
    BY <1>0
  <2> HIDE DEF T
  <2> QED
    BY <1>1, <2>1, FirstNumber
<1>3. j \in 0 .. Len(es) /\ i <= j /\ ~S(j) /\ (j - 1 \in 0 .. Len(es) /\ i <= j - 1 => S(j - 1))
  <2> HIDE DEF S
  <2> QED
    BY <1>2
<1> HIDE DEF T
<1>4. CASE i = j
  <2>1. Upto(es, i) \o <<>> = Upto(es, i) /\ <<>> \in Bytes
    BY <1>0, ConcatEmptySeq DEF Bytes
  <2> QED
    BY <1>3, <1>4, <2>1
<1>5. CASE i # j
  <2>1. j \in 1 .. Len(es) /\ j - 1 \in 0 .. Len(es) /\ i <= j - 1
    BY <1>0, <1>3, <1>5
  <2>2. PICK rest \in Bytes : Upto(es, j - 1) = Upto(es, i) \o rest
    BY <1>3, <2>1
  <2>3. Upto(es, j) = Upto(es, j - 1) \o es[j] /\ es[j] \in Bytes
    BY <2>1, UptoMore, ElementOfSeq
  <2> DEFINE u == Upto(es, i)
             e == es[j]
  <2>4. u \in Bytes /\ e \in Bytes
    BY <1>0, <2>3
  <2> HIDE DEF u, e
  <2>5. (u \o rest) \o e = u \o (rest \o e) /\ rest \o e \in Bytes
    BY ZenonT(30), <2>4, Joined, JoinedThrice
  <2> QED
    BY <1>3, <2>2, <2>3, <2>5 DEF u, e
<1> QED
  BY <1>4, <1>5

\* Nothing is read from an empty file.
LEMMA NothingRead ==
  replay(<<>>) = [cmds |-> <<>>, err |-> "EOF"] /\ <<>> \in Bytes
<1> DEFINE v == ParseRESP(<<>>)
<1>1. <<>> \in Bytes
  BY DEF Bytes
<1>2. v = Fail("EOF")
  BY <1>1, ParseRESPIs DEF ParseValue
<1> HIDE DEF v
<1>3. v.err = "EOF"
  BY <1>2, FailIs
<1>4. replay(<<>>) = IF v.err # "nil" THEN [cmds |-> <<>>, err |-> v.err] ELSE WithNext(v, replay(v.rest))
  BY <1>1, ReplayIs DEF v
<1> QED
  BY <1>1, <1>3, <1>4

\* The writes before the first that broke off.
LEMMA FirstTear ==
  ASSUME logged \in Seq(Writes)
  PROVE  \E i \in 0 .. Len(logged) :
           /\ Intact = Kept(SubSeq(logged, 1, i)) /\ \A j \in 1 .. i : ~IsTorn(logged[j])
           /\ Torn = {} => i = Len(logged)
           /\ Torn = {Len(logged)} => i = Len(logged) - 1 /\ Len(logged) > 0 /\ IsTorn(logged[Len(logged)])
<1> DEFINE n == Len(logged)
           S == Torn \union {n + 1}
<1>1. n \in Nat /\ DOMAIN logged = 1 .. n
  BY LenProperties
<1>2. Torn = {i \in 1 .. n : IsTorn(logged[i])}
  BY <1>1 DEF Torn, IsTorn
<1>3. PICK x \in S : \A y \in S : x <= y
  <2>1. S \in SUBSET Nat /\ S # {}
    <3> HIDE DEF n
    <3> QED
      BY <1>1, <1>2
  <2> HIDE DEF S
  <2> QED
    BY <2>1, LeastNumber
<1>4. Min(S) = x
  <2>1. S \subseteq Int
    <3> HIDE DEF n
    <3> QED
      BY <1>1, <1>2
  <2> HIDE DEF S
  <2> QED
    BY <1>3, <2>1, MinIs
<1>5. x \in 1 .. n + 1 /\ x - 1 \in 0 .. n
  <2> HIDE DEF n
  <2> QED
    BY <1>1, <1>2, <1>3
<1>6. Intact = Kept(SubSeq(logged, 1, x - 1))
  BY <1>4 DEF Intact
<1>7. \A j \in 1 .. x - 1 : ~IsTorn(logged[j])
  <2> HIDE DEF n
  <2> QED
    BY <1>1, <1>2, <1>3, <1>5
<1>8. Torn = {} => x - 1 = n
  <2> HIDE DEF n
  <2> QED
    BY <1>1, <1>3
<1>9. Torn = {n} => x - 1 = n - 1 /\ n > 0 /\ IsTorn(logged[n])
  <2> HIDE DEF n
  <2> QED
    BY <1>1, <1>2, <1>3
<1> QED
  BY <1>5, <1>6, <1>7, <1>8, <1>9

LogInv == logged \in Seq(Writes) /\ aof = Concat(Pieces(logged))

\* A replay of the log gives what was kept of the first writes, and then of the rest.
LEMMA LogIs ==
  ASSUME LogInv, NEW i \in 0 .. Len(logged), \A j \in 1 .. i : ~IsTorn(logged[j]),
         NEW rest \in Bytes, aof = Upto(Pieces(logged), i) \o rest
  PROVE  replay(aof) = [cmds |-> Kept(SubSeq(logged, 1, i)) \o replay(rest).cmds, err |-> replay(rest).err]
<1>1. logged \in Seq(Writes)
  BY DEF LogInv
<1>2. ReadsLog(logged, i)
  BY <1>1, LogRead
<1> QED
  BY <1>2 DEF ReadsLog

\* A log in which nothing broke off is read whole, up to EOF.
LEMMA WholeLog ==
  ASSUME LogInv, Torn = {}
  PROVE  /\ replay(aof) = [cmds |-> Intact, err |-> "EOF"]
         /\ Concat(Codes(Intact)) = aof /\ Intact \in Seq(CommandArrays)
         /\ Intact = Kept(logged)
<1> DEFINE n == Len(logged)
           es == Pieces(logged)
<1>1. logged \in Seq(Writes) /\ aof = Concat(es)
  BY DEF LogInv
<1>2. es \in Seq(Bytes) /\ Len(es) = n /\ n \in Nat
  BY <1>1, PiecesAre
<1>3. Intact = Kept(SubSeq(logged, 1, n)) /\ \A j \in 1 .. n : ~IsTorn(logged[j])
  BY <1>1, FirstTear
<1>4. Upto(es, n) = aof /\ aof \in Bytes /\ aof = Upto(es, n) \o <<>>
  <2>1. Upto(es, n) = aof /\ aof \in Bytes
    <3> HIDE DEF es
    <3>1. Upto(es, Len(es)) = Concat(es) /\ Concat(es) \in Bytes
      BY <1>2, UptoAll, ConcatType
    <3> QED
      BY <1>1, <1>2, <3>1
  <2> QED
    BY <2>1, ConcatEmptySeq DEF Bytes
<1>5. n \in 0 .. Len(logged)
  BY <1>2
<1> DEFINE k == Kept(SubSeq(logged, 1, n))
<1>6. replay(aof) = [cmds |-> k \o replay(<<>>).cmds, err |-> replay(<<>>).err]
  BY <1>3, <1>4, <1>5, NothingRead, LogIs
<1>7. k \in Seq(Readable \intersect CommandArrays)
  BY <1>1, <1>5, KeptType
<1>8. k \o <<>> = k /\ k \in Seq(CommandArrays)
  <2> HIDE DEF k
  <2> QED
    BY <1>7, ConcatEmptySeq
<1>9. Concat(Codes(k)) = aof
  BY <1>1, <1>3, <1>4, <1>5, KeptCodes
<1>10. SubSeq(logged, 1, n) = logged
  BY <1>1, SubSeqFull
<1>11. replay(aof) = [cmds |-> k, err |-> "EOF"]
  <2> HIDE DEF k
  <2>1. replay(<<>>).cmds = <<>> /\ replay(<<>>).err = "EOF"
    BY NothingRead
  <2> QED
    BY <1>6, <1>8, <2>1
<1> QED
  BY <1>3, <1>8, <1>9, <1>10, <1>11

\* One whose last write broke off is read up to it, and the error says where it broke off.
LEMMA TornLog ==
  ASSUME LogInv, Torn = {Len(logged)}, NEW last, last = logged[Len(logged)]
  PROVE  replay(aof) = [cmds |-> Intact,
                        err  |-> IF InArgument(last.cmd, last.bytes) THEN "unexpected EOF" ELSE "EOF"]
<1> DEFINE n == Len(logged)
           m == n - 1
           es == Pieces(logged)
           p == Written(last)
           e == encodeRESPArray(last.cmd)
           x == IF last.bytes \in InString[MaxDepth][Arr(last.cmd)] THEN "unexpected EOF" ELSE "EOF"
<1>1. logged \in Seq(Writes) /\ aof = Concat(es)
  BY DEF LogInv
<1>2. es \in Seq(Bytes) /\ Len(es) = n /\ n \in Nat /\ \A i \in 1 .. n : es[i] = Written(logged[i])
  BY <1>1, PiecesAre
<1>3. Intact = Kept(SubSeq(logged, 1, m)) /\ (\A j \in 1 .. m : ~IsTorn(logged[j])) /\ n > 0 /\ IsTorn(last)
  BY <1>1, FirstTear
<1>4. n \in 1 .. Len(es) /\ m \in 0 .. n /\ es[n] = p
  <2>1. n \in 1 .. n
    BY <1>2, <1>3
  <2> HIDE DEF es, p
  <2> QED
    BY <1>2, <1>3, <2>1 DEF p
<1>5. last \in Writes
  <2>1. n \in 1 .. Len(logged)
    BY <1>2, <1>3
  <2> QED
    BY <1>1, <2>1, ElementOfSeq
<1>6. p \in Bytes
  BY <1>5, WrittenIs
<1>7. aof = Upto(es, m) \o p
  <2> HIDE DEF es, p
  <2>1. Upto(es, Len(es)) = Concat(es)
    BY <1>2, UptoAll
  <2>2. Upto(es, n) = Upto(es, n - 1) \o es[n]
    BY <1>2, <1>4, UptoMore
  <2> QED
    BY <1>1, <1>2, <1>4, <2>1, <2>2
<1> DEFINE k == Kept(SubSeq(logged, 1, m))
<1>8. replay(aof) = [cmds |-> k \o replay(p).cmds, err |-> replay(p).err]
  <2> HIDE DEF p, m
  <2> QED
    BY <1>3, <1>4, <1>6, <1>7, LogIs DEF m
<1>9. replay(p) = [cmds |-> <<>>, err |-> x]
  <2> DEFINE v == ParseRESP(p)
  <2>1. last.cmd \in CommandArrays /\ last.bytes \in 0 .. Len(e) - 1
    <3>1. last.cmd \in CommandArrays /\ last.bytes \in 0 .. Len(e) /\ Len(e) \in Nat
      BY <1>5, WrittenIs
    <3>2. last.bytes # Len(e)
      BY <1>3 DEF IsTorn, Whole
    <3> HIDE DEF e
    <3> QED
      BY <3>1, <3>2
  <2>2. Back(e, Arr(Text(last.cmd)), InString[MaxDepth][Arr(last.cmd)])
    BY <2>1, CommandCoded
  <2>3. v = Fail(x)
    BY <2>1, <2>2 DEF Back, Written
  <2> HIDE DEF p
  <2>4. replay(p) = IF v.err # "nil" THEN [cmds |-> <<>>, err |-> v.err] ELSE WithNext(v, replay(v.rest))
    BY <1>6, ReplayIs
  <2>5. x # "nil"
    OBVIOUS
  <2> HIDE DEF v, x
  <2>6. v.err = x
    BY <2>3, FailIs
  <2> QED
    BY <2>4, <2>5, <2>6
<1>10. k \o <<>> = k
  <2>1. k \in Seq(Readable \intersect CommandArrays)
    BY <1>1, <1>4, KeptType
  <2> HIDE DEF k
  <2> QED
    BY <2>1, ConcatEmptySeq
<1>11. replay(p).cmds = <<>> /\ replay(p).err = x
  <2> HIDE DEF p, x
  <2> QED
    BY <1>9
<1> HIDE DEF k, p, x
<1>12. replay(aof) = [cmds |-> k, err |-> x]
  BY <1>8, <1>10, <1>11
<1> QED
  BY <1>3, <1>12 DEF InArgument, k, x

\* The log is read back, in every state in which it consists of what was written.
LEMMA LogIsReadBack ==
  ASSUME LogInv
  PROVE  LogReadsBack
<1> DEFINE r == replay(aof)
           last == logged[Len(logged)]
           es == Pieces(logged)
<1>1. logged \in Seq(Writes) /\ aof = Concat(es)
  BY DEF LogInv
<1>2. SubSeq(r.cmds, 1, Len(Intact)) = Intact
  <2>1. es \in Seq(Bytes) /\ Len(es) = Len(logged) /\ Len(logged) \in Nat
    BY <1>1, PiecesAre
  <2>2. PICK i \in 0 .. Len(logged) : Intact = Kept(SubSeq(logged, 1, i)) /\ \A j \in 1 .. i : ~IsTorn(logged[j])
    BY <1>1, FirstTear
  <2>3. PICK rest \in Bytes : aof = Upto(es, i) \o rest
    <3> HIDE DEF es
    <3>1. i \in 0 .. Len(es) /\ Len(es) \in 0 .. Len(es) /\ i <= Len(es)
      BY <2>1
    <3>2. \E rest \in Bytes : Upto(es, Len(es)) = Upto(es, i) \o rest
      BY <2>1, <3>1, UptoSplit
    <3>3. Upto(es, Len(es)) = Concat(es)
      BY <2>1, UptoAll
    <3> QED
      BY <1>1, <3>2, <3>3
  <2>4. r = [cmds |-> Kept(SubSeq(logged, 1, i)) \o replay(rest).cmds, err |-> replay(rest).err]
    BY <2>2, <2>3, LogIs
  <2> DEFINE k == Kept(SubSeq(logged, 1, i))
             q == replay(rest).cmds
  <2>5. k \in Seq(Readable \intersect CommandArrays) /\ q \in Seq(Readable)
    BY <1>1, KeptType, ReplayRecord
  <2>6. k \in Seq(Readable)
    <3> HIDE DEF k
    <3> QED
      BY <2>5
  <2>7. r.cmds = k \o q
    <3>1. r = [cmds |-> k \o q, err |-> replay(rest).err]
      BY <2>4
    <3> HIDE DEF r, k, q
    <3> QED
      BY <3>1
  <2> HIDE DEF k, q, r
  <2>8. SubSeq(k \o q, 1, Len(k)) = k
    <3>1. Len(k) \in 0 .. Len(k) + Len(q) /\ Len(k) <= Len(k) /\ SubSeq(k, 1, Len(k)) = k
      BY <2>5, <2>6, LenProperties, SubSeqFull
    <3> QED
      BY <2>5, <2>6, <3>1, FirstOfTwo
  <2> QED
    BY <2>2, <2>7, <2>8 DEF k
<1>3. ASSUME Torn = {}
      PROVE  r = [cmds |-> Intact, err |-> "EOF"] /\ Concat([i \in DOMAIN r.cmds |-> encodeRESPArray(r.cmds[i])]) = aof
  <2>1. r = [cmds |-> Intact, err |-> "EOF"] /\ Concat(Codes(Intact)) = aof
    BY <1>3, WholeLog
  <2>2. r.cmds = Intact
    BY <2>1
  <2> HIDE DEF r
  <2> QED
    BY <2>1, <2>2 DEF Codes
<1>4. ASSUME Torn = {Len(logged)}
      PROVE  r = [cmds |-> Intact,
                  err  |-> IF InArgument(last.cmd, last.bytes) THEN "unexpected EOF" ELSE "EOF"]
  BY <1>4, TornLog
<1> HIDE DEF r, last
<1> QED
  BY <1>2, <1>3, <1>4 DEF LogReadsBack, r, last

-------------------------------------------------------------------------------
(* The RDB file: no reader looks behind what it takes.                     *)

\* A reader that succeeds with b does so whatever is behind b, which it leaves: r is what it makes
\* of b, and more what it makes of b and c.
Local(r, b, more, c) ==
  r.err = "nil" => r.rest \in Bytes /\ Len(r.rest) <= Len(b) /\ more = Ok(r.val, r.rest \o c)

\* readByte and io.ReadFull are such readers.
LEMMA ReadByteLocal ==
  ASSUME NEW b \in Bytes, NEW c \in Bytes
  PROVE  Local(readByte(b), b, readByte(b \o c), c) /\ (readByte(b).err = "nil" => readByte(b).val \in Byte)
<1>1. CASE b = <<>>
  <2>1. readByte(b) = Fail("EOF")
    BY <1>1 DEF readByte
  <2>2. readByte(b).err # "nil"
    BY <2>1, FailIs
  <2> QED
    BY <2>2 DEF Local
<1>2. CASE b # <<>>
  <2>1. Tail(b) \in Bytes /\ Len(Tail(b)) = Len(b) - 1 /\ b[1] \in Byte /\ Len(b) \in Nat /\ Len(b) > 0
    BY <1>2, TailOf, BytesHaveLength
  <2>2. b \o c # <<>> /\ (b \o c)[1] = b[1] /\ Tail(b \o c) = Tail(b) \o c
    BY <1>2 DEF Bytes
  <2>3. readByte(b) = Ok(b[1], Tail(b)) /\ readByte(b \o c) = Ok(b[1], Tail(b) \o c)
    BY <1>2, <2>2 DEF readByte
  <2> DEFINE x == b[1]
             y == Tail(b)
             r == readByte(b)
  <2>4. Len(y) <= Len(b) /\ y \in Bytes /\ x \in Byte /\ r = Ok(x, y) /\ readByte(b \o c) = Ok(x, y \o c)
    BY <2>1, <2>3
  <2> HIDE DEF x, y, r
  <2>5. r.val = x /\ r.rest = y
    BY <2>4, OkIs
  <2>6. Local(r, b, readByte(b \o c), c) /\ r.val \in Byte
    BY <2>4, <2>5 DEF Local
  <2> QED
    BY <2>6 DEF r
<1> QED
  BY <1>1, <1>2

\* A text is its first bytes and the others.
LEMMA Cut ==
  ASSUME NEW b \in Bytes, NEW n \in 0 .. Len(b)
  PROVE  b = SubSeq(b, 1, n) \o SubSeq(b, n + 1, Len(b))
<1> DEFINE B == Len(b)
           v == SubSeq(b, 1, n)
           t == SubSeq(b, n + 1, B)
<1>1. B \in Nat /\ b \in Seq(Byte)
  BY BytesHaveLength
<1>2. v \in Seq(Byte) /\ Len(v) = n /\ \A i \in 1 .. n : v[i] = b[i]
  BY FirstPart DEF Bytes
<1>3. n + 1 \in Nat /\ n + 1 > 0 /\ B \in Int /\ B <= Len(b)
  BY <1>1
<1>4. t \in Seq(Byte) /\ Len(t) = (IF n + 1 <= B THEN B - (n + 1) + 1 ELSE 0)
      /\ \A i \in 1 .. B - (n + 1) + 1 : t[i] = b[n + 1 + i - 1]
  <2> HIDE DEF B
  <2> QED
    BY <1>1, <1>3, PartOf
<1> HIDE DEF v, t
<1>5. v \o t \in Seq(Byte) /\ Len(v \o t) = Len(v) + Len(t)
      /\ \A i \in 1 .. Len(v) + Len(t) : (v \o t)[i] = IF i <= Len(v) THEN v[i] ELSE t[i - Len(v)]
  BY <1>2, <1>4, ConcatProperties
<1>6. Len(t) = B - n /\ \A i \in 1 .. B - n : t[i] = b[n + i]
  <2>1. \A i \in 1 .. B - n : n + 1 + i - 1 = n + i /\ i \in 1 .. B - (n + 1) + 1
    BY <1>1
  <2>2. Len(t) = B - n
    BY <1>1, <1>4
  <2> HIDE DEF B
  <2> QED
    BY <1>4, <2>1, <2>2
<1>7. Len(v \o t) = B
  BY <1>1, <1>2, <1>5, <1>6
<1>8. ASSUME NEW i \in 1 .. B PROVE (v \o t)[i] = b[i]
  <2>1. CASE i <= n
    BY <1>1, <1>2, <1>5, <1>6, <2>1
  <2>2. CASE ~(i <= n)
    <3>1. i - n \in 1 .. B - n /\ n + (i - n) = i /\ i \in 1 .. Len(v) + Len(t) /\ ~(i <= Len(v))
      BY <1>1, <1>2, <1>6, <2>2
    <3>2. (v \o t)[i] = t[i - n]
      BY <1>2, <1>5, <3>1
    <3> QED
      BY <1>6, <3>1, <3>2
  <2> QED
    BY <2>1, <2>2
<1>9. b = v \o t
  BY <1>1, <1>5, <1>7, <1>8, SeqEqual
<1> QED
  BY <1>9 DEF v, t

LEMMA ReadFullLocal ==
  ASSUME NEW b \in Bytes, NEW c \in Bytes, NEW n \in Nat
  PROVE  /\ Local(ReadFull(b, n), b, ReadFull(b \o c, n), c)
         /\ ReadFull(b, n).err = "nil" => ReadFull(b, n).val \in Bytes /\ Len(ReadFull(b, n).val) = n
<1>0. Len(b) \in Nat /\ Len(c) \in Nat /\ b \o c \in Bytes /\ Len(b \o c) = Len(b) + Len(c)
  BY Joined
<1>1. CASE ~(Len(b) >= n)
  <2> DEFINE e == IF b = <<>> THEN "EOF" ELSE "unexpected EOF"
  <2>1. ReadFull(b, n) = Fail(e) /\ e # "nil"
    BY <1>1 DEF ReadFull
  <2> HIDE DEF e
  <2>2. ReadFull(b, n).err # "nil"
    BY <2>1, FailIs
  <2> QED
    BY <2>2 DEF Local
<1>2. CASE Len(b) >= n
  <2> DEFINE v == SubSeq(b, 1, n)
             t == SubSeq(b, n + 1, Len(b))
             w == SubSeq(b \o c, 1, n)
             u == SubSeq(b \o c, n + 1, Len(b \o c))
  <2>1. ReadFull(b, n) = Ok(v, t)
    BY <1>2 DEF ReadFull
  <2>2. ReadFull(b \o c, n) = Ok(w, u)
    <3>1. Len(b \o c) >= n
      BY <1>0, <1>2
    <3> QED
      BY <3>1 DEF ReadFull
  <2>3. v \in Bytes /\ Len(v) = n
    <3>1. n \in 0 .. Len(b)
      BY <1>0, <1>2
    <3> QED
      BY <3>1, FirstPart
  <2>4. w = v
    <3>1. n \in 0 .. Len(b) + Len(c) /\ n <= Len(b)
      BY <1>0, <1>2
    <3> QED
      BY <3>1, FirstOfTwoTexts
  <2>5. t \in Bytes /\ Len(t) = Len(b) - n
    <3>1. n + 1 \in Nat /\ n + 1 > 0 /\ Len(b) \in Int /\ Len(b) <= Len(b) /\ b \in Seq(Byte)
      BY <1>0 DEF Bytes
    <3>2. t \in Seq(Byte) /\ Len(t) = IF n + 1 <= Len(b) THEN Len(b) - (n + 1) + 1 ELSE 0
      BY <3>1, PartOf
    <3> DEFINE L == Len(t)
               B == Len(b)
    <3>3. L = IF n + 1 <= B THEN B - (n + 1) + 1 ELSE 0
      BY <3>2
    <3>4. B \in Nat /\ B >= n
      BY <1>0, <1>2
    <3> HIDE DEF L, B, t
    <3>5. L = B - n
      BY <3>3, <3>4
    <3> QED
      BY <3>2, <3>5 DEF L, B, Bytes
  <2>6. u = t \o c
    <3>1. b = v \o t
      <4>1. n \in 0 .. Len(b)
        BY <1>0, <1>2
      <4> QED
        BY <4>1, Cut
    <3> HIDE DEF v, t, u
    <3>2. (v \o t) \o c = v \o (t \o c) /\ t \o c \in Bytes
      BY <2>3, <2>5, Joined, JoinedThrice
    <3> DEFINE z == t \o c
    <3>3. SubSeq(v \o z, Len(v) + 1, Len(v \o z)) = z
      <4>1. z \in Bytes
        BY <3>2
      <4> HIDE DEF z
      <4> QED
        BY <2>3, <4>1, LastOfTwo DEF Bytes
    <3>4. u = SubSeq(v \o z, n + 1, Len(v \o z))
      BY <3>1, <3>2 DEF u
    <3> QED
      BY <2>3, <3>3, <3>4
  <2>7. Len(t) <= Len(b)
    BY <1>0, <2>5
  <2> HIDE DEF v, t, w, u
  <2>8. ReadFull(b, n).err = "nil" /\ ReadFull(b, n).val = v /\ ReadFull(b, n).rest = t
    BY <2>1, OkIs
  <2> QED
    BY <2>2, <2>3, <2>4, <2>5, <2>6, <2>7, <2>8 DEF Local
<1> QED
  BY <1>1, <1>2

\* One reader behind another.
LEMMA LocalThen ==
  ASSUME NEW b \in Bytes, NEW c \in Bytes, NEW r, NEW more, Local(r, b, more, c),
         NEW x, NEW y, r.err = "nil" => Local(x, r.rest, y, c)
  PROVE  Local(IF r.err # "nil" THEN r ELSE x, b, IF more.err # "nil" THEN more ELSE y, c)
<1>1. CASE r.err # "nil"
  BY <1>1 DEF Local
<1>2. CASE r.err = "nil"
  <2>1. r.rest \in Bytes /\ Len(r.rest) <= Len(b) /\ more = Ok(r.val, r.rest \o c)
    BY <1>2 DEF Local
  <2>2. Local(x, r.rest, y, c)
    BY <1>2
  <2>3. more.err = "nil"
    BY <2>1, OkIs
  <2>4. ASSUME x.err = "nil" PROVE x.rest \in Bytes /\ Len(x.rest) <= Len(b) /\ y = Ok(x.val, x.rest \o c)
    <3>1. x.rest \in Bytes /\ Len(x.rest) <= Len(r.rest) /\ y = Ok(x.val, x.rest \o c)
      BY <2>2, <2>4 DEF Local
    <3>2. Len(x.rest) \in Nat /\ Len(r.rest) \in Nat /\ Len(b) \in Nat
      BY <2>1, <3>1, BytesHaveLength
    <3> QED
      BY <2>1, <3>1, <3>2
  <2> QED
    BY <1>2, <2>3, <2>4 DEF Local
<1> QED
  BY <1>1, <1>2

\* A reader that reads no more.
LEMMA LocalOk ==
  ASSUME NEW rest \in Bytes, NEW c \in Bytes, NEW v
  PROVE  Local(Ok(v, rest), rest, Ok(v, rest \o c), c)
<1>1. Ok(v, rest).val = v /\ Ok(v, rest).rest = rest
  BY OkIs
<1>2. Len(rest) \in Nat
  BY BytesHaveLength
<1> QED
  BY <1>1, <1>2 DEF Local

\* A reader that fails.
LEMMA LocalFail ==
  ASSUME NEW rest, NEW c, NEW more, NEW e, e # "nil"
  PROVE  Local(Fail(e), rest, more, c)
BY FailIs DEF Local

\* What two readers that read the same have in common.
LEMMA LocalMore ==
  ASSUME NEW r, NEW b, NEW more, NEW c, Local(r, b, more, c), r.err = "nil"
  PROVE  r.rest \in Bytes /\ Len(r.rest) <= Len(b) /\ more = Ok(r.val, r.rest \o c)
         /\ more.err = "nil" /\ more.val = r.val /\ more.rest = r.rest \o c
<1>1. r.rest \in Bytes /\ Len(r.rest) <= Len(b) /\ more = Ok(r.val, r.rest \o c)
  BY DEF Local
<1> DEFINE v == r.val
           z == r.rest \o c
<1>2. more = Ok(v, z)
  BY <1>1
<1> HIDE DEF v, z
<1>3. more.err = "nil" /\ more.val = v /\ more.rest = z
  BY <1>2, OkIs
<1> QED
  BY <1>1, <1>3 DEF v, z

\* What is true of the rest of b is true of b.
LEMMA LocalBehind ==
  ASSUME NEW b \in Bytes, NEW rest \in Bytes, Len(rest) <= Len(b), NEW x, NEW y, NEW c, Local(x, rest, y, c)
  PROVE  Local(x, b, y, c)
<1> SUFFICES ASSUME x.err = "nil" PROVE x.rest \in Bytes /\ Len(x.rest) <= Len(b) /\ y = Ok(x.val, x.rest \o c)
  BY DEF Local
<1>1. x.rest \in Bytes /\ Len(x.rest) <= Len(rest) /\ y = Ok(x.val, x.rest \o c)
  BY DEF Local
<1>2. Len(x.rest) \in Nat /\ Len(rest) \in Nat /\ Len(b) \in Nat
  BY <1>1, BytesHaveLength
<1> QED
  BY <1>1, <1>2

\* What readLength makes of its first byte, and of what is behind it.
Short(first, rest) == Ok([length |-> first % 64, special |-> FALSE], rest)

Special(first, rest) == Ok([length |-> first % 64, special |-> TRUE], rest)

Middle(first, second, left) == Ok([length |-> 256 * (first % 64) + second, special |-> FALSE], left)

Long(four, left) == Ok([length |-> BigEndian(four), special |-> FALSE], left)

LEMMA LengthIs ==
  ASSUME NEW b \in Bytes
  PROVE  LET r == readByte(b)
             s == readByte(r.rest)
             t == ReadFull(r.rest, 4)
         IN  /\ r.err # "nil" => readLength(b) = r
             /\ r.err = "nil" /\ r.val \div 64 = 0 => readLength(b) = Short(r.val, r.rest)
             /\ r.err = "nil" /\ r.val \div 64 = 1 =>
                  readLength(b) = IF s.err # "nil" THEN s ELSE Middle(r.val, s.val, s.rest)
             /\ r.err = "nil" /\ r.val \div 64 = 2 =>
                  readLength(b) = IF t.err # "nil" THEN t ELSE Long(t.val, t.rest)
             /\ r.err = "nil" /\ r.val \div 64 = 3 => readLength(b) = Special(r.val, r.rest)
<1> DEFINE r == readByte(b)
           s == readByte(r.rest)
           t == ReadFull(r.rest, 4)
           q == r.val \div 64
<1>1. r.err # "nil" => readLength(b) = r
  BY DEF readLength, Then
<1>2. ASSUME r.err = "nil" 
      PROVE  readLength(b) =
               CASE q = 0 -> Short(r.val, r.rest)
                 [] q = 1 -> IF s.err # "nil" THEN s ELSE Middle(r.val, s.val, s.rest)
                 [] q = 2 -> IF t.err # "nil" THEN t ELSE Long(t.val, t.rest)
                 [] q = 3 -> Special(r.val, r.rest)
  BY <1>2 DEF readLength, Then, Short, Special, Middle, Long
<1> HIDE DEF r, s, t
<1>3. ASSUME r.err = "nil", q = 0 PROVE readLength(b) = Short(r.val, r.rest)
  BY <1>2, <1>3
<1>4. ASSUME r.err = "nil", q = 1
      PROVE readLength(b) = IF s.err # "nil" THEN s ELSE Middle(r.val, s.val, s.rest)
  <2>1. ~(q = 0)
    BY <1>4
  <2> HIDE DEF q
  <2> QED
    BY <1>2, <1>4, <2>1
<1>5. ASSUME r.err = "nil", q = 2
      PROVE readLength(b) = IF t.err # "nil" THEN t ELSE Long(t.val, t.rest)
  <2>1. ~(q = 0) /\ ~(q = 1)
    BY <1>5
  <2> HIDE DEF q
  <2> QED
    BY <1>2, <1>5, <2>1
<1>6. ASSUME r.err = "nil", q = 3 PROVE readLength(b) = Special(r.val, r.rest)
  <2>1. ~(q = 0) /\ ~(q = 1) /\ ~(q = 2)
    BY <1>6
  <2> HIDE DEF q
  <2> QED
    BY <1>2, <1>6, <2>1
<1> QED
  BY <1>1, <1>3, <1>4, <1>5, <1>6 DEF r, s, t

\* readLength reads no more than the length, which is a number.
LengthLocal(b, c) ==
  /\ Local(readLength(b), b, readLength(b \o c), c)
  /\ readLength(b).err = "nil" => readLength(b).val.length \in Nat /\ readLength(b).val.special \in BOOLEAN

LEMMA ReadLengthLocal ==
  ASSUME NEW b \in Bytes, NEW c \in Bytes
  PROVE  LengthLocal(b, c)
<1> DEFINE r == readByte(b)
           R == readByte(b \o c)
<1>0. b \o c \in Bytes
  BY Joined
<1>1. Local(r, b, R, c)
  BY ReadByteLocal
<1>2. CASE r.err # "nil"
  <2>1. readLength(b) = r
    BY <1>2, LengthIs
  <2> QED
    BY <1>2, <2>1 DEF LengthLocal, Local
<1>3. CASE r.err = "nil"
  <2> DEFINE v == r.val
             rest == r.rest
  <2>1. rest \in Bytes /\ Len(rest) <= Len(b) /\ R.err = "nil" /\ R.val = v /\ R.rest = rest \o c
    <3> HIDE DEF r, R
    <3> QED
      BY <1>1, <1>3, LocalMore
  <2>2. v \in Byte
    BY <1>3, ReadByteLocal
  <2>3. v \in Nat /\ v % 64 \in Nat /\ v \div 64 \in 0 .. 3
    <3> HIDE DEF v
    <3> QED
      BY <2>2 DEF Byte
  <2> DEFINE s == readByte(rest)
             S == readByte(rest \o c)
             t == ReadFull(rest, 4)
             T == ReadFull(rest \o c, 4)
  <2>4. Local(s, rest, S, c) /\ (s.err = "nil" => s.val \in Byte)
    BY <2>1, ReadByteLocal
  <2>5. Local(t, rest, T, c) /\ (t.err = "nil" => t.val \in Bytes /\ Len(t.val) = 4)
    BY <2>1, ReadFullLocal
  <2>6. /\ v \div 64 = 0 => readLength(b) = Short(v, rest) /\ readLength(b \o c) = Short(v, rest \o c)
        /\ v \div 64 = 1 =>
             /\ readLength(b) = IF s.err # "nil" THEN s ELSE Middle(v, s.val, s.rest)
             /\ readLength(b \o c) = IF S.err # "nil" THEN S ELSE Middle(v, S.val, S.rest)
        /\ v \div 64 = 2 =>
             /\ readLength(b) = IF t.err # "nil" THEN t ELSE Long(t.val, t.rest)
             /\ readLength(b \o c) = IF T.err # "nil" THEN T ELSE Long(T.val, T.rest)
        /\ v \div 64 = 3 => readLength(b) = Special(v, rest) /\ readLength(b \o c) = Special(v, rest \o c)
    BY <1>0, <1>3, <2>1, LengthIs
  <2>7. Len(rest) \in Nat /\ Len(b) \in Nat
    BY <2>1, BytesHaveLength
  <2> HIDE DEF r, R, v, rest, s, S, t, T
  <2>8. CASE v \div 64 = 0
    <3> DEFINE l == [length |-> v % 64, special |-> FALSE]
    <3>1. readLength(b) = Ok(l, rest) /\ readLength(b \o c) = Ok(l, rest \o c)
      BY <2>6, <2>8 DEF Short
    <3>2. l.length \in Nat /\ l.special \in BOOLEAN
      BY <2>3
    <3> HIDE DEF l
    <3>3. Local(Ok(l, rest), rest, Ok(l, rest \o c), c)
      BY <2>1, LocalOk
    <3>4. Local(readLength(b), b, readLength(b \o c), c)
      <4> DEFINE x == Ok(l, rest)
                 y == Ok(l, rest \o c)
      <4>1. Local(x, rest, y, c)
        BY <3>3
      <4> HIDE DEF x, y
      <4>2. Local(x, b, y, c)
        BY <2>1, <4>1, LocalBehind
      <4> QED
        BY <3>1, <4>2 DEF x, y
    <3>5. readLength(b).val = l
      BY <3>1, OkIs
    <3> QED
      BY <3>2, <3>4, <3>5 DEF LengthLocal
  <2>9. CASE v \div 64 = 1
    <3> DEFINE l == [length |-> 256 * (v % 64) + s.val, special |-> FALSE]
               x == Ok(l, s.rest)
               y == Ok(l, S.rest)
    <3>1. /\ readLength(b) = IF s.err # "nil" THEN s ELSE x
          /\ readLength(b \o c) = IF S.err # "nil" THEN S ELSE Middle(v, S.val, S.rest)
      BY <2>6, <2>9 DEF Middle
    <3>2. ASSUME s.err = "nil"
          PROVE  /\ s.rest \in Bytes /\ Len(s.rest) <= Len(rest) /\ S.err = "nil" /\ S.val = s.val /\ S.rest = s.rest \o c
                 /\ l.length \in Nat /\ l.special \in BOOLEAN
      <4>1. s.rest \in Bytes /\ Len(s.rest) <= Len(rest) /\ S.err = "nil" /\ S.val = s.val /\ S.rest = s.rest \o c
        BY <2>4, <3>2, LocalMore
      <4>2. s.val \in Nat
        BY <2>4, <3>2 DEF Byte
      <4> DEFINE k == 256 * (v % 64) + s.val
      <4>3. k \in Nat
        BY <2>3, <4>2
      <4> HIDE DEF k
      <4>4. l = [length |-> k, special |-> FALSE]
        BY DEF k
      <4>5. l.length \in Nat /\ l.special \in BOOLEAN
        BY <4>3, <4>4
      <4> QED
        BY <4>1, <4>5
    <3>3. s.err = "nil" => readLength(b \o c) = Ok(l, S.rest)
      BY <3>1, <3>2 DEF Middle
    <3>4. s.err = "nil" => Local(x, s.rest, y, c)
      BY <3>2, LocalOk
    <3>5. x.err = "nil" /\ x.val = l
      BY OkIs
    <3> HIDE DEF l, x, y
    <3>6. Local(IF s.err # "nil" THEN s ELSE x, rest, IF S.err # "nil" THEN S ELSE y, c)
      BY <2>1, <2>4, <3>4, LocalThen
    <3>7. Local(readLength(b), rest, readLength(b \o c), c)
      <4>1. CASE s.err = "nil"
        BY <3>1, <3>2, <3>3, <3>6, <4>1 DEF y
      <4>2. CASE s.err # "nil"
        BY <3>1, <4>2 DEF Local
      <4> QED
        BY <4>1, <4>2
    <3>8. Local(readLength(b), b, readLength(b \o c), c)
      BY <2>1, <3>7, LocalBehind
    <3>9. readLength(b).err = "nil" => readLength(b).val.length \in Nat /\ readLength(b).val.special \in BOOLEAN
      BY <3>1, <3>2, <3>5
    <3> QED
      BY <3>8, <3>9 DEF LengthLocal
  <2>10. CASE v \div 64 = 2
    <3> DEFINE l == [length |-> BigEndian(t.val), special |-> FALSE]
               x == Ok(l, t.rest)
               y == Ok(l, T.rest)
    <3>1. /\ readLength(b) = IF t.err # "nil" THEN t ELSE x
          /\ readLength(b \o c) = IF T.err # "nil" THEN T ELSE Long(T.val, T.rest)
      BY <2>6, <2>10 DEF Long
    <3>2. ASSUME t.err = "nil"
          PROVE  /\ t.rest \in Bytes /\ Len(t.rest) <= Len(rest) /\ T.err = "nil" /\ T.val = t.val /\ T.rest = t.rest \o c
                 /\ l.length \in Nat /\ l.special \in BOOLEAN
      <4>1. t.rest \in Bytes /\ Len(t.rest) <= Len(rest) /\ T.err = "nil" /\ T.val = t.val /\ T.rest = t.rest \o c
        BY <2>5, <3>2, LocalMore
      <4> DEFINE k == BigEndian(t.val)
                 w == t.val
      <4>2. k \in Nat
        <5>1. w \in Bytes /\ Len(w) = 4
          BY <2>5, <3>2
        <5> HIDE DEF w
        <5>2. w[1] \in Nat /\ w[2] \in Nat /\ w[3] \in Nat /\ w[4] \in Nat
          <6>1. w \in Seq(Byte)
            BY <5>1 DEF Bytes
          <6>2. \A i \in 1 .. 4 : w[i] \in Byte
            BY <5>1, <6>1
          <6>3. Byte \subseteq Nat
            BY DEF Byte
          <6>4. 1 \in 1 .. 4 /\ 2 \in 1 .. 4 /\ 3 \in 1 .. 4 /\ 4 \in 1 .. 4
            OBVIOUS
          <6>5. w[1] \in Byte /\ w[2] \in Byte /\ w[3] \in Byte /\ w[4] \in Byte
            BY <6>2, <6>4
          <6> QED
            BY <6>3, <6>5
        <5>3. BigEndian(w) \in Nat
          BY <5>2 DEF BigEndian
        <5> QED
          BY <5>3 DEF w
      <4> HIDE DEF k
      <4>4. l = [length |-> k, special |-> FALSE]
        BY DEF k
      <4>5. l.length \in Nat /\ l.special \in BOOLEAN
        BY <4>2, <4>4
      <4> QED
        BY <4>1, <4>5
    <3>3. t.err = "nil" => readLength(b \o c) = Ok(l, T.rest)
      BY <3>1, <3>2 DEF Long
    <3>4. t.err = "nil" => Local(x, t.rest, y, c)
      BY <3>2, LocalOk
    <3>5. x.err = "nil" /\ x.val = l
      BY OkIs
    <3> HIDE DEF l, x, y
    <3>6. Local(IF t.err # "nil" THEN t ELSE x, rest, IF T.err # "nil" THEN T ELSE y, c)
      BY <2>1, <2>5, <3>4, LocalThen
    <3>7. Local(readLength(b), rest, readLength(b \o c), c)
      <4>1. CASE t.err = "nil"
        BY <3>1, <3>2, <3>3, <3>6, <4>1 DEF y
      <4>2. CASE t.err # "nil"
        BY <3>1, <4>2 DEF Local
      <4> QED
        BY <4>1, <4>2
    <3>8. Local(readLength(b), b, readLength(b \o c), c)
      BY <2>1, <3>7, LocalBehind
    <3>9. readLength(b).err = "nil" => readLength(b).val.length \in Nat /\ readLength(b).val.special \in BOOLEAN
      BY <3>1, <3>2, <3>5
    <3> QED
      BY <3>8, <3>9 DEF LengthLocal
  <2>11. CASE v \div 64 = 3
    <3> DEFINE l == [length |-> v % 64, special |-> TRUE]
               x == Ok(l, rest)
               y == Ok(l, rest \o c)
    <3>1. readLength(b) = x /\ readLength(b \o c) = y
      BY <2>6, <2>11 DEF Special
    <3>2. l.length \in Nat /\ l.special \in BOOLEAN
      BY <2>3
    <3>3. x.val = l
      BY OkIs
    <3> HIDE DEF l
    <3>4. Local(x, rest, y, c)
      BY <2>1, LocalOk
    <3> HIDE DEF x, y
    <3>5. Local(x, b, y, c)
      BY <2>1, <3>4, LocalBehind
    <3> QED
      BY <3>1, <3>2, <3>3, <3>5 DEF LengthLocal
  <2> QED
    BY <2>3, <2>8, <2>9, <2>10, <2>11
<1> QED
  BY <1>2, <1>3

\* What readString makes of a length, and of what is behind it.
IntBehind(n, rest) ==
  IF ReadFull(rest, n).err # "nil" THEN ReadFull(rest, n)
  ELSE Ok(Itoa(LittleEndian(ReadFull(rest, n).val)), ReadFull(rest, n).rest)

StringBehind(l, rest) ==
  IF ~l.special THEN ReadFull(rest, l.length)
  ELSE IF l.length > 2 THEN Fail("unsupported") ELSE IntBehind(2 ^ l.length, rest)

LEMMA StringIs ==
  ASSUME NEW b
  PROVE  readString(b) = IF readLength(b).err # "nil" THEN readLength(b)
                         ELSE StringBehind(readLength(b).val, readLength(b).rest)
BY DEF readString, Then, StringBehind, IntBehind

\* An integer behind its length.
LEMMA IntBehindLocal ==
  ASSUME NEW n \in Nat, NEW rest \in Bytes, NEW c \in Bytes
  PROVE  Local(IntBehind(n, rest), rest, IntBehind(n, rest \o c), c)
<1> DEFINE s == ReadFull(rest, n)
           S == ReadFull(rest \o c, n)
           x == Ok(Itoa(LittleEndian(s.val)), s.rest)
           y == Ok(Itoa(LittleEndian(S.val)), S.rest)
           z == Ok(Itoa(LittleEndian(s.val)), s.rest \o c)
<1>1. /\ IntBehind(n, rest) = IF s.err # "nil" THEN s ELSE x
      /\ IntBehind(n, rest \o c) = IF S.err # "nil" THEN S ELSE y
  BY DEF IntBehind
<1>2. Local(s, rest, S, c)
  BY ReadFullLocal
<1> HIDE DEF s, S
<1>3. CASE s.err = "nil"
  <2>1. s.rest \in Bytes /\ S.val = s.val /\ S.rest = s.rest \o c
    BY <1>2, <1>3, LocalMore
  <2>2. Local(x, s.rest, z, c)
    <3> DEFINE v == Itoa(LittleEndian(s.val))
    <3> HIDE DEF v
    <3>1. Local(Ok(v, s.rest), s.rest, Ok(v, s.rest \o c), c)
      BY <2>1, LocalOk
    <3> QED
      BY <3>1 DEF v
  <2>3. y = z
    BY <2>1
  <2> HIDE DEF x, y, z
  <2>4. Local(x, s.rest, y, c)
    BY <2>2, <2>3
  <2>5. Local(IF s.err # "nil" THEN s ELSE x, rest, IF S.err # "nil" THEN S ELSE y, c)
    BY <1>2, <2>4, LocalThen
  <2> QED
    BY <1>1, <2>5
<1>4. CASE s.err # "nil"
  <2>1. IntBehind(n, rest) = s
    BY <1>1, <1>4
  <2> QED
    BY <1>4, <2>1 DEF Local
<1> QED
  BY <1>3, <1>4

\* The sizes of integers.
LEMMA SmallPowers ==
  ASSUME NEW n \in 0 .. 2
  PROVE  2 ^ n = (IF n = 0 THEN 1 ELSE IF n = 1 THEN 2 ELSE 4) /\ 2 ^ n \in Nat
<1>1. 2 ^ 0 = 1 /\ 2 ^ 1 = 2 /\ 2 ^ 2 = 4
  OBVIOUS
<1>2. CASE n = 0
  BY <1>1, <1>2
<1>3. CASE n = 1
  BY <1>1, <1>3
<1>4. CASE n = 2
  BY <1>1, <1>4
<1> QED
  BY <1>2, <1>3, <1>4

\* A string behind its length.
LEMMA StringBehindLocal ==
  ASSUME NEW l, l.length \in Nat, NEW rest \in Bytes, NEW c \in Bytes
  PROVE  Local(StringBehind(l, rest), rest, StringBehind(l, rest \o c), c)
<1>1. CASE ~l.special
  <2>1. StringBehind(l, rest) = ReadFull(rest, l.length) /\ StringBehind(l, rest \o c) = ReadFull(rest \o c, l.length)
    BY <1>1 DEF StringBehind
  <2>2. Local(ReadFull(rest, l.length), rest, ReadFull(rest \o c, l.length), c)
    BY ReadFullLocal
  <2> QED
    BY <2>1, <2>2
<1>2. CASE l.special /\ l.length > 2
  <2>1. StringBehind(l, rest) = Fail("unsupported")
    BY <1>2 DEF StringBehind
  <2>2. Fail("unsupported").err # "nil"
    BY DEF Fail
  <2> QED
    BY <2>1, <2>2 DEF Local
<1>3. CASE l.special /\ ~(l.length > 2)
  <2> DEFINE n == 2 ^ l.length
  <2>1. StringBehind(l, rest) = IntBehind(n, rest) /\ StringBehind(l, rest \o c) = IntBehind(n, rest \o c)
    BY <1>3 DEF StringBehind
  <2>2. n \in Nat
    <3>1. l.length \in 0 .. 2
      BY <1>3
    <3> QED
      BY <3>1, SmallPowers
  <2> HIDE DEF n
  <2>3. Local(IntBehind(n, rest), rest, IntBehind(n, rest \o c), c)
    BY <2>2, IntBehindLocal
  <2> QED
    BY <2>1, <2>3
<1> QED
  BY <1>1, <1>2, <1>3

\* readString reads no more than the string.
LEMMA ReadStringLocal ==
  ASSUME NEW b \in Bytes, NEW c \in Bytes
  PROVE  Local(readString(b), b, readString(b \o c), c)
<1> DEFINE r == readLength(b)
           R == readLength(b \o c)
           x == StringBehind(r.val, r.rest)
           y == StringBehind(R.val, R.rest)
<1>1. /\ readString(b) = IF r.err # "nil" THEN r ELSE x
      /\ readString(b \o c) = IF R.err # "nil" THEN R ELSE y
  BY StringIs
<1>2. Local(r, b, R, c) /\ (r.err = "nil" => r.val.length \in Nat)
  BY ReadLengthLocal DEF LengthLocal
<1> HIDE DEF r, R
<1>3. ASSUME r.err = "nil" PROVE Local(x, r.rest, y, c)
  <2>1. r.rest \in Bytes /\ R.val = r.val /\ R.rest = r.rest \o c
    BY <1>2, <1>3, LocalMore
  <2> DEFINE v == r.val
             rest == r.rest
  <2>2. v.length \in Nat /\ rest \in Bytes
    BY <1>2, <1>3, <2>1
  <2>3. x = StringBehind(v, rest) /\ y = StringBehind(v, rest \o c)
    BY <2>1
  <2> HIDE DEF v, rest, x, y
  <2>4. Local(StringBehind(v, rest), rest, StringBehind(v, rest \o c), c)
    BY <2>2, StringBehindLocal
  <2> QED
    BY <2>3, <2>4 DEF rest
<1> HIDE DEF x, y
<1>4. Local(IF r.err # "nil" THEN r ELSE x, b, IF R.err # "nil" THEN R ELSE y, c)
  BY <1>2, <1>3, LocalThen
<1> QED
  BY <1>1, <1>4

\* Two readers, as Two puts them together: r and x of b, R and y of b and c.
Pair(r, x) == IF r.err # "nil" THEN r ELSE IF x.err # "nil" THEN x ELSE Ok(<<r.val, x.val>>, x.rest)

\* So are two of them.
LEMMA PairLocal ==
  ASSUME NEW b \in Bytes, NEW c \in Bytes, NEW r, NEW more, Local(r, b, more, c),
         NEW x, NEW y, r.err = "nil" => Local(x, r.rest, y, c)
  PROVE  Local(Pair(r, x), b, Pair(more, y), c)
<1> DEFINE v == Ok(<<r.val, x.val>>, x.rest)
           w == Ok(<<more.val, y.val>>, y.rest)
<1>1. CASE r.err # "nil"
  BY <1>1 DEF Local, Pair
<1>2. CASE r.err = "nil"
  <2>1. r.rest \in Bytes /\ Len(r.rest) <= Len(b) /\ more.err = "nil" /\ more.val = r.val
    BY <1>2, LocalMore
  <2>2. Local(x, r.rest, y, c)
    BY <1>2
  <2>3. CASE x.err # "nil"
    <3>1. Pair(r, x) = x
      BY <1>2, <2>3 DEF Pair
    <3> QED
      BY <2>3, <3>1 DEF Local
  <2>4. CASE x.err = "nil"
    <3>1. x.rest \in Bytes /\ Len(x.rest) <= Len(r.rest) /\ y.err = "nil" /\ y.val = x.val /\ y.rest = x.rest \o c
      BY <2>2, <2>4, LocalMore
    <3> DEFINE u == <<r.val, x.val>>
    <3>2. Pair(r, x) = Ok(u, x.rest) /\ Pair(more, y) = Ok(u, x.rest \o c)
      BY <1>2, <2>1, <2>4, <3>1 DEF Pair
    <3>3. Len(x.rest) <= Len(b)
      <4>1. Len(x.rest) \in Nat /\ Len(r.rest) \in Nat /\ Len(b) \in Nat
        BY <2>1, <3>1, BytesHaveLength
      <4> QED
        BY <2>1, <3>1, <4>1
    <3> HIDE DEF u
    <3>4. Local(Ok(u, x.rest), x.rest, Ok(u, x.rest \o c), c)
      BY <3>1, LocalOk
    <3> DEFINE p == Pair(r, x)
               q == Pair(more, y)
    <3>5. Local(p, x.rest, q, c)
      BY <3>2, <3>4
    <3> HIDE DEF p, q
    <3>6. Local(p, b, q, c)
      BY <3>1, <3>3, <3>5, LocalBehind
    <3> QED
      BY <3>6 DEF p, q
  <2> QED
    BY <2>3, <2>4
<1> QED
  BY <1>1, <1>2

\* The two strings of a key and its value, and the two sizes of a RESIZEDB.
LEMMA TwoStringsAre ==
  ASSUME NEW b
  PROVE  Two(readString, readString, b) = Pair(readString(b), readString(readString(b).rest))
BY DEF Two, Then, Pair

LEMMA TwoLengthsAre ==
  ASSUME NEW b
  PROVE  Two(readLength, readLength, b) = Pair(readLength(b), readLength(readLength(b).rest))
BY DEF Two, Then, Pair

LEMMA TwoStringsLocal ==
  ASSUME NEW b \in Bytes, NEW c \in Bytes
  PROVE  Local(Two(readString, readString, b), b, Two(readString, readString, b \o c), c)
<1> DEFINE r == readString(b)
           R == readString(b \o c)
           x == readString(r.rest)
           y == readString(R.rest)
<1>1. Two(readString, readString, b) = Pair(r, x) /\ Two(readString, readString, b \o c) = Pair(R, y)
  BY TwoStringsAre
<1>2. Local(r, b, R, c)
  BY ReadStringLocal
<1> HIDE DEF r, R
<1>3. ASSUME r.err = "nil" PROVE Local(x, r.rest, y, c)
  <2>1. r.rest \in Bytes /\ R.rest = r.rest \o c
    BY <1>2, <1>3, LocalMore
  <2>2. Local(readString(r.rest), r.rest, readString(r.rest \o c), c)
    BY <2>1, ReadStringLocal
  <2> QED
    BY <2>1, <2>2
<1> HIDE DEF x, y
<1>4. Local(Pair(r, x), b, Pair(R, y), c)
  BY <1>2, <1>3, PairLocal
<1> QED
  BY <1>1, <1>4

LEMMA TwoLengthsLocal ==
  ASSUME NEW b \in Bytes, NEW c \in Bytes
  PROVE  Local(Two(readLength, readLength, b), b, Two(readLength, readLength, b \o c), c)
<1> DEFINE r == readLength(b)
           R == readLength(b \o c)
           x == readLength(r.rest)
           y == readLength(R.rest)
<1>1. Two(readLength, readLength, b) = Pair(r, x) /\ Two(readLength, readLength, b \o c) = Pair(R, y)
  BY TwoLengthsAre
<1>2. Local(r, b, R, c)
  BY ReadLengthLocal DEF LengthLocal
<1> HIDE DEF r, R
<1>3. ASSUME r.err = "nil" PROVE Local(x, r.rest, y, c)
  <2>1. r.rest \in Bytes /\ R.rest = r.rest \o c
    BY <1>2, <1>3, LocalMore
  <2>2. Local(readLength(r.rest), r.rest, readLength(r.rest \o c), c)
    BY <2>1, ReadLengthLocal DEF LengthLocal
  <2> QED
    BY <2>1, <2>2
<1> HIDE DEF x, y
<1>4. Local(Pair(r, x), b, Pair(R, y), c)
  BY <1>2, <1>3, PairLocal
<1> QED
  BY <1>1, <1>4

\* A reader whose value becomes another.
LEMMA LocalMap ==
  ASSUME NEW b \in Bytes, NEW c \in Bytes, NEW r, NEW more, Local(r, b, more, c),
         NEW v, NEW w, r.err = "nil" /\ more.val = r.val => w = v
  PROVE  Local(IF r.err # "nil" THEN r ELSE Ok(v, r.rest), b,
               IF more.err # "nil" THEN more ELSE Ok(w, more.rest), c)
<1> DEFINE x == Ok(v, r.rest)
           y == Ok(w, more.rest)
<1>1. ASSUME r.err = "nil" PROVE Local(x, r.rest, y, c)
  <2>1. r.rest \in Bytes /\ more.val = r.val /\ more.rest = r.rest \o c
    BY <1>1, LocalMore
  <2>2. y = Ok(v, r.rest \o c)
    BY <1>1, <2>1
  <2>3. Local(x, r.rest, Ok(v, r.rest \o c), c)
    BY <2>1, LocalOk
  <2> QED
    BY <2>2, <2>3
<1> HIDE DEF x, y
<1>2. Local(IF r.err # "nil" THEN r ELSE x, b, IF more.err # "nil" THEN more ELSE y, c)
  BY <1>1, LocalThen
<1> QED
  BY <1>2 DEF x, y

Mapped(r, v) == IF r.err # "nil" THEN r ELSE Ok(v, r.rest)

Onward(r, x) == IF r.err # "nil" THEN r ELSE x

\* An instant of expiry and the type behind it.
LEMMA InstantIs ==
  ASSUME NEW b, NEW n
  PROVE  Instant(b, n) = Onward(ReadFull(b, n), Mapped(readByte(ReadFull(b, n).rest), ReadFull(b, n).val))
BY DEF Instant, Then, Mapped, Onward

LEMMA InstantLocal ==
  ASSUME NEW b \in Bytes, NEW c \in Bytes, NEW n \in Nat
  PROVE  Local(Instant(b, n), b, Instant(b \o c, n), c)
<1> DEFINE r == ReadFull(b, n)
           R == ReadFull(b \o c, n)
           s == readByte(r.rest)
           S == readByte(R.rest)
           x == Mapped(s, r.val)
           y == Mapped(S, R.val)
<1>1. Instant(b, n) = Onward(r, x) /\ Instant(b \o c, n) = Onward(R, y)
  BY InstantIs
<1>2. Local(r, b, R, c)
  BY ReadFullLocal
<1> HIDE DEF r, R
<1>3. ASSUME r.err = "nil" PROVE Local(x, r.rest, y, c)
  <2>1. r.rest \in Bytes /\ R.val = r.val /\ R.rest = r.rest \o c
    BY <1>2, <1>3, LocalMore
  <2> DEFINE rest == r.rest
             v == r.val
             w == R.val
  <2>2. Local(s, rest, S, c) /\ rest \in Bytes /\ w = v
    BY <2>1, ReadByteLocal
  <2> HIDE DEF s, S, rest, v, w
  <2>3. Local(IF s.err # "nil" THEN s ELSE Ok(v, s.rest), rest, IF S.err # "nil" THEN S ELSE Ok(w, S.rest), c)
    BY <2>2, LocalMap
  <2> QED
    BY <2>3 DEF Mapped, rest, v, w
<1> HIDE DEF x, y
<1>4. Local(IF r.err # "nil" THEN r ELSE x, b, IF R.err # "nil" THEN R ELSE y, c)
  BY <1>2, <1>3, LocalThen
<1> QED
  BY <1>1, <1>4 DEF Onward

EntryOf(at, kv) == [data |-> One(kv[1], kv[2]), expiry |-> IF at = <<>> THEN <<>> ELSE One(kv[1], at)]

\* A key and its value.
LEMMA EntryIs ==
  ASSUME NEW at, NEW b
  PROVE  Entry(at, b) = Mapped(Two(readString, readString, b), EntryOf(at, Two(readString, readString, b).val))
BY DEF Entry, Then, Mapped, EntryOf

LEMMA EntryLocal ==
  ASSUME NEW b \in Bytes, NEW c \in Bytes, NEW at
  PROVE  Local(Entry(at, b), b, Entry(at, b \o c), c)
<1> DEFINE r == Two(readString, readString, b)
           R == Two(readString, readString, b \o c)
           v == EntryOf(at, r.val)
           w == EntryOf(at, R.val)
<1>1. Entry(at, b) = Mapped(r, v) /\ Entry(at, b \o c) = Mapped(R, w)
  BY EntryIs
<1>2. Local(r, b, R, c)
  BY TwoStringsLocal
<1>3. r.err = "nil" /\ R.val = r.val => w = v
  OBVIOUS
<1> HIDE DEF r, R, v, w
<1>4. Local(IF r.err # "nil" THEN r ELSE Ok(v, r.rest), b, IF R.err # "nil" THEN R ELSE Ok(w, R.rest), c)
  BY <1>2, <1>3, LocalMap
<1> QED
  BY <1>1, <1>4 DEF Mapped

\* The cases of a section.
LEMMA SectionIs ==
  ASSUME NEW op, NEW b
  PROVE  /\ op = 250 => Section(op, b) = Mapped(Two(readString, readString, b), Nothing)
         /\ op = 254 => Section(op, b) = Mapped(readLength(b), Nothing)
         /\ op = 251 => Section(op, b) = Mapped(Two(readLength, readLength, b), Nothing)
         /\ op = 252 => Section(op, b) = Onward(Instant(b, 8), Entry(Instant(b, 8).val, Instant(b, 8).rest))
         /\ op = 253 => Section(op, b) = Onward(Instant(b, 4), Entry(Instant(b, 4).val, Instant(b, 4).rest))
         /\ op \notin {250, 251, 252, 253, 254} => Section(op, b) = Entry(<<>>, b)
<1>1. op = 250 => Section(op, b) = Mapped(Two(readString, readString, b), Nothing)
  BY DEF Section, Then, Mapped
<1>2. op = 254 => Section(op, b) = Mapped(readLength(b), Nothing)
  BY DEF Section, Then, Mapped
<1>3. op = 251 => Section(op, b) = Mapped(Two(readLength, readLength, b), Nothing)
  BY DEF Section, Then, Mapped
<1>4. op = 252 => Section(op, b) = Onward(Instant(b, 8), Entry(Instant(b, 8).val, Instant(b, 8).rest))
  BY DEF Section, Then, Onward
<1>5. op = 253 => Section(op, b) = Onward(Instant(b, 4), Entry(Instant(b, 4).val, Instant(b, 4).rest))
  BY DEF Section, Then, Onward
<1>6. op \notin {250, 251, 252, 253, 254} => Section(op, b) = Entry(<<>>, b)
  BY DEF Section
<1> QED
  BY <1>1, <1>2, <1>3, <1>4, <1>5, <1>6

\* A reader whose value is another.
LEMMA MappedLocal ==
  ASSUME NEW b \in Bytes, NEW c \in Bytes, NEW r, NEW more, Local(r, b, more, c), NEW v
  PROVE  Local(Mapped(r, v), b, Mapped(more, v), c)
<1>1. Local(IF r.err # "nil" THEN r ELSE Ok(v, r.rest), b, IF more.err # "nil" THEN more ELSE Ok(v, more.rest), c)
  BY LocalMap
<1> QED
  BY <1>1 DEF Mapped

\* A key with an instant of expiry.
LEMMA ExpiringLocal ==
  ASSUME NEW b \in Bytes, NEW c \in Bytes, NEW n \in Nat
  PROVE  Local(Onward(Instant(b, n), Entry(Instant(b, n).val, Instant(b, n).rest)), b,
               Onward(Instant(b \o c, n), Entry(Instant(b \o c, n).val, Instant(b \o c, n).rest)), c)
<1> DEFINE r == Instant(b, n)
           R == Instant(b \o c, n)
           x == Entry(r.val, r.rest)
           y == Entry(R.val, R.rest)
<1>1. Local(r, b, R, c)
  BY InstantLocal
<1> HIDE DEF r, R
<1>2. ASSUME r.err = "nil" PROVE Local(x, r.rest, y, c)
  <2>1. r.rest \in Bytes /\ R.val = r.val /\ R.rest = r.rest \o c
    BY <1>1, <1>2, LocalMore
  <2>2. Local(Entry(r.val, r.rest), r.rest, Entry(r.val, r.rest \o c), c)
    BY <2>1, EntryLocal
  <2> QED
    BY <2>1, <2>2
<1> HIDE DEF x, y
<1>3. Local(IF r.err # "nil" THEN r ELSE x, b, IF R.err # "nil" THEN R ELSE y, c)
  BY <1>1, <1>2, LocalThen
<1>4. Local(Onward(r, x), b, Onward(R, y), c)
  BY <1>3 DEF Onward
<1> QED
  BY <1>4 DEF r, R, x, y

\* No section is read beyond its end, whatever its opcode: the cases of the switch in Parse, with
\* readString and readLength.
THEOREM SectionLocal ==
  ASSUME NEW b \in Bytes, NEW c \in Bytes, NEW op
  PROVE  Local(Section(op, b), b, Section(op, b \o c), c)
<1>1. CASE op = 250
  <2>1. /\ Section(op, b) = Mapped(Two(readString, readString, b), Nothing)
        /\ Section(op, b \o c) = Mapped(Two(readString, readString, b \o c), Nothing)
    BY <1>1, SectionIs
  <2>2. Local(Two(readString, readString, b), b, Two(readString, readString, b \o c), c)
    BY TwoStringsLocal
  <2> DEFINE r == Two(readString, readString, b)
             R == Two(readString, readString, b \o c)
  <2> HIDE DEF r, R
  <2>3. Local(Mapped(r, Nothing), b, Mapped(R, Nothing), c)
    BY <2>2, MappedLocal DEF r, R
  <2> QED
    BY <2>1, <2>3 DEF r, R
<1>2. CASE op = 254
  <2>1. /\ Section(op, b) = Mapped(readLength(b), Nothing)
        /\ Section(op, b \o c) = Mapped(readLength(b \o c), Nothing)
    BY <1>2, SectionIs
  <2>2. Local(readLength(b), b, readLength(b \o c), c)
    BY ReadLengthLocal DEF LengthLocal
  <2>3. Local(Mapped(readLength(b), Nothing), b, Mapped(readLength(b \o c), Nothing), c)
    BY <2>2, MappedLocal
  <2> QED
    BY <2>1, <2>3
<1>3. CASE op = 251
  <2>1. /\ Section(op, b) = Mapped(Two(readLength, readLength, b), Nothing)
        /\ Section(op, b \o c) = Mapped(Two(readLength, readLength, b \o c), Nothing)
    BY ZenonT(60), <1>3, SectionIs
  <2>2. Local(Two(readLength, readLength, b), b, Two(readLength, readLength, b \o c), c)
    BY TwoLengthsLocal
  <2> DEFINE r == Two(readLength, readLength, b)
             R == Two(readLength, readLength, b \o c)
  <2> HIDE DEF r, R
  <2>3. Local(Mapped(r, Nothing), b, Mapped(R, Nothing), c)
    BY <2>2, MappedLocal DEF r, R
  <2> QED
    BY <2>1, <2>3 DEF r, R
<1>4. CASE op = 252
  <2> DEFINE x == Onward(Instant(b, 8), Entry(Instant(b, 8).val, Instant(b, 8).rest))
             y == Onward(Instant(b \o c, 8), Entry(Instant(b \o c, 8).val, Instant(b \o c, 8).rest))
  <2>1. 8 \in Nat
    OBVIOUS
  <2>2. Local(x, b, y, c)
    BY <2>1, ExpiringLocal
  <2>3. Section(op, b) = x /\ Section(op, b \o c) = y
    BY ZenonT(30), <1>4, SectionIs
  <2> HIDE DEF x, y
  <2> QED
    BY <2>2, <2>3
<1>5. CASE op = 253
  <2> DEFINE x == Onward(Instant(b, 4), Entry(Instant(b, 4).val, Instant(b, 4).rest))
             y == Onward(Instant(b \o c, 4), Entry(Instant(b \o c, 4).val, Instant(b \o c, 4).rest))
  <2>1. 4 \in Nat
    OBVIOUS
  <2>2. Local(x, b, y, c)
    BY <2>1, ExpiringLocal
  <2>3. Section(op, b) = x /\ Section(op, b \o c) = y
    BY ZenonT(30), <1>5, SectionIs
  <2> HIDE DEF x, y
  <2> QED
    BY <2>2, <2>3
<1>6. CASE op \notin {250, 251, 252, 253, 254}
  <2>1. Section(op, b) = Entry(<<>>, b) /\ Section(op, b \o c) = Entry(<<>>, b \o c)
    BY <1>6, SectionIs
  <2> QED
    BY <2>1, EntryLocal
<1> QED
  BY <1>1, <1>2, <1>3, <1>4, <1>5, <1>6

\* So a section that is read when nothing is behind it is read whatever is behind it, and
\* a part of it is not.
LEMMA SectionPart ==
  ASSUME NEW p \in Bytes, NEW q \in Bytes, q # <<>>, NEW op,
         Section(op, p \o q).err = "nil" => Section(op, p \o q).rest = <<>>
  PROVE  Section(op, p).err # "nil"
<1> DEFINE r == Section(op, p)
           R == Section(op, p \o q)
<1>1. Local(r, p, R, q) /\ (R.err = "nil" => R.rest = <<>>)
  BY SectionLocal
<1> HIDE DEF r, R
<1> SUFFICES ASSUME r.err = "nil" PROVE FALSE
  BY DEF r
<1>2. r.rest \in Bytes /\ R.err = "nil" /\ R.rest = r.rest \o q
  BY <1>1, LocalMore
<1>3. r.rest \o q = <<>> /\ Len(r.rest \o q) = Len(r.rest) + Len(q)
  BY <1>1, <1>2, Joined
<1>4. Len(<<>>) = 0 /\ Len(r.rest) \in Nat /\ Len(q) \in Nat /\ Len(q) > 0
  BY <1>2, BytesHaveLength DEF Bytes
<1> QED
  BY <1>3, <1>4

-------------------------------------------------------------------------------
(* What was saved is read: lengths, integers and strings.                  *)

\* What is read when nothing is behind it is read with anything behind it.
LEMMA ReadAhead ==
  ASSUME NEW r, NEW b, NEW more, NEW c \in Bytes, Local(r, b, more, c), NEW v, r = Ok(v, <<>>)
  PROVE  more = Ok(v, c)
<1>1. r.err = "nil" /\ r.val = v /\ r.rest = <<>>
  BY OkIs
<1>2. more = Ok(v, <<>> \o c)
  BY <1>1 DEF Local
<1>3. <<>> \o c = c
  BY DEF Bytes
<1> QED
  BY <1>2, <1>3

\* A byte, and all there is.
LEMMA ByteRead ==
  ASSUME NEW x \in Byte, NEW s \in Bytes
  PROVE  readByte(<<x>> \o s) = Ok(x, s)
BY OneByte DEF readByte

LEMMA AllRead ==
  ASSUME NEW s \in Bytes
  PROVE  ReadFull(s, Len(s)) = Ok(s, <<>>)
<1>1. Len(s) \in Nat /\ s \in Seq(Byte)
  BY BytesHaveLength
<1>2. SubSeq(s, 1, Len(s)) = s
  BY <1>1
<1>3. SubSeq(s, Len(s) + 1, Len(s)) = <<>>
  <2>1. Len(s) + 1 \in Nat /\ Len(s) + 1 > 0 /\ Len(s) \in Int /\ Len(s) <= Len(s) /\ ~(Len(s) + 1 <= Len(s))
    BY <1>1
  <2> DEFINE t == SubSeq(s, Len(s) + 1, Len(s))
  <2>2. t \in Seq(Byte) /\ Len(t) = 0
    BY <1>1, <2>1, PartOf
  <2> HIDE DEF t
  <2>3. t = <<>>
    BY <2>2
  <2> QED
    BY <2>3 DEF t
<1>4. Len(s) >= Len(s)
  BY <1>1
<1> QED
  BY <1>2, <1>3, <1>4 DEF ReadFull

\* Two bytes are a byte and another.
LEMMA TwoBytes ==
  ASSUME NEW x \in Byte, NEW y \in Byte
  PROVE  <<x, y>> = <<x>> \o <<y>> /\ <<x, y>> \in Bytes
<1>1. <<x, y>> \in Seq(Byte) /\ <<x>> \in Seq(Byte) /\ <<y>> \in Seq(Byte)
  OBVIOUS
<1>2. <<x>> \o <<y>> \in Seq(Byte) /\ Len(<<x>> \o <<y>>) = 2 /\ (<<x>> \o <<y>>)[1] = x /\ (<<x>> \o <<y>>)[2] = y
  BY <1>1
<1> DEFINE t == <<x>> \o <<y>>
<1>3. t \in Seq(Byte) /\ Len(t) = 2 /\ t[1] = x /\ t[2] = y
  BY <1>2
<1> HIDE DEF t
<1>4. t = <<x, y>>
  BY <1>3
<1> QED
  BY <1>1, <1>4 DEF t, Bytes

Plain(n) == [length |-> n, special |-> FALSE]

\* A length of six bits, of fourteen and of thirty-two.
LEMMA ShortRead ==
  ASSUME NEW n \in Nat, Fits("bits6", n)
  PROVE  Length("bits6", n) \in Bytes /\ readLength(Length("bits6", n)) = Ok(Plain(n), <<>>)
<1>1. n \in Byte /\ n % 64 = n /\ n \div 64 = 0
  BY SMTT(30) DEF Byte, Fits
<1>2. Length("bits6", n) = <<n>>
  BY SMTT(30) DEF Length
<1>3. <<n>> = <<n>> \o <<>> /\ <<>> \in Bytes /\ <<n>> \in Bytes
  BY <1>1 DEF Bytes
<1>4. readByte(<<n>>) = Ok(n, <<>>)
  BY <1>1, <1>3, ByteRead
<1>5. readByte(<<n>>).err = "nil" /\ readByte(<<n>>).val = n /\ readByte(<<n>>).rest = <<>>
  BY <1>4, OkIs
<1>6. readLength(<<n>>) = Short(n, <<>>)
  BY <1>1, <1>3, <1>5, LengthIs
<1>7. Short(n, <<>>) = Ok(Plain(n), <<>>)
  BY <1>1 DEF Short, Plain
<1> QED
  BY <1>2, <1>3, <1>6, <1>7

LEMMA MiddleRead ==
  ASSUME NEW n \in Nat, Fits("bits14", n)
  PROVE  Length("bits14", n) \in Bytes /\ readLength(Length("bits14", n)) = Ok(Plain(n), <<>>)
<1> DEFINE h == 64 + n \div 256
           l == n % 256
<1>1. h \in Byte /\ l \in Byte /\ h \div 64 = 1 /\ 256 * (h % 64) + l = n
  BY SMTT(30) DEF Byte, Fits
<1>2. Length("bits14", n) = <<h, l>>
  BY SMTT(30) DEF Length
<1> HIDE DEF h, l
<1> DEFINE t == <<l>>
           s == <<h>> \o t
<1>3. <<h, l>> = s
  BY <1>1, TwoBytes
<1>4. t = <<l>> \o <<>> /\ <<>> \in Bytes
  BY DEF Bytes
<1>5. t \in Bytes
  BY <1>1 DEF Bytes
<1>6. readByte(t) = Ok(l, <<>>)
  BY <1>1, <1>4, ByteRead
<1> HIDE DEF t
<1>7. readByte(s) = Ok(h, t) /\ s \in Bytes
  BY <1>1, <1>5, ByteRead, OneByte
<1> HIDE DEF s
<1>8. readByte(s).err = "nil" /\ readByte(s).val = h /\ readByte(s).rest = t
  BY <1>7, OkIs
<1>9. readByte(t).err = "nil" /\ readByte(t).val = l /\ readByte(t).rest = <<>>
  BY <1>6, OkIs
<1>10. readLength(s) = Middle(h, l, <<>>)
  BY <1>1, <1>7, <1>8, <1>9, LengthIs
<1>11. Middle(h, l, <<>>) = Ok(Plain(n), <<>>)
  <2> DEFINE k == 256 * (h % 64) + l
  <2>1. k = n
    BY <1>1
  <2>2. Middle(h, l, <<>>) = Ok(Plain(k), <<>>)
    BY DEF Middle, Plain
  <2> HIDE DEF k
  <2> QED
    BY <2>1, <2>2
<1>12. Length("bits14", n) = s
  BY <1>2, <1>3
<1> QED
  BY <1>7, <1>10, <1>11, <1>12

LEMMA LongRead ==
  ASSUME NEW n \in Nat, Fits("bits32", n)
  PROVE  Length("bits32", n) \in Bytes /\ readLength(Length("bits32", n)) = Ok(Plain(n), <<>>)
<1> DEFINE a == n \div 16777216
           b == (n \div 65536) % 256
           c == (n \div 256) % 256
           d == n % 256
           four == <<a, b, c, d>>
<1>1. a \in Byte /\ b \in Byte /\ c \in Byte /\ d \in Byte
  BY SMTT(30) DEF Byte, Fits
<1>2. 256 * (256 * (256 * a + b) + c) + d = n
  BY SMTT(30)
<1>3. Length("bits32", n) = <<128, a, b, c, d>>
  BY SMTT(30) DEF Length
<1> HIDE DEF a, b, c, d
<1>4. <<128, a, b, c, d>> = <<128>> \o four /\ four \in Bytes /\ Len(four) = 4
  BY <1>1 DEF Bytes
<1>5. BigEndian(four) = n
  BY <1>2 DEF BigEndian
<1> HIDE DEF four
<1>6. 128 \in Byte /\ 128 \div 64 = 2
  BY DEF Byte
<1> DEFINE s == <<128>> \o four
<1>7. readByte(s) = Ok(128, four) /\ s \in Bytes
  BY <1>4, <1>6, ByteRead, OneByte
<1>8. ReadFull(four, 4) = Ok(four, <<>>)
  BY <1>4, AllRead
<1> HIDE DEF s
<1>9. readByte(s).err = "nil" /\ readByte(s).val = 128 /\ readByte(s).rest = four
  BY <1>7, OkIs
<1>10. ReadFull(four, 4).err = "nil" /\ ReadFull(four, 4).val = four /\ ReadFull(four, 4).rest = <<>>
  BY <1>8, OkIs
<1>11. readLength(s) = Long(four, <<>>)
  BY <1>6, <1>7, <1>9, <1>10, LengthIs
<1>12. Long(four, <<>>) = Ok(Plain(n), <<>>)
  BY <1>5 DEF Long, Plain
<1>13. Length("bits32", n) = s
  <2>1. Length("bits32", n) = <<128>> \o four
    BY <1>3, <1>4
  <2> QED
    BY <2>1 DEF s
<1> QED
  BY <1>7, <1>11, <1>12, <1>13

\* A length is read as the number that was written.
LEMMA LengthRead ==
  ASSUME NEW form \in {"bits6", "bits14", "bits32"}, NEW n \in Nat, Fits(form, n), NEW c \in Bytes
  PROVE  Length(form, n) \in Bytes /\ readLength(Length(form, n) \o c) = Ok(Plain(n), c)
<1> DEFINE b == Length(form, n)
<1>1. b \in Bytes /\ readLength(b) = Ok(Plain(n), <<>>)
  <2>1. CASE form = "bits6"
    BY <2>1, ShortRead
  <2>2. CASE form = "bits14"
    BY <2>2, MiddleRead
  <2>3. CASE form = "bits32"
    BY <2>3, LongRead
  <2> QED
    BY <2>1, <2>2, <2>3
<1> HIDE DEF b
<1>2. Local(readLength(b), b, readLength(b \o c), c)
  BY <1>1, ReadLengthLocal DEF LengthLocal
<1> DEFINE v == Plain(n)
           r == readLength(b)
           more == readLength(b \o c)
<1>3. r = Ok(v, <<>>) /\ Local(r, b, more, c)
  BY <1>1, <1>2
<1> HIDE DEF v, r, more
<1>4. more = Ok(v, c)
  BY <1>3, ReadAhead
<1> QED
  BY <1>1, <1>4 DEF b, v, more

\* The value of bytes, from the highest, which has the sign, to the lowest.
LEMMA LittleEndianAt0 ==
  ASSUME NEW bytes
  PROVE  Result([of |-> "LittleEndian", bytes |-> bytes], 0)
           = IF bytes[Len(bytes)] < 128 THEN bytes[Len(bytes)] ELSE bytes[Len(bytes)] - 256
<1> DEFINE k == [of |-> "LittleEndian", bytes |-> bytes]
<1>1. k.of = "LittleEndian" /\ k.bytes = bytes
  OBVIOUS
<1> HIDE DEF k
<1>2. Result(k, 0) = Step(k, 0, <<>>)
  BY ResultAt0
<1>3. Step(k, 0, <<>>) = LittleEndianStep(bytes, 0, <<>>)
  BY <1>1 DEF Step
<1> QED
  BY <1>2, <1>3 DEF LittleEndianStep, k

LEMMA LittleEndianNext ==
  ASSUME NEW bytes, NEW i \in Nat
  PROVE  Result([of |-> "LittleEndian", bytes |-> bytes], i + 1)
           = 256 * Result([of |-> "LittleEndian", bytes |-> bytes], i) + bytes[Len(bytes) - (i + 1)]
<1> DEFINE k == [of |-> "LittleEndian", bytes |-> bytes]
<1>1. k.of = "LittleEndian" /\ k.bytes = bytes
  OBVIOUS
<1> HIDE DEF k
<1>2. Result(k, i + 1) = Step(k, i + 1, Result(k, i))
  BY ResultNext
<1> DEFINE x == Result(k, i)
           j == i + 1
<1>3. j # 0
  OBVIOUS
<1> HIDE DEF x, j
<1>4. Step(k, j, x) = LittleEndianStep(bytes, j, x)
  BY <1>1 DEF Step
<1>5. LittleEndianStep(bytes, j, x) = 256 * x + bytes[Len(bytes) - j]
  BY <1>3 DEF LittleEndianStep
<1> QED
  BY <1>2, <1>4, <1>5 DEF x, j, k

\* The sign of the highest byte.
Signed(x) == IF x < 128 THEN x ELSE x - 256

\* One byte, two and four.
LEMMA LittleEndianOne ==
  ASSUME NEW a \in Byte
  PROVE  LittleEndian(<<a>>) = Signed(a)
<1> DEFINE s == <<a>>
<1>1. Len(s) = 1 /\ s[1] = a
  OBVIOUS
<1> HIDE DEF s
<1>2. LittleEndian(s) = Result([of |-> "LittleEndian", bytes |-> s], 0)
  <2>1. Len(s) \in Nat /\ Len(s) > 0 /\ Len(s) - 1 = 0
    BY <1>1
  <2> QED
    BY <2>1, LittleEndianIs
<1>3. Result([of |-> "LittleEndian", bytes |-> s], 0) = IF s[Len(s)] < 128 THEN s[Len(s)] ELSE s[Len(s)] - 256
  BY LittleEndianAt0
<1> QED
  BY <1>1, <1>2, <1>3 DEF s, Signed

LEMMA LittleEndianTwo ==
  ASSUME NEW a \in Byte, NEW b \in Byte
  PROVE  LittleEndian(<<a, b>>) = 256 * Signed(b) + a
<1> DEFINE s == <<a, b>>
<1>1. Len(s) = 2 /\ s[1] = a /\ s[2] = b
  OBVIOUS
<1> HIDE DEF s
<1> DEFINE R(i) == Result([of |-> "LittleEndian", bytes |-> s], i)
<1>2. LittleEndian(s) = R(1)
  <2>1. Len(s) \in Nat /\ Len(s) > 0 /\ Len(s) - 1 = 1
    BY <1>1
  <2> QED
    BY <2>1, LittleEndianIs
<1>3. R(0) = IF s[Len(s)] < 128 THEN s[Len(s)] ELSE s[Len(s)] - 256
  BY LittleEndianAt0
<1>4. R(0 + 1) = 256 * R(0) + s[Len(s) - (0 + 1)]
  BY LittleEndianNext
<1> HIDE DEF R
<1>5. 0 + 1 = 1 /\ Len(s) - (0 + 1) = 1
  BY <1>1
<1>6. R(0) = Signed(b)
  BY <1>1, <1>3 DEF Signed
<1>7. R(1) = 256 * Signed(b) + a
  BY <1>1, <1>4, <1>5, <1>6
<1> QED
  BY <1>2, <1>7 DEF s

LEMMA LittleEndianFour ==
  ASSUME NEW a \in Byte, NEW b \in Byte, NEW c \in Byte, NEW d \in Byte
  PROVE  LittleEndian(<<a, b, c, d>>) = 256 * (256 * (256 * Signed(d) + c) + b) + a
<1> DEFINE s == <<a, b, c, d>>
<1>1. Len(s) = 4 /\ s[1] = a /\ s[2] = b /\ s[3] = c /\ s[4] = d
  OBVIOUS
<1> HIDE DEF s
<1> DEFINE R(i) == Result([of |-> "LittleEndian", bytes |-> s], i)
<1>2. LittleEndian(s) = R(3)
  <2>1. Len(s) \in Nat /\ Len(s) > 0 /\ Len(s) - 1 = 3
    BY <1>1
  <2> QED
    BY <2>1, LittleEndianIs
<1>3. R(0) = IF s[Len(s)] < 128 THEN s[Len(s)] ELSE s[Len(s)] - 256
  BY LittleEndianAt0
<1>4. R(0 + 1) = 256 * R(0) + s[Len(s) - (0 + 1)]
  BY LittleEndianNext
<1>5. R(1 + 1) = 256 * R(1) + s[Len(s) - (1 + 1)]
  BY LittleEndianNext
<1>6. R(2 + 1) = 256 * R(2) + s[Len(s) - (2 + 1)]
  BY LittleEndianNext
<1> HIDE DEF R
<1>7. /\ 0 + 1 = 1 /\ 1 + 1 = 2 /\ 2 + 1 = 3
      /\ Len(s) - (0 + 1) = 3 /\ Len(s) - (1 + 1) = 2 /\ Len(s) - (2 + 1) = 1
  BY <1>1
<1>8. R(0) = Signed(d)
  BY <1>1, <1>3 DEF Signed
<1>9. R(1) = 256 * Signed(d) + c
  BY <1>1, <1>4, <1>7, <1>8
<1>10. R(2) = 256 * (256 * Signed(d) + c) + b
  BY <1>1, <1>5, <1>7, <1>9
<1>11. R(3) = 256 * (256 * (256 * Signed(d) + c) + b) + a
  BY <1>1, <1>6, <1>7, <1>10
<1> QED
  BY <1>2, <1>11 DEF s

\* The highest of four bytes.
Top(n) == n \div 16777216

\* A number in bytes.
LEMMA Divided ==
  ASSUME NEW n \in Int
  PROVE  /\ n \div 256 \in Int /\ n % 256 \in Byte /\ 256 * (n \div 256) + (n % 256) = n
         /\ n \div 65536 = (n \div 256) \div 256
         /\ Top(n) = (n \div 65536) \div 256
<1>1. n \div 256 \in Int
  BY SMTT(30)
<1>2. n % 256 \in Byte
  BY SMTT(30) DEF Byte
<1>3. 256 * (n \div 256) + (n % 256) = n
  BY SMTT(30)
<1>4. n \div 65536 = (n \div 256) \div 256
  BY SMTT(30)
<1>5. Top(n) = (n \div 65536) \div 256
  BY SMTT(30) DEF Top
<1> QED
  BY <1>1, <1>2, <1>3, <1>4, <1>5

\* What was written of an integer is what is read.
LEMMA SignedOne ==
  ASSUME NEW n \in Int8
  PROVE  n \in Int /\ n % 256 \in Byte /\ Signed(n % 256) = n
BY SMTT(30) DEF Byte, Signed, Int8

\* What a byte with a sign can be.
LEMMA SmallInt ==
  ASSUME NEW q \in Int, q + 128 >= 0, q <= 127
  PROVE  q \in Int8
BY SMTT(30) DEF Int8

\* An integer of two bytes.
LEMMA Int16Is ==
  ASSUME NEW n \in Int16
  PROVE  n + 32768 >= 0 /\ n <= 32767 /\ n \in Int
BY SMTT(60) DEF Int16

LEMMA SignedTwo ==
  ASSUME NEW n \in Int16, NEW q, q = n \div 256, NEW r, r = n % 256
  PROVE  r \in Byte /\ q % 256 \in Byte /\ 256 * Signed(q % 256) + r = n
<1>1. n + 32768 >= 0 /\ n <= 32767 /\ n \in Int
  BY Int16Is
<1>2. q \in Int /\ r \in Byte /\ 256 * q + r = n
  BY <1>1, Divided
<1>3. r \in 0 .. 255
  BY <1>2 DEF Byte
<1>4. q + 128 >= 0 /\ q <= 127
  BY <1>1, <1>2, <1>3, SMTT(30)
<1>5. q \in Int8
  BY <1>2, <1>4, SmallInt
<1>6. q % 256 \in Byte /\ Signed(q % 256) = q
  BY <1>5, SignedOne
<1>7. 256 * Signed(q % 256) + r = n
  BY <1>2, <1>6
<1> QED
  BY <1>2, <1>6, <1>7

LEMMA SignedFour ==
  ASSUME NEW n \in Int, NEW q, q = n \div 256, NEW p, p = n \div 65536, NEW t, t = Top(n), t \in Int8,
         NEW r, r = n % 256
  PROVE  /\ r \in Byte /\ q % 256 \in Byte /\ p % 256 \in Byte /\ t % 256 \in Byte
         /\ 256 * (256 * (256 * Signed(t % 256) + (p % 256)) + (q % 256)) + r = n
<1>1. q \in Int /\ r \in Byte /\ 256 * q + r = n /\ p = q \div 256 /\ t = p \div 256
  BY Divided
<1>2. p \in Int /\ q % 256 \in Byte /\ 256 * p + (q % 256) = q
  BY <1>1, Divided
<1>3. t \in Int /\ p % 256 \in Byte /\ 256 * t + (p % 256) = p
  BY <1>1, <1>2, Divided
<1>4. t % 256 \in Byte /\ Signed(t % 256) = t
  BY SignedOne
<1>5. 256 * (256 * (256 * Signed(t % 256) + (p % 256)) + (q % 256)) + r = n
  <2> DEFINE a == q % 256
             b == p % 256
             d == Signed(t % 256)
  <2>1. 256 * t + b = p /\ 256 * p + a = q /\ d = t
    BY <1>2, <1>3, <1>4
  <2> HIDE DEF a, b, d
  <2>2. 256 * (256 * (256 * d + b) + a) + r = n
    BY <1>1, <2>1
  <2> QED
    BY <2>2 DEF a, b, d
<1> QED
  BY <1>1, <1>2, <1>3, <1>4, <1>5

\* A special encoding, as its first byte says.
LEMMA SpecialRead ==
  ASSUME NEW k \in 0 .. 63, NEW s \in Bytes
  PROVE  /\ <<192 + k>> \o s \in Bytes
         /\ readLength(<<192 + k>> \o s) = Ok([length |-> k, special |-> TRUE], s)
<1> DEFINE x == 192 + k
           b == <<x>> \o s
<1>1. x \in Byte /\ x % 64 = k /\ x \div 64 = 3
  BY DEF Byte
<1> HIDE DEF x
<1>2. readByte(b) = Ok(x, s) /\ b \in Bytes
  BY <1>1, ByteRead, OneByte
<1> HIDE DEF b
<1>3. readByte(b).err = "nil" /\ readByte(b).val = x /\ readByte(b).rest = s
  BY <1>2, OkIs
<1>4. readLength(b) = Special(x, s)
  BY <1>1, <1>2, <1>3, LengthIs
<1>5. Special(x, s) = Ok([length |-> k, special |-> TRUE], s)
  BY <1>1 DEF Special
<1> QED
  BY <1>2, <1>4, <1>5 DEF b, x

\* An integer is read as its text.
LEMMA IntRead ==
  ASSUME NEW k \in 0 .. 2, NEW s \in Bytes, Len(s) = 2 ^ k
  PROVE  /\ <<192 + k>> \o s \in Bytes
         /\ readString(<<192 + k>> \o s) = Ok(Itoa(LittleEndian(s)), <<>>)
<1> DEFINE b == <<192 + k>> \o s
           l == [length |-> k, special |-> TRUE]
<1>0. k \in 0 .. 63
  OBVIOUS
<1>1. b \in Bytes /\ readLength(b) = Ok(l, s)
  BY <1>0, SpecialRead
<1>2. l.special /\ ~(l.length > 2) /\ l.length = k
  OBVIOUS
<1> HIDE DEF b, l
<1>3. readLength(b).err = "nil" /\ readLength(b).val = l /\ readLength(b).rest = s
  BY <1>1, OkIs
<1>4. readString(b) = StringBehind(l, s)
  BY <1>3, StringIs
<1>5. StringBehind(l, s) = IntBehind(2 ^ k, s)
  BY <1>2 DEF StringBehind
<1>6. ReadFull(s, Len(s)) = Ok(s, <<>>)
  BY AllRead
<1> DEFINE n == Len(s)
           r == ReadFull(s, n)
<1>7. r.err = "nil" /\ r.val = s /\ r.rest = <<>>
  BY <1>6, OkIs
<1>8. IntBehind(n, s) = Ok(Itoa(LittleEndian(s)), <<>>)
  BY <1>7 DEF IntBehind
<1> QED
  BY <1>1, <1>4, <1>5, <1>8 DEF b

\* A compressed string is an error of readString.
LEMMA CompressedRead ==
  ASSUME NEW s \in Bytes
  PROVE  <<195>> \o s \in Bytes /\ readString(<<195>> \o s).err # "nil"
<1> DEFINE b == <<195>> \o s
           l == [length |-> 3, special |-> TRUE]
<1>1. b \in Bytes /\ readLength(b) = Ok(l, s)
  <2>1. 3 \in 0 .. 63 /\ 192 + 3 = 195
    OBVIOUS
  <2>2. /\ <<192 + 3>> \o s \in Bytes
        /\ readLength(<<192 + 3>> \o s) = Ok([length |-> 3, special |-> TRUE], s)
    BY <2>1, SpecialRead
  <2> QED
    BY <2>1, <2>2
<1>2. l.special /\ l.length > 2
  OBVIOUS
<1> HIDE DEF b, l
<1>3. readLength(b).err = "nil" /\ readLength(b).val = l /\ readLength(b).rest = s
  BY <1>1, OkIs
<1>4. readString(b) = StringBehind(l, s)
  BY <1>3, StringIs
<1>5. StringBehind(l, s) = Fail("unsupported")
  BY <1>2 DEF StringBehind
<1>6. Fail("unsupported").err # "nil"
  BY DEF Fail
<1> QED
  BY <1>1, <1>4, <1>5, <1>6 DEF b

\* A string is read as its bytes.
LEMMA PlainRead ==
  ASSUME NEW form \in {"bits6", "bits14", "bits32"}, NEW s \in Bytes, Fits(form, Len(s))
  PROVE  /\ Length(form, Len(s)) \o s \in Bytes
         /\ readString(Length(form, Len(s)) \o s) = Ok(s, <<>>)
<1> DEFINE n == Len(s)
           h == Length(form, n)
           b == h \o s
           l == Plain(n)
<1>1. n \in Nat
  BY BytesHaveLength
<1>2. h \in Bytes /\ readLength(b) = Ok(l, s)
  BY <1>1, LengthRead
<1>3. b \in Bytes
  <2> HIDE DEF h
  <2> QED
    BY <1>2, Joined
<1>4. ~l.special /\ l.length = n
  BY DEF Plain
<1>5. ReadFull(s, n) = Ok(s, <<>>)
  BY AllRead
<1> HIDE DEF b, l, n, h
<1>6. readLength(b).err = "nil" /\ readLength(b).val = l /\ readLength(b).rest = s
  BY <1>2, OkIs
<1>7. readString(b) = StringBehind(l, s)
  BY <1>6, StringIs
<1>8. StringBehind(l, s) = Ok(s, <<>>)
  BY <1>4, <1>5 DEF StringBehind
<1> QED
  BY <1>3, <1>7, <1>8 DEF b, h, n

\* The forms of a text.
LEMMA TextsAre ==
  ASSUME NEW t \in RdbTexts
  PROVE  \/ t.form \in {"bits6", "bits14", "bits32"} /\ t.text \in Bytes /\ Fits(t.form, Len(t.text))
         \/ t.form = "int8" /\ t.text \in Int8
         \/ t.form = "int16" /\ t.text \in Int16
         \/ t.form = "int32" /\ t.text \in Int32
         \/ t.form = "compressed" /\ t.text \in Bytes
BY DEF RdbTexts, Forms

\* A text is read, with nothing behind it, as what was written; a compressed one is not.
TextIsRead(t) ==
  /\ TextBytes(t) \in Bytes
  /\ t.form # "compressed" => readString(TextBytes(t)) = Ok(TextRead(t), <<>>)
  /\ t.form = "compressed" => readString(TextBytes(t)).err # "nil"

LEMMA TextReadAlone ==
  ASSUME NEW t \in RdbTexts
  PROVE  TextIsRead(t)
<1> DEFINE n == t.text
<1>1. CASE t.form \in {"bits6", "bits14", "bits32"} /\ n \in Bytes /\ Fits(t.form, Len(n))
  <2>0. t.form # "int8" /\ t.form # "int16" /\ t.form # "int32" /\ t.form # "compressed"
    BY <1>1
  <2>1. TextBytes(t) = Length(t.form, Len(n)) \o n /\ TextRead(t) = n /\ t.form # "compressed"
    <3>1. TextBytes(t) = Length(t.form, Len(n)) \o n
      <4>1. t.form \in Forms
        BY <1>1 DEF Forms
      <4> QED
        BY <4>1 DEF TextBytes
    <3>2. TextRead(t) = n
      BY <2>0 DEF TextRead
    <3> QED
      BY <2>0, <3>1, <3>2
  <2> DEFINE f == t.form
  <2> HIDE DEF n, f
  <2>2. /\ Length(f, Len(n)) \o n \in Bytes
        /\ readString(Length(f, Len(n)) \o n) = Ok(n, <<>>)
    BY <1>1, PlainRead DEF f
  <2> QED
    BY <2>1, <2>2 DEF f, TextIsRead
<1>2. CASE t.form = "int8" /\ n \in Int8
  <2> DEFINE a == n % 256
             s == <<a>>
  <2>1. TextBytes(t) = <<192, a>> /\ TextRead(t) = Itoa(n) /\ t.form # "compressed"
    BY <1>2, SMTT(30) DEF TextBytes, IntBytes, TextRead, Forms
  <2> HIDE DEF n
  <2>2. a \in Byte /\ Signed(a) = n
    BY <1>2, SignedOne
  <2> HIDE DEF a
  <2>3. <<192, a>> = <<192>> \o s /\ s \in Bytes /\ Len(s) = 1
    <3>1. 192 \in Byte
      BY DEF Byte
    <3> QED
      BY <2>2, <3>1, TwoBytes DEF Bytes
  <2>4. LittleEndian(s) = n
    BY <2>2, LittleEndianOne
  <2> HIDE DEF s
  <2>5. 0 \in 0 .. 2 /\ 2 ^ 0 = 1 /\ 192 + 0 = 192
    OBVIOUS
  <2>6. /\ <<192 + 0>> \o s \in Bytes
        /\ readString(<<192 + 0>> \o s) = Ok(Itoa(LittleEndian(s)), <<>>)
    <3>1. Len(s) = 2 ^ 0 /\ s \in Bytes
      BY <2>3, <2>5
    <3> QED
      BY <2>5, <3>1, IntRead
  <2>7. TextBytes(t) = <<192>> \o s
    BY <2>1, <2>3
  <2> DEFINE b == <<192>> \o s
  <2>8. b \in Bytes /\ readString(b) = Ok(Itoa(n), <<>>)
    BY <2>4, <2>5, <2>6
  <2> HIDE DEF b
  <2>9. TextBytes(t) = b
    BY <2>7 DEF b
  <2> QED
    BY <2>1, <2>8, <2>9 DEF TextIsRead
<1>3. CASE t.form = "int16" /\ n \in Int16
  <2> DEFINE a == n % 256
             q == n \div 256
             c == q % 256
             s == <<a, c>>
  <2>1. TextBytes(t) = <<193, a, c>> /\ TextRead(t) = Itoa(n) /\ t.form # "compressed"
    BY <1>3, SMTT(30) DEF TextBytes, IntBytes, Forms, TextRead
  <2> HIDE DEF n
  <2>2. a \in Byte /\ c \in Byte /\ 256 * Signed(c) + a = n
    BY <1>3, SignedTwo
  <2> HIDE DEF a, c
  <2>3. <<193, a, c>> = <<193>> \o s /\ s \in Bytes /\ Len(s) = 2
    <3>1. 193 \in Byte
      BY DEF Byte
    <3> QED
      BY <2>2, <3>1 DEF Bytes
  <2>4. LittleEndian(s) = n
    BY <2>2, LittleEndianTwo
  <2> HIDE DEF s
  <2>5. 1 \in 0 .. 2 /\ 2 ^ 1 = 2 /\ 192 + 1 = 193
    OBVIOUS
  <2>6. /\ <<192 + 1>> \o s \in Bytes
        /\ readString(<<192 + 1>> \o s) = Ok(Itoa(LittleEndian(s)), <<>>)
    <3>1. Len(s) = 2 ^ 1 /\ s \in Bytes
      BY <2>3, <2>5
    <3> QED
      BY <2>5, <3>1, IntRead
  <2>7. TextBytes(t) = <<193>> \o s
    BY <2>1, <2>3
  <2> DEFINE b == <<193>> \o s
  <2>8. b \in Bytes /\ readString(b) = Ok(Itoa(n), <<>>)
    BY <2>4, <2>5, <2>6
  <2> HIDE DEF b
  <2>9. TextBytes(t) = b
    BY <2>7 DEF b
  <2> QED
    BY <2>1, <2>8, <2>9 DEF TextIsRead
<1>4. CASE t.form = "int32" /\ n \in Int32
  <2> DEFINE r == n % 256
             q == n \div 256
             p == n \div 65536
             h == Top(n)
             a == r
             b2 == q % 256
             c == p % 256
             d == h % 256
             s == <<a, b2, c, d>>
  <2>1. TextBytes(t) = <<194, a, b2, c, d>> /\ TextRead(t) = Itoa(n) /\ t.form # "compressed"
    <3>1. TextBytes(t) = <<194, a, b2, c, d>>
      BY <1>4, SMTT(30) DEF TextBytes, IntBytes, Forms, Top
    <3>2. TextRead(t) = Itoa(n) /\ t.form # "compressed"
      BY <1>4 DEF TextRead
    <3> QED
      BY <3>1, <3>2
  <2>10. n \in Int /\ h \in Int8
    BY <1>4, SMTT(30) DEF Int32, Top
  <2> HIDE DEF n
  <2>11. q = n \div 256 /\ p = n \div 65536 /\ h = Top(n) /\ r = n % 256
    OBVIOUS
  <2> HIDE DEF q, p, h, r
  <2>2. /\ a \in Byte /\ b2 \in Byte /\ c \in Byte /\ d \in Byte
        /\ 256 * (256 * (256 * Signed(d) + c) + b2) + a = n
    BY <2>10, <2>11, SignedFour
  <2> HIDE DEF a, b2, c, d
  <2>3. <<194, a, b2, c, d>> = <<194>> \o s /\ s \in Bytes /\ Len(s) = 4
    <3>1. 194 \in Byte
      BY DEF Byte
    <3> QED
      BY <2>2, <3>1 DEF Bytes
  <2>4. LittleEndian(s) = n
    BY <2>2, LittleEndianFour
  <2> HIDE DEF s
  <2>5. 2 \in 0 .. 2 /\ 2 ^ 2 = 4 /\ 192 + 2 = 194
    OBVIOUS
  <2>6. /\ <<192 + 2>> \o s \in Bytes
        /\ readString(<<192 + 2>> \o s) = Ok(Itoa(LittleEndian(s)), <<>>)
    <3>1. Len(s) = 2 ^ 2 /\ s \in Bytes
      BY <2>3, <2>5
    <3> QED
      BY <2>5, <3>1, IntRead
  <2>7. TextBytes(t) = <<194>> \o s
    BY <2>1, <2>3
  <2> DEFINE b == <<194>> \o s
  <2>8. b \in Bytes /\ readString(b) = Ok(Itoa(n), <<>>)
    BY <2>4, <2>5, <2>6
  <2> HIDE DEF b
  <2>9. TextBytes(t) = b
    BY <2>7 DEF b
  <2> QED
    BY <2>1, <2>8, <2>9 DEF TextIsRead
<1>5. CASE t.form = "compressed" /\ n \in Bytes
  <2>1. TextBytes(t) = <<195>> \o n
    BY <1>5 DEF TextBytes, Forms
  <2> HIDE DEF n
  <2>2. <<195>> \o n \in Bytes /\ readString(<<195>> \o n).err # "nil"
    BY <1>5, CompressedRead
  <2> QED
    BY <1>5, <2>1, <2>2 DEF TextIsRead
<1> QED
  BY <1>1, <1>2, <1>3, <1>4, <1>5, TextsAre

\* Whatever is behind it.
LEMMA TextIsReadAhead ==
  ASSUME NEW t \in RdbTexts, NEW c \in Bytes
  PROVE  /\ TextBytes(t) \in Bytes
         /\ t.form # "compressed" => readString(TextBytes(t) \o c) = Ok(TextRead(t), c)
         /\ t.form = "compressed" => readString(TextBytes(t) \o c).err # "nil"
<1> DEFINE b == TextBytes(t)
           v == TextRead(t)
           r == readString(b)
           more == readString(b \o c)
<1>1. b \in Bytes /\ (t.form # "compressed" => r = Ok(v, <<>>))
  BY TextReadAlone DEF TextIsRead
<1>2. Local(r, b, more, c)
  <2> HIDE DEF b
  <2> QED
    BY <1>1, ReadStringLocal
<1>3. ASSUME t.form = "compressed" PROVE more.err # "nil"
  <2> DEFINE s == t.text
             z == s \o c
  <2>1. s \in Bytes
    BY <1>3, TextsAre
  <2>2. b = <<195>> \o s
    BY <1>3 DEF TextBytes, Forms
  <2>3. 195 \in Byte
    BY DEF Byte
  <2>4. <<195>> \in Bytes
    BY <2>3 DEF Bytes
  <2> HIDE DEF s, b
  <2>5. b \o c = <<195>> \o (s \o c)
    BY <2>1, <2>2, <2>4, JoinedThrice
  <2>6. z \in Bytes
    BY <2>1, Joined
  <2> HIDE DEF z
  <2>7. readString(<<195>> \o z).err # "nil"
    BY <2>6, CompressedRead
  <2> QED
    BY <2>5, <2>7 DEF z
<1> HIDE DEF b, v, r, more
<1>4. ASSUME r = Ok(v, <<>>) PROVE more = Ok(v, c)
  BY <1>2, <1>4, ReadAhead
<1> QED
  BY <1>1, <1>3, <1>4 DEF b, v, more

\* Two texts behind one another, and whatever is behind them.
TwoTextsRead(t, u, c) ==
  LET b == (TextBytes(t) \o TextBytes(u)) \o c
      r == Two(readString, readString, b)
  IN  /\ TextBytes(t) \o TextBytes(u) \in Bytes
      /\ t.form # "compressed" /\ u.form # "compressed" => r = Ok(<<TextRead(t), TextRead(u)>>, c)
      /\ ~(t.form # "compressed" /\ u.form # "compressed") => r.err # "nil"

\* They are read as both.
LEMMA TwoTexts ==
  ASSUME NEW t \in RdbTexts, NEW u \in RdbTexts, NEW c \in Bytes
  PROVE  TwoTextsRead(t, u, c)
<1> DEFINE a == TextBytes(t)
           d == TextBytes(u)
           b == (a \o d) \o c
           z == d \o c
           r == readString(b)
           x == readString(r.rest)
           v == TextRead(t)
           w == TextRead(u)
<1>1. a \in Bytes /\ d \in Bytes
  BY TextReadAlone DEF TextIsRead
<1>2. a \o d \in Bytes /\ z \in Bytes /\ b = a \o z
  <2> HIDE DEF a, d
  <2> QED
    BY ZenonT(30), <1>1, Joined, JoinedThrice
<1>3. Two(readString, readString, b) = Pair(r, x)
  BY TwoStringsAre
<1>4. /\ t.form # "compressed" => r = Ok(v, z)
      /\ t.form = "compressed" => r.err # "nil"
  <2> HIDE DEF z, b
  <2>1. /\ t.form # "compressed" => readString(TextBytes(t) \o z) = Ok(TextRead(t), z)
        /\ t.form = "compressed" => readString(TextBytes(t) \o z).err # "nil"
    BY <1>2, TextIsReadAhead
  <2> QED
    BY <1>2, <2>1
<1>5. t.form # "compressed" => r.err = "nil" /\ r.val = v /\ r.rest = z
  <2> HIDE DEF r, v, z
  <2> QED
    BY <1>4, OkIs
<1>6. /\ u.form # "compressed" => readString(z) = Ok(w, c)
      /\ u.form = "compressed" => readString(z).err # "nil"
  BY TextIsReadAhead
<1>7. u.form # "compressed" => readString(z).err = "nil" /\ readString(z).val = w /\ readString(z).rest = c
  <2> HIDE DEF z, w
  <2> QED
    BY <1>6, OkIs
<1> DEFINE p == Two(readString, readString, b)
<1>8. ASSUME t.form # "compressed", u.form # "compressed" PROVE p = Ok(<<v, w>>, c)
  <2> HIDE DEF r, v, w, z
  <2> QED
    BY <1>3, <1>5, <1>7, <1>8 DEF Pair
<1>9. ASSUME t.form = "compressed" PROVE p.err # "nil"
  <2> HIDE DEF r, x
  <2> QED
    BY <1>3, <1>4, <1>9 DEF Pair
<1>10. ASSUME t.form # "compressed", u.form = "compressed" PROVE p.err # "nil"
  <2>1. r.err = "nil" /\ x.err # "nil"
    <3> HIDE DEF r, z
    <3> QED
      BY <1>5, <1>6, <1>10
  <2> HIDE DEF r, x
  <2> QED
    BY <1>3, <2>1 DEF Pair
<1> HIDE DEF p
<1>11. /\ t.form # "compressed" /\ u.form # "compressed" => p = Ok(<<v, w>>, c)
       /\ ~(t.form # "compressed" /\ u.form # "compressed") => p.err # "nil"
  BY <1>8, <1>9, <1>10
<1> QED
  BY <1>2, <1>11 DEF TwoTextsRead, p

TwoSizesRead(l, k, c) ==
  LET b == (Length(l.form, l.n) \o Length(k.form, k.n)) \o c
      r == Two(readLength, readLength, b)
  IN  Length(l.form, l.n) \o Length(k.form, k.n) \in Bytes /\ r = Ok(<<Plain(l.n), Plain(k.n)>>, c)

\* The forms of a length.
LEMMA LengthsAre ==
  ASSUME NEW l \in Lengths
  PROVE  l.form \in {"bits6", "bits14", "bits32"} /\ l.n \in Nat /\ Fits(l.form, l.n)
BY DEF Lengths, Forms

\* Two of them behind one another.
LEMMA TwoSizes ==
  ASSUME NEW l \in Lengths, NEW k \in Lengths, NEW c \in Bytes
  PROVE  TwoSizesRead(l, k, c)
<1> DEFINE a == Length(l.form, l.n)
           d == Length(k.form, k.n)
           b == (a \o d) \o c
           z == d \o c
           r == readLength(b)
           x == readLength(r.rest)
           v == Plain(l.n)
           w == Plain(k.n)
<1>1. a \in Bytes /\ d \in Bytes
  BY LengthsAre, LengthRead
<1>2. a \o d \in Bytes /\ z \in Bytes /\ b = a \o z
  <2> HIDE DEF a, d
  <2> QED
    BY ZenonT(30), <1>1, Joined, JoinedThrice
<1>3. Two(readLength, readLength, b) = Pair(r, x)
  BY TwoLengthsAre
<1>4. r = Ok(v, z)
  <2> HIDE DEF z, b
  <2>1. readLength(Length(l.form, l.n) \o z) = Ok(Plain(l.n), z)
    BY <1>2, LengthsAre, LengthRead
  <2> QED
    BY <1>2, <2>1
<1>5. r.err = "nil" /\ r.val = v /\ r.rest = z
  <2> HIDE DEF r, v, z
  <2> QED
    BY <1>4, OkIs
<1>6. readLength(z) = Ok(w, c)
  BY LengthsAre, LengthRead
<1>7. readLength(z).err = "nil" /\ readLength(z).val = w /\ readLength(z).rest = c
  <2> HIDE DEF z, w
  <2> QED
    BY <1>6, OkIs
<1>8. Two(readLength, readLength, b) = Ok(<<v, w>>, c)
  <2> HIDE DEF r, v, w, z
  <2> QED
    BY <1>3, <1>5, <1>7 DEF Pair
<1> HIDE DEF v, w
<1> QED
  BY <1>2, <1>8 DEF TwoSizesRead, v, w

-------------------------------------------------------------------------------
(* Sections.                                                               *)

\* One text, and two.
LEMMA ConcatOne ==
  ASSUME NEW x \in Bytes
  PROVE  Concat(<<x>>) = x
<1>1. <<>> \in Seq(Bytes) /\ <<x>> = Append(<<>>, x)
  OBVIOUS
<1>2. Concat(Append(<<>>, x)) = Concat(<<>>) \o x
  BY <1>1, ConcatOfMore
<1>3. <<>> \o x = x
  BY DEF Bytes
<1> QED
  BY <1>1, <1>2, <1>3, ConcatOfNone

LEMMA ConcatTwo ==
  ASSUME NEW x \in Bytes, NEW y \in Bytes
  PROVE  Concat(<<x, y>>) = x \o y
<1>1. <<x>> \in Seq(Bytes) /\ <<x, y>> = Append(<<x>>, y)
  OBVIOUS
<1>2. Concat(Append(<<x>>, y)) = Concat(<<x>>) \o y
  BY <1>1, ConcatOfMore
<1> QED
  BY <1>1, <1>2, ConcatOne

\* What is behind the opcode.
AtBytes(s) == IF s.at = <<>> THEN <<>> ELSE Append(s.at, s.type)

LengthsBytes(s) == Concat([i \in DOMAIN s.lengths |-> Length(s.lengths[i].form, s.lengths[i].n)])

TextsBytes(s) == Concat([i \in DOMAIN s.texts |-> TextBytes(s.texts[i])])

\* A section in bytes.
LEMMA SectionBytesAre ==
  ASSUME NEW s
  PROVE  SectionBytes(s) = ((<<s.op>> \o AtBytes(s)) \o LengthsBytes(s)) \o TextsBytes(s)
BY DEF SectionBytes, AtBytes, LengthsBytes, TextsBytes

\* What a section may have, by its opcode.
LEMMA SectionsAre ==
  ASSUME NEW s \in Sections
  PROVE  /\ s.op \in Byte /\ s.at \in Bytes /\ s.type \in Byte
         /\ s.lengths \in Seq(Lengths) /\ s.texts \in Seq(RdbTexts)
         /\ s.op = 252 => Len(s.at) = 8
         /\ s.op = 253 => Len(s.at) = 4
         /\ s.op \notin {252, 253} => Len(s.at) = 0
         /\ s.op = 254 => Len(s.lengths) = 1
         /\ s.op = 251 => Len(s.lengths) = 2
         /\ s.op \notin {251, 254} => Len(s.lengths) = 0
         /\ s.op \in {251, 254, 255} => Len(s.texts) = 0
         /\ s.op \notin {251, 254, 255} => Len(s.texts) = 2
<1>1. /\ s.op \in Byte /\ s.at \in Bytes /\ s.type \in Byte
      /\ s.lengths \in Seq(Lengths) /\ s.texts \in Seq(RdbTexts)
  BY DEF Sections
<1>2. Len(s.at) = (CASE s.op = 252 -> 8 [] s.op = 253 -> 4 [] OTHER -> 0)
  BY DEF Sections
<1>3. Len(s.lengths) = (CASE s.op = 254 -> 1 [] s.op = 251 -> 2 [] OTHER -> 0)
  BY DEF Sections
<1>4. Len(s.texts) = IF s.op \in {251, 254, 255} THEN 0 ELSE 2
  BY DEF Sections
<1>5. s.op \in Int
  <2>1. Byte \subseteq Int
    BY DEF Byte
  <2> QED
    BY <1>1, <2>1
<1> DEFINE o == s.op
<1>6. o \in Int
  BY <1>5
<1>7. /\ o = 252 => Len(s.at) = 8
      /\ o = 253 => Len(s.at) = 4
      /\ o \notin {252, 253} => Len(s.at) = 0
  <2>1. Len(s.at) = (CASE o = 252 -> 8 [] o = 253 -> 4 [] OTHER -> 0)
    BY <1>2
  <2> HIDE DEF o
  <2> QED
    BY <1>6, <2>1
<1>8. /\ o = 254 => Len(s.lengths) = 1
      /\ o = 251 => Len(s.lengths) = 2
      /\ o \notin {251, 254} => Len(s.lengths) = 0
  <2>1. Len(s.lengths) = (CASE o = 254 -> 1 [] o = 251 -> 2 [] OTHER -> 0)
    BY <1>3
  <2> HIDE DEF o
  <2> QED
    BY <1>6, <2>1
<1> QED
  BY <1>1, <1>4, <1>7, <1>8

\* A sequence of no length.
LEMMA NoneOf ==
  ASSUME NEW S, NEW q \in Seq(S), Len(q) = 0
  PROVE  q = <<>>
OBVIOUS

\* Its sizes and its texts in bytes.
LEMMA LengthsBytesAre ==
  ASSUME NEW s \in Sections
  PROVE  /\ s.op \notin {251, 254} => LengthsBytes(s) = <<>>
         /\ s.op = 254 => /\ s.lengths[1] \in Lengths
                          /\ LengthsBytes(s) = Length(s.lengths[1].form, s.lengths[1].n)
         /\ s.op = 251 => /\ s.lengths[1] \in Lengths /\ s.lengths[2] \in Lengths
                          /\ LengthsBytes(s) = Length(s.lengths[1].form, s.lengths[1].n)
                                                 \o Length(s.lengths[2].form, s.lengths[2].n)
<1> DEFINE q == s.lengths
           B(l) == Length(l.form, l.n)
           m == [i \in DOMAIN q |-> B(q[i])]
<1>1. q \in Seq(Lengths)
  BY SectionsAre
<1>2. LengthsBytes(s) = Concat(m)
  BY DEF LengthsBytes
<1>3. ASSUME NEW l \in Lengths PROVE B(l) \in Bytes
  <2>1. <<>> \in Bytes
    BY DEF Bytes
  <2> QED
    BY <2>1, LengthsAre, LengthRead
<1>4. CASE s.op \notin {251, 254}
  <2>1. q = <<>>
    BY <1>1, <1>4, SectionsAre, NoneOf
  <2> HIDE DEF q, B
  <2>2. m = <<>>
    BY <2>1
  <2> QED
    BY <1>2, <1>4, <2>2, ConcatOfNone
<1>5. CASE s.op = 254
  <2>1. Len(q) = 1
    BY <1>5, SectionsAre
  <2> HIDE DEF q, B
  <2>2. q[1] \in Lengths /\ m = <<B(q[1])>>
    BY <1>1, <2>1
  <2>3. Concat(m) = B(q[1])
    BY <1>3, <2>2, ConcatOne
  <2> QED
    BY <1>2, <1>5, <2>2, <2>3 DEF q, B
<1>6. CASE s.op = 251
  <2>1. Len(q) = 2
    BY <1>6, SectionsAre
  <2> HIDE DEF q, B
  <2>2. q[1] \in Lengths /\ q[2] \in Lengths /\ m = <<B(q[1]), B(q[2])>>
    BY <1>1, <2>1
  <2>3. Concat(m) = B(q[1]) \o B(q[2])
    BY <1>3, <2>2, ConcatTwo
  <2> QED
    BY SMTT(60), <1>2, <1>6, <2>2, <2>3 DEF q, B
<1> QED
  BY <1>4, <1>5, <1>6

LEMMA TextsBytesAre ==
  ASSUME NEW s \in Sections
  PROVE  /\ s.op \in {251, 254, 255} => TextsBytes(s) = <<>> /\ Supported(s)
         /\ s.op \notin {251, 254, 255} =>
              /\ s.texts[1] \in RdbTexts /\ s.texts[2] \in RdbTexts
              /\ TextsBytes(s) = TextBytes(s.texts[1]) \o TextBytes(s.texts[2])
              /\ Supported(s) <=> s.texts[1].form # "compressed" /\ s.texts[2].form # "compressed"
<1> DEFINE q == s.texts
           m == [i \in DOMAIN q |-> TextBytes(q[i])]
<1>1. q \in Seq(RdbTexts)
  BY SectionsAre
<1>2. TextsBytes(s) = Concat(m) /\ (Supported(s) <=> \A i \in DOMAIN q : q[i].form # "compressed")
  BY DEF TextsBytes, Supported
<1>3. CASE s.op \in {251, 254, 255}
  <2>1. q = <<>>
    BY <1>1, <1>3, SectionsAre, NoneOf
  <2> HIDE DEF q
  <2>2. m = <<>> /\ DOMAIN q = {}
    BY <2>1
  <2> QED
    BY <1>2, <1>3, <2>2, ConcatOfNone
<1>4. CASE s.op \notin {251, 254, 255}
  <2>1. Len(q) = 2
    BY <1>4, SectionsAre
  <2> HIDE DEF q
  <2>2. q[1] \in RdbTexts /\ q[2] \in RdbTexts /\ m = <<TextBytes(q[1]), TextBytes(q[2])>>
    BY <1>1, <2>1
  <2>3. DOMAIN q = {1, 2}
    BY <1>1, <2>1
  <2>4. TextBytes(q[1]) \in Bytes /\ TextBytes(q[2]) \in Bytes
    BY <2>2, TextReadAlone DEF TextIsRead
  <2>5. Concat(m) = TextBytes(q[1]) \o TextBytes(q[2])
    BY <2>2, <2>4, ConcatTwo
  <2>6. Supported(s) <=> q[1].form # "compressed" /\ q[2].form # "compressed"
    BY <1>2, <2>3
  <2> QED
    BY <1>2, <1>4, <2>2, <2>5, <2>6 DEF q
<1> QED
  BY <1>3, <1>4

TwoStrings(b) == Two(readString, readString, b)

TwoLengths(b) == Two(readLength, readLength, b)

\* What Parse makes of a section.
LEMMA SectionByOpcode ==
  ASSUME NEW op, NEW b
  PROVE  /\ op = 250 => Section(op, b) = Mapped(TwoStrings(b), Nothing)
         /\ op = 251 => Section(op, b) = Mapped(TwoLengths(b), Nothing)
         /\ op = 252 => Section(op, b) = Onward(Instant(b, 8), Entry(Instant(b, 8).val, Instant(b, 8).rest))
         /\ op = 253 => Section(op, b) = Onward(Instant(b, 4), Entry(Instant(b, 4).val, Instant(b, 4).rest))
<1>1. op = 250 => Section(op, b) = Mapped(TwoStrings(b), Nothing)
  BY SectionIs DEF TwoStrings
<1>2. op = 251 => Section(op, b) = Mapped(TwoLengths(b), Nothing)
  BY SectionIs DEF TwoLengths
<1>3. op = 252 => Section(op, b) = Onward(Instant(b, 8), Entry(Instant(b, 8).val, Instant(b, 8).rest))
  BY DEF Section, Then, Onward
<1>4. op = 253 => Section(op, b) = Onward(Instant(b, 4), Entry(Instant(b, 4).val, Instant(b, 4).rest))
  BY DEF Section, Then, Onward
<1> QED
  BY <1>1, <1>2, <1>3, <1>4

\* An instant and a type are read as the instant.
LEMMA InstantRead ==
  ASSUME NEW at \in Bytes, NEW n, n = Len(at), NEW type \in Byte, NEW z \in Bytes
  PROVE  Append(at, type) \in Bytes /\ Instant(Append(at, type) \o z, n) = Ok(at, z)
<1> DEFINE y == <<type>> \o z
           b == at \o y
           r == ReadFull(at, n)
           more == ReadFull(b, n)
<1>1. y \in Bytes /\ readByte(y) = Ok(type, z)
  BY OneByte, ByteRead
<1>2. n \in Nat /\ r = Ok(at, <<>>)
  BY BytesHaveLength, AllRead
<1> HIDE DEF y
<1>3. Local(r, at, more, y)
  BY <1>1, <1>2, ReadFullLocal
<1> HIDE DEF r, more
<1>4. more = Ok(at, y)
  BY <1>1, <1>2, <1>3, ReadAhead
<1>5. more.err = "nil" /\ more.val = at /\ more.rest = y
  BY <1>4, OkIs
<1>6. readByte(y).err = "nil" /\ readByte(y).val = type /\ readByte(y).rest = z
  BY <1>1, OkIs
<1>7. Instant(b, n) = Ok(at, z)
  <2>1. Instant(b, n) = Onward(more, Mapped(readByte(more.rest), more.val))
    BY InstantIs DEF more
  <2> QED
    BY <1>5, <1>6, <2>1 DEF Onward, Mapped
<1>8. Append(at, type) = at \o <<type>> /\ <<type>> \in Bytes
  BY DEF Bytes
<1>9. Append(at, type) \in Bytes /\ (at \o <<type>>) \o z = at \o (<<type>> \o z)
  BY ZenonT(30), <1>8, Joined, JoinedThrice
<1> QED
  BY <1>7, <1>8, <1>9 DEF b, y

Body(s) == AtBytes(s) \o (LengthsBytes(s) \o TextsBytes(s))

\* What is in the texts and lengths of a section.
LEMMA PartsAre ==
  ASSUME NEW s \in Sections
  PROVE  /\ AtBytes(s) \in Bytes /\ LengthsBytes(s) \in Bytes /\ TextsBytes(s) \in Bytes
         /\ Body(s) \in Bytes /\ SectionBytes(s) = <<s.op>> \o Body(s) /\ SectionBytes(s) \in Bytes
<1>1. s.op \in Byte /\ s.at \in Bytes /\ s.type \in Byte /\ <<>> \in Bytes
  BY SectionsAre DEF Bytes
<1>2. AtBytes(s) \in Bytes
  <2>1. Append(s.at, s.type) \in Bytes
    BY <1>1 DEF Bytes
  <2> QED
    BY <1>1, <2>1 DEF AtBytes
<1>3. LengthsBytes(s) \in Bytes
  <2>1. CASE s.op \notin {251, 254}
    BY <1>1, <2>1, LengthsBytesAre
  <2>2. CASE s.op = 254
    <3>1. s.lengths[1] \in Lengths /\ LengthsBytes(s) = Length(s.lengths[1].form, s.lengths[1].n)
      BY <2>2, LengthsBytesAre
    <3> QED
      BY <1>1, <3>1, LengthsAre, LengthRead
  <2>3. CASE s.op = 251
    <3>1. /\ s.lengths[1] \in Lengths /\ s.lengths[2] \in Lengths
          /\ LengthsBytes(s) = Length(s.lengths[1].form, s.lengths[1].n)
                                 \o Length(s.lengths[2].form, s.lengths[2].n)
      BY <2>3, LengthsBytesAre
    <3> QED
      BY <1>1, <3>1, TwoSizes DEF TwoSizesRead
  <2> QED
    BY <2>1, <2>2, <2>3
<1>4. TextsBytes(s) \in Bytes
  <2>1. CASE s.op \in {251, 254, 255}
    BY <1>1, <2>1, TextsBytesAre
  <2>2. CASE s.op \notin {251, 254, 255}
    <3>1. /\ s.texts[1] \in RdbTexts /\ s.texts[2] \in RdbTexts
          /\ TextsBytes(s) = TextBytes(s.texts[1]) \o TextBytes(s.texts[2])
      BY <2>2, TextsBytesAre
    <3> QED
      BY <1>1, <3>1, TwoTexts DEF TwoTextsRead
  <2> QED
    BY <2>1, <2>2
<1> DEFINE a == AtBytes(s)
           l == LengthsBytes(s)
           t == TextsBytes(s)
           o == <<s.op>>
<1>5. o \in Bytes
  BY <1>1 DEF Bytes
<1>6. SectionBytes(s) = ((o \o a) \o l) \o t
  BY SectionBytesAre
<1>7. a \in Bytes /\ l \in Bytes /\ t \in Bytes
  BY <1>2, <1>3, <1>4
<1> HIDE DEF a, l, t, o
<1>8. o \o a \in Bytes /\ l \o t \in Bytes
  BY <1>5, <1>7, Joined
<1>9. ((o \o a) \o l) \o t = (o \o a) \o (l \o t)
  BY ZenonT(30), <1>7, <1>8, JoinedThrice
<1>10. (o \o a) \o (l \o t) = o \o (a \o (l \o t)) /\ a \o (l \o t) \in Bytes
  BY ZenonT(30), <1>5, <1>7, <1>8, JoinedThrice, Joined
<1>11. o \o (a \o (l \o t)) \in Bytes
  BY <1>5, <1>10, Joined
<1>12. Body(s) = a \o (l \o t)
  BY DEF Body, a, l, t
<1>13. SectionBytes(s) = o \o Body(s) /\ SectionBytes(s) \in Bytes /\ Body(s) \in Bytes
  BY <1>6, <1>9, <1>10, <1>11, <1>12
<1> QED
  BY <1>7, <1>13 DEF a, l, t, o

\* Behind an opcode a section is read as what it brings, whatever is behind it; one with a
\* compressed string is an error.
SectionIsRead(s, c) ==
  /\ Supported(s) => Section(s.op, Body(s) \o c) = Ok(SectionRead(s), c)
  /\ ~Supported(s) => Section(s.op, Body(s) \o c).err # "nil"

\* It is so of sections with sizes, of those with a key and a value, and so of all.
LEMMA SizesSection ==
  ASSUME NEW s \in Sections, s.op \in {251, 254}, NEW c \in Bytes
  PROVE  SectionIsRead(s, c)
<1>1. AtBytes(s) = <<>>
  <2>1. s.at \in Seq(Byte) /\ Len(s.at) = 0
    BY SectionsAre DEF Bytes
  <2> QED
    BY <2>1, NoneOf DEF AtBytes
<1>2. TextsBytes(s) = <<>> /\ Supported(s)
  BY TextsBytesAre
<1>3. SectionRead(s) = Nothing
  BY DEF SectionRead
<1> DEFINE l == LengthsBytes(s)
<1>4. Body(s) = l
  <2>1. l \in Seq(Byte)
    BY PartsAre DEF Bytes
  <2> HIDE DEF l
  <2>2. <<>> \o (l \o <<>>) = l
    BY <2>1
  <2> QED
    BY <1>1, <1>2, <2>2 DEF Body, l
<1>5. CASE s.op = 254
  <2> DEFINE p == s.lengths[1]
             v == Plain(p.n)
             r == readLength(l \o c)
  <2>1. p \in Lengths /\ l = Length(p.form, p.n)
    BY <1>5, LengthsBytesAre
  <2>2. r = Ok(v, c)
    BY <2>1, LengthsAre, LengthRead
  <2>3. Section(254, l \o c) = Mapped(r, Nothing)
    BY SectionIs
  <2> HIDE DEF r, v, l
  <2>4. r.err = "nil" /\ r.rest = c
    BY <2>2, OkIs
  <2>5. Section(254, l \o c) = Ok(Nothing, c)
    BY <2>3, <2>4 DEF Mapped
  <2> QED
    BY <1>2, <1>3, <1>4, <1>5, <2>5 DEF SectionIsRead
<1>6. CASE s.op = 251
  <2> DEFINE p == s.lengths[1]
             q == s.lengths[2]
             v == <<Plain(p.n), Plain(q.n)>>
             r == Two(readLength, readLength, l \o c)
  <2>1. p \in Lengths /\ q \in Lengths /\ l = Length(p.form, p.n) \o Length(q.form, q.n)
    BY <1>6, LengthsBytesAre
  <2>2. r = Ok(v, c)
    <3>1. TwoSizesRead(p, q, c)
      BY <2>1, TwoSizes
    <3> QED
      BY <2>1, <3>1 DEF TwoSizesRead
  <2>3. Section(s.op, l \o c) = Mapped(r, Nothing)
    <3> DEFINE b == l \o c
               o == s.op
    <3>1. o = 251
      BY <1>6
    <3> HIDE DEF b, o
    <3>2. Section(o, b) = Mapped(TwoLengths(b), Nothing)
      BY <3>1, SectionByOpcode
    <3> QED
      BY <3>2 DEF b, o, TwoLengths
  <2> HIDE DEF r, v, l
  <2>4. r.err = "nil" /\ r.rest = c
    BY <2>2, OkIs
  <2>5. Section(s.op, l \o c) = Ok(Nothing, c)
    BY <2>3, <2>4 DEF Mapped
  <2> QED
    BY <1>2, <1>3, <1>4, <1>6, <2>5 DEF SectionIsRead
<1> QED
  BY <1>5, <1>6

\* A section with two texts: r is what is made of them.
LEMMA TextsSection ==
  ASSUME NEW s \in Sections, s.op \notin {251, 254, 255}, NEW c \in Bytes
  PROVE  /\ LengthsBytes(s) = <<>> /\ TextsBytes(s) \in Bytes
         /\ Supported(s) => Two(readString, readString, TextsBytes(s) \o c)
                              = Ok(<<TextRead(s.texts[1]), TextRead(s.texts[2])>>, c)
         /\ ~Supported(s) => Two(readString, readString, TextsBytes(s) \o c).err # "nil"
<1>1. LengthsBytes(s) = <<>>
  BY LengthsBytesAre
<1> DEFINE t == s.texts[1]
           u == s.texts[2]
<1>2. /\ t \in RdbTexts /\ u \in RdbTexts /\ TextsBytes(s) = TextBytes(t) \o TextBytes(u)
      /\ Supported(s) <=> t.form # "compressed" /\ u.form # "compressed"
  BY TextsBytesAre
<1> HIDE DEF t, u
<1>3. TwoTextsRead(t, u, c)
  BY <1>2, TwoTexts
<1> DEFINE r == Two(readString, readString, (TextBytes(t) \o TextBytes(u)) \o c)
<1>4. /\ t.form # "compressed" /\ u.form # "compressed" => r = Ok(<<TextRead(t), TextRead(u)>>, c)
      /\ ~(t.form # "compressed" /\ u.form # "compressed") => r.err # "nil"
  BY <1>3 DEF TwoTextsRead
<1>5. r = Two(readString, readString, TextsBytes(s) \o c)
  BY <1>2
<1> HIDE DEF r
<1>6. Two(readString, readString, TextsBytes(s) \o c) = r
  BY <1>5
<1>7. TextsBytes(s) \in Bytes
  BY PartsAre
<1> QED
  BY <1>1, <1>2, <1>4, <1>6, <1>7 DEF t, u

LEMMA EntrySection ==
  ASSUME NEW s \in Sections, s.op \notin {250, 251, 254, 255}, NEW c \in Bytes
  PROVE  /\ Supported(s) => Entry(s.at, TextsBytes(s) \o c) = Ok(SectionRead(s), c)
         /\ ~Supported(s) => Entry(s.at, TextsBytes(s) \o c).err # "nil"
<1> DEFINE b == TextsBytes(s) \o c
           r == Two(readString, readString, b)
           kv == <<TextRead(s.texts[1]), TextRead(s.texts[2])>>
           e == EntryOf(s.at, r.val)
<1>1. /\ Supported(s) => r = Ok(kv, c)
      /\ ~Supported(s) => r.err # "nil"
  BY TextsSection
<1>2. Entry(s.at, b) = Mapped(r, e)
  BY EntryIs
<1>3. SectionRead(s) = EntryOf(s.at, kv)
  BY DEF SectionRead, EntryOf
<1> HIDE DEF r, kv, b
<1>4. ASSUME Supported(s) PROVE Entry(s.at, b) = Ok(SectionRead(s), c)
  <2>1. r.err = "nil" /\ r.val = kv /\ r.rest = c
    BY <1>1, <1>4, OkIs
  <2>2. e = SectionRead(s)
    BY <1>3, <2>1
  <2> HIDE DEF e
  <2> QED
    BY <1>2, <2>1, <2>2 DEF Mapped
<1>5. ASSUME ~Supported(s) PROVE Entry(s.at, b).err # "nil"
  <2> HIDE DEF e
  <2> QED
    BY <1>1, <1>2, <1>5 DEF Mapped
<1> QED
  BY <1>4, <1>5 DEF b

LEMMA SectionReads ==
  ASSUME NEW s \in Sections, s.op # 255, NEW c \in Bytes
  PROVE  SectionIsRead(s, c)
<1> DEFINE t == TextsBytes(s)
           a == AtBytes(s)
<1>1. CASE s.op \in {251, 254}
  BY <1>1, SizesSection
<1>2. CASE s.op = 250
  <2> DEFINE r == Two(readString, readString, t \o c)
             v == <<TextRead(s.texts[1]), TextRead(s.texts[2])>>
  <2>0. s.op \notin {251, 254, 255} /\ s.op \notin {252, 253}
    BY <1>2
  <2>1. /\ LengthsBytes(s) = <<>> /\ t \in Bytes
        /\ Supported(s) => r = Ok(v, c)
        /\ ~Supported(s) => r.err # "nil"
    BY <2>0, TextsSection
  <2>2. a = <<>>
    <3>1. s.at \in Seq(Byte) /\ Len(s.at) = 0
      BY <2>0, SectionsAre DEF Bytes
    <3> QED
      BY <3>1, NoneOf DEF AtBytes
  <2>3. SectionRead(s) = Nothing
    BY <1>2 DEF SectionRead
  <2> HIDE DEF t, v, a
  <2>4. Body(s) = t
    <3>1. <<>> \o (<<>> \o t) = t
      BY <2>1 DEF Bytes
    <3> QED
      BY <2>1, <2>2, <3>1 DEF Body, t, a
  <2>5. Section(s.op, t \o c) = Mapped(r, Nothing)
    <3>1. Section(s.op, t \o c) = Mapped(TwoStrings(t \o c), Nothing)
      BY <1>2, SectionByOpcode
    <3> QED
      BY <3>1 DEF TwoStrings
  <2> HIDE DEF r
  <2>6. Supported(s) => r.err = "nil" /\ r.rest = c
    BY <2>1, OkIs
  <2>7. /\ Supported(s) => Section(s.op, t \o c) = Ok(Nothing, c)
        /\ ~Supported(s) => Section(s.op, t \o c).err # "nil"
    BY <2>1, <2>5, <2>6 DEF Mapped
  <2> QED
    BY <2>3, <2>4, <2>7 DEF SectionIsRead
<1>3. CASE s.op \in {252, 253}
  <2> DEFINE n == Len(s.at)
             z == t \o c
             b == a \o z
             r == Instant(b, n)
             e == Entry(r.val, r.rest)
  <2>0. s.op \notin {251, 254, 255} /\ s.op \notin {250, 251, 254, 255}
    BY <1>3
  <2>1. LengthsBytes(s) = <<>> /\ t \in Bytes
    BY <2>0, TextsSection
  <2>2. s.at \in Bytes /\ s.type \in Byte /\ (s.op = 252 => n = 8) /\ (s.op = 253 => n = 4)
    BY SectionsAre
  <2>3. a = Append(s.at, s.type)
    <3>1. Len(s.at) # 0
      <4>1. n = 8 \/ n = 4
        BY <1>3, <2>2
      <4>2. 8 # 0 /\ 4 # 0
        OBVIOUS
      <4> HIDE DEF n
      <4>3. n # 0
        BY <4>1, <4>2
      <4> QED
        BY <4>3 DEF n
    <3>2. s.at # <<>>
      BY <3>1
    <3> QED
      BY <3>2 DEF AtBytes
  <2>4. z \in Bytes
    <3> HIDE DEF t
    <3> QED
      BY <2>1, Joined
  <2>5. a \in Bytes /\ r = Ok(s.at, z)
    <3> HIDE DEF z, a
    <3> QED
      BY <2>2, <2>3, <2>4, InstantRead
  <2>6. Body(s) \o c = b
    <3> HIDE DEF a, t
    <3>1. <<>> \o t = t /\ (a \o t) \o c = a \o (t \o c)
      BY <2>1, <2>5, JoinedThrice DEF Bytes
    <3> QED
      BY <2>1, <3>1 DEF Body, a, t
  <2>7. Section(s.op, b) = Onward(r, e)
    <3> DEFINE o == s.op
               k == n
    <3>1. (o = 252 /\ k = 8) \/ (o = 253 /\ k = 4)
      BY <1>3, <2>2
    <3> HIDE DEF b, o, k
    <3>2. Section(o, b) = Onward(Instant(b, k), Entry(Instant(b, k).val, Instant(b, k).rest))
      BY <3>1, SectionByOpcode
    <3> QED
      BY <3>2 DEF b, o, k
  <2>8. /\ Supported(s) => Entry(s.at, z) = Ok(SectionRead(s), c)
        /\ ~Supported(s) => Entry(s.at, z).err # "nil"
    BY <2>0, EntrySection
  <2> HIDE DEF r, z, b
  <2>9. r.err = "nil" /\ r.val = s.at /\ r.rest = z
    BY <2>5, OkIs
  <2>10. Section(s.op, b) = Entry(s.at, z)
    BY <2>7, <2>9 DEF Onward
  <2> QED
    BY <2>6, <2>8, <2>10 DEF SectionIsRead
<1>4. CASE s.op \notin {250, 251, 252, 253, 254}
  <2>0. s.op \notin {251, 254, 255} /\ s.op \notin {250, 251, 254, 255} /\ s.op \notin {252, 253}
    BY <1>4
  <2>1. LengthsBytes(s) = <<>> /\ t \in Bytes
    BY <2>0, TextsSection
  <2>2. s.at = <<>>
    <3>1. s.at \in Seq(Byte) /\ Len(s.at) = 0
      BY <2>0, SectionsAre DEF Bytes
    <3> QED
      BY <3>1, NoneOf
  <2>3. a = <<>>
    BY <2>2 DEF AtBytes
  <2> DEFINE b == t \o c
  <2>4. Body(s) \o c = b
    <3> HIDE DEF t, a
    <3>1. <<>> \o (<<>> \o t) = t
      BY <2>1 DEF Bytes
    <3> QED
      BY <2>1, <2>3, <3>1 DEF Body, t, a
  <2>5. /\ Supported(s) => Entry(s.at, b) = Ok(SectionRead(s), c)
        /\ ~Supported(s) => Entry(s.at, b).err # "nil"
    BY <2>0, EntrySection
  <2>6. Section(s.op, b) = Entry(<<>>, b)
    <3> HIDE DEF b
    <3> QED
      BY <1>4, SectionIs
  <2> HIDE DEF b
  <2> QED
    BY <2>2, <2>4, <2>5, <2>6 DEF SectionIsRead
<1> QED
  BY <1>1, <1>2, <1>3, <1>4

-------------------------------------------------------------------------------
(* The loop over the sections.                                             *)

\* What is read behind a section z, and what is made of both.
Followed(z, later) == IF z.err # "nil" THEN z ELSE IF later.err # "nil" THEN later
                      ELSE Ok(Over(later.val, z.val), later.rest)

Ends(b) == b = <<>> \/ b[1] = 255

\* One round of the loop of Parse.
LEMMA ParseSectionsAre ==
  ASSUME NEW k \in Nat, NEW b \in Bytes, NEW z, z = Section(b[1], Tail(b))
  PROVE  ParseSections[k][b] = IF k = 0 \/ Ends(b) THEN Ok(Nothing, <<>>)
                               ELSE Followed(z, ParseSections[k - 1][z.rest])
<1> DEFINE x == ParseSections[k - 1]
           later == x[z.rest]
<1>1. ParseSections[k] = ParseSectionsStep(k, x)
  BY ParseSectionsIs
<1> HIDE DEF x
<1>2. ParseSectionsStep(k, x)[b] = IF k = 0 \/ b = <<>> \/ b[1] = 255 THEN Ok(Nothing, <<>>)
        ELSE IF z.err # "nil" THEN z ELSE IF later.err # "nil" THEN later
        ELSE Ok(Over(later.val, z.val), later.rest)
  BY DEF ParseSectionsStep, Then
<1> HIDE DEF later
<1>3. ParseSectionsStep(k, x)[b] = IF k = 0 \/ Ends(b) THEN Ok(Nothing, <<>>) ELSE Followed(z, later)
  BY <1>2 DEF Followed, Ends
<1> QED
  BY <1>1, <1>3 DEF x, later

\* A section leaves fewer bytes.
LEMMA SectionConsumes ==
  ASSUME NEW b \in Bytes, ~Ends(b), NEW z, z = Section(b[1], Tail(b)), z.err = "nil"
  PROVE  z.rest \in Bytes /\ Len(z.rest) \in Nat /\ Len(z.rest) < Len(b) /\ Len(b) \in Nat
<1> DEFINE t == Tail(b)
           op == b[1]
           more == Section(op, t \o <<>>)
<1>1. t \in Bytes /\ Len(t) = Len(b) - 1 /\ <<>> \in Bytes
  BY TailOf DEF Ends, Bytes
<1> HIDE DEF t, op
<1>2. Local(Section(op, t), t, more, <<>>)
  BY <1>1, SectionLocal
<1>3. z = Section(op, t)
  BY DEF op, t
<1> HIDE DEF more
<1>4. z.rest \in Bytes /\ Len(z.rest) <= Len(t)
  BY <1>2, <1>3, LocalMore
<1>5. Len(z.rest) \in Nat /\ Len(b) \in Nat
  BY <1>4, BytesHaveLength
<1> QED
  BY <1>1, <1>4, <1>5

\* The bound on the rounds plays no role once it is the number of bytes.
LEMMA ParseSectionsSame ==
  ASSUME NEW k \in Nat
  PROVE  \A l \in Nat : \A b \in Bytes : l >= k /\ Len(b) <= k => ParseSections[k][b] = ParseSections[l][b]
<1> DEFINE P(i) == \A l \in Nat : \A b \in Bytes : l >= i /\ Len(b) <= i => ParseSections[i][b] = ParseSections[l][b]
           T == {i \in Nat : ~P(i)}
<1>1. SUFFICES ASSUME T # {} PROVE FALSE
  OBVIOUS
<1>2. PICK i \in T : i - 1 \notin T
  <2>1. T \in SUBSET Nat
    OBVIOUS
  <2> HIDE DEF T
  <2> QED
    BY <1>1, <2>1, FirstNumber
<1>3. i \in Nat /\ (i # 0 => P(i - 1)) /\ ~P(i)
  BY <1>2
<1> HIDE DEF T
<1>4. PICK l \in Nat, b \in Bytes : l >= i /\ Len(b) <= i /\ ParseSections[i][b] # ParseSections[l][b]
  BY <1>3
<1> DEFINE z == Section(b[1], Tail(b))
<1>5. ParseSections[i][b] = IF i = 0 \/ Ends(b) THEN Ok(Nothing, <<>>)
                            ELSE Followed(z, ParseSections[i - 1][z.rest])
  BY <1>3, ParseSectionsAre
<1>6. ParseSections[l][b] = IF l = 0 \/ Ends(b) THEN Ok(Nothing, <<>>)
                            ELSE Followed(z, ParseSections[l - 1][z.rest])
  BY ParseSectionsAre
<1>7. ~Ends(b) /\ z.err = "nil" => z.rest \in Bytes /\ Len(z.rest) < Len(b) /\ Len(z.rest) \in Nat
  BY SectionConsumes
<1>8. Len(b) \in Nat /\ (b # <<>> => Len(b) > 0)
  BY BytesHaveLength
<1> HIDE DEF z
<1>9. CASE Ends(b)
  BY <1>4, <1>5, <1>6, <1>9
<1>10. CASE ~Ends(b) /\ z.err # "nil"
  <2>1. i # 0 /\ l # 0
    BY <1>3, <1>4, <1>8, <1>10 DEF Ends
  <2> QED
    BY <1>4, <1>5, <1>6, <1>10, <2>1 DEF Followed
<1>11. CASE ~Ends(b) /\ z.err = "nil"
  <2> DEFINE x == Len(z.rest)
             B == Len(b)
  <2>1. i # 0 /\ l # 0 /\ i - 1 \in Nat /\ l - 1 \in Nat /\ l - 1 >= i - 1 /\ x <= i - 1
    <3>1. x \in Nat /\ x < B /\ B \in Nat /\ B <= i
      BY <1>4, <1>7, <1>8, <1>11
    <3> HIDE DEF x, B
    <3> QED
      BY <1>3, <1>4, <3>1
  <2>2. ParseSections[i - 1][z.rest] = ParseSections[l - 1][z.rest]
    <3>1. P(i - 1)
      BY <1>3, <2>1
    <3> QED
      BY <1>7, <1>11, <2>1, <3>1
  <2> QED
    BY <1>4, <1>5, <1>6, <1>11, <2>1, <2>2
<1> QED
  BY <1>9, <1>10, <1>11

\* The loop of Parse, without a bound on its rounds.
SectionLoop(b) == ParseSections[Len(b)][b]

\* One round of it.
LEMMA LoopIs ==
  ASSUME NEW b \in Bytes, NEW z, z = Section(b[1], Tail(b))
  PROVE  SectionLoop(b) = IF Ends(b) THEN Ok(Nothing, <<>>) ELSE Followed(z, SectionLoop(z.rest))
<1> DEFINE B == Len(b)
<1>1. B \in Nat /\ (b # <<>> => B > 0)
  BY BytesHaveLength
<1>2. SectionLoop(b) = IF B = 0 \/ Ends(b) THEN Ok(Nothing, <<>>) ELSE Followed(z, ParseSections[B - 1][z.rest])
  BY <1>1, ParseSectionsAre DEF SectionLoop
<1>3. ~Ends(b) /\ z.err = "nil" => z.rest \in Bytes /\ Len(z.rest) < B /\ Len(z.rest) \in Nat
  BY SectionConsumes
<1>4. ~Ends(b) => B # 0
  BY <1>1 DEF Ends
<1> HIDE DEF B
<1>5. CASE Ends(b)
  BY <1>2, <1>5
<1>6. CASE ~Ends(b) /\ z.err # "nil"
  BY <1>2, <1>4, <1>6 DEF Followed
<1>7. CASE ~Ends(b) /\ z.err = "nil"
  <2> DEFINE x == Len(z.rest)
  <2>1. x \in Nat /\ B - 1 \in Nat /\ B - 1 >= x /\ z.rest \in Bytes
    <3>1. x \in Nat /\ x < B
      BY <1>3, <1>7
    <3> HIDE DEF x
    <3> QED
      BY <1>1, <1>3, <1>7, <3>1 DEF B
  <2>2. ParseSections[x][z.rest] = ParseSections[B - 1][z.rest]
    BY <2>1, ParseSectionsSame
  <2> QED
    BY <1>2, <1>4, <1>7, <2>2 DEF SectionLoop
<1> QED
  BY <1>5, <1>6, <1>7

\* Maps laid over one another.
LEMMA AndTwice ==
  ASSUME NEW f, NEW g, NEW h
  PROVE  And(And(f, g), h) = And(f, And(g, h))
<1> DEFINE fg == And(f, g)
           gh == And(g, h)
<1>1. DOMAIN fg = DOMAIN f \union DOMAIN g /\ DOMAIN gh = DOMAIN g \union DOMAIN h
  BY DEF And
<1>2. ASSUME NEW k \in DOMAIN fg PROVE fg[k] = IF k \in DOMAIN f THEN f[k] ELSE g[k]
  BY DEF And
<1>3. ASSUME NEW k \in DOMAIN gh PROVE gh[k] = IF k \in DOMAIN g THEN g[k] ELSE h[k]
  BY DEF And
<1> HIDE DEF fg, gh
<1> DEFINE D == DOMAIN f \union DOMAIN g \union DOMAIN h
<1>4. ASSUME NEW k \in D
      PROVE  (IF k \in DOMAIN fg THEN fg[k] ELSE h[k]) = (IF k \in DOMAIN f THEN f[k] ELSE gh[k])
  BY <1>1, <1>2, <1>3
<1>5. And(fg, h) = [k \in D |-> IF k \in DOMAIN fg THEN fg[k] ELSE h[k]]
  BY <1>1 DEF And
<1>6. And(f, gh) = [k \in D |-> IF k \in DOMAIN f THEN f[k] ELSE gh[k]]
  <2>1. DOMAIN f \union DOMAIN gh = D
    BY <1>1
  <2> HIDE DEF D
  <2> QED
    BY <2>1 DEF And
<1> HIDE DEF D
<1>7. And(fg, h) = And(f, gh)
  BY <1>4, <1>5, <1>6
<1> QED
  BY <1>7 DEF fg, gh

LEMMA AndNothing ==
  ASSUME NEW f, NEW g
  PROVE  And(And(f, g), <<>>) = And(f, g)
<1> DEFINE fg == And(f, g)
           D == DOMAIN f \union DOMAIN g
<1>1. DOMAIN fg = D /\ fg = [k \in D |-> fg[k]] /\ DOMAIN <<>> = {}
  BY DEF And
<1> HIDE DEF fg, D
<1>2. And(fg, <<>>) = [k \in D |-> IF k \in D THEN fg[k] ELSE <<>>[k]]
  <2>1. DOMAIN fg \union DOMAIN <<>> = D
    BY <1>1
  <2> QED
    BY <1>1, <2>1 DEF And
<1>3. And(fg, <<>>) = [k \in D |-> fg[k]]
  BY <1>2
<1> QED
  BY <1>1, <1>3 DEF fg

LEMMA NothingAnd ==
  ASSUME NEW f, NEW g
  PROVE  And(<<>>, And(f, g)) = And(f, g)
<1> DEFINE fg == And(f, g)
           D == DOMAIN f \union DOMAIN g
<1>1. DOMAIN fg = D /\ fg = [k \in D |-> fg[k]] /\ DOMAIN <<>> = {}
  BY DEF And
<1> HIDE DEF fg, D
<1>2. And(<<>>, fg) = [k \in D |-> IF k \in {} THEN <<>>[k] ELSE fg[k]]
  <2>1. DOMAIN <<>> \union DOMAIN fg = D
    BY <1>1
  <2> QED
    BY <1>1, <2>1 DEF And
<1>3. And(<<>>, fg) = [k \in D |-> fg[k]]
  BY <1>2
<1> QED
  BY <1>1, <1>3 DEF fg

LEMMA AndNone ==
  And(<<>>, <<>>) = <<>>
<1>1. DOMAIN <<>> = {}
  OBVIOUS
<1>2. And(<<>>, <<>>) = [k \in {} |-> <<>>[k]]
  BY <1>1 DEF And
<1>3. [k \in {} |-> <<>>[k]] = <<>>
  OBVIOUS
<1> QED
  BY <1>2, <1>3

\* Keys and instants laid over one another.
LEMMA OverTwice ==
  ASSUME NEW x, NEW y, NEW z
  PROVE  Over(Over(x, y), z) = Over(x, Over(y, z))
BY AndTwice DEF Over

LEMMA OverNothing ==
  ASSUME NEW x, NEW y
  PROVE  Over(Over(x, y), Nothing) = Over(x, y)
BY AndNothing DEF Over, Nothing

LEMMA NothingOver ==
  ASSUME NEW x, NEW y
  PROVE  Over(Nothing, Over(x, y)) = Over(x, y)
BY NothingAnd DEF Over, Nothing

LEMMA NothingTwice ==
  Over(Nothing, Nothing) = Nothing
BY AndNone DEF Over, Nothing

\* What a loop gives stays the same when nothing is added.
LEMMA LoopGives ==
  ASSUME NEW b \in Bytes, SectionLoop(b).err = "nil"
  PROVE  Over(SectionLoop(b).val, Nothing) = SectionLoop(b).val
<1> DEFINE z == Section(b[1], Tail(b))
           q == SectionLoop(z.rest)
           r == SectionLoop(b)
<1>1. r = IF Ends(b) THEN Ok(Nothing, <<>>) ELSE Followed(z, q)
  BY LoopIs
<1> HIDE DEF z, q
<1>2. r.err = "nil"
  OBVIOUS
<1> HIDE DEF r
<1>3. CASE Ends(b)
  <2>1. r.val = Nothing
    BY <1>1, <1>3, OkIs
  <2> QED
    BY <2>1, NothingTwice DEF r
<1>4. CASE ~Ends(b)
  <2>1. z.err = "nil" /\ q.err = "nil"
    BY <1>1, <1>2, <1>4 DEF Followed
  <2>2. r = Ok(Over(q.val, z.val), q.rest)
    BY <1>1, <1>4, <2>1 DEF Followed
  <2>3. r.val = Over(q.val, z.val)
    BY <2>2, OkIs
  <2> QED
    BY <2>3, OverNothing DEF r
<1> QED
  BY <1>3, <1>4

\* A section in front of other bytes.
LEMMA LoopOfSection ==
  ASSUME NEW s \in Sections, s.op # 255, NEW c \in Bytes, NEW r, r = SectionLoop(SectionBytes(s) \o c), NEW q, q = SectionLoop(c)
  PROVE  /\ Supported(s) /\ q.err = "nil" => r.err = "nil" /\ r.val = Over(q.val, SectionRead(s))
         /\ ~(Supported(s) /\ q.err = "nil") => r.err # "nil"
<1> DEFINE t == Body(s) \o c
           b == <<s.op>> \o t
           z == Section(s.op, t)
           v == SectionRead(s)
<1>1. s.op \in Byte /\ Body(s) \in Bytes /\ SectionBytes(s) = <<s.op>> \o Body(s)
  BY SectionsAre, PartsAre
<1>2. <<s.op>> \in Bytes
  BY <1>1 DEF Bytes
<1>3. t \in Bytes
  BY <1>1, Joined
<1>4. SectionBytes(s) \o c = b
  BY <1>1, <1>2, JoinedThrice
<1>5. b \in Bytes /\ b # <<>> /\ b[1] = s.op /\ Tail(b) = t
  <2> HIDE DEF t
  <2> QED
    BY <1>1, <1>3, OneByte
<1>6. /\ Supported(s) => z = Ok(v, c)
      /\ ~Supported(s) => z.err # "nil"
  BY SectionReads DEF SectionIsRead
<1> HIDE DEF t, b
<1>7. ~Ends(b) /\ z = Section(b[1], Tail(b))
  BY <1>5 DEF Ends
<1> HIDE DEF z, v
<1>8. r = Followed(z, SectionLoop(z.rest))
  BY <1>4, <1>5, <1>7, LoopIs
<1>9. ASSUME Supported(s)
      PROVE  /\ q.err = "nil" => r.err = "nil" /\ r.val = Over(q.val, v)
             /\ q.err # "nil" => r.err # "nil"
  <2>1. z.err = "nil" /\ z.val = v /\ z.rest = c
    BY <1>6, <1>9, OkIs
  <2>2. r = Followed(z, q)
    BY <1>8, <2>1
  <2> DEFINE x == Over(q.val, v)
  <2>3. q.err = "nil" => r = Ok(x, q.rest)
    BY <2>1, <2>2 DEF Followed
  <2>4. q.err # "nil" => r = q
    BY <2>1, <2>2 DEF Followed
  <2> HIDE DEF x
  <2>5. q.err = "nil" => r.err = "nil" /\ r.val = x
    BY <2>3, OkIs
  <2> QED
    BY <2>4, <2>5 DEF x
<1>10. ASSUME ~Supported(s) PROVE r.err # "nil"
  BY <1>6, <1>8, <1>10 DEF Followed
<1> QED
  BY <1>9, <1>10 DEF v

\* The bytes of sections.
Saves(ss) == [i \in DOMAIN ss |-> SectionBytes(ss[i])]

LEMMA SavesAre ==
  ASSUME NEW ss \in Seq(Sections)
  PROVE  /\ Saves(ss) \in Seq(Bytes) /\ Len(Saves(ss)) = Len(ss) /\ Len(ss) \in Nat /\ DOMAIN ss = 1 .. Len(ss)
         /\ \A i \in 1 .. Len(ss) : Saves(ss)[i] = SectionBytes(ss[i]) /\ ss[i] \in Sections
<1>1. Len(ss) \in Nat /\ DOMAIN ss = 1 .. Len(ss)
  BY LenProperties
<1>2. \A i \in 1 .. Len(ss) : SectionBytes(ss[i]) \in Bytes /\ ss[i] \in Sections
  BY <1>1, ElementOfSeq, PartsAre
<1>3. Saves(ss) = [i \in 1 .. Len(ss) |-> SectionBytes(ss[i])]
  BY <1>1 DEF Saves
<1> QED
  BY <1>1, <1>2, <1>3

FirstSupported(ss, i) == \A j \in 1 .. i : Supported(ss[j])

\* The first i sections in front of other bytes.
PeelsOff(ss, i, tail) ==
  LET whole == SectionLoop(Upto(Saves(ss), i) \o tail)
      last  == SectionLoop(tail)
  IN  /\ FirstSupported(ss, i) /\ last.err = "nil" =>
           whole.err = "nil" /\ whole.val = Over(last.val, Brought(SubSeq(ss, 1, i)))
      /\ ~(FirstSupported(ss, i) /\ last.err = "nil") => whole.err # "nil"

AllPeel(ss, i) == \A tail \in Bytes : PeelsOff(ss, i, tail)

\* None, one more, and so all before the end of the data.
LEMMA NonePeels ==
  ASSUME NEW ss
  PROVE  AllPeel(ss, 0)
<1> SUFFICES ASSUME NEW tail \in Bytes PROVE PeelsOff(ss, 0, tail)
  BY DEF AllPeel
<1>1. Upto(Saves(ss), 0) = <<>> /\ SubSeq(ss, 1, 0) = <<>> /\ Brought(<<>>) = Nothing
  BY UptoNone, FirstNone, BroughtOfNone
<1>2. <<>> \o tail = tail
  BY DEF Bytes
<1>3. FirstSupported(ss, 0)
  BY DEF FirstSupported
<1>4. SectionLoop(tail).err = "nil" => Over(SectionLoop(tail).val, Nothing) = SectionLoop(tail).val
  BY LoopGives
<1> QED
  BY <1>1, <1>2, <1>3, <1>4 DEF PeelsOff

LEMMA OneMorePeels ==
  ASSUME NEW ss \in Seq(Sections), NEW i \in 1 .. Len(ss), ss[i].op # 255, AllPeel(ss, i - 1)
  PROVE  AllPeel(ss, i)
<1> SUFFICES ASSUME NEW tail \in Bytes PROVE PeelsOff(ss, i, tail)
  BY DEF AllPeel
<1> DEFINE es == Saves(ss)
           s == ss[i]
           e == SectionBytes(s)
           k == i - 1
           mid == e \o tail
           whole == SectionLoop(Upto(es, i) \o tail)
           m == SectionLoop(mid)
           q == SectionLoop(tail)
           f == Brought(SubSeq(ss, 1, k))
           g == Brought(SubSeq(ss, 1, i))
           v == SectionRead(s)
<1>1. /\ es \in Seq(Bytes) /\ Len(es) = Len(ss) /\ Len(ss) \in Nat /\ es[i] = e /\ s \in Sections
  BY SavesAre
<1>2. e \in Bytes
  BY <1>1, PartsAre
<1>3. i \in 1 .. Len(es) /\ k \in 0 .. Len(es) /\ i \in Nat
  BY <1>1
<1> HIDE DEF e, s
<1>4. mid \in Bytes
  BY <1>2, Joined
<1>5. Upto(es, i) \o tail = Upto(es, k) \o mid
  <2>1. Upto(es, i) = Upto(es, k) \o e
    <3> HIDE DEF es
    <3> QED
      BY <1>1, <1>3, UptoMore
  <2>2. Upto(es, k) \in Bytes
    <3> HIDE DEF es, k
    <3> QED
      BY <1>1, <1>3, UptoType
  <2> HIDE DEF es, k
  <2> QED
    BY <1>2, <2>1, <2>2, JoinedThrice
<1>6. PeelsOff(ss, k, mid)
  <2> HIDE DEF mid
  <2> QED
    BY <1>4 DEF AllPeel
<1>7. /\ FirstSupported(ss, k) /\ m.err = "nil" => whole.err = "nil" /\ whole.val = Over(m.val, f)
      /\ ~(FirstSupported(ss, k) /\ m.err = "nil") => whole.err # "nil"
  <2> HIDE DEF mid, k
  <2> QED
    BY <1>5, <1>6 DEF PeelsOff
<1>8. /\ Supported(s) /\ q.err = "nil" => m.err = "nil" /\ m.val = Over(q.val, v)
      /\ ~(Supported(s) /\ q.err = "nil") => m.err # "nil"
  <2>1. s.op # 255
    BY DEF s
  <2> QED
    BY <1>1, <2>1, LoopOfSection DEF e
<1>9. g = Over(v, f)
  <2>1. SubSeq(ss, 1, i) = Append(SubSeq(ss, 1, k), s) /\ SubSeq(ss, 1, k) \in Seq(Sections)
    BY FirstMore DEF s
  <2> HIDE DEF k
  <2> QED
    BY <1>1, <2>1, BroughtOfMore
<1>10. FirstSupported(ss, i) <=> FirstSupported(ss, k) /\ Supported(s)
  <2>1. \A j \in 1 .. i : j \in 1 .. k \/ j = i
    BY <1>3
  <2>2. \A j \in 1 .. k : j \in 1 .. i
    BY <1>3
  <2>3. i \in 1 .. i
    BY <1>3
  <2> HIDE DEF k
  <2> QED
    BY <2>1, <2>2, <2>3 DEF FirstSupported, s
<1>11. Over(Over(q.val, v), f) = Over(q.val, Over(v, f))
  BY OverTwice
<1> HIDE DEF whole, m, q, f, g, v, k, mid
<1>12. /\ FirstSupported(ss, i) /\ q.err = "nil" => whole.err = "nil" /\ whole.val = Over(q.val, g)
       /\ ~(FirstSupported(ss, i) /\ q.err = "nil") => whole.err # "nil"
  BY <1>7, <1>8, <1>9, <1>10, <1>11
<1> QED
  BY <1>12 DEF PeelsOff, whole, q, g

LEMMA SectionsPeel ==
  ASSUME NEW ss \in Seq(Sections), NEW n \in 0 .. Len(ss), \A i \in 1 .. n : ss[i].op # 255
  PROVE  AllPeel(ss, n)
<1> DEFINE T == {i \in Nat : i <= n /\ ~AllPeel(ss, i)}
<1>0. Len(ss) \in Nat /\ n \in Nat /\ n <= Len(ss)
  BY LenProperties
<1>1. SUFFICES ASSUME T # {} PROVE FALSE
  BY <1>0
<1>2. PICK i \in T : i - 1 \notin T
  <2>1. T \in SUBSET Nat
    OBVIOUS
  <2> HIDE DEF T
  <2> QED
    BY <1>1, <2>1, FirstNumber
<1>3. i \in Nat /\ i <= n /\ ~AllPeel(ss, i) /\ (i # 0 => AllPeel(ss, i - 1))
  BY <1>2
<1> HIDE DEF T
<1>4. i # 0
  BY <1>3, NonePeels
<1>5. i \in 1 .. Len(ss) /\ i \in 1 .. n
  BY <1>0, <1>3, <1>4
<1> QED
  BY <1>3, <1>4, <1>5, OneMorePeels

-------------------------------------------------------------------------------
(* The file: its header, its sections and what n bytes of it are worth.    *)

\* The header of the file has nine bytes, and its checksum eight.
LEMMA SignatureIs ==
  RdbHeader \in Bytes /\ Len(RdbHeader) = 9 /\ Checksum \in Bytes /\ Len(Checksum) = 8
<1>1. RdbHeader \in Bytes /\ Len(RdbHeader) = 9
  BY DEF RdbHeader, Bytes, Byte
<1>2. Checksum \in Bytes /\ Len(Checksum) = 8
  BY DEF Checksum, Bytes, Byte
<1> QED
  BY <1>1, <1>2

\* The bytes of the first sections of ss.
LEMMA SavesFirst ==
  ASSUME NEW ss \in Seq(Sections), NEW i \in 0 .. Len(ss)
  PROVE  Saves(SubSeq(ss, 1, i)) = SubSeq(Saves(ss), 1, i)
<1> DEFINE f == SubSeq(ss, 1, i)
           es == Saves(ss)
           g == SubSeq(es, 1, i)
<1>1. /\ es \in Seq(Bytes) /\ Len(es) = Len(ss) /\ Len(ss) \in Nat
      /\ \A j \in 1 .. Len(ss) : es[j] = SectionBytes(ss[j])
  BY SavesAre
<1> HIDE DEF es
<1>2. f \in Seq(Sections) /\ Len(f) = i /\ \A j \in 1 .. i : f[j] = ss[j]
  <2>1. i \in Int /\ i <= Len(ss) /\ i - 1 + 1 = i /\ (1 <= i => i - 1 + 1 = i) /\ (~(1 <= i) => i = 0)
    BY <1>1
  <2>2. f \in Seq(Sections) /\ Len(f) = (IF 1 <= i THEN i - 1 + 1 ELSE 0) /\ \A j \in 1 .. i - 1 + 1 : f[j] = ss[1 + j - 1]
    BY <2>1, PartOf
  <2> HIDE DEF f
  <2> QED
    BY <2>1, <2>2
<1>3. g \in Seq(Bytes) /\ Len(g) = i /\ \A j \in 1 .. i : g[j] = es[j]
  <2>1. i \in Int /\ i <= Len(es) /\ i - 1 + 1 = i /\ (1 <= i => i - 1 + 1 = i) /\ (~(1 <= i) => i = 0)
    BY <1>1
  <2>2. g \in Seq(Bytes) /\ Len(g) = (IF 1 <= i THEN i - 1 + 1 ELSE 0) /\ \A j \in 1 .. i - 1 + 1 : g[j] = es[1 + j - 1]
    BY <1>1, <2>1, PartOf
  <2> HIDE DEF g
  <2> QED
    BY <2>1, <2>2
<1> HIDE DEF f, g
<1>4. /\ Saves(f) \in Seq(Bytes) /\ Len(Saves(f)) = i /\ \A j \in 1 .. i : Saves(f)[j] = SectionBytes(f[j])
  BY <1>2, SavesAre
<1>5. ASSUME NEW j \in 1 .. i PROVE Saves(f)[j] = g[j]
  <2>1. j \in 1 .. Len(ss)
    BY <1>1
  <2> QED
    BY <1>1, <1>2, <1>3, <1>4, <2>1
<1>6. Saves(f) = g
  BY <1>3, <1>4, <1>5, SeqEqual
<1> QED
  BY <1>6 DEF f, g, es

\* The bytes of a file, up to a section.
LEMMA SavedIs ==
  ASSUME NEW ss \in Seq(Sections), NEW i \in 0 .. Len(ss)
  PROVE  /\ Len(Saved(SubSeq(ss, 1, i))) = 9 + Len(Upto(Saves(ss), i)) /\ Len(Upto(Saves(ss), i)) \in Nat
         /\ Saved(ss) = RdbHeader \o Concat(Saves(ss)) /\ Concat(Saves(ss)) \in Bytes
<1> DEFINE es == Saves(ss)
           f == SubSeq(ss, 1, i)
           u == Upto(es, i)
<1>1. Saved(f) = RdbHeader \o Concat(Saves(f)) /\ Saved(ss) = RdbHeader \o Concat(es)
  BY DEF Saved, Saves
<1>2. Concat(Saves(f)) = u
  BY SavesFirst DEF Upto
<1>3. es \in Seq(Bytes) /\ Len(es) = Len(ss)
  BY SavesAre
<1> HIDE DEF es
<1>4. u \in Bytes /\ Concat(es) \in Bytes
  BY <1>3, UptoType, ConcatType
<1> HIDE DEF u, f
<1>5. Len(RdbHeader \o u) = 9 + Len(u) /\ Len(u) \in Nat
  BY <1>4, SignatureIs, Joined
<1> QED
  BY <1>1, <1>2, <1>4, <1>5 DEF es, f, u

\* What is made of the bytes behind the header.
Loaded(u) == IF SectionLoop(u).err # "nil" THEN Nothing ELSE SectionLoop(u).val

\* A file with its header is what the loop makes of what is behind it, and one without is nothing.
LEMMA HeaderRead ==
  ASSUME NEW u \in Bytes
  PROVE  LoadRDB(RdbHeader \o u) = Loaded(u)
<1> DEFINE h == RdbHeader
           b == h \o u
           r == ReadFull(h, 9)
           R == ReadFull(b, 9)
           p == SectionLoop(u)
<1>1. h \in Bytes /\ Len(h) = 9 /\ 9 \in Nat
  BY SignatureIs
<1>2. r = Ok(h, <<>>)
  <2> HIDE DEF h
  <2> QED
    BY <1>1, AllRead
<1> HIDE DEF h
<1>3. Local(r, h, R, u)
  BY <1>1, ReadFullLocal
<1> HIDE DEF r, R
<1>4. R = Ok(h, u)
  BY <1>2, <1>3, ReadAhead
<1>5. R.err = "nil" /\ R.rest = u
  BY <1>4, OkIs
<1>6. Parse(b) = IF R.err # "nil" THEN R ELSE ParseSections[Len(R.rest)][R.rest]
  BY DEF Parse, Then, R
<1>7. Parse(b) = p
  BY <1>5, <1>6 DEF SectionLoop
<1> HIDE DEF p, b
<1>8. LoadRDB(b) = IF p.err # "nil" THEN Nothing ELSE p.val
  BY <1>7 DEF LoadRDB
<1> QED
  BY <1>8 DEF Loaded, p, b, h

LEMMA NoHeader ==
  ASSUME NEW b \in Bytes, Len(b) < 9
  PROVE  LoadRDB(b) = Nothing
<1> DEFINE R == ReadFull(b, 9)
           x == IF b = <<>> THEN "EOF" ELSE "unexpected EOF"
<1>1. Len(b) \in Nat /\ ~(Len(b) >= 9)
  BY BytesHaveLength
<1>2. R = Fail(x)
  BY <1>1 DEF ReadFull
<1>3. x # "nil"
  OBVIOUS
<1> HIDE DEF R, x
<1>4. R.err # "nil"
  BY <1>2, <1>3, FailIs
<1>5. Parse(b) = IF R.err # "nil" THEN R ELSE ParseSections[Len(R.rest)][R.rest]
  BY DEF Parse, Then, R
<1> QED
  BY <1>4, <1>5 DEF LoadRDB

\* Of n bytes, the first i sections are what is held.
LEMMA WorthIs ==
  ASSUME NEW ss \in Seq(Sections), NEW n \in Nat, NEW i \in 0 .. Len(ss),
         9 + Len(Upto(Saves(ss), i)) <= n, i = Len(ss) \/ 9 + Len(Upto(Saves(ss), i + 1)) > n
  PROVE  Worth(ss, n) = IF ~FirstSupported(ss, i) \/ (i # Len(ss) /\ 9 + Len(Upto(Saves(ss), i)) # n)
                        THEN Nothing ELSE Brought(SubSeq(ss, 1, i))
<1> DEFINE held == {j \in 0 .. Len(ss) : Len(Saved(SubSeq(ss, 1, j))) <= n}
           L(j) == Len(Upto(Saves(ss), j))
           read == SubSeq(ss, 1, i)
           N == Len(ss)
<1>1. N \in Nat /\ i \in Nat /\ i <= N
  BY LenProperties
<1>2. ASSUME NEW j \in 0 .. N PROVE Len(Saved(SubSeq(ss, 1, j))) = 9 + L(j) /\ L(j) \in Nat
  BY SavedIs
<1>3. ASSUME NEW j \in 0 .. N, NEW k \in 0 .. N, j <= k PROVE L(j) <= L(k)
  <2> DEFINE es == Saves(ss)
  <2>1. es \in Seq(Bytes) /\ Len(es) = N
    BY SavesAre
  <2> HIDE DEF es, N
  <2>2. j \in 0 .. Len(es) /\ k \in 0 .. Len(es)
    BY <2>1
  <2>3. Len(Upto(es, j)) <= Len(Upto(es, k))
    BY <1>3, <2>1, <2>2, UptoGrows
  <2> QED
    BY <2>3 DEF es
<1>4. i \in held /\ held \subseteq Int
  <2>1. Len(Saved(SubSeq(ss, 1, i))) = 9 + L(i)
    BY <1>2
  <2> QED
    BY <2>1
<1>5. ASSUME NEW j \in held PROVE i >= j
  <2>1. j \in 0 .. N /\ Len(Saved(SubSeq(ss, 1, j))) <= n
    OBVIOUS
  <2>2. L(j) \in Nat /\ 9 + L(j) <= n
    BY <1>2, <2>1
  <2> SUFFICES ASSUME i < j PROVE FALSE
    BY <1>1, <2>1
  <2>3. i + 1 \in 0 .. N /\ i + 1 <= j /\ i # N
    BY <1>1, <2>1
  <2>4. L(i + 1) <= L(j) /\ L(i + 1) \in Nat
    BY <1>2, <1>3, <2>1, <2>3
  <2>5. 9 + L(i + 1) > n
    BY <2>3
  <2> DEFINE x == L(i + 1)
             y == L(j)
  <2>6. x <= y /\ x \in Nat /\ y \in Nat /\ 9 + x > n /\ 9 + y <= n
    BY <2>2, <2>4, <2>5
  <2> HIDE DEF x, y
  <2> QED
    BY <2>6
<1>6. held # {}
  BY <1>4
<1> HIDE DEF held
<1>7. Max(held) = i
  BY <1>4, <1>5, MaxIs
<1>8. DOMAIN read = 1 .. i /\ \A j \in 1 .. i : read[j] = ss[j]
  <2>1. i \in Int /\ i <= Len(ss) /\ i - 1 + 1 = i /\ (~(1 <= i) => i = 0)
    BY <1>1
  <2>2. read \in Seq(Sections) /\ Len(read) = (IF 1 <= i THEN i - 1 + 1 ELSE 0) /\ \A j \in 1 .. i - 1 + 1 : read[j] = ss[1 + j - 1]
    BY <2>1, PartOf
  <2> HIDE DEF read
  <2>3. Len(read) = i
    BY <2>1, <2>2
  <2> QED
    BY <2>1, <2>2, <2>3
<1>9. (\E j \in DOMAIN read : ~Supported(read[j])) <=> ~FirstSupported(ss, i)
  <2> HIDE DEF read
  <2> QED
    BY <1>8 DEF FirstSupported
<1>10. Len(Saved(read)) = 9 + L(i)
  BY <1>2
<1>11. Worth(ss, n) = IF \/ held = {} \/ (\E j \in DOMAIN read : ~Supported(read[j]))
                         \/ Max(held) # N /\ Len(Saved(read)) # n
                      THEN Nothing ELSE Brought(read)
  BY <1>7 DEF Worth, held
<1> HIDE DEF read, L, N
<1> QED
  BY <1>6, <1>7, <1>9, <1>10, <1>11 DEF read, L, N

\* Less than the header holds nothing.
LEMMA WorthNothing ==
  ASSUME NEW ss \in Seq(Sections), NEW n \in Nat, n < 9
  PROVE  Worth(ss, n) = Nothing
<1> DEFINE held == {j \in 0 .. Len(ss) : Len(Saved(SubSeq(ss, 1, j))) <= n}
<1>1. ASSUME NEW j \in 0 .. Len(ss) PROVE ~(Len(Saved(SubSeq(ss, 1, j))) <= n)
  <2> DEFINE x == Len(Saved(SubSeq(ss, 1, j)))
             y == Len(Upto(Saves(ss), j))
  <2>1. x = 9 + y /\ y \in Nat
    BY SavedIs
  <2> HIDE DEF x, y
  <2>2. ~(x <= n)
    BY <2>1
  <2> QED
    BY <2>2 DEF x
<1>2. held = {}
  BY <1>1
<1> HIDE DEF held
<1> QED
  BY <1>2 DEF Worth, held

\* The end of the data has nothing in it.
LEMMA EndIs ==
  ASSUME NEW s \in Sections, s.op = 255
  PROVE  SectionBytes(s) = <<255>> /\ Supported(s) /\ SectionRead(s) = Nothing /\ <<255>> \in Bytes
<1>1. s.at \in Seq(Byte) /\ Len(s.at) = 0 /\ <<>> \in Bytes
  BY SectionsAre DEF Bytes
<1>2. s.at = <<>>
  BY <1>1, NoneOf
<1>3. AtBytes(s) = <<>>
  BY <1>2 DEF AtBytes
<1>4. LengthsBytes(s) = <<>>
  BY LengthsBytesAre
<1>5. TextsBytes(s) = <<>> /\ Supported(s)
  BY TextsBytesAre
<1>6. <<255>> \in Bytes
  BY DEF Bytes, Byte
<1>7. <<255>> \o <<>> = <<255>> /\ <<>> \o <<>> = <<>>
  BY <1>1, <1>6, ConcatEmptySeq DEF Bytes
<1>8. SectionBytes(s) = <<255>> \o (<<>> \o (<<>> \o <<>>))
  BY <1>3, <1>4, <1>5, PartsAre DEF Body
<1>9. SectionRead(s) = Nothing
  BY DEF SectionRead
<1> QED
  BY <1>5, <1>6, <1>7, <1>8, <1>9

\* The loop ends with the bytes, or with the end of the data.
LEMMA LoopEnds ==
  ASSUME NEW b \in Bytes, Ends(b)
  PROVE  SectionLoop(b).err = "nil" /\ SectionLoop(b).val = Nothing
<1>1. SectionLoop(b) = Ok(Nothing, <<>>)
  BY LoopIs
<1> QED
  BY <1>1, OkIs

\* A section that breaks off behind its opcode.
LEMMA TornSection ==
  ASSUME NEW s \in Sections, s.op # 255, NEW k \in 1 .. Len(SectionBytes(s)) - 1
  PROVE  SectionLoop(SubSeq(SectionBytes(s), 1, k)).err # "nil"
<1> DEFINE d == Body(s)
           op == s.op
           B == Len(d)
           m == k - 1
           p == SubSeq(d, 1, m)
           q == SubSeq(d, k, B)
           t == <<op>> \o p
           z == Section(op, p)
           w == Section(op, d)
<1>1. op \in Byte /\ d \in Bytes /\ SectionBytes(s) = <<op>> \o d /\ <<>> \in Bytes
  <2>1. <<>> \in Bytes
    BY DEF Bytes
  <2> QED
    BY <2>1, SectionsAre, PartsAre
<1>2. Len(SectionBytes(s)) = B + 1 /\ B \in Nat
  BY <1>1, OneByte
<1>3. m \in 0 .. B /\ m < B /\ k \in 1 .. B /\ k \in 0 .. B + 1 /\ k # 0
  <2> HIDE DEF B
  <2> QED
    BY <1>2
<1>4. SubSeq(SectionBytes(s), 1, k) = t
  <2> HIDE DEF d, B
  <2> QED
    BY <1>1, <1>3, OneByteTorn DEF B
<1>5. p \in Bytes /\ Len(p) = m
  <2> HIDE DEF d, m
  <2> QED
    BY <1>1, <1>3, FirstPart
<1>6. d = p \o q /\ q \in Bytes /\ q # <<>>
  <2> HIDE DEF d
  <2>1. d \in Seq(Byte)
    BY <1>1 DEF Bytes
  <2>2. m + 1 = k
    BY <1>3
  <2>3. d = p \o q
    <3>1. m \in 0 .. Len(d)
      BY <1>3
    <3> HIDE DEF m
    <3> QED
      BY <1>1, <2>2, <3>1, Cut
  <2>4. q \in Bytes /\ Len(q) = B - k + 1
    <3>1. k \in Nat /\ k > 0 /\ B \in Int /\ B <= Len(d) /\ k <= B
      BY <1>2, <1>3
    <3> HIDE DEF B
    <3> QED
      BY <2>1, <3>1, PartOf DEF Bytes
  <2>5. Len(<<>>) = 0 /\ B - k + 1 # 0
    BY <1>2, <1>3
  <2> QED
    BY <2>3, <2>4, <2>5
<1>7. w.err = "nil" => w.rest = <<>>
  <2>1. d \o <<>> = d
    BY <1>1, ConcatEmptySeq DEF Bytes
  <2>2. SectionIsRead(s, <<>>)
    BY <1>1, SectionReads
  <2> HIDE DEF d, op
  <2>3. /\ Supported(s) => Section(op, d \o <<>>) = Ok(SectionRead(s), <<>>)
        /\ ~Supported(s) => Section(op, d \o <<>>).err # "nil"
    BY <2>2 DEF SectionIsRead, op, d
  <2> QED
    BY <2>1, <2>3, OkIs
<1> HIDE DEF d, p, q
<1>8. z.err # "nil"
  BY <1>5, <1>6, <1>7, SectionPart
<1>9. t \in Bytes /\ t # <<>> /\ t[1] = op /\ Tail(t) = p
  BY <1>1, <1>5, OneByte
<1> HIDE DEF t
<1>10. ~Ends(t) /\ z = Section(t[1], Tail(t))
  BY <1>9 DEF Ends
<1> HIDE DEF z
<1>11. SectionLoop(t) = Followed(z, SectionLoop(z.rest))
  BY <1>9, <1>10, LoopIs
<1> QED
  BY <1>4, <1>8, <1>11 DEF Followed

\* What is brought stays so over nothing.
LEMMA BroughtStays ==
  ASSUME NEW ss \in Seq(Sections)
  PROVE  Over(Nothing, Brought(ss)) = Brought(ss)
<1>1. CASE ss = <<>>
  BY <1>1, BroughtOfNone, NothingTwice
<1>2. CASE ss # <<>>
  <2> DEFINE n == Len(ss)
             f == SubSeq(ss, 1, n - 1)
             x == SectionRead(ss[n])
             y == Brought(f)
  <2>1. n \in 1 .. Len(ss) /\ SubSeq(ss, 1, n) = ss
    BY <1>2, LenProperties, EmptySeq, SubSeqFull
  <2>2. SubSeq(ss, 1, n) = Append(f, ss[n]) /\ f \in Seq(Sections) /\ ss[n] \in Sections
    <3> HIDE DEF n
    <3> QED
      BY <2>1, FirstMore
  <2>3. Brought(ss) = Over(x, y)
    <3> HIDE DEF n, f
    <3> QED
      BY <2>1, <2>2, BroughtOfMore
  <2> HIDE DEF x, y
  <2>4. Over(Nothing, Over(x, y)) = Over(x, y)
    BY NothingOver
  <2> QED
    BY <2>3, <2>4
<1> QED
  BY <1>1, <1>2

\* What may be saved: the last section, and no other, is the end of the data.
Saving(ss) == /\ ss \in Seq(Sections) /\ ss # <<>>
              /\ \A i \in DOMAIN ss : ss[i].op = 255 <=> i = Len(ss)

\* The first i sections and then tail.
LEMMA LoadedIs ==
  ASSUME NEW ss, Saving(ss), NEW i \in 0 .. Len(ss) - 1, NEW tail \in Bytes
  PROVE  /\ FirstSupported(ss, i) /\ SectionLoop(tail).err = "nil" =>
              Loaded(Upto(Saves(ss), i) \o tail) = Over(SectionLoop(tail).val, Brought(SubSeq(ss, 1, i)))
         /\ ~(FirstSupported(ss, i) /\ SectionLoop(tail).err = "nil") => Loaded(Upto(Saves(ss), i) \o tail) = Nothing
<1> DEFINE N == Len(ss)
<1>1. ss \in Seq(Sections) /\ N \in Nat /\ DOMAIN ss = 1 .. N
  BY LenProperties DEF Saving
<1>2. i \in 0 .. N - 1 /\ i \in 0 .. N
  BY <1>1
<1>3. ASSUME NEW j \in 1 .. i PROVE ss[j].op # 255
  <2>1. j \in 1 .. N /\ j # N
    <3> HIDE DEF N
    <3> QED
      BY <1>1, <1>2
  <2>2. j \in DOMAIN ss
    BY <1>1, <2>1
  <2>3. ss[j].op = 255 <=> j = N
    BY <2>2 DEF Saving
  <2> QED
    BY <2>1, <2>3
<1>4. AllPeel(ss, i)
  BY <1>1, <1>2, <1>3, SectionsPeel
<1>5. PeelsOff(ss, i, tail)
  BY <1>4 DEF AllPeel
<1> QED
  BY <1>5 DEF PeelsOff, Loaded

\* The whole file, and whatever is left of the checksum.
LEMMA WholeFile ==
  ASSUME NEW ss, Saving(ss), NEW c \in Bytes, NEW n \in Nat, 9 + Len(Concat(Saves(ss))) <= n
  PROVE  Loaded(Concat(Saves(ss)) \o c) = Worth(ss, n)
<1> DEFINE es == Saves(ss)
           N == Len(ss)
           k == N - 1
           s == ss[N]
           tail == <<255>> \o c
           u == Concat(es) \o c
           f == Brought(SubSeq(ss, 1, k))
<1>1. ss \in Seq(Sections) /\ N \in Nat /\ N > 0 /\ DOMAIN ss = 1 .. N
  BY LenProperties, EmptySeq DEF Saving
<1>2. N \in 1 .. N /\ k \in 0 .. N - 1 /\ k \in 0 .. N /\ N \in 0 .. N
  BY <1>1
<1>3. s \in Sections /\ s.op = 255
  <2>1. N \in DOMAIN ss
    BY <1>1, <1>2
  <2>2. ss[N].op = 255
    BY <2>1 DEF Saving
  <2> QED
    BY <1>1, <1>2, <2>2, ElementOfSeq
<1>4. SectionBytes(s) = <<255>> /\ Supported(s) /\ SectionRead(s) = Nothing /\ <<255>> \in Bytes
  BY <1>3, EndIs
<1>5. es \in Seq(Bytes) /\ Len(es) = N /\ es[N] = <<255>>
  BY <1>1, <1>2, <1>4, SavesAre
<1> HIDE DEF s
<1>6. tail \in Bytes /\ Ends(tail)
  <2>1. 255 \in Byte
    BY DEF Byte
  <2> QED
    BY <2>1, OneByte DEF Ends
<1>7. SectionLoop(tail).err = "nil" /\ SectionLoop(tail).val = Nothing
  <2> HIDE DEF tail
  <2> QED
    BY <1>6, LoopEnds
<1>8. u = Upto(es, k) \o tail /\ Concat(es) = Upto(es, N)
  <2> HIDE DEF es
  <2>1. Concat(es) = Upto(es, N) /\ Upto(es, N) = Upto(es, N - 1) \o es[N]
    BY <1>2, <1>5, UptoAll, UptoMore
  <2>2. Upto(es, k) \in Bytes
    <3> HIDE DEF k
    <3> QED
      BY <1>2, <1>5, UptoType
  <2>3. (Upto(es, k) \o <<255>>) \o c = Upto(es, k) \o (<<255>> \o c)
    <3> HIDE DEF k
    <3> QED
      BY <1>4, <2>2, JoinedThrice
  <2> QED
    BY <1>5, <2>1, <2>3
<1> DEFINE x == Brought(ss)
<1>9. /\ FirstSupported(ss, k) => Loaded(u) = Over(Nothing, f)
      /\ ~FirstSupported(ss, k) => Loaded(u) = Nothing
  <2> HIDE DEF tail, k, u
  <2>1. k \in 0 .. Len(ss) - 1
    BY <1>2
  <2> QED
    BY <1>6, <1>7, <1>8, <2>1, LoadedIs
<1>10. x = Over(Nothing, f) /\ SubSeq(ss, 1, N) = ss
  <2>1. SubSeq(ss, 1, N) = Append(SubSeq(ss, 1, k), s) /\ SubSeq(ss, 1, k) \in Seq(Sections) /\ s \in Sections
        /\ SubSeq(ss, 1, N) = ss
    BY <1>1, <1>2, FirstMore, SubSeqFull DEF s
  <2> HIDE DEF k, N
  <2>2. Brought(Append(SubSeq(ss, 1, k), s)) = Over(SectionRead(s), f)
    BY <2>1, BroughtOfMore
  <2> QED
    BY <1>4, <2>1, <2>2
<1>11. FirstSupported(ss, N) <=> FirstSupported(ss, k)
  <2>0. N \in Nat /\ N > 0
    BY <1>1
  <2>1. ASSUME NEW j \in 1 .. N PROVE j \in 1 .. k \/ j = N
    <3> HIDE DEF N
    <3> QED
      BY <2>0
  <2>2. ASSUME NEW j \in 1 .. k PROVE j \in 1 .. N
    <3> HIDE DEF N
    <3> QED
      BY <2>0
  <2>3. Supported(ss[N])
    BY <1>4 DEF s
  <2> HIDE DEF k, N
  <2> QED
    BY <2>1, <2>2, <2>3 DEF FirstSupported
<1>12. Worth(ss, n) = IF ~FirstSupported(ss, N) \/ (N # Len(ss) /\ 9 + Len(Upto(es, N)) # n)
                      THEN Nothing ELSE Brought(SubSeq(ss, 1, N))
  <2>1. N \in 0 .. Len(ss) /\ 9 + Len(Upto(Saves(ss), N)) <= n
    BY <1>2, <1>8
  <2> QED
    BY <1>1, <2>1, WorthIs
<1>13. N = Len(ss)
  OBVIOUS
<1> HIDE DEF u, f, k, x, N
<1> QED
  BY <1>9, <1>10, <1>11, <1>12, <1>13 DEF u, x

\* A file that breaks off in front of or in its section j.
LEMMA TornFile ==
  ASSUME NEW ss, Saving(ss), NEW n \in Nat, NEW m \in Nat, n = 9 + m, m < Len(Concat(Saves(ss)))
  PROVE  Loaded(SubSeq(Concat(Saves(ss)), 1, m)) = Worth(ss, n)
<1> DEFINE es == Saves(ss)
           body == Concat(es)
           N == Len(ss)
           u == SubSeq(body, 1, m)
<1>1. ss \in Seq(Sections) /\ N \in Nat /\ DOMAIN ss = 1 .. N
  BY LenProperties DEF Saving
<1>2. es \in Seq(Bytes) /\ Len(es) = N /\ \A i \in 1 .. N : es[i] = SectionBytes(ss[i]) /\ ss[i] \in Sections
  BY <1>1, SavesAre
<1>3. PICK j \in 1 .. N : TornIn(es, body, m, j)
  <2>1. m < Len(Concat(es))
    OBVIOUS
  <2> HIDE DEF es
  <2>2. \E j \in 1 .. Len(es) : TornIn(es, Concat(es), m, j)
    BY <1>2, <2>1, TornTexts
  <2> QED
    BY <1>2, <2>2
<1> DEFINE i == j - 1
           at == Len(Upto(es, i))
           k == m - at
           s == ss[j]
           e == SectionBytes(s)
           t == SubSeq(e, 1, k)
           f == Brought(SubSeq(ss, 1, i))
<1>4. i \in 0 .. N - 1 /\ i \in 0 .. N /\ i + 1 = j /\ i # N /\ j \in 1 .. N
  BY <1>1
<1>5. s \in Sections /\ es[j] = e
  BY <1>2
<1>6. e \in Bytes /\ Len(e) \in Nat
  BY <1>5, PartsAre, BytesHaveLength
<1> HIDE DEF es, e
<1>7. k \in 0 .. Len(e) - 1 /\ u = Upto(es, i) \o t
  BY <1>3, <1>5 DEF TornIn
<1>8. Upto(es, i) \in Bytes /\ at \in Nat /\ Upto(es, j) = Upto(es, i) \o e
  <2>1. Upto(es, i) \in Bytes
    <3> HIDE DEF i
    <3> QED
      BY <1>2, <1>4, UptoType
  <2>2. Upto(es, j) = Upto(es, j - 1) \o es[j]
    BY <1>2, UptoMore
  <2> HIDE DEF i
  <2>3. at \in Nat
    BY <2>1, BytesHaveLength
  <2> QED
    BY <1>5, <2>1, <2>2, <2>3 DEF i
<1>9. Len(Upto(es, j)) = at + Len(e)
  <2> HIDE DEF i
  <2> QED
    BY <1>6, <1>8, Joined
<1> DEFINE E == Len(e)
           J == Len(Upto(es, j))
<1>10. 9 + at <= n /\ 9 + J > n /\ (k = 0 <=> 9 + at = n) /\ k \in Nat /\ k \in 0 .. E
  <2>1. at \in Nat /\ J = at + E /\ k \in 0 .. E - 1 /\ E \in Nat /\ k = m - at /\ n = 9 + m /\ m \in Nat
    BY <1>6, <1>7, <1>8, <1>9
  <2> HIDE DEF at, J, E, k
  <2> QED
    BY <2>1
<1>11. Worth(ss, n) = IF ~FirstSupported(ss, i) \/ k # 0 THEN Nothing ELSE f
  <2>1. 9 + Len(Upto(Saves(ss), i)) <= n /\ 9 + Len(Upto(Saves(ss), i + 1)) > n
    BY <1>4, <1>10 DEF es
  <2> HIDE DEF i
  <2>2. Worth(ss, n) = IF ~FirstSupported(ss, i) \/ (i # Len(ss) /\ 9 + Len(Upto(Saves(ss), i)) # n)
                       THEN Nothing ELSE Brought(SubSeq(ss, 1, i))
    BY <1>1, <1>4, <2>1, WorthIs
  <2>3. i # Len(ss) /\ (k # 0 <=> 9 + Len(Upto(Saves(ss), i)) # n)
    BY <1>4, <1>10 DEF es
  <2> HIDE DEF k, at
  <2> QED
    BY <2>2, <2>3
<1>12. t \in Bytes
  <2> HIDE DEF k
  <2> QED
    BY <1>6, <1>10, FirstPart
<1>13. /\ FirstSupported(ss, i) /\ SectionLoop(t).err = "nil" => Loaded(u) = Over(SectionLoop(t).val, f)
       /\ ~(FirstSupported(ss, i) /\ SectionLoop(t).err = "nil") => Loaded(u) = Nothing
  <2> HIDE DEF t, i, u
  <2> QED
    BY <1>4, <1>7, <1>12, LoadedIs DEF es
<1>14. CASE k = 0
  <2>1. t = <<>>
    BY <1>14, FirstNone
  <2>2. SectionLoop(t).err = "nil" /\ SectionLoop(t).val = Nothing
    <3> HIDE DEF t
    <3> QED
      BY <1>12, <2>1, LoopEnds DEF Ends
  <2>3. Over(Nothing, f) = f
    <3>1. SubSeq(ss, 1, i) \in Seq(Sections)
      <4>1. SubSeq(ss, 1, j - 1) \in Seq(Sections)
        BY <1>1, <1>4, FirstMore
      <4> QED
        BY <4>1
    <3> HIDE DEF i
    <3> QED
      BY <3>1, BroughtStays
  <2> DEFINE w == Worth(ss, n)
             l == Loaded(u)
             p == FirstSupported(ss, i)
  <2>4. l = w
    <3>1. w = IF ~p \/ k # 0 THEN Nothing ELSE f
      BY <1>11
    <3>2. (p => l = Over(Nothing, f)) /\ (~p => l = Nothing)
      BY <1>13, <2>2
    <3> HIDE DEF w, l, p, f, k
    <3> QED
      BY <1>14, <2>3, <3>1, <3>2
  <2> QED
    BY <2>4 DEF es
<1>15. CASE k # 0
  <2>1. s.op # 255
    <3> SUFFICES ASSUME s.op = 255 PROVE FALSE
      OBVIOUS
    <3>1. e = <<255>>
      BY <1>5, EndIs DEF e
    <3>2. Len(e) = 1
      BY <3>1
    <3> HIDE DEF k
    <3> QED
      BY <1>7, <1>15, <3>2
  <2>2. SectionLoop(t).err # "nil"
    <3>1. k \in 1 .. Len(e) - 1
      <4> HIDE DEF k
      <4> QED
        BY <1>6, <1>7, <1>15
    <3> HIDE DEF k, s
    <3> QED
      BY <1>5, <2>1, <3>1, TornSection DEF e
  <2> DEFINE w == Worth(ss, n)
             l == Loaded(u)
  <2>3. w = Nothing
    <3> DEFINE p == ~FirstSupported(ss, i)
    <3>1. w = IF p \/ k # 0 THEN Nothing ELSE f
      BY <1>11
    <3> HIDE DEF w, p, f, k
    <3> QED
      BY <1>15, <3>1
  <2>4. l = Nothing
    <3> HIDE DEF l, t
    <3> QED
      BY <1>13, <2>2 DEF l
  <2> QED
    BY <2>3, <2>4 DEF es
<1> QED
  BY <1>14, <1>15

\* Reading n bytes of a file gives what they are worth.
LEMMA RdbIsRead ==
  ASSUME NEW ss, Saving(ss), NEW n \in 0 .. Len(File(ss))
  PROVE  LoadRDB(SubSeq(File(ss), 1, n)) = Worth(ss, n)
<1> DEFINE h == RdbHeader
           body == Concat(Saves(ss))
           x == Checksum
           all == body \o x
           file == h \o all
           b == SubSeq(file, 1, n)
           m == n - 9
           u == SubSeq(all, 1, m)
           B == Len(body)
<1>1. ss \in Seq(Sections) /\ 0 \in 0 .. Len(ss)
  BY LenProperties DEF Saving
<1>2. body \in Bytes /\ Saved(ss) = h \o body
  BY <1>1, SavedIs
<1>3. h \in Bytes /\ Len(h) = 9 /\ x \in Bytes
  BY SignatureIs
<1> HIDE DEF body, h, x
<1>4. all \in Bytes /\ Len(all) = B + Len(x) /\ B \in Nat /\ Len(x) \in Nat
  BY <1>2, <1>3, Joined
<1>5. File(ss) = file
  BY <1>2, <1>3, JoinedThrice DEF File, x
<1> HIDE DEF all
<1>6. file \in Bytes /\ Len(file) = 9 + Len(all) /\ Len(all) \in Nat
  BY <1>3, <1>4, Joined
<1> HIDE DEF file
<1>7. n \in 0 .. Len(file) /\ n \in Nat /\ n \in 0 .. Len(h) + Len(all)
  <2>1. n \in 0 .. Len(file)
    BY <1>5
  <2> QED
    BY <1>3, <1>6, <2>1
<1>8. b \in Bytes /\ Len(b) = n
  BY <1>6, <1>7, FirstPart
<1>9. CASE n < 9
  <2> HIDE DEF b
  <2>1. LoadRDB(b) = Nothing
    BY <1>8, <1>9, NoHeader
  <2>2. Worth(ss, n) = Nothing
    BY <1>1, <1>7, <1>9, WorthNothing
  <2> QED
    BY <1>5, <2>1, <2>2 DEF b
<1>10. CASE ~(n < 9)
  <2>1. m \in Nat /\ n = 9 + m /\ m \in 0 .. Len(all) /\ m \in 0 .. B + Len(x)
    BY <1>4, <1>6, <1>7, <1>10
  <2>2. b = h \o u
    <3>1. b = IF n <= Len(h) THEN SubSeq(h, 1, n) ELSE h \o SubSeq(all, 1, n - Len(h))
      BY <1>3, <1>4, <1>7, FirstOfTwoTexts DEF file
    <3>2. CASE n = 9
      <4>1. SubSeq(h, 1, 9) = h /\ u = <<>> /\ h \o <<>> = h
        <5>1. SubSeq(h, 1, Len(h)) = h /\ h \o <<>> = h
          BY <1>3, SubSeqFull, ConcatEmptySeq DEF Bytes
        <5>2. SubSeq(all, 1, 0) = <<>> /\ m = 0
          BY <3>2, FirstNone
        <5> QED
          BY <1>3, <5>1, <5>2
      <4> HIDE DEF b, u
      <4> QED
        BY <1>3, <3>1, <3>2, <4>1
    <3>3. CASE n # 9
      <4>1. ~(n <= Len(h))
        BY <1>3, <1>7, <1>10, <3>3
      <4>2. b = h \o SubSeq(all, 1, n - Len(h))
        <5> HIDE DEF b
        <5> QED
          BY <3>1, <4>1
      <4> QED
        BY <1>3, <4>2
    <3> QED
      BY <3>2, <3>3
  <2>3. u \in Bytes
    <3> HIDE DEF m
    <3> QED
      BY <1>4, <2>1, FirstPart
  <2>4. LoadRDB(b) = Loaded(u)
    <3> HIDE DEF u, b
    <3> QED
      BY <2>2, <2>3, HeaderRead DEF h
  <2>5. CASE m < B
    <3>1. u = SubSeq(body, 1, m)
      <4> HIDE DEF m
      <4>1. u = IF m <= Len(body) THEN SubSeq(body, 1, m) ELSE body \o SubSeq(x, 1, m - Len(body))
        BY <1>2, <1>3, <2>1, FirstOfTwoTexts DEF all
      <4>2. m <= Len(body)
        BY <1>4, <2>1, <2>5
      <4> QED
        BY <4>1, <4>2
    <3>2. Loaded(SubSeq(body, 1, m)) = Worth(ss, n)
      <4> HIDE DEF m
      <4> QED
        BY <1>7, <2>1, <2>5, TornFile DEF body
    <3> HIDE DEF u, b
    <3> QED
      BY <1>5, <2>4, <3>1, <3>2 DEF b
  <2>6. CASE ~(m < B)
    <3> DEFINE c == SubSeq(x, 1, m - B)
    <3>1. m - B \in 0 .. Len(x) /\ (m <= B => m = B)
      <4> HIDE DEF m, B
      <4> QED
        BY <1>4, <2>1, <2>6
    <3>2. c \in Bytes
      <4> DEFINE d == m - B
      <4>1. d \in 0 .. Len(x)
        BY <3>1
      <4> HIDE DEF d
      <4>2. SubSeq(x, 1, d) \in Bytes
        BY <1>3, <4>1, FirstPart
      <4> QED
        BY <4>2 DEF d
    <3>3. u = body \o c
      <4>1. u = IF m <= Len(body) THEN SubSeq(body, 1, m) ELSE body \o SubSeq(x, 1, m - Len(body))
        <5> HIDE DEF m
        <5> QED
          BY <1>2, <1>3, <2>1, FirstOfTwoTexts DEF all
      <4>2. CASE m = B
        <5>1. SubSeq(body, 1, Len(body)) = body /\ body \o <<>> = body
          BY <1>2, SubSeqFull, ConcatEmptySeq DEF Bytes
        <5>2. m - B = 0
          BY <1>4, <4>2
        <5>3. c = <<>>
          BY <5>2, FirstNone
        <5> HIDE DEF m, c, u
        <5> QED
          BY <1>4, <4>1, <4>2, <5>1, <5>3
      <4>3. CASE m # B
        <5>1. ~(m <= Len(body))
          BY <3>1, <4>3
        <5> HIDE DEF u
        <5> QED
          BY <4>1, <5>1
      <4> QED
        BY <4>2, <4>3
    <3>4. 9 + B <= n
      <4> HIDE DEF m, B
      <4> QED
        BY <1>4, <2>1, <2>6
    <3> HIDE DEF c, u, b
    <3>5. Loaded(body \o c) = Worth(ss, n)
      BY <1>7, <3>2, <3>4, WholeFile DEF body
    <3> QED
      BY <1>5, <2>4, <3>3, <3>5 DEF b
  <2> QED
    BY <2>5, <2>6
<1> QED
  BY <1>9, <1>10

-------------------------------------------------------------------------------
(* Instants.                                                               *)

\* The number that bytes stand for is one.
LEMMA LittleEndianType ==
  ASSUME NEW b \in Bytes, b # <<>>
  PROVE  LittleEndian(b) \in Int
<1> DEFINE R(i) == Result([of |-> "LittleEndian", bytes |-> b], i)
           N    == Len(b)
           T    == {i \in 0 .. N - 1 : R(i) \notin Int}
<1>1. N \in Nat /\ N > 0 /\ \A i \in 1 .. N : b[i] \in Int
  <2>1. b \in Seq(Byte) /\ Len(b) \in Nat /\ Len(b) > 0 /\ Byte \subseteq Int
    BY BytesHaveLength, EmptySeq DEF Byte
  <2> QED
    BY <2>1, ElementOfSeq
<1>2. T = {}
  <2>1. SUFFICES ASSUME T # {} PROVE FALSE
    OBVIOUS
  <2>2. PICK i \in T : i - 1 \notin T
    <3>1. T \in SUBSET Nat
      BY <1>1
    <3> HIDE DEF T
    <3> QED
      BY <2>1, <3>1, FirstNumber
  <2>3. i \in 0 .. N - 1 /\ (i - 1 \in 0 .. N - 1 => R(i - 1) \in Int) /\ R(i) \notin Int
    BY <2>2
  <2> HIDE DEF T
  <2>4. CASE i = 0
    <3>1. R(0) = IF b[N] < 128 THEN b[N] ELSE b[N] - 256
      BY LittleEndianAt0
    <3>2. b[N] \in Int
      BY <1>1
    <3> HIDE DEF R, N
    <3> QED
      BY <2>3, <2>4, <3>1, <3>2
  <2>5. CASE i # 0
    <3> DEFINE j == i - 1
    <3>1. j \in Nat /\ j + 1 = i /\ j \in 0 .. N - 1 /\ N - (j + 1) \in 1 .. N
      <4> HIDE DEF N
      <4> QED
        BY <1>1, <2>3, <2>5
    <3> HIDE DEF j
    <3>2. R(j + 1) = 256 * R(j) + b[N - (j + 1)]
      BY <3>1, LittleEndianNext
    <3>3. R(j) \in Int
      BY <2>3, <3>1 DEF j
    <3>4. b[N - (j + 1)] \in Int
      BY <1>1, <3>1
    <3> HIDE DEF R, N
    <3> QED
      BY <2>3, <3>1, <3>2, <3>3, <3>4
  <2> QED
    BY <2>4, <2>5
<1>3. N - 1 \in 0 .. N - 1
  BY <1>1
<1>4. R(N - 1) \in Int
  BY <1>2, <1>3
<1>5. LittleEndian(b) = R(N - 1)
  BY <1>1, LittleEndianIs
<1> QED
  BY <1>4, <1>5

LEMMA MomentType ==
  ASSUME NEW at \in Bytes, at # <<>>
  PROVE  Moment(at) \in Int
<1> DEFINE more == Append(at, 0)
<1>1. more \in Bytes /\ more # <<>>
  <2>1. at \in Seq(Byte) /\ 0 \in Byte
    BY DEF Bytes, Byte
  <2>2. more \in Seq(Byte) /\ Len(more) = Len(at) + 1 /\ Len(at) \in Nat
    BY <2>1, AppendProperties, LenProperties
  <2> HIDE DEF more
  <2> QED
    BY <2>2, EmptySeq DEF Bytes
<1> HIDE DEF more
<1> DEFINE x == LittleEndian(more)
           y == LittleEndian(at)
<1>2. x \in Int /\ y \in Int
  BY <1>1, LittleEndianType
<1>3. Moment(at) = IF Len(at) = 4 THEN 1000 * x ELSE y
  BY DEF Moment, more
<1> HIDE DEF x, y
<1> QED
  BY <1>2, <1>3

\* What was read has instants, and a store has numbers for them.
Dated(r) == \A k \in DOMAIN r.expiry : r.expiry[k] \in Bytes /\ r.expiry[k] # <<>>
Timed(s) == \A k \in DOMAIN s.expiry : s.expiry[k] \in Int

LEMMA NewStoreTimed ==
  ASSUME NEW r, Dated(r)
  PROVE  Timed(NewStore(r))
<1> DEFINE e == [k \in DOMAIN r.expiry |-> Moment(r.expiry[k])]
<1>1. ASSUME NEW k \in DOMAIN r.expiry PROVE e[k] \in Int
  BY MomentType DEF Dated
<1>2. NewStore(r).expiry = e /\ DOMAIN e = DOMAIN r.expiry
  BY DEF NewStore
<1> HIDE DEF e
<1> QED
  BY <1>1, <1>2 DEF Timed

LEMMA NothingDated == Dated(Nothing)
BY DEF Dated, Nothing

LEMMA SectionDated ==
  ASSUME NEW s \in Sections
  PROVE  Dated(SectionRead(s))
<1> DEFINE key == TextRead(s.texts[1])
           none == [data |-> One(key, TextRead(s.texts[2])), expiry |-> <<>>]
           some == [data |-> One(key, TextRead(s.texts[2])), expiry |-> One(key, s.at)]
<1>1. SectionRead(s) = Nothing \/ SectionRead(s) = none \/ (s.at # <<>> /\ SectionRead(s) = some)
  BY DEF SectionRead
<1>2. Dated(none)
  BY DEF Dated
<1>3. ASSUME s.at # <<>> PROVE Dated(some)
  <2>1. s.at \in Bytes
    BY SectionsAre
  <2> DEFINE o == One(key, s.at)
  <2>2. \A k \in DOMAIN o : o[k] = s.at
    BY DEF One
  <2>3. some.expiry = o
    OBVIOUS
  <2> HIDE DEF o, some
  <2> QED
    BY <1>3, <2>1, <2>2, <2>3 DEF Dated
<1> HIDE DEF none, some
<1> QED
  BY <1>1, <1>2, <1>3, NothingDated

LEMMA OverDated ==
  ASSUME NEW p, NEW r, Dated(p), Dated(r)
  PROVE  Dated(Over(p, r))
<1> DEFINE e == And(p.expiry, r.expiry)
<1>1. Over(p, r).expiry = e
  BY DEF Over
<1>2. DOMAIN e = DOMAIN p.expiry \union DOMAIN r.expiry
      /\ \A k \in DOMAIN e : e[k] = IF k \in DOMAIN p.expiry THEN p.expiry[k] ELSE r.expiry[k]
  BY DEF And
<1> HIDE DEF e
<1> QED
  BY <1>1, <1>2 DEF Dated

LEMMA BroughtDated ==
  ASSUME NEW ss \in Seq(Sections)
  PROVE  \A i \in 0 .. Len(ss) : Dated(Brought(SubSeq(ss, 1, i)))
<1> DEFINE D(i) == Brought(SubSeq(ss, 1, i))
           T == {i \in 0 .. Len(ss) : ~Dated(D(i))}
<1>0. Len(ss) \in Nat
  BY LenProperties
<1>1. SUFFICES ASSUME T # {} PROVE FALSE
  OBVIOUS
<1>2. PICK i \in T : i - 1 \notin T
  <2>1. T \in SUBSET Nat
    BY <1>0
  <2> HIDE DEF T
  <2> QED
    BY <1>1, <2>1, FirstNumber
<1>3. i \in 0 .. Len(ss) /\ (i - 1 \in 0 .. Len(ss) => Dated(D(i - 1))) /\ ~Dated(D(i))
  BY <1>2
<1> HIDE DEF T
<1>4. CASE i = 0
  <2>1. D(i) = Nothing
    BY <1>4, FirstNone, BroughtOfNone
  <2> QED
    BY <1>3, <2>1, NothingDated
<1>5. CASE i # 0
  <2>1. i \in 1 .. Len(ss) /\ i - 1 \in 0 .. Len(ss)
    BY <1>0, <1>3, <1>5
  <2> DEFINE f == SubSeq(ss, 1, i - 1)
             g == SubSeq(ss, 1, i)
             s == ss[i]
  <2>2. g = Append(f, s) /\ f \in Seq(Sections) /\ s \in Sections
    BY <2>1, FirstMore
  <2>3. Dated(Brought(f)) /\ ~Dated(Brought(g))
    BY <1>3, <2>1
  <2> HIDE DEF f, g, s
  <2>4. Brought(g) = Over(SectionRead(s), Brought(f))
    BY <2>2, BroughtOfMore
  <2>5. Dated(SectionRead(s))
    BY <2>2, SectionDated
  <2> DEFINE p == SectionRead(s)
             r == Brought(f)
  <2>6. Dated(p) /\ Dated(r)
    BY <2>3, <2>5
  <2> HIDE DEF p, r
  <2>7. Dated(Over(p, r))
    BY <2>6, OverDated
  <2> QED
    BY <2>3, <2>4, <2>7 DEF p, r
<1> QED
  BY <1>4, <1>5

\* What is worth something is what some first sections bring.
LEMMA WorthDated ==
  ASSUME NEW ss \in Seq(Sections), NEW n
  PROVE  Dated(Worth(ss, n))
<1> DEFINE held == {i \in 0 .. Len(ss) : Len(Saved(SubSeq(ss, 1, i))) <= n}
           m == Max(held)
<1>1. CASE Worth(ss, n) = Nothing
  BY <1>1, NothingDated
<1>2. CASE Worth(ss, n) # Nothing
  <2>1. held # {} /\ Worth(ss, n) = Brought(SubSeq(ss, 1, m))
    BY <1>2 DEF Worth
  <2>2. m \in 0 .. Len(ss)
    <3>1. Len(ss) \in Nat
      BY LenProperties
    <3>2. held \in SUBSET (0 .. Len(ss))
      OBVIOUS
    <3> HIDE DEF held
    <3>3. m \in held
      BY <2>1, <3>1, <3>2, MaxOf
    <3> QED
      BY <3>2, <3>3
  <2> HIDE DEF m, held
  <2> QED
    BY <2>1, <2>2, BroughtDated
<1> QED
  BY <1>1, <1>2

\* The store of a start, before the log is replayed.
Loading(f) == NewStore(LoadRDB(OnDisk(f)))

LEMMA LoadingTimed ==
  ASSUME NEW f \in RdbFiles
  PROVE  Loading(f) = NewStore(Worth(f.sections, f.n)) /\ Timed(Loading(f))
<1> DEFINE ss == f.sections
<1>1. Saving(ss) /\ f.n \in 0 .. Len(File(ss))
  BY RdbFilesAssumption DEF Saving
<1>2. OnDisk(f) = SubSeq(File(ss), 1, f.n)
  BY DEF OnDisk
<1> HIDE DEF ss
<1>3. LoadRDB(OnDisk(f)) = Worth(ss, f.n)
  BY <1>1, <1>2, RdbIsRead
<1>4. ss \in Seq(Sections)
  BY <1>1 DEF Saving
<1>5. Timed(NewStore(Worth(ss, f.n)))
  BY <1>4, WorthDated, NewStoreTimed
<1> QED
  BY <1>3, <1>5 DEF Loading, ss

-------------------------------------------------------------------------------
(* Commands and the store.                                                 *)

\* Numbers are read from the bytes of a value.
LEMMA AsStringType ==
  ASSUME NEW n \in Nat, NEW v \in Values[n]
  PROVE  asString(v) \in Bytes
<1>1. v.kind = "string" => v.of \in Bytes
  BY ValueCases
<1>2. <<>> \in Bytes
  BY DEF Bytes
<1> QED
  BY <1>1, <1>2 DEF asString

\* The parts of a command.
KeyOf(a) == asString(a[2])
IsSet(a) == ToUpper(asString(a[1])) = SET

LEMMA TTLType ==
  ASSUME NEW a \in CommandArrays, parseTTL(a).err = "nil"
  PROVE  parseTTL(a).val \in Int
<1> DEFINE opt == ToUpper(asString(a[4]))
           x   == asString(a[5])
           ttl == Atoi(x)
           ms  == IF opt = EX THEN 1000 * ttl.val ELSE ttl.val
<1>1. parseTTL(a) = IF Len(a) < 5 \/ opt \notin {EX, PX} \/ ttl.err # "nil" THEN Fail("none") ELSE Ok(ms, <<>>)
  BY DEF parseTTL
<1>2. ~(Len(a) < 5) /\ ttl.err = "nil" /\ parseTTL(a) = Ok(ms, <<>>)
  <2>1. Fail("none").err # "nil"
    BY DEF Fail
  <2> HIDE DEF opt, ttl, ms
  <2> QED
    BY <1>1, <2>1
<1>3. x \in Bytes
  <2>1. Len(a) \in Nat /\ a \in Seq(Values[MaxDepth - 1]) /\ MaxDepth - 1 \in Nat
    BY CommandIs
  <2>2. 5 \in 1 .. Len(a)
    BY <1>2, <2>1
  <2>3. a[5] \in Values[MaxDepth - 1]
    BY <2>1, <2>2, ElementOfSeq
  <2> QED
    BY <2>1, <2>3, AsStringType
<1> HIDE DEF x
<1>4. ttl.val \in Int
  <2>1. ttl = Fail("syntax") \/ \E n \in Int : ttl = Ok(n, <<>>)
    BY <1>3, AtoiType
  <2> HIDE DEF ttl
  <2>2. ttl # Fail("syntax")
    BY <1>2 DEF Fail
  <2> QED
    BY <2>1, <2>2, OkIs
<1>5. ms \in Int
  <2> DEFINE y == ttl.val
  <2>1. y \in Int /\ ms = IF opt = EX THEN 1000 * y ELSE y
    BY <1>4
  <2> HIDE DEF y, ms, opt
  <2> QED
    BY <2>1
<1> HIDE DEF ms
<1> QED
  BY <1>2, <1>5, OkIs

\* What a command does.
LEMMA ApplyIs ==
  ASSUME NEW s, NEW a \in CommandArrays, NEW at
  PROVE  Apply(s, a, at) = IF ~IsSet(a) THEN s
                           ELSE IF parseTTL(a).err = "nil"
                                THEN StoredWithTTL(s, KeyOf(a), asString(a[3]), parseTTL(a).val, at)
                                ELSE Stored(s, KeyOf(a), asString(a[3]))
<1>1. ~(Len(a) < 3)
  <2>1. Len(a) >= 3 /\ Len(a) \in Nat
    BY CommandIs
  <2> QED
    BY <2>1
<1> QED
  BY <1>1 DEF Apply, KeyOf, IsSet

\* The stores have the same of k.
Alike(u, s, k) ==
  /\ k \in DOMAIN u.cache <=> k \in DOMAIN s.cache
  /\ k \in DOMAIN s.cache => u.cache[k] = s.cache[k]
  /\ k \in DOMAIN u.expiry <=> k \in DOMAIN s.expiry
  /\ k \in DOMAIN s.expiry => u.expiry[k] = s.expiry[k]

LEMMA StoredIs ==
  ASSUME NEW s, NEW key, NEW value, NEW ttl, NEW at
  PROVE  /\ Stored(s, key, value).cache = Put(s.cache, key, value)
         /\ Stored(s, key, value).expiry = Without(s.expiry, key)
         /\ StoredWithTTL(s, key, value, ttl, at).cache = Put(s.cache, key, value)
         /\ StoredWithTTL(s, key, value, ttl, at).expiry = Put(s.expiry, key, at + ttl)
BY DEF Stored, StoredWithTTL

\* A command does nothing to other keys.
LEMMA ApplyElsewhere ==
  ASSUME NEW s, NEW a \in CommandArrays, NEW at, NEW k, k # KeyOf(a)
  PROVE  Alike(Apply(s, a, at), s, k)
<1> DEFINE key   == KeyOf(a)
           value == asString(a[3])
           ttl   == parseTTL(a).val
           p     == Stored(s, key, value)
           q     == StoredWithTTL(s, key, value, ttl, at)
<1>1. Apply(s, a, at) \in {s, p, q}
  BY ApplyIs
<1>2. k # key
  OBVIOUS
<1> HIDE DEF key, value, ttl
<1>3. Alike(p, s, k)
  <2>1. p.cache = Put(s.cache, key, value) /\ p.expiry = Without(s.expiry, key)
    BY StoredIs
  <2> HIDE DEF p
  <2> QED
    BY <1>2, <2>1 DEF Alike, Put, Without
<1>4. Alike(q, s, k)
  <2>1. q.cache = Put(s.cache, key, value) /\ q.expiry = Put(s.expiry, key, at + ttl)
    BY StoredIs
  <2> DEFINE e == at + ttl
  <2> HIDE DEF q, e
  <2>2. q.expiry = Put(s.expiry, key, e)
    BY <2>1 DEF e
  <2> QED
    BY <1>2, <2>1, <2>2 DEF Alike, Put, Without
<1>5. Alike(s, s, k)
  BY DEF Alike
<1> HIDE DEF p, q
<1> QED
  BY <1>1, <1>3, <1>4, <1>5

\* It keeps instants numbers.
LEMMA ApplyTimed ==
  ASSUME NEW s, NEW a \in CommandArrays, NEW at \in Int, Timed(s)
  PROVE  Timed(Apply(s, a, at))
<1> DEFINE key   == KeyOf(a)
           value == asString(a[3])
           ttl   == parseTTL(a).val
           p     == Stored(s, key, value)
           q     == StoredWithTTL(s, key, value, ttl, at)
<1>1. Apply(s, a, at) \in {s, p} \/ (parseTTL(a).err = "nil" /\ Apply(s, a, at) = q)
  BY ApplyIs
<1>2. parseTTL(a).err = "nil" => ttl \in Int
  BY TTLType
<1> HIDE DEF key, value, ttl
<1>3. Timed(p)
  <2>1. p.expiry = Without(s.expiry, key)
    BY StoredIs
  <2> HIDE DEF p
  <2> QED
    BY <2>1 DEF Timed, Put, Without
<1>4. ASSUME ttl \in Int PROVE Timed(q)
  <2>1. q.expiry = Put(s.expiry, key, at + ttl)
    BY StoredIs
  <2> DEFINE e == at + ttl
  <2>2. e \in Int
    BY <1>4
  <2> HIDE DEF q, e
  <2>3. q.expiry = Put(s.expiry, key, e)
    BY <2>1 DEF e
  <2> QED
    BY <2>2, <2>3 DEF Timed, Put, Without
<1> HIDE DEF p, q
<1> QED
  BY <1>1, <1>2, <1>3, <1>4

\* The store u is s, with instants that are no earlier.
Later(u, s) ==
  /\ u.cache = s.cache
  /\ DOMAIN u.expiry = DOMAIN s.expiry
  /\ \A k \in DOMAIN s.expiry : u.expiry[k] >= s.expiry[k]

\* A command that is executed later has the same effect, with a later instant.
LEMMA ApplyLater ==
  ASSUME NEW u, NEW s, NEW a \in CommandArrays, NEW at \in Int, NEW bt \in Int, bt >= at, Later(u, s)
  PROVE  Later(Apply(u, a, bt), Apply(s, a, at))
<1> DEFINE key   == KeyOf(a)
           value == asString(a[3])
           ttl   == parseTTL(a).val
           p(x)    == Stored(x, key, value)
           q(x, t) == StoredWithTTL(x, key, value, ttl, t)
<1>1. CASE ~IsSet(a)
  <2>1. Apply(u, a, bt) = u /\ Apply(s, a, at) = s
    BY <1>1, ApplyIs
  <2> QED
    BY <2>1
<1>2. CASE IsSet(a) /\ parseTTL(a).err # "nil"
  <2>1. Apply(u, a, bt) = p(u) /\ Apply(s, a, at) = p(s)
    BY <1>2, ApplyIs
  <2> HIDE DEF key, value
  <2> DEFINE x == p(u)
             y == p(s)
  <2>2. x.cache = Put(u.cache, key, value) /\ x.expiry = Without(u.expiry, key)
    BY StoredIs
  <2>3. y.cache = Put(s.cache, key, value) /\ y.expiry = Without(s.expiry, key)
    BY StoredIs
  <2> HIDE DEF x, y
  <2>4. Later(x, y)
    BY <2>2, <2>3 DEF Later, Put, Without
  <2> QED
    BY <2>1, <2>4 DEF x, y
<1>3. CASE IsSet(a) /\ parseTTL(a).err = "nil"
  <2>1. Apply(u, a, bt) = q(u, bt) /\ Apply(s, a, at) = q(s, at)
    BY <1>3, ApplyIs
  <2>2. ttl \in Int
    BY <1>3, TTLType
  <2> HIDE DEF key, value, ttl
  <2> DEFINE x == q(u, bt)
             y == q(s, at)
             d == bt + ttl
             e == at + ttl
  <2>3. d >= e
    BY <2>2
  <2>4. x.cache = Put(u.cache, key, value) /\ x.expiry = Put(u.expiry, key, d)
        /\ y.cache = Put(s.cache, key, value) /\ y.expiry = Put(s.expiry, key, e)
    BY StoredIs
  <2> HIDE DEF x, y, d, e
  <2>5. ASSUME NEW k \in DOMAIN y.expiry PROVE x.expiry[k] >= y.expiry[k]
    <3>1. CASE k = key
      BY <2>3, <2>4, <3>1 DEF Put, Without
    <3>2. CASE k # key
      <4>1. k \in DOMAIN s.expiry /\ k \in DOMAIN u.expiry /\ u.expiry[k] >= s.expiry[k]
        BY <2>4, <2>5, <3>2 DEF Later, Put, Without
      <4>2. x.expiry[k] = u.expiry[k] /\ y.expiry[k] = s.expiry[k]
        BY <2>4, <3>2, <4>1 DEF Put, Without
      <4> QED
        BY <4>1, <4>2
    <3> QED
      BY <3>1, <3>2
  <2>6. x.cache = y.cache /\ DOMAIN x.expiry = DOMAIN y.expiry
    BY <2>4 DEF Later, Put, Without
  <2>7. Later(x, y)
    BY <2>5, <2>6 DEF Later
  <2> QED
    BY <2>1, <2>7 DEF x, y
<1> QED
  BY <1>1, <1>2, <1>3

\* So have all of them, and instants stay numbers.
LEMMA ApplyAllLater ==
  ASSUME NEW s, Timed(s), NEW cmds \in Seq(CommandArrays), NEW at \in Int, NEW bt \in Int, bt >= at
  PROVE  Timed(ApplyAll(s, cmds, at)) /\ Later(ApplyAll(s, cmds, bt), ApplyAll(s, cmds, at))
<1> DEFINE A(i, t) == ApplyAll(s, SubSeq(cmds, 1, i), t)
           T == {i \in 0 .. Len(cmds) : ~(Timed(A(i, at)) /\ Later(A(i, bt), A(i, at)))}
<1>0. Len(cmds) \in Nat
  BY LenProperties
<1>1. T = {}
  <2>1. SUFFICES ASSUME T # {} PROVE FALSE
    OBVIOUS
  <2>2. PICK i \in T : i - 1 \notin T
    <3>1. T \in SUBSET Nat
      BY <1>0
    <3> HIDE DEF T
    <3> QED
      BY <2>1, <3>1, FirstNumber
  <2>3. /\ i \in 0 .. Len(cmds) /\ ~(Timed(A(i, at)) /\ Later(A(i, bt), A(i, at)))
        /\ i - 1 \in 0 .. Len(cmds) => Timed(A(i - 1, at)) /\ Later(A(i - 1, bt), A(i - 1, at))
    BY <2>2
  <2> HIDE DEF T
  <2>4. CASE i = 0
    <3>1. A(i, at) = s /\ A(i, bt) = s
      BY <2>4, FirstNone, ApplyAllOfNone
    <3>2. Later(s, s)
      BY DEF Later, Timed
    <3> QED
      BY <2>3, <3>1, <3>2
  <2>5. CASE i # 0
    <3>1. i \in 1 .. Len(cmds) /\ i - 1 \in 0 .. Len(cmds)
      BY <1>0, <2>3, <2>5
    <3> DEFINE f == SubSeq(cmds, 1, i - 1)
               g == SubSeq(cmds, 1, i)
               c == cmds[i]
               x == ApplyAll(s, f, at)
               y == ApplyAll(s, f, bt)
    <3>2. g = Append(f, c) /\ f \in Seq(CommandArrays) /\ c \in CommandArrays
      BY <3>1, FirstMore
    <3>3. Timed(x) /\ Later(y, x) /\ ~(Timed(ApplyAll(s, g, at)) /\ Later(ApplyAll(s, g, bt), ApplyAll(s, g, at)))
      BY <2>3, <3>1
    <3> HIDE DEF f, g, c
    <3>4. ApplyAll(s, g, at) = Apply(x, c, at) /\ ApplyAll(s, g, bt) = Apply(y, c, bt)
      BY <3>2, ApplyAllOfMore
    <3> HIDE DEF x, y
    <3>5. Timed(Apply(x, c, at)) /\ Later(Apply(y, c, bt), Apply(x, c, at))
      BY <3>2, <3>3, ApplyTimed, ApplyLater
    <3> QED
      BY <3>3, <3>4, <3>5
  <2> QED
    BY <2>4, <2>5
<1>2. Len(cmds) \in 0 .. Len(cmds) /\ SubSeq(cmds, 1, Len(cmds)) = cmds
  BY <1>0, SubSeqFull
<1>3. Timed(A(Len(cmds), at)) /\ Later(A(Len(cmds), bt), A(Len(cmds), at))
  BY <1>1, <1>2
<1> QED
  BY <1>2, <1>3

\* A replay gives what was kept of whole writes.
LEMMA WholeLogOf ==
  ASSUME NEW ws \in Seq(Writes), \A j \in DOMAIN ws : ~IsTorn(ws[j])
  PROVE  replay(Concat(Pieces(ws))).cmds = Kept(ws)
<1> DEFINE n == Len(ws)
           es == Pieces(ws)
           k == Kept(SubSeq(ws, 1, n))
<1>1. es \in Seq(Bytes) /\ Len(es) = n /\ n \in Nat /\ DOMAIN ws = 1 .. n
  BY PiecesAre, LenProperties
<1>2. Upto(es, n) = Concat(es) /\ Concat(es) \o <<>> = Concat(es)
  <2> HIDE DEF es
  <2>1. Upto(es, Len(es)) = Concat(es) /\ Concat(es) \in Bytes
    BY <1>1, UptoAll, ConcatType
  <2> QED
    BY <1>1, <2>1, ConcatEmptySeq DEF Bytes
<1>3. n \in 0 .. Len(ws) /\ \A j \in 1 .. n : ~IsTorn(ws[j])
  BY <1>1
<1>4. ReadsLog(ws, n)
  <2> HIDE DEF n
  <2> QED
    BY <1>3, LogRead
<1>5. replay(Concat(es)) = [cmds |-> k \o replay(<<>>).cmds, err |-> replay(<<>>).err]
  <2>1. replay(Upto(es, n) \o <<>>) = [cmds |-> k \o replay(<<>>).cmds, err |-> replay(<<>>).err]
    BY <1>4, NothingRead DEF ReadsLog
  <2> QED
    BY <1>2, <2>1
<1>6. k \in Seq(Readable \intersect CommandArrays)
  BY <1>3, KeptType
<1>7. SubSeq(ws, 1, n) = ws
  BY SubSeqFull
<1>8. replay(<<>>).cmds = <<>>
  BY NothingRead
<1>9. k = Kept(ws)
  BY <1>7
<1> HIDE DEF k, es
<1>10. k \o <<>> = k
  BY <1>6, ConcatEmptySeq
<1>11. replay(Concat(es)).cmds = k
  <2> DEFINE q == replay(<<>>)
             r == replay(Concat(es))
  <2>1. r = [cmds |-> k \o q.cmds, err |-> q.err] /\ q.cmds = <<>>
    BY <1>5, <1>8
  <2> HIDE DEF q, r
  <2>2. r.cmds = k
    BY <1>10, <2>1
  <2> QED
    BY <2>2 DEF r
<1> QED
  BY <1>9, <1>11 DEF es

\* asString of a value that was read back is asString of the value, unless it is a number.
LEMMA AsStringOf ==
  ASSUME NEW n \in Nat, NEW v \in Values[n], v.kind # "int"
  PROVE  asString(AsText[n][v]) = asString(v)
<1>1. AsText[n][v] = ValueAsText(AsText[n - 1], v)
  BY CodeOf
<1> DEFINE x == AsText[n - 1]
           y == [i \in DOMAIN v.of |-> x[v.of[i]]]
<1>2. ValueAsText(x, v) = IF v.kind = "array" THEN Arr(y) ELSE v
  BY DEF ValueAsText
<1>3. Arr(y).kind = "array"
  BY DEF Arr
<1> HIDE DEF y
<1>4. asString(ValueAsText(x, v)) = asString(v)
  BY <1>2, <1>3 DEF asString
<1> QED
  BY <1>1, <1>4

\* So a command that was read back does what the command did.
LEMMA ApplyText ==
  ASSUME NEW s, NEW a \in CommandArrays, \A j \in DOMAIN a : a[j].kind # "int", NEW at
  PROVE  Apply(s, Text(a), at) = Apply(s, a, at) /\ KeyOf(Text(a)) = KeyOf(a)
<1> DEFINE t == Text(a)
<1>1. Len(a) >= 3 /\ Len(a) \in Nat /\ DOMAIN a = 1 .. Len(a) /\ MaxDepth - 1 \in Nat /\ a \in Seq(Values[MaxDepth - 1])
  BY CommandIs
<1>2. Len(t) = Len(a) /\ \A j \in 1 .. Len(a) : t[j] = AsText[MaxDepth - 1][a[j]]
  BY CommandCoded
<1> HIDE DEF t
<1>3. ASSUME NEW j \in 1 .. Len(a) PROVE asString(t[j]) = asString(a[j])
  <2>1. a[j] \in Values[MaxDepth - 1] /\ a[j].kind # "int"
    BY <1>1, ElementOfSeq
  <2> QED
    BY <1>1, <1>2, <2>1, AsStringOf
<1>4. asString(t[1]) = asString(a[1]) /\ asString(t[2]) = asString(a[2]) /\ asString(t[3]) = asString(a[3])
  BY <1>1, <1>3
<1>5. Len(a) >= 5 => asString(t[4]) = asString(a[4]) /\ asString(t[5]) = asString(a[5])
  BY <1>1, <1>3
<1>6. parseTTL(t) = parseTTL(a)
  <2>1. CASE Len(a) < 5
    BY <1>2, <2>1 DEF parseTTL
  <2>2. CASE ~(Len(a) < 5)
    <3>1. asString(t[4]) = asString(a[4]) /\ asString(t[5]) = asString(a[5])
      BY <1>1, <1>5, <2>2
    <3> QED
      BY <1>2, <3>1 DEF parseTTL
  <2> QED
    BY <2>1, <2>2
<1> QED
  BY <1>2, <1>4, <1>6 DEF Apply, KeyOf, t

-------------------------------------------------------------------------------
(* A restart.                                                              *)

NoTear(ws) == \A j \in DOMAIN ws : ~IsTorn(ws[j])

\* What a restart gives with a log of writes, at an instant.
Again(ws, f, t) == ApplyAll(Loading(f), replay(Concat(Pieces(ws))).cmds, t)

LEMMA AgainIs ==
  ASSUME NEW ws \in Seq(Writes), NoTear(ws), NEW f, NEW t
  PROVE  Again(ws, f, t) = ApplyAll(Loading(f), Kept(ws), t) /\ Kept(ws) \in Seq(CommandArrays)
<1>1. replay(Concat(Pieces(ws))).cmds = Kept(ws)
  BY WholeLogOf DEF NoTear
<1>2. Kept(ws) \in Seq(Readable \intersect CommandArrays)
  <2>1. Len(ws) \in 0 .. Len(ws) /\ SubSeq(ws, 1, Len(ws)) = ws
    BY LenProperties, SubSeqFull
  <2>2. Kept(SubSeq(ws, 1, Len(ws))) \in Seq(Readable \intersect CommandArrays)
    BY <2>1, KeptType
  <2> QED
    BY <2>1, <2>2
<1> DEFINE k == Kept(ws)
<1> HIDE DEF k
<1>3. k \in Seq(CommandArrays)
  BY <1>2 DEF k
<1> QED
  BY <1>1, <1>3 DEF Again, k

\* A later restart gives the same, with instants that are no earlier.
LEMMA AgainLater ==
  ASSUME NEW ws \in Seq(Writes), NoTear(ws), NEW f \in RdbFiles, NEW t \in Int, NEW u \in Int, u >= t
  PROVE  Timed(Again(ws, f, t)) /\ Later(Again(ws, f, u), Again(ws, f, t))
<1> DEFINE k == Kept(ws)
           s == Loading(f)
<1>1. k \in Seq(CommandArrays) /\ Again(ws, f, t) = ApplyAll(s, k, t) /\ Again(ws, f, u) = ApplyAll(s, k, u)
  BY AgainIs
<1>2. Timed(s)
  BY LoadingTimed
<1> HIDE DEF k, s
<1> QED
  BY <1>1, <1>2, ApplyAllLater

\* One more write does to it what the command does that is read back, or nothing.
LEMMA AgainMore ==
  ASSUME NEW ws \in Seq(Writes), NEW w \in Writes, NoTear(Append(ws, w)), NEW f, NEW t
  PROVE  /\ NoTear(ws)
         /\ Again(Append(ws, w), f, t) = IF Whole(w) THEN Apply(Again(ws, f, t), Text(w.cmd), t) ELSE Again(ws, f, t)
<1> DEFINE more == Append(ws, w)
           n == Len(ws)
<1>1. n \in Nat /\ DOMAIN ws = 1 .. n /\ more \in Seq(Writes) /\ DOMAIN more = 1 .. n + 1
      /\ \A i \in 1 .. n : more[i] = ws[i]
  BY AppendProperties, LenProperties
<1>2. NoTear(ws)
  <2>1. \A i \in 1 .. n : i \in 1 .. n + 1
    BY <1>1
  <2>2. NoTear(more)
    OBVIOUS
  <2> HIDE DEF n, more
  <2> QED
    BY <1>1, <2>1, <2>2 DEF NoTear
<1> DEFINE k == Kept(ws)
           l == Kept(more)
           c == Text(w.cmd)
           s == Loading(f)
<1>3. Again(ws, f, t) = ApplyAll(s, k, t) /\ k \in Seq(CommandArrays) /\ Again(more, f, t) = ApplyAll(s, l, t)
  BY <1>1, <1>2, AgainIs
<1>4. l = IF Whole(w) THEN Append(k, c) ELSE k
  BY KeptOfMore
<1>5. c \in CommandArrays
  <2>1. w.cmd \in CommandArrays
    BY WrittenIs
  <2> QED
    BY <2>1, CommandCoded
<1> HIDE DEF k, l, c, s, more
<1>6. ApplyAll(s, Append(k, c), t) = Apply(ApplyAll(s, k, t), c, t)
  BY <1>3, <1>5, ApplyAllOfMore
<1> QED
  BY <1>2, <1>3, <1>4, <1>6 DEF more, c

\* A restart at t prolongs s: BootInv says so of a server that is up.
Prolonged(s, ws, f, t) == Timed(s) /\ \A k : Settled(ws, k) => Prolongs(Again(ws, f, t), s, k)

\* A store prolongs itself, and one that prolongs another does when both have the same of k as before.
LEMMA ProlongsItself ==
  ASSUME NEW s, Timed(s), NEW k
  PROVE  Prolongs(s, s, k)
BY DEF Prolongs, Timed

LEMMA ProlongsAlike ==
  ASSUME NEW u, NEW s, NEW v, NEW r, NEW k, Prolongs(u, s, k), Alike(v, u, k), Alike(r, s, k)
  PROVE  Prolongs(v, r, k)
BY DEF Prolongs, Alike

\* A SET is applied to both.
LEMMA ProlongsSet ==
  ASSUME NEW u, NEW s, NEW a \in CommandArrays, IsSet(a), NEW t \in Int
  PROVE  Prolongs(Apply(u, a, t), Apply(s, a, t), KeyOf(a))
<1> DEFINE key   == KeyOf(a)
           value == asString(a[3])
           ttl   == parseTTL(a).val
           p(x) == Stored(x, key, value)
           q(x) == StoredWithTTL(x, key, value, ttl, t)
<1>1. CASE parseTTL(a).err # "nil"
  <2>1. Apply(u, a, t) = p(u) /\ Apply(s, a, t) = p(s)
    BY <1>1, ApplyIs
  <2> HIDE DEF key, value
  <2> DEFINE x == p(u)
             y == p(s)
  <2>2. x.cache = Put(u.cache, key, value) /\ x.expiry = Without(u.expiry, key)
    BY StoredIs
  <2>3. y.cache = Put(s.cache, key, value) /\ y.expiry = Without(s.expiry, key)
    BY StoredIs
  <2> HIDE DEF x, y
  <2>4. Prolongs(x, y, key)
    BY <2>2, <2>3 DEF Prolongs, Put, Without
  <2> QED
    BY <2>1, <2>4 DEF x, y, key
<1>2. CASE parseTTL(a).err = "nil"
  <2>1. Apply(u, a, t) = q(u) /\ Apply(s, a, t) = q(s)
    BY <1>2, ApplyIs
  <2>2. ttl \in Int
    BY <1>2, TTLType
  <2> HIDE DEF key, value, ttl
  <2> DEFINE x == q(u)
             y == q(s)
             e == t + ttl
  <2>3. e \in Int /\ e >= e
    BY <2>2
  <2>4. x.cache = Put(u.cache, key, value) /\ x.expiry = Put(u.expiry, key, e)
        /\ y.cache = Put(s.cache, key, value) /\ y.expiry = Put(s.expiry, key, e)
    BY StoredIs
  <2> HIDE DEF x, y, e
  <2>5. Prolongs(x, y, key)
    BY <2>3, <2>4 DEF Prolongs, Put, Without
  <2> QED
    BY <2>1, <2>5 DEF x, y, key
<1> QED
  BY <1>1, <1>2

\* What is settled after one more write was settled before it, or the write concerns it and is faithful.
LEMMA SettledMore ==
  ASSUME NEW ws \in Seq(Writes), NEW w \in Writes, NEW k, Settled(Append(ws, w), k)
  PROVE  IF Concerns(w, k) THEN Faithful(w) ELSE Settled(ws, k)
<1> DEFINE more == Append(ws, w)
           n == Len(ws)
<1>1. n \in Nat /\ DOMAIN ws = 1 .. n /\ DOMAIN more = 1 .. n + 1 /\ more[n + 1] = w
      /\ \A i \in 1 .. n : more[i] = ws[i]
  BY AppendProperties, LenProperties
<1>2. Settled(more, k)
  OBVIOUS
<1> HIDE DEF more, n
<1>3. ASSUME Concerns(w, k), ~Faithful(w) PROVE FALSE
  <2>1. n + 1 \in DOMAIN more
    BY <1>1
  <2>2. PICK j \in DOMAIN more : j > n + 1
    BY <1>1, <1>2, <1>3, <2>1 DEF Settled
  <2> QED
    BY <1>1, <2>2
<1>4. ASSUME ~Concerns(w, k), NEW i \in DOMAIN ws, Concerns(ws[i], k), ~Faithful(ws[i])
      PROVE  \E j \in DOMAIN ws : j > i /\ Concerns(ws[j], k) /\ Faithful(ws[j])
  <2>1. i \in DOMAIN more /\ more[i] = ws[i]
    BY <1>1
  <2>2. PICK j \in DOMAIN more : j > i /\ Concerns(more[j], k) /\ Faithful(more[j])
    BY <1>2, <1>4, <2>1 DEF Settled
  <2>3. j # n + 1
    BY <1>1, <1>4, <2>2
  <2>4. j \in 1 .. n
    BY <1>1, <2>3
  <2> QED
    BY <1>1, <2>2, <2>4
<1>5. ~Concerns(w, k) => Settled(ws, k)
  BY <1>4 DEF Settled
<1> QED
  BY <1>3, <1>5

\* So a SET that is stored and logged, whole or not at all, leaves a restart what it was.
LEMMA ProlongedAfterSet ==
  ASSUME NEW ws \in Seq(Writes), NEW w \in Writes, NoTear(Append(ws, w)), IsSet(w.cmd),
         NEW s, NEW f \in RdbFiles, NEW t \in Int, Prolonged(s, ws, f, t)
  PROVE  Prolonged(Apply(s, w.cmd, t), Append(ws, w), f, t)
<1> DEFINE a == w.cmd
           c == Text(w.cmd)
           u == Again(ws, f, t)
           v == Again(Append(ws, w), f, t)
           r == Apply(s, a, t)
<1>1. a \in CommandArrays /\ c \in CommandArrays
  <2>1. w.cmd \in CommandArrays
    BY WrittenIs
  <2> QED
    BY <2>1, CommandCoded
<1>2. v = IF Whole(w) THEN Apply(u, c, t) ELSE u
  BY AgainMore
<1>3. Timed(s) /\ \A k : Settled(ws, k) => Prolongs(u, s, k)
  BY DEF Prolonged
<1> HIDE DEF u, v
<1>4. Timed(r)
  <2> HIDE DEF a
  <2> QED
    BY <1>1, <1>3, ApplyTimed
<1>5. ASSUME NEW k, Settled(Append(ws, w), k) PROVE Prolongs(v, r, k)
  <2>1. CASE Concerns(w, k)
    <3>1. Faithful(w)
      BY <1>5, <2>1, SettledMore
    <3>2. Whole(w) /\ \A j \in DOMAIN a : a[j].kind # "int"
      BY <3>1 DEF Faithful
    <3>3. Apply(u, c, t) = Apply(u, a, t) /\ KeyOf(c) = KeyOf(a)
      BY <1>1, <3>2, ApplyText
    <3>4. k = KeyOf(a)
      BY <2>1, <3>3 DEF Concerns, KeyOf
    <3>5. Prolongs(Apply(u, a, t), Apply(s, a, t), KeyOf(a))
      BY <1>1, ProlongsSet
    <3> QED
      BY <1>2, <3>2, <3>3, <3>4, <3>5
  <2>2. CASE ~Concerns(w, k)
    <3>1. Settled(ws, k)
      BY <1>5, <2>2, SettledMore
    <3>2. k # KeyOf(a) /\ k # KeyOf(c)
      BY <2>2 DEF Concerns, KeyOf
    <3> HIDE DEF a, c
    <3>3. Alike(r, s, k) /\ Alike(Apply(u, c, t), u, k) /\ Alike(u, u, k)
      <4>1. Alike(u, u, k)
        BY DEF Alike
      <4> QED
        BY <1>1, <3>2, <4>1, ApplyElsewhere
    <3>4. Alike(v, u, k)
      BY <1>2, <3>3
    <3> HIDE DEF r
    <3> QED
      BY <1>3, <3>1, <3>3, <3>4, ProlongsAlike
  <2> QED
    BY <2>1, <2>2
<1> HIDE DEF r
<1>6. Prolonged(r, Append(ws, w), f, t)
  BY <1>4, <1>5 DEF Prolonged, v
<1> QED
  BY <1>6 DEF r

\* So does the time that goes by, ...
LEMMA ProlongedLater ==
  ASSUME NEW ws \in Seq(Writes), NoTear(ws), NEW s, NEW f \in RdbFiles,
         NEW t \in Int, NEW l \in Int, l >= t, Prolonged(s, ws, f, t)
  PROVE  Prolonged(s, ws, f, l)
<1> DEFINE u == Again(ws, f, t)
           v == Again(ws, f, l)
<1>1. Timed(u) /\ Later(v, u)
  BY AgainLater
<1>2. l \in Int /\ l >= l
  OBVIOUS
<1>3. Timed(v)
  BY <1>2, AgainLater
<1>4. Timed(s) /\ \A k : Settled(ws, k) => Prolongs(u, s, k)
  BY DEF Prolonged
<1> HIDE DEF u, v
<1>5. ASSUME NEW k, Settled(ws, k) PROVE Prolongs(v, s, k)
  <2>1. Prolongs(u, s, k)
    BY <1>4, <1>5
  <2>2. CASE k \in DOMAIN s.cache
    <3>1. k \in DOMAIN u.cache /\ u.cache[k] = s.cache[k] /\ (k \in DOMAIN u.expiry <=> k \in DOMAIN s.expiry)
          /\ (k \in DOMAIN s.expiry => u.expiry[k] >= s.expiry[k])
      BY <2>1, <2>2 DEF Prolongs
    <3>2. v.cache = u.cache /\ DOMAIN v.expiry = DOMAIN u.expiry
          /\ (k \in DOMAIN u.expiry => v.expiry[k] >= u.expiry[k])
      BY <1>1 DEF Later
    <3>3. k \in DOMAIN s.expiry => v.expiry[k] >= s.expiry[k]
      <4> SUFFICES ASSUME k \in DOMAIN s.expiry PROVE v.expiry[k] >= s.expiry[k]
        OBVIOUS
      <4> DEFINE x == v.expiry[k]
                 y == u.expiry[k]
                 z == s.expiry[k]
      <4>1. x \in Int /\ y \in Int /\ z \in Int /\ x >= y /\ y >= z
        BY <1>1, <1>3, <1>4, <3>1, <3>2 DEF Timed
      <4> HIDE DEF x, y, z
      <4>2. x >= z
        BY <4>1
      <4> QED
        BY <4>2 DEF x, z
    <3> QED
      BY <2>2, <3>1, <3>2, <3>3 DEF Prolongs
  <2>3. CASE k \notin DOMAIN s.cache
    BY <1>1, <2>1, <2>3 DEF Prolongs, Later
  <2> QED
    BY <2>2, <2>3
<1> QED
  BY <1>4, <1>5 DEF Prolonged, v

\* ... and a key that expires.
LEMMA ProlongedAfterExpiry ==
  ASSUME NEW ws, NEW s, NEW f, NEW t, Prolonged(s, ws, f, t), NEW x \in DOMAIN s.expiry,
         NEW r, r = [cache |-> Without(s.cache, x), expiry |-> Without(s.expiry, x)]
  PROVE  Prolonged(r, ws, f, t)
<1> DEFINE u == Again(ws, f, t)
<1>1. Timed(s) /\ \A k : Settled(ws, k) => Prolongs(u, s, k)
  BY DEF Prolonged
<1>2. r.cache = Without(s.cache, x) /\ r.expiry = Without(s.expiry, x)
  OBVIOUS
<1> HIDE DEF u
<1>3. Timed(r)
  BY <1>1, <1>2 DEF Timed, Put, Without
<1>4. ASSUME NEW k, Settled(ws, k) PROVE Prolongs(u, r, k)
  <2>1. Prolongs(u, s, k)
    BY <1>1, <1>4
  <2>2. CASE k = x
    BY <1>2, <2>1, <2>2 DEF Prolongs, Put, Without
  <2>3. CASE k # x
    <3>1. Alike(r, s, k)
      BY <1>2, <2>3 DEF Alike, Put, Without
    <3>2. Alike(u, u, k)
      BY DEF Alike
    <3> QED
      BY <2>1, <3>1, <3>2, ProlongsAlike
  <2> QED
    BY <2>2, <2>3
<1> QED
  BY <1>3, <1>4 DEF Prolonged, u

-------------------------------------------------------------------------------
(* The invariant of a start.                                               *)

\* RestartOnlyProlongs, where the log consists of what was written.
LEMMA RestartIs ==
  ASSUME aof = Concat(Pieces(logged)), status = "up" /\ Torn = {} => Prolonged(store, logged, rdb, now)
  PROVE  RestartOnlyProlongs
<1> DEFINE u == Again(logged, rdb, now)
<1>1. u = ApplyAll(NewStore(LoadRDB(OnDisk(rdb))), replay(aof).cmds, now)
  BY DEF Again, Loading
<1>2. status = "up" /\ Torn = {} => \A k : Settled(logged, k) => Prolongs(u, store, k)
  BY DEF Prolonged
<1> HIDE DEF u
<1> QED
  BY <1>1, <1>2 DEF RestartOnlyProlongs

BootInv ==
  /\ LogInv
  /\ status \in {"down", "manifest", "replay", "up", "exited"}
  /\ manifest \in {"absent", "torn", "whole"} /\ (status = "manifest" => manifest # "whole")
  /\ manifest # "whole" => logged = <<>> /\ status \notin {"replay", "up"}
  /\ rdb \in RdbFiles /\ now \in Int
  /\ status \in {"manifest", "replay"} => store = Loading(rdb)
  /\ status = "exited" => Torn # {} \/ (manifest = "torn" /\ logged = <<>>)
  /\ status = "up" /\ Torn = {} => Prolonged(store, logged, rdb, now)

\* Before the first start there is no log.
LEMMA BootInvInit == BootInit => BootInv
<1> SUFFICES ASSUME BootInit PROVE BootInv
  OBVIOUS
<1>1. <<>> \in Seq(Writes)
  OBVIOUS
<1>2. Pieces(<<>>) = <<>>
  BY DEF Pieces
<1>3. LogInv
  BY <1>1, <1>2, ConcatOfNone DEF LogInv, BootInit
<1> QED
  BY <1>3, TimesAssumption DEF BootInit, BootInv

\* A request is a SET.
LEMMA RequestIs ==
  ASSUME NEW r \in Requests
  PROVE  ParseRESP(r).val.of \in CommandArrays /\ IsSet(ParseRESP(r).val.of)
<1> DEFINE v == ParseRESP(r).val
<1>1. v \in Values[MaxDepth] /\ v.kind = "array" /\ Len(v.of) >= 3 /\ ToUpper(asString(v.of[1])) = SET
  BY RequestsAssumption
<1> HIDE DEF v
<1> QED
  BY <1>1 DEF CommandArrays, IsSet, v

\* What has no tear.
LEMMA TornIs == Torn = {} <=> NoTear(logged)
BY DEF Torn, NoTear, IsTorn

\* A SET appends its bytes, or the first of them, to the log and to the list of writes (addAOF).
LEMMA SetPreserves == BootInv /\ Set => BootInv'
<1> SUFFICES ASSUME BootInv, Set PROVE BootInv'
  OBVIOUS
<1>1. PICK request \in Requests :
        /\ status = "up" /\ NamesFile /\ UNCHANGED <<rdb, manifest, status, now, crashes>>
        /\ store' = Apply(store, ParseRESP(request).val.of, now)
        /\ \E n \in 0 .. Len(encodeRESPArray(ParseRESP(request).val.of)) :
             /\ aof' = aof \o SubSeq(encodeRESPArray(ParseRESP(request).val.of), 1, n)
             /\ logged' = Append(logged, [cmd |-> ParseRESP(request).val.of, bytes |-> n])
  BY Zenon DEF Set
<1> DEFINE arr  == ParseRESP(request).val.of
           text == encodeRESPArray(arr)
<1>2. status = "up" /\ manifest = "whole" /\ store' = Apply(store, arr, now) /\ UNCHANGED <<rdb, manifest, status, now>>
  BY <1>1 DEF NamesFile
<1>3. PICK n \in 0 .. Len(text) : aof' = aof \o SubSeq(text, 1, n) /\ logged' = Append(logged, [cmd |-> arr, bytes |-> n])
  BY <1>1
<1> DEFINE w == [cmd |-> arr, bytes |-> n]
<1>4. arr \in CommandArrays /\ IsSet(arr) /\ Len(text) \in Nat
  BY RequestIs, CommandCoded
<1> HIDE DEF arr
<1>5. w \in Writes /\ Written(w) = SubSeq(text, 1, n) /\ w.cmd = arr
  <2>1. n \in Nat /\ n <= Len(text)
    <3> HIDE DEF text
    <3> QED
      BY <1>4
  <2> QED
    BY <1>4, <2>1 DEF Writes, Written
<1> HIDE DEF w, text
<1>6. logged \in Seq(Writes) /\ aof = Concat(Pieces(logged))
  BY DEF BootInv, LogInv
<1>7. logged' = Append(logged, w) /\ aof' = aof \o Written(w)
  BY <1>3, <1>5 DEF w
<1>8. Append(logged, w) \in Seq(Writes)
  BY <1>5, <1>6, AppendProperties
<1>9. aof \o Written(w) = Concat(Pieces(Append(logged, w)))
  <2>1. Pieces(logged) \in Seq(Bytes) /\ Written(w) \in Bytes
    BY <1>5, <1>6, PiecesAre, WrittenIs
  <2>2. Pieces(Append(logged, w)) = Append(Pieces(logged), Written(w))
    BY <1>5, <1>6, PiecesMore
  <2> DEFINE p == Pieces(logged)
             e == Written(w)
  <2>3. p \in Seq(Bytes) /\ e \in Bytes
    BY <2>1
  <2> HIDE DEF p, e
  <2>4. Concat(Append(p, e)) = Concat(p) \o e
    BY <2>3, ConcatOfMore
  <2> QED
    BY <1>6, <2>2, <2>4 DEF p, e
<1>10. LogInv'
  BY <1>7, <1>8, <1>9 DEF LogInv
<1>11. ASSUME Torn' = {}
       PROVE  Prolonged(store', logged', rdb', now')
  <2>1. NoTear(Append(logged, w))
    <3> DEFINE more == Append(logged, w)
    <3>1. {i \in DOMAIN more : IsTorn(more[i])} = {}
      BY <1>7, <1>11 DEF Torn, IsTorn
    <3> HIDE DEF more
    <3> QED
      BY <3>1 DEF NoTear, more
  <2>2. NoTear(logged)
    BY <1>5, <1>6, <2>1, AgainMore
  <2>3. Prolonged(store, logged, rdb, now) /\ rdb \in RdbFiles /\ now \in Int
    BY <1>2, <2>2, TornIs DEF BootInv
  <2>4. IsSet(w.cmd)
    BY <1>4, <1>5
  <2>5. Prolonged(Apply(store, w.cmd, now), Append(logged, w), rdb, now)
    BY <1>5, <1>6, <2>1, <2>3, <2>4, ProlongedAfterSet
  <2>6. store' = Apply(store, w.cmd, now) /\ rdb' = rdb /\ now' = now
    BY <1>2, <1>5
  <2> QED
    BY <1>7, <2>5, <2>6
<1> QED
  BY <1>2, <1>10, <1>11 DEF BootInv

\* A replay changes nothing on the disk.
LEMMA ReplayPreserves == BootInv /\ Replay => BootInv'
<1> SUFFICES ASSUME BootInv, Replay PROVE BootInv'
  OBVIOUS
<1> DEFINE r == replay(aof)
<1>1. status = "replay" /\ store' = ApplyAll(store, r.cmds, now) /\ status' = (IF r.err = "EOF" THEN "up" ELSE "exited")
      /\ rdb' = rdb /\ manifest' = manifest /\ aof' = aof /\ logged' = logged /\ now' = now
  BY DEF Replay, disk
<1>2. Torn = {} => r.err = "EOF"
  <2>1. ASSUME Torn = {} PROVE r = [cmds |-> Intact, err |-> "EOF"]
    <3>1. LogInv
      BY DEF BootInv
    <3> QED
      BY <2>1, <3>1, WholeLog
  <2> HIDE DEF r
  <2> QED
    BY <2>1
<1>3. LogInv' /\ Torn' = Torn
  BY <1>1 DEF BootInv, LogInv, Torn
<1>4. store = Loading(rdb) /\ manifest = "whole" /\ rdb \in RdbFiles /\ now \in Int
      /\ logged \in Seq(Writes) /\ aof = Concat(Pieces(logged))
  BY <1>1 DEF BootInv, LogInv
<1>5. ASSUME Torn = {} PROVE Prolonged(store', logged', rdb', now')
  <2>1. store' = Again(logged, rdb, now)
    BY <1>1, <1>4 DEF Again
  <2>2. now >= now /\ NoTear(logged)
    BY <1>4, <1>5, TornIs
  <2>3. Timed(Again(logged, rdb, now))
    BY <1>4, <2>2, AgainLater
  <2> DEFINE s == Again(logged, rdb, now)
  <2>4. ASSUME NEW k PROVE Prolongs(s, s, k)
    <3> HIDE DEF s
    <3> QED
      BY <2>3, ProlongsItself DEF s
  <2>5. Prolonged(s, logged, rdb, now)
    BY <2>3, <2>4 DEF Prolonged
  <2> QED
    BY <1>1, <2>1, <2>5
<1> HIDE DEF r
<1> QED
  BY <1>1, <1>2, <1>3, <1>4, <1>5 DEF BootInv

\* A start reads the RDB file.
LEMMA BootPreserves == BootInv /\ Boot => BootInv'
<1> SUFFICES ASSUME BootInv, Boot PROVE BootInv'
  OBVIOUS
<1>1. /\ store' = NewStore(LoadRDB(OnDisk(rdb)))
      /\ status' = (IF manifest = "absent" THEN "manifest" ELSE IF manifest = "whole" THEN "replay" ELSE "exited")
      /\ rdb' = rdb /\ manifest' = manifest /\ aof' = aof /\ logged' = logged /\ now' = now
  BY DEF Boot, NamesFile, disk
<1>2. LogInv' /\ Torn' = Torn
  BY <1>1 DEF BootInv, LogInv, Torn
<1>3. store' = Loading(rdb')
  BY <1>1 DEF Loading
<1> QED
  BY <1>1, <1>2, <1>3 DEF BootInv

\* A start that finds no manifest writes one; no log is there before.
LEMMA ManifestPreserves == BootInv /\ (CreateManifest \/ WriteManifest) => BootInv'
<1> SUFFICES ASSUME BootInv, CreateManifest \/ WriteManifest PROVE BootInv'
  OBVIOUS
<1>1. rdb' = rdb /\ aof' = aof /\ logged' = logged /\ store' = store /\ now' = now /\ status = "manifest"
  BY DEF CreateManifest, WriteManifest
<1>2. LogInv' /\ Torn' = Torn
  BY <1>1 DEF BootInv, LogInv, Torn
<1>3. store' = Loading(rdb')
  BY <1>1 DEF BootInv
<1>4. CASE CreateManifest
  <2>1. manifest' = "torn" /\ status' = status /\ manifest # "torn"
    BY <1>4 DEF CreateManifest
  <2> QED
    BY <1>1, <1>2, <1>3, <2>1 DEF BootInv
<1>5. CASE WriteManifest
  <2>1. manifest = "torn" /\ ((manifest' = "whole" /\ status' = "replay") \/ (manifest' = manifest /\ status' = "exited"))
    BY <1>5 DEF WriteManifest
  <2> QED
    BY <1>1, <1>2, <1>3, <2>1 DEF BootInv
<1> QED
  BY <1>4, <1>5

\* A key that expires, and the clock, leave the disk alone.
LEMMA ExpirePreserves ==
  ASSUME NEW k, BootInv, Expire(k)
  PROVE  BootInv'
<1>1. /\ status = "up" /\ k \in DOMAIN store.expiry
      /\ store' = [cache |-> Without(store.cache, k), expiry |-> Without(store.expiry, k)]
      /\ rdb' = rdb /\ manifest' = manifest /\ aof' = aof /\ logged' = logged /\ now' = now /\ status' = status
  BY DEF Expire, disk
<1>2. LogInv' /\ Torn' = Torn
  BY <1>1 DEF BootInv, LogInv, Torn
<1>3. ASSUME Torn = {} PROVE Prolonged(store', logged', rdb', now')
  <2>1. Prolonged(store, logged, rdb, now)
    BY <1>1, <1>3 DEF BootInv
  <2>2. Prolonged(store', logged, rdb, now)
    BY <1>1, <2>1, ProlongedAfterExpiry
  <2> QED
    BY <1>1, <2>2
<1> QED
  BY <1>1, <1>2, <1>3 DEF BootInv

LEMMA TickPreserves == BootInv /\ Tick => BootInv'
<1> SUFFICES ASSUME BootInv, Tick PROVE BootInv'
  OBVIOUS
<1>1. /\ now' \in Int /\ now' >= now /\ now \in Int
      /\ rdb' = rdb /\ manifest' = manifest /\ aof' = aof /\ logged' = logged /\ store' = store /\ status' = status
  BY TimesAssumption DEF Tick, disk, BootInv
<1>2. LogInv' /\ Torn' = Torn
  BY <1>1 DEF BootInv, LogInv, Torn
<1>3. ASSUME status = "up", Torn = {} PROVE Prolonged(store', logged', rdb', now')
  <2>1. Prolonged(store, logged, rdb, now) /\ logged \in Seq(Writes) /\ rdb \in RdbFiles
    BY <1>3 DEF BootInv, LogInv
  <2>2. NoTear(logged)
    BY <1>3, TornIs
  <2>3. Prolonged(store, logged, rdb, now')
    BY <1>1, <2>1, <2>2, ProlongedLater
  <2> QED
    BY <1>1, <2>3
<1> QED
  BY <1>1, <1>2, <1>3 DEF BootInv

\* A crash takes the memory and leaves the disk.
LEMMA OthersPreserve == BootInv /\ (Crash \/ UNCHANGED bootVars) => BootInv'
<1> SUFFICES ASSUME BootInv, Crash \/ UNCHANGED bootVars PROVE BootInv'
  OBVIOUS
<1>1. rdb' = rdb /\ manifest' = manifest /\ aof' = aof /\ logged' = logged /\ now' = now
      /\ (status' = "down" \/ (status' = status /\ store' = store))
  BY DEF Crash, bootVars, disk
<1>2. LogInv' /\ Torn' = Torn
  BY <1>1 DEF BootInv, LogInv, Torn
<1>3. CASE status' = "down"
  BY <1>1, <1>2, <1>3 DEF BootInv
<1>4. CASE status' = status /\ store' = store
  BY <1>1, <1>2, <1>4 DEF BootInv
<1> QED
  BY <1>1, <1>3, <1>4

\* BootInv is inductive.
LEMMA BootInvNext == BootInv /\ [BootNext]_bootVars => BootInv'
BY SetPreserves, ReplayPreserves, BootPreserves, ManifestPreserves, ExpirePreserves, TickPreserves, OthersPreserve
   DEF BootNext

\* The inductive invariant of a start: the log consists of the bytes of the writes, in their order,
\* each as far as it came (appendRESPCommandToAOF), what is loaded is what the RDB file holds
\* (loadRDBFile), and what main and replayAOFCommands would make of the disk now prolongs what
\* a running server has.
THEOREM BootInvariant == BootSpec => []BootInv
BY BootInvInit, BootInvNext, PTL DEF BootSpec

\* Whatever was logged is read back by replayAOFCommands, command by command, up to a write that
\* a crash tore; the error of the replay says whether it was torn inside of a string; and the commands
\* read back are encoded as the bytes they were read from.
THEOREM LogIsReadBackAlways == BootSpec => []LogReadsBack
<1>1. BootInv => LogReadsBack
  BY LogIsReadBack DEF BootInv
<1> QED
  BY <1>1, BootInvariant, PTL

\* A server that is started again has every key it had, with its value, and a key with a time to live
\* expires no sooner: SetWithTTL makes an instant of the time that goes by from the replay on. What it
\* has besides are keys that had expired, which expire again. Keys are exempt while their last append
\* (appendRESPCommandToAOF) failed or had an int in an argument, and all are once a command is torn.
THEOREM RestartProlongs == BootSpec => []RestartOnlyProlongs
<1>1. BootInv => RestartOnlyProlongs
  <2> SUFFICES ASSUME BootInv PROVE RestartOnlyProlongs
    OBVIOUS
  <2>1. aof = Concat(Pieces(logged)) /\ (status = "up" /\ Torn = {} => Prolonged(store, logged, rdb, now))
    BY DEF BootInv, LogInv
  <2> QED
    BY <2>1, RestartIs
<1> QED
  BY <1>1, BootInvariant, PTL

\* A start stops at the log only if a write was torn inside of a string (replayAOFCommands
\* returns any error but io.EOF, and main exits).
THEOREM OnlyTearsStopIt == BootSpec => []OnlyATearStopsIt
<1>1. BootInv => OnlyATearStopsIt
  BY DEF BootInv, OnlyATearStopsIt
<1> QED
  BY <1>1, BootInvariant, PTL

\* A start loads what the RDB file holds, and nothing from one that broke off anywhere but between
\* two sections: every text and every integer as it was saved, later keys over earlier ones, and nothing
\* at all when the file has a compressed string (loadRDBFile, ParseSections, readString, readLength).
THEOREM RdbIsAlwaysLoaded == BootSpec => []RdbIsLoaded
<1>1. BootInv => RdbIsLoaded
  <2> SUFFICES ASSUME BootInv, status \in {"manifest", "replay"} PROVE store = NewStore(Worth(rdb.sections, rdb.n))
    BY DEF RdbIsLoaded
  <2>1. rdb \in RdbFiles /\ store = Loading(rdb)
    BY DEF BootInv
  <2> QED
    BY <2>1, LoadingTimed
<1> QED
  BY <1>1, BootInvariant, PTL

-------------------------------------------------------------------------------
(* The sessions of clients.                                                *)

USE CommandsAssumption, PublishesAssumption, NoneAssumption

\* The commands with sections of their own.
Own == {"AUTH", "SETUSER", "SUBSCRIBE", "UNSUBSCRIBE", "PUBLISH"}

-------------------------------------------------------------------------------
(* Types.                                                                  *)

LEMMA HeadTail ==
  ASSUME NEW S, NEW s \in Seq(S), s # <<>>
  PROVE  Head(s) \in S /\ Tail(s) \in Seq(S) /\ (Len(s) # 1 => Tail(s) # <<>>)
<1>1. Head(s) \in S /\ Tail(s) \in Seq(S) /\ Len(Tail(s)) = Len(s) - 1
  BY HeadTailProperties
<1>2. Len(s) \in Nat \ {0} /\ (Tail(s) = <<>> => Len(Tail(s)) = 0)
  BY <1>1, EmptySeq
<1> QED
  BY <1>1, <1>2

LEMMA AppendType ==
  ASSUME NEW S, NEW s \in Seq(S), NEW e \in S
  PROVE  Append(s, e) \in Seq(S)
BY AppendProperties

LEMMA EmptyType == ASSUME NEW S PROVE <<>> \in Seq(S)
OBVIOUS

LEMMA CommandType ==
  ASSUME NEW cmd \in Commands
  PROVE  /\ cmd.op \in Ops /\ cmd.chs \in Seq(Channels) /\ cmd.pass \in Passwords /\ cmd # None
         /\ cmd.op \in {"SUBSCRIBE", "UNSUBSCRIBE", "PUBLISH"} => cmd.chs # <<>>
<1>1. cmd \in [op : Ops, chs : Seq(Channels), pass : Passwords]
  OBVIOUS
<1> QED
  BY <1>1

\* A command that is in a handler's hands.
LEMMA RunType ==
  ASSUME TypeOK, NEW c \in Conns, pc[c] \notin {"new", "idle", "exec"} \union Ending
  PROVE  /\ run[c] \in Commands /\ run[c].op \in Ops /\ run[c].chs \in Seq(Channels)
         /\ run[c].pass \in Passwords
         /\ run[c].op \in {"SUBSCRIBE", "UNSUBSCRIBE", "PUBLISH"} => run[c].chs # <<>>
<1>1. run[c] \in Commands
  BY DEF TypeOK
<1> QED
  BY <1>1, CommandType

LEMMA InitType == Init => TypeOK
BY EmptyType DEF Init, TypeOK, PCs, Ending

\* What the end of a command does to the handler.
LEMMA ReturnType ==
  ASSUME TypeOK, NEW c \in Conns, NEW rest \in Seq(Commands), Return(c, rest)
  PROVE  /\ pc' \in [Conns -> PCs] /\ run' \in [Conns -> Commands \union {None}]
         /\ need' \in [Conns -> BOOLEAN] /\ chs' \in [Conns -> Seq(Channels)]
         /\ todo' \in [Conns -> Seq(Commands)]
         /\ \A d \in Conns \ {c} : /\ pc'[d] = pc[d] /\ run'[d] = run[d] /\ need'[d] = need[d]
                                   /\ chs'[d] = chs[d] /\ todo'[d] = todo[d]
         /\ run'[c] = None /\ need'[c] = FALSE /\ chs'[c] = <<>> /\ todo'[c] = rest
         /\ pc'[c] = IF rest = <<>> THEN "idle" ELSE "exec"
BY EmptyType DEF TypeOK, Return, Goto, PCs

\* TypeOK in parts: the Store, the handlers, and the conditions on one connection.
StoreType ==
  /\ passwords \in SUBSET Passwords /\ auth \in SUBSET Conns
  /\ pubsub \in [Channels -> SUBSET Conns] /\ subs \in [Conns -> SUBSET Channels]
  /\ inTx \in SUBSET Conns /\ queue \in [Conns -> Seq(Commands)]
  /\ sending \in SUBSET (Conns \X Nat) /\ count \in Nat /\ inbox \in SUBSET (Conns \X Nat)
  /\ late \in SUBSET Conns /\ proved \in SUBSET Conns

HandlerType ==
  /\ pc \in [Conns -> PCs] /\ run \in [Conns -> Commands \union {None}]
  /\ need \in [Conns -> BOOLEAN] /\ chs \in [Conns -> Seq(Channels)]
  /\ todo \in [Conns -> Seq(Commands)]

ConnType(c) ==
  /\ run[c] # None <=> pc[c] \notin {"new", "idle", "exec"} \union Ending
  /\ pc[c] \in {"SUBSCRIBE", "UNSUBSCRIBE", "PUBLISH"} => chs[c] # <<>> /\ pc[c] = run[c].op
  /\ todo[c] # <<>> => pc[c] \notin {"new", "idle"} \union Ending
  /\ pc[c] = "exec" => todo[c] # <<>>
  /\ queue[c] # <<>> => c \in inTx

LEMMA TypeParts == TypeOK <=> StoreType /\ HandlerType /\ \A c \in Conns : ConnType(c)
BY DEF TypeOK, StoreType, HandlerType, ConnType

LEMMA TypePartsPrime == TypeOK' <=> StoreType' /\ HandlerType' /\ \A c \in Conns : ConnType(c)'
BY DEF TypeOK, StoreType, HandlerType, ConnType

\* A step of c that leaves the entries of the others alone keeps their conditions.
LEMMA OthersFit ==
  ASSUME TypeOK, NEW c \in Conns,
         \A d \in Conns \ {c} : /\ pc'[d] = pc[d] /\ run'[d] = run[d] /\ chs'[d] = chs[d]
                                /\ todo'[d] = todo[d] /\ queue'[d] = queue[d]
                                /\ (d \in inTx' <=> d \in inTx)
  PROVE  \A d \in Conns \ {c} : ConnType(d)'
BY TypeParts DEF ConnType

\* The end of a command.
LEMMA AfterReturn ==
  ASSUME TypeOK, NEW c \in Conns, NEW rest \in Seq(Commands), Return(c, rest), StoreType',
         \A d \in Conns \ {c} : queue'[d] = queue[d] /\ (d \in inTx' <=> d \in inTx),
         queue'[c] # <<>> => c \in inTx'
  PROVE  TypeOK'
<1>1. HandlerType'
  BY ReturnType DEF HandlerType
<1>2. \A d \in Conns \ {c} : ConnType(d)'
  <2>1. \A d \in Conns \ {c} : /\ pc'[d] = pc[d] /\ run'[d] = run[d] /\ chs'[d] = chs[d]
                                /\ todo'[d] = todo[d] /\ queue'[d] = queue[d]
                                /\ (d \in inTx' <=> d \in inTx)
    BY ReturnType
  <2> QED
    BY <2>1, OthersFit
<1>3. ConnType(c)'
  BY ReturnType DEF ConnType, Ending
<1> QED
  BY <1>1, <1>2, <1>3, TypePartsPrime

LEMMA TypeStep == TypeOK /\ [Next]_vars => TypeOK'
<1> SUFFICES ASSUME TypeOK, [Next]_vars PROVE TypeOK'
  OBVIOUS
<1> USE EmptyType
<1>1. CASE UNCHANGED vars
  BY <1>1 DEF vars, maps, tx, handler, news, ghost, TypeOK
<1>2. ASSUME NEW c \in Conns, Accept(c) PROVE TypeOK'
  BY <1>2 DEF Accept, TypeOK, Goto, PCs, Ending, maps, tx, news
<1>3. ASSUME NEW c \in Conns, Receive(c) PROVE TypeOK'
  <2>1. PICK cmd \in Commands : pc[c] = "idle" /\ Begin(c, cmd) /\ UNCHANGED todo
    BY <1>3 DEF Receive
  <2>2. cmd # None
    OBVIOUS
  <2>3. AuthRequired \in BOOLEAN
    BY DEF AuthRequired
  <2> QED
    BY <2>1, <2>2, <2>3 DEF Begin, TypeOK, Goto, PCs, Ending, maps, tx, news, ghost
<1>4. ASSUME NEW c \in Conns, RunQueued(c) PROVE TypeOK'
  <2>1. todo[c] \in Seq(Commands) /\ todo[c] # <<>>
    BY <1>4 DEF RunQueued, TypeOK
  <2>2. Head(todo[c]) \in Commands /\ Tail(todo[c]) \in Seq(Commands) /\ Head(todo[c]) # None
    BY <2>1, HeadTail
  <2>3. AuthRequired \in BOOLEAN
    BY DEF AuthRequired
  <2> QED
    BY <1>4, <2>2, <2>3 DEF RunQueued, Begin, TypeOK, Goto, PCs, Ending, maps, tx, news, ghost
<1>5. ASSUME NEW c \in Conns, Dispatch(c) PROVE TypeOK'
  <2>1. /\ pc[c] = "dispatch" /\ auth' \in SUBSET Conns
        /\ passwords' = passwords /\ pubsub' = pubsub /\ subs' = subs
        /\ sending' = sending /\ count' = count /\ inbox' = inbox /\ late' = late /\ proved' = proved
    BY <1>5 DEF Dispatch, TypeOK, maps, news, ghost
  <2>2. /\ run[c] \in Commands /\ run[c].op \in Ops /\ run[c].chs \in Seq(Channels)
        /\ run[c].op \in {"SUBSCRIBE", "UNSUBSCRIBE", "PUBLISH"} => run[c].chs # <<>>
    BY <2>1, RunType DEF Ending
  <2>3. /\ todo[c] \in Seq(Commands) /\ queue[c] \in Seq(Commands)
        /\ queue[c] # <<>> => c \in inTx
    BY DEF TypeOK
  <2>4. CASE Refuse(c)
    <3>1. StoreType'
      BY <2>1, <2>4 DEF Refuse, TypeOK, tx, StoreType
    <3> QED
      BY <2>3, <2>4, <3>1, AfterReturn DEF Refuse, tx
  <2>5. CASE QueueCommand(c)
    <3>1. queue' \in [Conns -> Seq(Commands)] /\ c \in inTx /\ inTx' = inTx
      BY <2>2, <2>3, <2>5, AppendType DEF QueueCommand, Queued, TypeOK
    <3>2. StoreType'
      BY <2>1, <3>1 DEF TypeOK, StoreType
    <3>3. \A d \in Conns \ {c} : queue'[d] = queue[d]
      BY <2>5 DEF QueueCommand, TypeOK
    <3> QED
      BY <2>3, <2>5, <3>1, <3>2, <3>3, AfterReturn DEF QueueCommand
  <2>6. CASE Multi(c)
    <3>1. StoreType' /\ queue' = queue /\ inTx' = inTx \union {c}
      BY <2>1, <2>6 DEF Multi, TypeOK, StoreType
    <3> QED
      BY <2>3, <2>6, <3>1, AfterReturn DEF Multi
  <2>7. CASE EndTx(c)
    <3>1. StoreType' /\ queue'[c] = <<>> /\ \A d \in Conns \ {c} : queue'[d] = queue[d]
      BY <2>1, <2>7 DEF EndTx, TypeOK, StoreType
    <3>2. inTx' = inTx \ {c}
      BY <2>7 DEF EndTx
    <3>3. PICK rest \in {queue[c], todo[c]} : Return(c, rest)
      BY <2>7 DEF EndTx
    <3> QED
      BY <2>3, <3>1, <3>2, <3>3, AfterReturn
  <2>8. CASE Handle(c)
    <3>0. StoreType' /\ queue' = queue /\ inTx' = inTx
      BY <2>1, <2>8 DEF Handle, tx, TypeOK, StoreType
    <3>1. CASE run[c].op = "OTHER"
      BY <2>3, <2>8, <3>0, <3>1, AfterReturn DEF Handle
    <3>2. CASE run[c].op # "OTHER"
      <4>1. /\ pc' = [pc EXCEPT ![c] = run[c].op] /\ chs' = [chs EXCEPT ![c] = run[c].chs]
            /\ run' = run /\ need' = need /\ todo' = todo /\ run[c].op \in Own
        BY <2>8, <3>2 DEF Handle, Goto, Own
      <4>2. HandlerType'
        BY <2>2, <4>1 DEF HandlerType, TypeOK, PCs, Own
      <4>3. \A d \in Conns \ {c} : ConnType(d)'
        BY <3>0, <4>1, OthersFit DEF TypeOK
      <4>4. ConnType(c)'
        BY <2>1, <2>2, <2>3, <3>0, <4>1 DEF ConnType, TypeOK, Own, Ending
      <4> QED
        BY <3>0, <4>2, <4>3, <4>4, TypePartsPrime
    <3> QED
      BY <3>1, <3>2
  <2> QED
    BY <1>5, <2>4, <2>5, <2>6, <2>7, <2>8 DEF Dispatch
<1>6. ASSUME NEW c \in Conns, Auth(c) PROVE TypeOK'
  <2>1. todo[c] \in Seq(Commands) /\ (queue[c] # <<>> => c \in inTx) /\ StoreType'
    BY <1>6 DEF TypeOK, Auth, StoreType, maps, tx, news
  <2> QED
    BY <1>6, <2>1, AfterReturn DEF Auth, tx
<1>7. ASSUME NEW c \in Conns, SetUser(c) PROVE TypeOK'
  <2>1. todo[c] \in Seq(Commands) /\ run[c].pass \in Passwords /\ (queue[c] # <<>> => c \in inTx)
    BY <1>7, RunType DEF TypeOK, SetUser, Ending
  <2>2. StoreType'
    BY <1>7, <2>1 DEF TypeOK, SetUser, StoreType, maps, tx, news, ghost
  <2> QED
    BY <1>7, <2>1, <2>2, AfterReturn DEF SetUser, tx
<1>8. ASSUME NEW c \in Conns, Subscribe(c) \/ Unsubscribe(c) PROVE TypeOK'
  <2>1. /\ todo[c] \in Seq(Commands) /\ chs[c] \in Seq(Channels) /\ chs[c] # <<>>
        /\ pc[c] \in {"SUBSCRIBE", "UNSUBSCRIBE"} /\ pc[c] = run[c].op
        /\ queue[c] # <<>> => c \in inTx
    BY <1>8 DEF TypeOK, Subscribe, Unsubscribe
  <2>2. Head(chs[c]) \in Channels /\ Tail(chs[c]) \in Seq(Channels) /\ (Len(chs[c]) # 1 => Tail(chs[c]) # <<>>)
    BY <2>1, HeadTail
  <2>6. /\ passwords' = passwords /\ auth' = auth /\ queue' = queue /\ inTx' = inTx
        /\ sending' = sending /\ count' = count /\ inbox' = inbox /\ late' = late /\ proved' = proved
        /\ NextChannel(c)
    BY <1>8 DEF Subscribe, Unsubscribe, tx, news, ghost
  <2>7. pubsub' \in [Channels -> SUBSET Conns] /\ subs' \in [Conns -> SUBSET Channels]
    <3>1. CASE Subscribe(c)
      BY <2>2, <3>1 DEF Subscribe, TypeOK
    <3>2. CASE Unsubscribe(c)
      BY <2>2, <3>2 DEF Unsubscribe, TypeOK
    <3> QED
      BY <1>8, <3>1, <3>2
  <2>3. /\ StoreType' /\ NextChannel(c) /\ queue' = queue /\ inTx' = inTx
    BY <2>6, <2>7 DEF StoreType, TypeOK
  <2>4. CASE Len(chs[c]) = 1
    BY <2>1, <2>3, <2>4, AfterReturn DEF NextChannel
  <2>5. CASE Len(chs[c]) # 1
    <3>1. chs' = [chs EXCEPT ![c] = Tail(@)] /\ pc' = pc /\ run' = run /\ need' = need /\ todo' = todo
      BY <2>3, <2>5 DEF NextChannel
    <3>2. HandlerType'
      BY <2>2, <3>1 DEF HandlerType, TypeOK
    <3>3. \A d \in Conns \ {c} : ConnType(d)'
      BY <2>3, <3>1, OthersFit DEF TypeOK
    <3>4. ConnType(c)'
      BY <2>2, <2>3, <2>5, <3>1 DEF ConnType, TypeOK
    <3> QED
      BY <2>3, <3>2, <3>3, <3>4, TypePartsPrime
  <2> QED
    BY <2>4, <2>5
<1>9. ASSUME NEW c \in Conns, Publish(c) PROVE TypeOK'
  <2>1. /\ todo[c] \in Seq(Commands) /\ chs[c] \in Seq(Channels) /\ chs[c] # <<>>
        /\ queue[c] # <<>> => c \in inTx
    BY <1>9 DEF TypeOK, Publish
  <2>2. Head(chs[c]) \in Channels
    BY <2>1, HeadTail
  <2>3. count' \in Nat /\ sending' \in SUBSET (Conns \X Nat)
    BY <1>9, <2>2 DEF Publish, TypeOK
  <2>4. StoreType'
    BY <1>9, <2>3 DEF Publish, TypeOK, StoreType, maps, tx, ghost
  <2> QED
    BY <1>9, <2>1, <2>4, AfterReturn DEF Publish, tx
<1>10. ASSUME NEW c \in Conns, Send(c) PROVE TypeOK'
  BY <1>10 DEF Send, TypeOK, maps, tx, handler, ghost
<1>11. ASSUME NEW c \in Conns, Hangup(c) PROVE TypeOK'
  BY <1>11 DEF Hangup, TypeOK, Goto, PCs, Ending, maps, news, ghost
<1>12. ASSUME NEW c \in Conns, RemoveSubscriber(c) PROVE TypeOK'
  BY <1>12 DEF RemoveSubscriber, TypeOK, Goto, PCs, Ending, tx, news, ghost
<1>13. ASSUME NEW c \in Conns, Close(c) PROVE TypeOK'
  BY <1>13 DEF Close, TypeOK, Goto, PCs, Ending, maps, tx, news, ghost
<1> QED
  BY <1>1, <1>2, <1>3, <1>4, <1>5, <1>6, <1>7, <1>8, <1>9, <1>10, <1>11, <1>12, <1>13 DEF Next, Handler

\* The variables of Sessions keep their types: a handler has a command exactly while it runs one,
\* a loop over channels never meets the end of its list, and nothing queued outlives a transaction.
THEOREM TypeCorrect == Spec => []TypeOK
<1>1. Init => TypeOK
  BY InitType
<1>2. TypeOK /\ [Next]_vars => TypeOK'
  BY TypeStep
<1> QED
  BY <1>1, <1>2, PTL DEF Spec

-------------------------------------------------------------------------------
(* Modes and passwords.  What is true of one connection after every step:   *)
(* who is in a transaction, subscribed, running what was queued, or in a    *)
(* handler other than AUTH is authenticated; the two modes exclude each     *)
(* other; and whom a password is required of has it required at every look. *)

ConnOk(c) ==
  /\ c \in inTx => subs[c] = {} /\ c \in auth
  /\ pc[c] \in Own => c \notin inTx
  /\ todo[c] # <<>> => c \in auth
  /\ subs[c] # {} /\ pc[c] \notin Ending => c \in auth
  /\ pc[c] \in Own \ {"AUTH"} => c \in auth
  /\ pc[c] = "new" => subs[c] = {} /\ c \notin auth
  /\ pc[c] = "dispatch" /\ c \in late => need[c]
  /\ c \in late /\ c \in auth => c \in proved
  /\ c \in late => AuthRequired

Inv == TypeOK /\ \A c \in Conns : ConnOk(c)

LEMMA InitOk == Init => \A c \in Conns : ConnOk(c)
BY DEF Init, ConnOk, Own

\* A step of c concerns c alone: a password, once required, stays so.
LEMMA OthersOk ==
  ASSUME Inv, NEW c \in Conns, passwords \subseteq passwords',
         \A d \in Conns \ {c} : /\ pc'[d] = pc[d] /\ need'[d] = need[d] /\ todo'[d] = todo[d]
                                /\ subs'[d] = subs[d]
                                /\ (d \in inTx' <=> d \in inTx) /\ (d \in auth' <=> d \in auth)
                                /\ (d \in late' <=> d \in late) /\ (d \in proved' <=> d \in proved),
         ConnOk(c)'
  PROVE  \A d \in Conns : ConnOk(d)'
<1> SUFFICES ASSUME NEW d \in Conns \ {c} PROVE ConnOk(d)'
  OBVIOUS
<1>1. AuthRequired => AuthRequired'
  BY DEF AuthRequired
<1> QED
  BY <1>1 DEF Inv, ConnOk

\* The end of a command that changes nothing but, for the better, whether c is authenticated.
LEMMA ReturnOk ==
  ASSUME Inv, NEW c \in Conns, NEW rest \in Seq(Commands), Return(c, rest),
         passwords \subseteq passwords', subs' = subs, late' = late,
         pc[c] \notin Ending \union {"new"},
         \A d \in Conns \ {c} : /\ (d \in inTx' <=> d \in inTx) /\ (d \in auth' <=> d \in auth)
                                /\ (d \in proved' <=> d \in proved),
         c \in auth => c \in auth',
         c \in late /\ c \in auth' => c \in proved',
         c \in inTx' => subs[c] = {} /\ c \in auth',
         rest # <<>> => c \in auth'
  PROVE  \A d \in Conns : ConnOk(d)'
<1>1. pc'[c] \in {"idle", "exec"} /\ todo'[c] = rest
  BY ReturnType DEF Inv
<1>2. AuthRequired => AuthRequired'
  BY DEF AuthRequired
<1>3. ConnOk(c)'
  BY <1>1, <1>2 DEF Inv, ConnOk, Own, Ending
<1>4. \A d \in Conns \ {c} : pc'[d] = pc[d] /\ need'[d] = need[d] /\ todo'[d] = todo[d]
  BY ReturnType DEF Inv
<1> QED
  BY <1>3, <1>4, OthersOk

LEMMA OkStep == Inv /\ [Next]_vars => \A c \in Conns : ConnOk(c)'
<1> SUFFICES ASSUME Inv, [Next]_vars PROVE \A c \in Conns : ConnOk(c)'
  OBVIOUS
<1>0. TypeOK /\ \A c \in Conns : ConnOk(c)
  BY DEF Inv
<1>1. CASE UNCHANGED vars
  BY <1>0, <1>1 DEF vars, maps, tx, handler, news, ghost, ConnOk, AuthRequired
<1>2. ASSUME NEW c \in Conns, Accept(c) PROVE \A d \in Conns : ConnOk(d)'
  <2>1. /\ pc[c] = "new" /\ pc' = [pc EXCEPT ![c] = "idle"]
        /\ late' = IF AuthRequired THEN late \union {c} ELSE late
        /\ passwords' = passwords /\ auth' = auth /\ subs' = subs /\ inTx' = inTx
        /\ need' = need /\ todo' = todo /\ proved' = proved
    BY <1>2 DEF Accept, Goto, maps, tx
  <2>2. pc'[c] = "idle" /\ \A d \in Conns \ {c} : pc'[d] = pc[d] /\ (d \in late' <=> d \in late)
    BY <1>0, <2>1 DEF TypeOK
  <2>3. ConnOk(c)'
    BY <1>0, <2>1, <2>2 DEF ConnOk, Own, AuthRequired
  <2> QED
    BY <2>1, <2>2, <2>3, OthersOk
<1>3. ASSUME NEW c \in Conns, NEW cmd, Begin(c, cmd), pc[c] \in {"idle", "exec"},
             \A d \in Conns \ {c} : todo'[d] = todo[d],
             todo'[c] # <<>> => todo[c] # <<>>
      PROVE  \A d \in Conns : ConnOk(d)'
  <2>1. /\ pc' = [pc EXCEPT ![c] = "dispatch"] /\ need' = [need EXCEPT ![c] = AuthRequired]
        /\ passwords' = passwords /\ auth' = auth /\ subs' = subs /\ inTx' = inTx
        /\ late' = late /\ proved' = proved
    BY <1>3 DEF Begin, Goto, maps, tx, ghost
  <2>2. /\ pc'[c] = "dispatch" /\ need'[c] = AuthRequired
        /\ \A d \in Conns \ {c} : pc'[d] = pc[d] /\ need'[d] = need[d]
    BY <1>0, <2>1 DEF TypeOK
  <2>3. ConnOk(c)'
    BY <1>0, <1>3, <2>1, <2>2 DEF ConnOk, Own, Ending, AuthRequired
  <2> QED
    BY <1>3, <2>1, <2>2, <2>3, OthersOk
<1>4. ASSUME NEW c \in Conns, Receive(c) PROVE \A d \in Conns : ConnOk(d)'
  <2>1. PICK cmd \in Commands : pc[c] = "idle" /\ Begin(c, cmd) /\ UNCHANGED todo
    BY <1>4 DEF Receive
  <2> QED
    BY <2>1, <1>3
<1>5. ASSUME NEW c \in Conns, RunQueued(c) PROVE \A d \in Conns : ConnOk(d)'
  <2>1. todo[c] # <<>> /\ pc[c] = "exec" /\ \A d \in Conns \ {c} : todo'[d] = todo[d]
    BY <1>0, <1>5 DEF RunQueued, TypeOK
  <2> QED
    BY <1>3, <1>5, <2>1 DEF RunQueued
<1>6. ASSUME NEW c \in Conns, Dispatch(c) PROVE \A d \in Conns : ConnOk(d)'
  <2>1. /\ pc[c] = "dispatch" /\ auth' = IF need[c] THEN auth ELSE auth \union {c}
        /\ passwords' = passwords /\ subs' = subs /\ late' = late /\ proved' = proved
    BY <1>6 DEF Dispatch, maps, ghost
  <2>2. todo[c] \in Seq(Commands) /\ queue[c] \in Seq(Commands)
    BY <1>0 DEF TypeOK
  <2>3. /\ c \in auth => c \in auth'
        /\ \A d \in Conns \ {c} : (d \in auth' <=> d \in auth) /\ (d \in proved' <=> d \in proved)
    BY <2>1
  <2>4. c \in late /\ c \in auth' => c \in proved'
    BY <1>0, <2>1 DEF ConnOk
  <2>5. pc[c] \notin Ending \union {"new"}
    BY <2>1 DEF Ending
  <2>6. CASE Refuse(c) \/ QueueCommand(c)
    <3>1. Return(c, todo[c]) /\ inTx' = inTx
      BY <2>6 DEF Refuse, QueueCommand, tx
    <3> QED
      BY <1>0, <2>1, <2>2, <2>3, <2>4, <2>5, <3>1, ReturnOk DEF ConnOk
  <2>7. CASE ~Refused(c, run[c].op) /\ ~Queued(c, run[c].op)
    <3>1. run[c].op # "AUTH" => c \in auth'
      BY <2>1, <2>7 DEF Refused
    <3>2. CASE Multi(c)
      <4>1. Return(c, todo[c]) /\ inTx' = inTx \union {c} /\ run[c].op = "MULTI"
        BY <3>2 DEF Multi
      <4>2. subs[c] = {} /\ c \in auth'
        BY <2>7, <3>1, <4>1 DEF Refused
      <4> QED
        BY <1>0, <2>1, <2>2, <2>3, <2>4, <2>5, <4>1, <4>2, ReturnOk DEF ConnOk
    <3>3. CASE EndTx(c)
      <4>1. inTx' = inTx \ {c} /\ c \in auth'
        BY <3>1, <3>3 DEF EndTx
      <4>2. PICK rest \in {queue[c], todo[c]} : Return(c, rest)
        BY <3>3 DEF EndTx
      <4> QED
        BY <1>0, <2>1, <2>2, <2>3, <2>4, <2>5, <4>1, <4>2, ReturnOk DEF ConnOk
    <3>4. CASE Handle(c)
      <4>1. inTx' = inTx
        BY <3>4 DEF Handle, tx
      <4>2. CASE run[c].op = "OTHER"
        <5>1. Return(c, todo[c])
          BY <3>4, <4>2 DEF Handle
        <5> QED
          BY <1>0, <2>1, <2>2, <2>3, <2>4, <2>5, <4>1, <5>1, ReturnOk DEF ConnOk
      <4>3. CASE run[c].op # "OTHER"
        <5>1. /\ run[c].op \in Own /\ pc' = [pc EXCEPT ![c] = run[c].op]
              /\ need' = need /\ todo' = todo
          BY <3>4, <4>3 DEF Handle, Goto, Own
        <5>2. pc'[c] = run[c].op /\ \A d \in Conns \ {c} : pc'[d] = pc[d]
          BY <1>0, <5>1 DEF TypeOK
        <5>3. c \notin inTx
          BY <2>7, <5>1 DEF Queued, Own
        <5>4. ConnOk(c)'
          BY <1>0, <2>1, <2>3, <2>4, <2>5, <3>1, <4>1, <5>1, <5>2, <5>3 DEF ConnOk, Own, AuthRequired
        <5> QED
          BY <2>1, <2>3, <4>1, <5>1, <5>2, <5>4, OthersOk
      <4> QED
        BY <4>2, <4>3
    <3> QED
      BY <1>6, <2>7, <3>2, <3>3, <3>4 DEF Dispatch, Refuse, QueueCommand
  <2> QED
    BY <1>6, <2>6, <2>7 DEF Dispatch
<1>7. ASSUME NEW c \in Conns, Auth(c) \/ SetUser(c) \/ Publish(c) PROVE \A d \in Conns : ConnOk(d)'
  <2>1. /\ pc[c] \in Own /\ Return(c, todo[c]) /\ todo[c] \in Seq(Commands)
        /\ passwords \subseteq passwords' /\ subs' = subs /\ late' = late /\ inTx' = inTx
    BY <1>0, <1>7 DEF Auth, SetUser, Publish, maps, tx, ghost, Own, TypeOK
  <2>2. \/ auth' = auth /\ proved' = proved
        \/ auth' = auth \union {c} /\ proved' = proved \union {c}
    BY <1>7 DEF Auth, SetUser, Publish, ghost
  <2>3. pc[c] \notin Ending \union {"new"}
    BY <2>1 DEF Own, Ending
  <2> QED
    BY <1>0, <2>1, <2>2, <2>3, ReturnOk DEF ConnOk
<1>8. ASSUME NEW c \in Conns, Subscribe(c) \/ Unsubscribe(c) PROVE \A d \in Conns : ConnOk(d)'
  <2>1. /\ pc[c] \in {"SUBSCRIBE", "UNSUBSCRIBE"} /\ NextChannel(c)
        /\ passwords' = passwords /\ auth' = auth /\ inTx' = inTx
        /\ late' = late /\ proved' = proved
    BY <1>8 DEF Subscribe, Unsubscribe, tx, ghost
  <2>2. \A d \in Conns \ {c} : subs'[d] = subs[d]
    BY <1>0, <1>8 DEF Subscribe, Unsubscribe, TypeOK
  <2>3. c \in auth /\ c \notin inTx
    BY <1>0, <2>1 DEF ConnOk, Own
  <2>4. /\ pc'[c] \in {"SUBSCRIBE", "UNSUBSCRIBE", "idle", "exec"}
        /\ \A d \in Conns \ {c} : pc'[d] = pc[d] /\ need'[d] = need[d] /\ todo'[d] = todo[d]
    <3>1. todo[c] \in Seq(Commands)
      BY <1>0 DEF TypeOK
    <3>2. CASE Return(c, todo[c])
      BY <1>0, <3>1, <3>2, ReturnType
    <3>3. CASE UNCHANGED <<pc, run, need, todo>>
      BY <2>1, <3>3
    <3> QED
      BY <2>1, <3>2, <3>3 DEF NextChannel
  <2>5. ConnOk(c)'
    BY <1>0, <2>1, <2>3, <2>4 DEF ConnOk, Own, AuthRequired
  <2> QED
    BY <2>1, <2>2, <2>4, <2>5, OthersOk
<1>9. ASSUME NEW c \in Conns, Send(c) PROVE \A d \in Conns : ConnOk(d)'
  BY <1>0, <1>9 DEF Send, maps, tx, handler, ghost, ConnOk, AuthRequired
<1>10. ASSUME NEW c \in Conns, Hangup(c) \/ RemoveSubscriber(c) \/ Close(c)
       PROVE  \A d \in Conns : ConnOk(d)'
  <2>1. /\ pc[c] \in {"idle", "closing", "removed"} /\ inTx' \in {inTx, inTx \ {c}}
        /\ auth' \in {auth, auth \ {c}} /\ (pc[c] = "idle" => auth' = auth \ {c} /\ inTx' = inTx \ {c})
        /\ passwords' = passwords /\ subs' = subs /\ need' = need /\ todo' = todo
        /\ late' = late /\ proved' = proved
    BY <1>10 DEF Hangup, RemoveSubscriber, Close, maps, tx, ghost
  <2>2. pc'[c] \in Ending /\ \A d \in Conns \ {c} : pc'[d] = pc[d]
    BY <1>0, <1>10 DEF Hangup, RemoveSubscriber, Close, Goto, Ending, TypeOK
  <2>3. pc[c] # "idle" => auth' = auth /\ inTx' = inTx
    BY <1>10 DEF Hangup, RemoveSubscriber, Close, tx
  <2>4. todo[c] = <<>>
    BY <1>0, <2>1 DEF TypeOK, Ending
  <2>5. ConnOk(c)'
    BY <1>0, <2>1, <2>2, <2>3, <2>4 DEF ConnOk, Own, Ending, AuthRequired
  <2> QED
    BY <2>1, <2>2, <2>5, OthersOk
<1> QED
  BY <1>1, <1>2, <1>4, <1>5, <1>6, <1>7, <1>8, <1>9, <1>10 DEF Next, Handler

LEMMA Invariance == Spec => []Inv
<1>1. Init => Inv
  BY InitType, InitOk DEF Inv
<1>2. Inv /\ [Next]_vars => Inv'
  BY TypeStep, OkStep DEF Inv
<1> QED
  BY <1>1, <1>2, PTL DEF Spec

\* A connection in a transaction has no subscription (the two intercepts of handleCommand), with
\* any number of connections and whatever they queue.
THEOREM ModesExclude == Spec => []NeverSubscribedInTx
<1>1. Inv => NeverSubscribedInTx
  BY DEF Inv, ConnOk, NeverSubscribedInTx, TypeOK
<1> QED
  BY <1>1, Invariance, PTL

\* EXEC runs nothing for a client that is not authenticated, and no subscriber is locked out.
THEOREM ExecAuthenticated == Spec => []ExecIsAuthenticated
<1>1. Inv => ExecIsAuthenticated
  BY DEF Inv, ConnOk, ExecIsAuthenticated
<1> QED
  BY <1>1, Invariance, PTL

\* Nobody who came when a password was required is authenticated without having given one, although
\* aclMu is given back before the entry is made.
THEOREM NoEntryWithoutPassword == Spec => []LatecomersGavePassword
<1>1. Inv => LatecomersGavePassword
  BY DEF Inv, ConnOk, LatecomersGavePassword, TypeOK
<1> QED
  BY <1>1, Invariance, PTL

-------------------------------------------------------------------------------
(* Subscribers.  The map that PUBLISH looks at is the other one turned round, *)
(* for the connections whose end has not begun.                              *)

Member(c, ch) == ch \in subs[c] /\ pc[c] \notin {"removed", "closed"}

Agree ==
  /\ \A ch \in Channels : \A c \in Conns : c \in pubsub[ch] <=> Member(c, ch)
  /\ \A p \in sending : pc[p[1]] # "new"

\* The members as the refinement has them.
MemberMap == [ch \in Channels |-> {c \in Conns : ch \in subs[c] /\ pc[c] \notin {"removed", "closed"}}]

Gone == {c \in Conns : pc[c] = "closed"}

LEMMA InitAgree == Init => Agree
BY DEF Init, Agree, Member

\* A command that is not about subscriptions leaves them, and only moves its connection on.
Moves ==
  /\ UNCHANGED <<maps, news>>
  /\ \A c \in Conns : /\ pc'[c] \in {"removed", "closed"} <=> pc[c] \in {"removed", "closed"}
                      /\ pc'[c] = "closed" <=> pc[c] = "closed"
                      /\ pc'[c] = "new" => pc[c] = "new"

LEMMA MovesDispatch == ASSUME TypeOK, NEW c \in Conns, Dispatch(c) PROVE Moves
<1>1. UNCHANGED <<maps, news>> /\ pc[c] = "dispatch"
  BY DEF Dispatch
<1>2. todo[c] \in Seq(Commands) /\ queue[c] \in Seq(Commands)
  BY DEF TypeOK
<1>3. ASSUME NEW rest \in Seq(Commands), Return(c, rest) PROVE Moves
  BY <1>1, <1>3, ReturnType DEF Moves
<1>4. CASE Handle(c) /\ run[c].op # "OTHER"
  <2>1. pc' = [pc EXCEPT ![c] = run[c].op] /\ run[c].op \in Own
    BY <1>4 DEF Handle, Goto, Own
  <2> QED
    BY <1>1, <2>1 DEF Moves, TypeOK, Own
<1> QED
  BY <1>2, <1>3, <1>4 DEF Dispatch, Refuse, QueueCommand, Multi, EndTx, Handle

\* Every step keeps the maps in agreement, and is one of PubSub's or none.
LEMMA AgreeStep == Inv /\ Agree /\ [Next]_vars => Agree' /\ [PS!Next]_PS!vars
<1> SUFFICES ASSUME Inv, Agree, [Next]_vars PROVE Agree' /\ [PS!Next]_PS!vars
  OBVIOUS
<1>0. TypeOK /\ \A c \in Conns : ConnOk(c)
  BY DEF Inv
<1>a. ASSUME Moves PROVE Agree' /\ [PS!Next]_PS!vars
  <2>1. pubsub' = pubsub /\ subs' = subs /\ sending' = sending /\ count' = count /\ inbox' = inbox
    BY <1>a DEF Moves, maps, news
  <2>2. \A p \in sending : p[1] \in Conns
    BY <1>0 DEF TypeOK
  <2>3. Agree'
    BY <1>a, <2>1, <2>2 DEF Moves, Agree, Member
  <2>4. MemberMap' = MemberMap /\ Gone' = Gone
    BY <1>a, <2>1 DEF Moves, MemberMap, Gone
  <2> QED
    BY <2>1, <2>3, <2>4 DEF PS!vars, MemberMap, Gone
<1>1. CASE UNCHANGED vars
  <2>1. Moves
    BY <1>1 DEF vars, handler, Moves
  <2> QED
    BY <2>1, <1>a
<1>2. ASSUME NEW c \in Conns,
             Accept(c) \/ Receive(c) \/ Hangup(c) \/ RunQueued(c) \/ Dispatch(c) \/ Auth(c) \/ SetUser(c)
      PROVE  Moves
  <2>1. CASE Accept(c) \/ Receive(c) \/ Hangup(c) \/ RunQueued(c)
    <3>1. pc[c] \in {"new", "idle", "exec"} /\ UNCHANGED <<maps, news>>
      BY <2>1 DEF Accept, Receive, Hangup, RunQueued, Begin
    <3>2. \E at \in {"idle", "dispatch", "closing"} : pc' = [pc EXCEPT ![c] = at]
      BY <2>1 DEF Accept, Receive, Hangup, RunQueued, Begin, Goto
    <3> QED
      BY <1>0, <3>1, <3>2 DEF Moves, TypeOK
  <2>2. CASE Auth(c) \/ SetUser(c)
    <3>1. pc[c] \in {"AUTH", "SETUSER"} /\ UNCHANGED <<maps, news>> /\ Return(c, todo[c])
      BY <2>2 DEF Auth, SetUser
    <3>2. todo[c] \in Seq(Commands)
      BY <1>0 DEF TypeOK
    <3> QED
      BY <1>0, <3>1, <3>2, ReturnType DEF Moves
  <2> QED
    BY <1>0, <1>2, <2>1, <2>2, MovesDispatch
<1>3. ASSUME NEW c \in Conns, Subscribe(c) \/ Unsubscribe(c) PROVE Agree' /\ [PS!Next]_PS!vars
  <2>1. /\ pc[c] \in {"SUBSCRIBE", "UNSUBSCRIBE"} /\ NextChannel(c)
        /\ sending' = sending /\ count' = count /\ inbox' = inbox
    BY <1>3 DEF Subscribe, Unsubscribe, news
  <2>2. chs[c] \in Seq(Channels) /\ chs[c] # <<>> /\ todo[c] \in Seq(Commands)
    BY <1>0, <2>1 DEF TypeOK
  <2>3. PICK ch \in Channels : ch = Head(chs[c])
    BY <2>2, HeadTail
  <2>4. /\ pc'[c] \notin {"new", "removed", "closed"} /\ \A d \in Conns \ {c} : pc'[d] = pc[d]
    <3>1. CASE Return(c, todo[c])
      BY <1>0, <2>2, <3>1, ReturnType
    <3>2. CASE UNCHANGED <<pc, run, need, todo>>
      BY <2>1, <3>2
    <3> QED
      BY <2>1, <3>1, <3>2 DEF NextChannel
  <2>5. Gone' = Gone
    BY <2>1, <2>4 DEF Gone
  <2>6. \A p \in sending' : pc'[p[1]] # "new"
    BY <1>0, <2>1, <2>4 DEF Agree, TypeOK
  <2>7. CASE Subscribe(c)
    <3>1. pubsub' = [pubsub EXCEPT ![ch] = @ \union {c}] /\ subs' = [subs EXCEPT ![c] = @ \union {ch}]
      BY <2>3, <2>7 DEF Subscribe
    <3>2. \A d \in Conns, e \in Channels : Member(d, e)' <=> Member(d, e) \/ (d = c /\ e = ch)
      BY <1>0, <2>1, <2>4, <3>1 DEF Member, TypeOK
    <3>3. Agree'
      BY <1>0, <2>3, <2>6, <3>1, <3>2 DEF Agree, TypeOK
    <3>4. MemberMap' = [MemberMap EXCEPT ![ch] = @ \union {c}]
      <4>1. \A e \in Channels : {d \in Conns : Member(d, e)}' =
              IF e = ch THEN {d \in Conns : Member(d, e)} \union {c} ELSE {d \in Conns : Member(d, e)}
        BY <3>2
      <4>2. MemberMap = [e \in Channels |-> {d \in Conns : Member(d, e)}]
        BY DEF MemberMap, Member
      <4>3. MemberMap' = [e \in Channels |-> {d \in Conns : Member(d, e)'}]
        BY DEF MemberMap, Member
      <4>4. MemberMap' = [e \in Channels |-> IF e = ch THEN MemberMap[e] \union {c} ELSE MemberMap[e]]
        BY <4>1, <4>2, <4>3
      <4>5. MemberMap \in [Channels -> SUBSET Conns]
        BY <4>2
      <4> QED
        BY <2>3, <4>4, <4>5
    <3>5. PS!Join(c, ch)
      <4>1. c \notin Gone
        BY <2>1 DEF Gone
      <4>2. UNCHANGED <<sending, inbox, count>> /\ Gone' = Gone
        BY <2>1, <2>5
      <4> QED
        BY <4>1, <4>2, <3>4 DEF PS!Join, MemberMap, Gone
    <3> QED
      BY <2>3, <3>3, <3>5 DEF PS!Next
  <2>8. CASE Unsubscribe(c)
    <3>1. pubsub' = [pubsub EXCEPT ![ch] = @ \ {c}] /\ subs' = [subs EXCEPT ![c] = @ \ {ch}]
      BY <2>3, <2>8 DEF Unsubscribe
    <3>2. \A d \in Conns, e \in Channels : Member(d, e)' <=> Member(d, e) /\ ~(d = c /\ e = ch)
      BY <1>0, <2>1, <2>4, <3>1 DEF Member, TypeOK
    <3>3. Agree'
      BY <1>0, <2>3, <2>6, <3>1, <3>2 DEF Agree, TypeOK
    <3>4. MemberMap' = [e \in Channels |-> IF e \in {ch} THEN MemberMap[e] \ {c} ELSE MemberMap[e]]
      <4>1. \A e \in Channels : {d \in Conns : Member(d, e)}' =
              IF e \in {ch} THEN {d \in Conns : Member(d, e)} \ {c} ELSE {d \in Conns : Member(d, e)}
        BY <3>2
      <4>2. MemberMap = [e \in Channels |-> {d \in Conns : Member(d, e)}]
        BY DEF MemberMap, Member
      <4>3. MemberMap' = [e \in Channels |-> {d \in Conns : Member(d, e)'}]
        BY DEF MemberMap, Member
      <4> QED
        BY <2>3, <4>1, <4>2, <4>3
    <3>5. PS!Part(c, {ch})
      BY <2>1, <2>5, <3>4 DEF PS!Part, MemberMap, Gone
    <3> QED
      BY <2>3, <3>3, <3>5 DEF PS!Next
  <2> QED
    BY <1>3, <2>7, <2>8
<1>4. ASSUME NEW c \in Conns, Publish(c) PROVE Agree' /\ [PS!Next]_PS!vars
  <2>1. /\ pc[c] = "PUBLISH" /\ Return(c, todo[c]) /\ pubsub' = pubsub /\ subs' = subs /\ inbox' = inbox
        /\ count' = count + 1 /\ sending' = sending \union (pubsub[Head(chs[c])] \X {count'})
    BY <1>4 DEF Publish, maps
  <2>2. chs[c] \in Seq(Channels) /\ chs[c] # <<>> /\ todo[c] \in Seq(Commands)
    BY <1>0, <2>1 DEF TypeOK
  <2>3. PICK ch \in Channels : ch = Head(chs[c])
    BY <2>2, HeadTail
  <2>4. pc'[c] \notin {"new", "removed", "closed"} /\ \A d \in Conns \ {c} : pc'[d] = pc[d]
    BY <1>0, <2>1, <2>2, ReturnType
  <2>5. MemberMap' = MemberMap /\ Gone' = Gone
    BY <2>1, <2>4 DEF MemberMap, Gone
  <2>6. MemberMap[ch] = pubsub[ch]
    BY <1>0, <2>3 DEF MemberMap, Agree, Member, TypeOK
  <2>7. \A d \in pubsub[ch] : d \in Conns /\ pc[d] # "new"
    BY <1>0, <2>3 DEF Agree, Member, ConnOk, TypeOK
  <2>8. Agree'
    <3>1. \A p \in sending' : pc'[p[1]] # "new"
      BY <1>0, <2>1, <2>3, <2>4, <2>7 DEF Agree, TypeOK
    <3> QED
      BY <2>1, <2>4, <3>1 DEF Agree, Member
  <2>9. PS!Publish(ch)
    BY <2>1, <2>3, <2>5, <2>6 DEF PS!Publish, MemberMap, Gone
  <2> QED
    BY <2>3, <2>8, <2>9 DEF PS!Next
<1>5. ASSUME NEW c \in Conns, Send(c) PROVE Agree' /\ [PS!Next]_PS!vars
  <2>1. PICK p \in sending :
          /\ p[1] = c /\ sending' = sending \ {p}
          /\ inbox' = IF Open(c) THEN inbox \union {p} ELSE inbox
    BY <1>5 DEF Send
  <2>2. pubsub' = pubsub /\ subs' = subs /\ pc' = pc /\ count' = count
    BY <1>5 DEF Send, maps, handler
  <2>3. p = <<c, p[2]>> /\ pc[c] # "new"
    BY <1>0, <2>1 DEF Agree, TypeOK
  <2>4. Agree'
    BY <2>1, <2>2 DEF Agree, Member
  <2>5. MemberMap' = MemberMap /\ Gone' = Gone /\ (Open(c) <=> c \notin Gone)
    BY <2>2, <2>3 DEF MemberMap, Gone, Open
  <2>6. PS!Arrive(c, p[2])
    BY <2>1, <2>2, <2>3, <2>5 DEF PS!Arrive, MemberMap, Gone
  <2> QED
    BY <2>1, <2>4, <2>6 DEF PS!Next, PS!ArriveAny
<1>6. ASSUME NEW c \in Conns, RemoveSubscriber(c) PROVE Agree' /\ [PS!Next]_PS!vars
  <2>1. /\ pc[c] = "closing" /\ pc' = [pc EXCEPT ![c] = "removed"] /\ subs' = subs
        /\ pubsub' = [ch \in Channels |-> pubsub[ch] \ {c}]
        /\ sending' = sending /\ count' = count /\ inbox' = inbox
    BY <1>6 DEF RemoveSubscriber, Goto, news
  <2>2. pc'[c] = "removed" /\ \A d \in Conns \ {c} : pc'[d] = pc[d]
    BY <1>0, <2>1 DEF TypeOK
  <2>3. \A d \in Conns, e \in Channels : Member(d, e)' <=> Member(d, e) /\ d # c
    BY <2>1, <2>2 DEF Member
  <2>4. Agree'
    <3>1. \A p \in sending' : pc'[p[1]] # "new"
      BY <1>0, <2>1, <2>2 DEF Agree, TypeOK
    <3> QED
      BY <2>1, <2>3, <3>1 DEF Agree
  <2>5. MemberMap' = [e \in Channels |-> IF e \in Channels THEN MemberMap[e] \ {c} ELSE MemberMap[e]]
    BY <2>3 DEF MemberMap, Member
  <2>6. Gone' = Gone
    BY <2>1, <2>2 DEF Gone
  <2>7. PS!Part(c, Channels)
    BY <2>1, <2>5, <2>6 DEF PS!Part, MemberMap, Gone
  <2> QED
    BY <2>4, <2>7 DEF PS!Next
<1>7. ASSUME NEW c \in Conns, Close(c) PROVE Agree' /\ [PS!Next]_PS!vars
  <2>1. /\ pc[c] = "removed" /\ pc' = [pc EXCEPT ![c] = "closed"] /\ subs' = subs /\ pubsub' = pubsub
        /\ sending' = sending /\ count' = count /\ inbox' = inbox
    BY <1>7 DEF Close, Goto, maps, news
  <2>2. pc'[c] = "closed" /\ \A d \in Conns \ {c} : pc'[d] = pc[d]
    BY <1>0, <2>1 DEF TypeOK
  <2>3. \A d \in Conns, e \in Channels : (Member(d, e)' <=> Member(d, e)) /\ ~Member(c, e)
    BY <2>1, <2>2 DEF Member
  <2>4. Agree'
    <3>1. \A p \in sending' : pc'[p[1]] # "new"
      BY <1>0, <2>1, <2>2 DEF Agree, TypeOK
    <3> QED
      BY <2>1, <2>3, <3>1 DEF Agree
  <2>5. MemberMap' = [e \in Channels |-> MemberMap[e] \ {c}]
    BY <2>3 DEF MemberMap, Member
  <2>6. c \notin Gone /\ Gone' = Gone \union {c}
    BY <2>1, <2>2 DEF Gone
  <2>7. PS!Leave(c)
    BY <2>1, <2>5, <2>6 DEF PS!Leave, MemberMap, Gone
  <2> QED
    BY <2>4, <2>7 DEF PS!Next
<1> QED
  BY <1>1, <1>2, <1>3, <1>4, <1>5, <1>6, <1>7, <1>a DEF Next, Handler

\* Publishing, but for its fairness: every step of the handlers, of PUBLISH's goroutines and of the
\* end of a connection is one of PubSub's or none.  The two maps of the Store, of which PUBLISH looks
\* at one and the replies of SUBSCRIBE count the other, never disagree before a connection ends.
THEOREM PublishesToMembers == Spec => PS!Init /\ [][PS!Next]_PS!vars
<1>1. Init => PS!Init
  BY DEF Init, PS!Init
<1>2. Init => Agree
  BY InitAgree
<1>3. Inv /\ Agree /\ [Next]_vars => Agree' /\ [PS!Next]_PS!vars
  BY AgreeStep
<1> QED
  BY <1>1, <1>2, <1>3, Invariance, PTL DEF Spec

===============================================================================
