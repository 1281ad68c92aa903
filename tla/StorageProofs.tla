----------------------------- MODULE StorageProofs ----------------------------
(***************************************************************************)
(* Theorems about where a write goes and how long it stays: the            *)
(* append-only file (module Persistence), for any number of clients,       *)
(* commands and crashes; the times to live (module Expiry), for every set  *)
(* of connections, keys, times to live, loaded keys and goroutines; and    *)
(* the replicas (module Replication), for any number of replicas, writes   *)
(* and WAITs.                                                              *)
(*                                                                         *)
(* Between the append and the reply a handler knows that its command is in *)
(* the file, and after the fsync in the part that lasts: InFileInv says so *)
(* for every handler, and is what makes AckedIsKept inductive.  MatchInv   *)
(* says for every key how far the Store is ahead of the file, and is what  *)
(* makes FileMatchesStore inductive.  EveryTTLIsAttended needs no more     *)
(* than the types.  ReplInv adds three things to the properties of the     *)
(* replicas: where one stands before and after it is connected (Ends),     *)
(* that masterOffset and the targets of WAIT are a number of whole writes  *)
(* (Offsets), and that every answer on its way or recorded was true when   *)
(* it was sent (Answers).                                                  *)
(***************************************************************************)
EXTENDS Persistence, Expiry, Replication, SequenceTheorems, WellFoundedInduction, TLAPS

Lasts == AlwaysSync \/ ~PowerFails

InFileInv ==
  /\ \A w \in Writers : pc[w] = "sync" => AlwaysSync /\ \E i \in 1 .. Len(file) : file[i] = run[w]
  /\ \A w \in Writers : pc[w] = "reply" /\ Lasts => run[w].id \in Kept

IInv == TypeOK /\ InFileInv /\ AckedIsKept

-------------------------------------------------------------------------------

LEMMA ApplyType ==
  ASSUME NEW s \in [Keys -> Int \union {None}], NEW c \in Commands(Nat)
  PROVE  Apply(s, c) \in [Keys -> Int \union {None}]
<1>1. c.key \in Keys /\ (c.op = "set" => c.arg \in Int)
  BY ArgsAssumption DEF Commands, Keys
<1>2. s[c.key] # None => s[c.key] + 1 \in Int
  BY <1>1
<1> QED  BY <1>1, <1>2 DEF Apply

LEMMA InitInv == Init => IInv
<1> SUFFICES ASSUME Init PROVE IInv
  OBVIOUS
<1>1. TypeOK
  BY LoadedAssumption DEF Init, TypeOK
<1>2. InFileInv /\ AckedIsKept
  BY DEF Init, InFileInv, AckedIsKept
<1> QED  BY <1>1, <1>2 DEF IInv

\* As long as the file and what is synced of it only grow, what is kept stays kept.
LEMMA KeptGrows ==
  ASSUME TypeOK, TypeOK', Len(file') >= Len(file), synced' >= synced,
         \A i \in 1 .. Len(file) : file'[i] = file[i]
  PROVE  Kept \subseteq Kept'
<1>1. synced \in 0 .. Len(file) /\ synced' \in 0 .. Len(file') /\ Len(file) \in Nat /\ Len(file') \in Nat
  BY DEF TypeOK
<1> QED  BY <1>1 DEF Kept

\* Without a power failure a crash takes nothing out of the file, with one nothing synced.
LEMMA KeptLasts ==
  ASSUME TypeOK, NEW n \in synced .. Len(file), PowerFails \/ n = Len(file), GoDown(n)
  PROVE  Kept \subseteq Kept'
<1>1. file \in Seq(Commands(Nat)) /\ synced \in Nat /\ n \in Nat /\ Len(file) \in Nat /\ n <= Len(file)
      /\ synced <= n
  BY DEF TypeOK
<1>2. Len(SubSeq(file, 1, n)) = n /\ \A i \in 1 .. n : SubSeq(file, 1, n)[i] = file[i]
  BY <1>1
<1>3. Len(file') = n /\ synced' = n /\ \A i \in 1 .. n : file'[i] = file[i]
  BY <1>2 DEF GoDown
<1> QED  BY <1>1, <1>3 DEF Kept

LEMMA GoDownInv ==
  ASSUME IInv, NEW n \in synced .. Len(file), PowerFails \/ n = Len(file), GoDown(n),
         crashes' \in Nat, UNCHANGED <<store, next, issued, acked, raced>>
  PROVE  IInv'
<1>1. TypeOK
  BY DEF IInv
<1>2. n \in Nat /\ SubSeq(file, 1, n) \in Seq(Commands(Nat)) /\ Len(SubSeq(file, 1, n)) = n
  BY <1>1 DEF TypeOK
<1>3. TypeOK'
  BY <1>1, <1>2 DEF GoDown, TypeOK
<1>4. InFileInv'
  BY DEF GoDown, InFileInv
<1>5. AckedIsKept'
  BY <1>1, KeptLasts DEF IInv, AckedIsKept
<1> QED  BY <1>3, <1>4, <1>5 DEF IInv

\* The steps that leave file and handlers alone.
LEMMA QuietInv ==
  ASSUME IInv, TypeOK', UNCHANGED <<file, synced, run, pc, acked>>
  PROVE  IInv'
BY DEF IInv, InFileInv, AckedIsKept, Kept

LEMMA NextInv == IInv /\ [Next]_vars => IInv'
<1> SUFFICES ASSUME IInv, [Next]_vars PROVE IInv'
  OBVIOUS
<1>1. TypeOK
  BY DEF IInv
<1>2. ASSUME NEW w \in Writers, Begin(w) PROVE IInv'
  <2> USE DEF Begin
  <2>1. PICK c \in Commands({issued}) : /\ run' = [run EXCEPT ![w] = c] /\ store' = Apply(store, c)
                                        /\ raced' = raced \/ raced' = raced \union {c.key}
    BY <1>2
  <2>2. c \in Commands(Nat) /\ c.key \in Keys /\ c # None
    <3>1. issued \in 0 .. MaxCommands            BY <1>1, <1>2, BoundAssumption DEF TypeOK
    <3>2. c \in Commands(0 .. MaxCommands)       BY <2>1, <3>1 DEF Commands
    <3>3. c \in Commands(Nat) /\ c.key \in Keys  BY <1>1, <2>1 DEF Commands, Keys, TypeOK
    <3> QED  BY <3>2, <3>3, NoneAssumption
  <2>3. store' \in [Keys -> Int \union {None}]
    BY <1>1, <2>1, <2>2, ApplyType DEF TypeOK
  <2>4. TypeOK'
    BY <1>1, <1>2, <2>1, <2>2, <2>3 DEF TypeOK
  <2>5. InFileInv'
    BY <1>1, <1>2, <2>1 DEF IInv, InFileInv, Kept, TypeOK
  <2>6. AckedIsKept'
    BY <1>2 DEF IInv, AckedIsKept, Kept
  <2> QED  BY <2>4, <2>5, <2>6 DEF IInv
<1>3. ASSUME NEW w \in Writers, Log(w) PROVE IInv'
  <2> USE DEF Log
  <2>1. run[w] \in Commands(Nat) /\ file \in Seq(Commands(Nat)) /\ Len(file) \in Nat
    BY <1>1, <1>3 DEF TypeOK
  <2>2. /\ file' \in Seq(Commands(Nat)) /\ Len(file') = Len(file) + 1 /\ file'[Len(file) + 1] = run[w]
        /\ \A i \in 1 .. Len(file) : file'[i] = file[i]
    BY <1>3, <2>1
  <2>3. TypeOK'
    BY <1>1, <1>3, <2>1, <2>2 DEF TypeOK
  <2>4. Kept \subseteq Kept'
    BY <1>1, <1>3, <2>1, <2>2, <2>3, KeptGrows DEF TypeOK
  <2>5. InFileInv'
    <3>1. \A v \in Writers : pc'[v] = "sync" => AlwaysSync /\ \E i \in 1 .. Len(file') : file'[i] = run'[v]
      BY <1>1, <1>3, <2>1, <2>2 DEF IInv, InFileInv, TypeOK
    <3>2. \A v \in Writers : pc'[v] = "reply" /\ Lasts => run'[v].id \in Kept'
      <4> SUFFICES ASSUME NEW v \in Writers, pc'[v] = "reply", Lasts PROVE run[v].id \in Kept'
        BY <1>3
      <4>1. CASE v = w
        <5>1. ~AlwaysSync /\ ~PowerFails  BY <4>1, <1>1, <1>3 DEF Lasts, TypeOK
        <5> QED  BY <5>1, <4>1, <2>1, <2>2 DEF Kept
      <4>2. CASE v # w
        BY <4>2, <1>1, <1>3, <2>4 DEF IInv, InFileInv, TypeOK
      <4> QED  BY <4>1, <4>2
    <3> QED  BY <3>1, <3>2 DEF InFileInv
  <2>6. AckedIsKept'
    BY <1>3, <2>4 DEF IInv, AckedIsKept
  <2> QED  BY <2>3, <2>5, <2>6 DEF IInv
<1>4. ASSUME NEW w \in Writers, Sync(w) PROVE IInv'
  <2> USE DEF Sync
  <2>1. TypeOK'
    BY <1>1, <1>4 DEF TypeOK
  <2>2. Kept \subseteq Kept'
    BY <1>1, <1>4, <2>1, KeptGrows DEF TypeOK
  <2>3. InFileInv'
    <3>1. PICK i \in 1 .. Len(file) : file[i] = run[w]
      BY <1>4 DEF IInv, InFileInv
    <3>2. run[w].id \in Kept'
      BY <1>4, <3>1 DEF Kept
    <3> QED  BY <1>1, <1>4, <2>2, <3>2 DEF IInv, InFileInv, TypeOK
  <2>4. AckedIsKept'
    BY <1>4, <2>2 DEF IInv, AckedIsKept
  <2> QED  BY <2>1, <2>3, <2>4 DEF IInv
<1>5. ASSUME NEW w \in Writers, AppendFails(w) PROVE IInv'
  <2> USE DEF AppendFails, Return
  <2>1. run[w] \in Commands(Nat) /\ run[w].key \in Keys
    BY <1>1, <1>5 DEF TypeOK, Commands, Keys
  <2>2. TypeOK'
    BY <1>1, <1>5, <2>1 DEF TypeOK
  <2>3. InFileInv' /\ AckedIsKept'
    BY <1>1, <1>5 DEF IInv, InFileInv, AckedIsKept, Kept, TypeOK
  <2> QED  BY <2>2, <2>3 DEF IInv
<1>6. ASSUME NEW w \in Writers, Reply(w) PROVE IInv'
  <2> USE DEF Reply, Return
  <2>1. run[w] \in Commands(Nat) /\ run[w].id \in Nat
    BY <1>1, <1>6 DEF TypeOK, Commands
  <2>2. TypeOK'
    BY <1>1, <1>6, <2>1 DEF TypeOK
  <2>3. InFileInv'
    BY <1>1, <1>6 DEF IInv, InFileInv, Kept, TypeOK
  <2>4. AckedIsKept'
    BY <1>6 DEF IInv, InFileInv, AckedIsKept, Kept, Lasts
  <2> QED  BY <2>2, <2>3, <2>4 DEF IInv
<1>7. CASE Crash
  <2>1. PICK n \in synced .. Len(file) : (PowerFails \/ n = Len(file)) /\ GoDown(n)
    BY <1>7 DEF Crash
  <2>2. crashes' \in Nat /\ UNCHANGED <<store, next, issued, acked, raced>>
    BY <1>1, <1>7 DEF Crash, TypeOK
  <2> QED  BY <2>1, <2>2, GoDownInv
<1>8. CASE ReplayPanics
  <2>1. Len(file) \in synced .. Len(file)
    BY <1>1 DEF TypeOK
  <2>2. GoDown(Len(file)) /\ crashes' \in Nat /\ UNCHANGED <<store, next, issued, acked, raced>>
    BY <1>1, <1>8 DEF ReplayPanics, TypeOK
  <2> QED  BY <2>1, <2>2, GoDownInv
<1>9. CASE Start \/ Serve
  <2>1. TypeOK'
    <3>1. Len(file) \in Nat  BY <1>1 DEF TypeOK
    <3>2. CASE Start         BY <1>1, <3>1, <3>2, LoadedAssumption DEF Start, TypeOK
    <3>3. CASE Serve         BY <1>1, <3>3 DEF Serve, TypeOK
    <3> QED  BY <1>9, <3>2, <3>3
  <2>2. UNCHANGED <<file, synced, run, pc, acked>>
    BY <1>9 DEF Start, Serve
  <2> QED  BY <2>1, <2>2, QuietInv
<1>10. CASE Replay
  <2>1. file[next + 1] \in Commands(Nat) /\ next + 1 \in Nat /\ next + 1 <= Len(file)
    BY <1>1, <1>10 DEF Replay, TypeOK
  <2>2. store' \in [Keys -> Int \union {None}]
    BY <1>1, <1>10, <2>1, ApplyType DEF Replay, TypeOK
  <2>3. TypeOK'
    BY <1>1, <1>10, <2>1, <2>2 DEF Replay, TypeOK
  <2>4. UNCHANGED <<file, synced, run, pc, acked>>
    BY <1>10 DEF Replay
  <2> QED  BY <2>3, <2>4, QuietInv
<1>11. CASE UNCHANGED vars
  BY <1>11 DEF vars, IInv, TypeOK, InFileInv, AckedIsKept, Kept
<1> QED  BY <1>2, <1>3, <1>4, <1>5, <1>6, <1>7, <1>8, <1>9, <1>10, <1>11 DEF Next, Handler, Loading

-------------------------------------------------------------------------------
(* The Stores of a replay: the recursive function has its recurrence, and  *)
(* the Stores after a prefix do not depend on what follows it.             *)

StoreSet == [Keys -> Int \union {None}]

\* A set of numbers without a number whose predecessor is missing is empty.
LEMMA FirstNumber ==
  ASSUME NEW T \in SUBSET Nat, T # {}
  PROVE  \E x \in T : x - 1 \notin T
<1> DEFINE R == OpToRel(<, Nat)
<1>1. PICK x \in T : \A y \in T : <<y, x>> \notin R
  <2> HIDE DEF R
  <2>1. IsWellFoundedOn(R, Nat)
    BY NatLessThanWellFounded DEF R
  <2> QED  BY <2>1, WFMin
<1>2. \A y \in T : <<y, x>> \in Nat \X Nat
  OBVIOUS
<1>3. \A y \in T : ~(y < x)
  BY <1>1, <1>2 DEF OpToRel
<1>4. x - 1 \notin T
  BY <1>3
<1> QED  BY <1>4

\* The Stores of a replay of n commands of f.
Replays(f, n, h) ==
  /\ h \in [0 .. n -> StoreSet]
  /\ \A i \in 0 .. n : h[i] = IF i = 0 THEN Loaded ELSE Apply(h[i - 1], f[i])

LEMMA ReplaysOneMore ==
  ASSUME NEW f \in Seq(Commands(Nat)), NEW n \in 1 .. Len(f), NEW h, Replays(f, n - 1, h)
  PROVE  \E g : Replays(f, n, g)
<1> DEFINE g == [i \in 0 .. n |-> IF i = n THEN Apply(h[n - 1], f[n]) ELSE h[i]]
<1>1. n \in Nat /\ n >= 1 /\ n - 1 \in 0 .. n - 1 /\ f[n] \in Commands(Nat) /\ h[n - 1] \in StoreSet
  BY DEF Replays
<1>2. Apply(h[n - 1], f[n]) \in StoreSet
  BY <1>1, ApplyType DEF StoreSet
<1>3. \A i \in 0 .. n : i # n => i \in 0 .. n - 1 /\ g[i] = h[i] /\ h[i] \in StoreSet
  BY <1>1 DEF Replays
<1>4. g \in [0 .. n -> StoreSet]
  BY <1>2, <1>3
<1>5. ASSUME NEW i \in 0 .. n PROVE g[i] = IF i = 0 THEN Loaded ELSE Apply(g[i - 1], f[i])
  <2>1. CASE i = n
    <3>1. g[n] = Apply(h[n - 1], f[n]) /\ g[n - 1] = h[n - 1]
      BY <1>1
    <3> QED  BY <3>1, <2>1, <1>1
  <2>2. CASE i # n
    <3>1. h[i] = IF i = 0 THEN Loaded ELSE Apply(h[i - 1], f[i])
      BY <2>2, <1>3 DEF Replays
    <3>2. i # 0 => i - 1 \in 0 .. n /\ i - 1 # n
      BY <2>2, <1>1
    <3>3. g[i] = h[i] /\ (i # 0 => g[i - 1] = h[i - 1])
      BY <2>2, <1>3, <3>2
    <3> QED  BY <3>1, <3>3
  <2> QED  BY <2>1, <2>2
<1> HIDE DEF g
<1>6. Replays(f, n, g)
  BY <1>4, <1>5 DEF Replays
<1> QED  BY <1>6

LEMMA ReplayExists ==
  ASSUME NEW f \in Seq(Commands(Nat))
  PROVE  \E h : Replays(f, Len(f), h)
<1> DEFINE T == {n \in 0 .. Len(f) : ~ \E h : Replays(f, n, h)}
<1>1. Len(f) \in Nat
  BY LenProperties
<1>2. SUFFICES ASSUME T # {} PROVE FALSE
  BY <1>1
<1>3. PICK n \in T : n - 1 \notin T
  <2>1. T \in SUBSET Nat  BY <1>1
  <2> HIDE DEF T
  <2> QED  BY <1>2, <2>1, FirstNumber
<1>4. CASE n = 0
  <2> DEFINE h == [i \in 0 .. 0 |-> Loaded]
  <2>1. h \in [0 .. 0 -> StoreSet] /\ \A i \in 0 .. 0 : i = 0 /\ h[i] = Loaded
    BY LoadedAssumption DEF StoreSet
  <2>2. Replays(f, 0, h)
    BY <2>1 DEF Replays
  <2> QED  BY <2>2, <1>3, <1>4
<1>5. CASE n # 0
  <2>1. n \in 1 .. Len(f) /\ n - 1 \in 0 .. Len(f)
    BY <1>1, <1>3, <1>5
  <2>2. PICK h : Replays(f, n - 1, h)
    BY <1>3, <2>1
  <2>3. \E g : Replays(f, n, g)
    BY <2>1, <2>2, ReplaysOneMore
  <2> QED  BY <2>3, <1>3
<1> QED  BY <1>4, <1>5

LEMMA StoresRecurrence ==
  ASSUME NEW f \in Seq(Commands(Nat))
  PROVE  Replays(f, Len(f), Stores(f))
<1> DEFINE S(h) == [n \in 0 .. Len(f) |-> IF n = 0 THEN Loaded ELSE Apply(h[n - 1], f[n])]
<1>1. PICK h : Replays(f, Len(f), h)
  BY ReplayExists
<1>2. h = S(h)
  BY <1>1 DEF Replays
<1>3. Stores(f) = CHOOSE g : g = S(g)
  BY DEF Stores
<1>4. Stores(f) = S(Stores(f))
  BY <1>2, <1>3
<1>5. Len(f) \in Nat
  BY LenProperties
<1>6. \A n \in 0 .. Len(f) :
        Stores(f)[n] = IF n = 0 THEN Loaded ELSE Apply(Stores(f)[n - 1], f[n])
  BY <1>4
<1>7. \A n \in 0 .. Len(f) : Stores(f)[n] = h[n]
  <2> DEFINE T == {n \in 0 .. Len(f) : Stores(f)[n] # h[n]}
  <2>1. SUFFICES ASSUME T # {} PROVE FALSE
    OBVIOUS
  <2>2. PICK n \in T : n - 1 \notin T
    <3>1. T \in SUBSET Nat  BY <1>5
    <3> HIDE DEF T
    <3> QED  BY <2>1, <3>1, FirstNumber
  <2>3. n # 0 => n - 1 \in 0 .. Len(f)
    BY <1>5, <2>2
  <2>4. h[n] = IF n = 0 THEN Loaded ELSE Apply(h[n - 1], f[n])
    BY <1>1, <2>2 DEF Replays
  <2> QED  BY <2>2, <2>3, <2>4, <1>6
<1>8. DOMAIN Stores(f) = 0 .. Len(f)
  BY <1>4
<1>9. Stores(f) = h
  <2>1. Stores(f) = [n \in 0 .. Len(f) |-> Stores(f)[n]]
    BY <1>4
  <2>2. h = [n \in 0 .. Len(f) |-> h[n]]
    BY <1>1 DEF Replays
  <2> QED  BY <2>1, <2>2, <1>7
<1> QED  BY <1>9, <1>1

\* One more command is one more step of the replay.
LEMMA StoresAppend ==
  ASSUME NEW f \in Seq(Commands(Nat)), NEW c \in Commands(Nat)
  PROVE  Stores(Append(f, c))[Len(f) + 1] = Apply(Stores(f)[Len(f)], c)
<1> DEFINE g == Append(f, c)
           T == {n \in 0 .. Len(f) : Stores(g)[n] # Stores(f)[n]}
<1>1. /\ g \in Seq(Commands(Nat)) /\ Len(g) = Len(f) + 1 /\ Len(f) \in Nat /\ g[Len(f) + 1] = c
      /\ \A i \in 1 .. Len(f) : g[i] = f[i]
  BY AppendProperties, LenProperties
<1> HIDE DEF g
<1>2. Replays(f, Len(f), Stores(f)) /\ Replays(g, Len(f) + 1, Stores(g))
  BY <1>1, StoresRecurrence
<1>3. T = {}
  <2>1. SUFFICES ASSUME T # {} PROVE FALSE
    OBVIOUS
  <2>2. PICK n \in T : n - 1 \notin T
    <3>1. T \in SUBSET Nat  BY <1>1
    <3> HIDE DEF T
    <3> QED  BY <2>1, <3>1, FirstNumber
  <2>3. n \in 0 .. Len(f) /\ n \in 0 .. Len(f) + 1 /\ (n # 0 => n \in 1 .. Len(f) /\ n - 1 \in 0 .. Len(f))
    BY <1>1, <2>2
  <2>4. /\ Stores(f)[n] = IF n = 0 THEN Loaded ELSE Apply(Stores(f)[n - 1], f[n])
        /\ Stores(g)[n] = IF n = 0 THEN Loaded ELSE Apply(Stores(g)[n - 1], g[n])
    BY <1>2, <2>3 DEF Replays
  <2>5. n # 0 => g[n] = f[n] /\ Stores(g)[n - 1] = Stores(f)[n - 1]
    BY <1>1, <2>2, <2>3
  <2> QED  BY <2>2, <2>4, <2>5
<1>4. Len(f) \in 0 .. Len(f) /\ Len(f) + 1 \in 0 .. Len(f) + 1 /\ Len(f) + 1 # 0 /\ (Len(f) + 1) - 1 = Len(f)
  BY <1>1
<1>5. Stores(g)[Len(f) + 1] = Apply(Stores(g)[Len(f)], c)
  BY <1>1, <1>2, <1>4 DEF Replays
<1>6. Stores(g)[Len(f)] = Stores(f)[Len(f)]
  BY <1>3, <1>4
<1> QED  BY <1>5, <1>6 DEF g

-------------------------------------------------------------------------------
(* The Store of a running server against a replay of its file.  A key that *)
(* no handler has is as in the replay, and one handler is either before    *)
(* its append, the Store one command ahead of the file, or after it.  A    *)
(* replay on the way has the Stores of the prefix that it has read.        *)

Replayed == Stores(file)[Len(file)]

Handles(w, k) == run[w] # None /\ run[w].key = k

Matches(k) ==
  /\ ~InFlight(k) => store[k] = Replayed[k]
  /\ \A w \in Writers : Handles(w, k) =>
       /\ store[k] = IF pc[w] = "append" THEN Apply(Replayed, run[w])[k] ELSE Replayed[k]
       /\ \A v \in Writers : Handles(v, k) => v = w

Quiet == \A w \in Writers : run[w] = None

MatchInv ==
  /\ status # "up" => Quiet
  /\ status = "loading" => raced = {} /\ store = Stores(file)[next]
  /\ status = "up" => \A k \in Keys \ raced : Matches(k)

LEMMA ApplyFacts ==
  ASSUME NEW s \in StoreSet, NEW t \in StoreSet, NEW c \in Commands(Nat)
  PROVE  /\ c.key \in Keys
         /\ \A k \in Keys \ {c.key} : Apply(s, c)[k] = s[k]
         /\ s[c.key] = t[c.key] => Apply(s, c)[c.key] = Apply(t, c)[c.key]
<1>1. c.key \in Keys
  BY DEF Commands, Keys
<1> QED  BY <1>1 DEF Apply, StoreSet

LEMMA ReplayedType == ASSUME TypeOK PROVE Replayed \in StoreSet /\ store \in StoreSet
<1>1. file \in Seq(Commands(Nat)) /\ Len(file) \in 0 .. Len(file)
  BY LenProperties DEF TypeOK
<1>2. Replays(file, Len(file), Stores(file))
  BY <1>1, StoresRecurrence
<1> QED  BY <1>1, <1>2 DEF Replays, Replayed, TypeOK, StoreSet

LEMMA InitMatches == Init => MatchInv
<1> SUFFICES ASSUME Init PROVE MatchInv
  OBVIOUS
<1>1. Replays(<<>>, 0, Stores(<<>>))
  <2>1. <<>> \in Seq(Commands(Nat)) /\ Len(<<>>) = 0
    OBVIOUS
  <2> QED  BY <2>1, StoresRecurrence
<1>2. Stores(<<>>)[0] = Loaded
  BY <1>1 DEF Replays
<1> QED  BY <1>2 DEF Init, MatchInv, Quiet

\* A step of the handler w alone, with Store and file as they are, once it has logged.
LEMMA HandlerMatches ==
  ASSUME TypeOK, MatchInv, NEW w \in Writers, UNCHANGED <<status, store, file>>, next' = next,
         status = "up", raced \subseteq raced', run[w] # None,
         pc[w] = "append" => run[w].key \in raced',
         \/ run' = run /\ pc'[w] # "append"
         \/ run' = [run EXCEPT ![w] = None],
         \A v \in Writers \ {w} : pc'[v] = pc[v]
  PROVE  MatchInv'
<1>1. run \in [Writers -> Commands(Nat) \union {None}]
  BY DEF TypeOK
<1>2. Replayed' = Replayed
  BY DEF Replayed
<1>3. ASSUME NEW k \in Keys \ raced' PROVE Matches(k)'
  <2>1. Matches(k)
    BY DEF MatchInv
  <2>2. \A v \in Writers : Handles(v, k)' => Handles(v, k)
    BY <1>1 DEF Handles
  <2>3. \A v \in Writers : Handles(v, k) /\ ~Handles(v, k)' => v = w
    BY <1>1 DEF Handles
  <2>4. Handles(w, k) => store[k] = Replayed[k]
    BY <2>1 DEF Matches, Handles
  <2>5. ~InFlight(k)' => store'[k] = Replayed[k]
    BY <2>1, <2>3, <2>4 DEF Matches, InFlight, Handles
  <2>6. ASSUME NEW v \in Writers, Handles(v, k)'
        PROVE  store'[k] = IF pc'[v] = "append" THEN Apply(Replayed, run'[v])[k] ELSE Replayed[k]
    <3>1. CASE v = w
      BY <1>1, <2>2, <2>4, <2>6, <3>1 DEF Handles
    <3>2. CASE v # w
      <4>1. run'[v] = run[v] /\ pc'[v] = pc[v]
        BY <1>1, <3>2
      <4> QED  BY <4>1, <2>1, <2>2, <2>6 DEF Matches
    <3> QED  BY <3>1, <3>2
  <2> QED  BY <1>2, <2>1, <2>2, <2>5, <2>6 DEF Matches
<1> QED  BY <1>3 DEF MatchInv

LEMMA BeginMatches ==
  ASSUME TypeOK, TypeOK', MatchInv, NEW w \in Writers, Begin(w)
  PROVE  MatchInv'
<1>1. PICK c \in Commands({issued}) :
        /\ status = "up" /\ run[w] = None /\ issued < MaxCommands
        /\ store' = Apply(store, c)
        /\ run' = [run EXCEPT ![w] = c] /\ pc' = [pc EXCEPT ![w] = "append"]
        /\ raced' = IF InFlight(c.key) THEN raced \union {c.key} ELSE raced
        /\ UNCHANGED <<status, file>>
  BY DEF Begin
<1>2. c \in Commands(Nat) /\ c # None
  <2>1. issued \in 0 .. MaxCommands       BY <1>1, BoundAssumption DEF TypeOK
  <2>2. c \in Commands(0 .. MaxCommands)  BY <1>1, <2>1 DEF Commands
  <2>3. c \in Commands(Nat)               BY <1>1 DEF Commands, TypeOK
  <2> QED  BY <2>2, <2>3, NoneAssumption
<1>3. run \in [Writers -> Commands(Nat) \union {None}] /\ pc \in [Writers -> {"idle", "append", "sync", "reply"}]
  BY DEF TypeOK
<1>4. Replayed' = Replayed /\ Replayed \in StoreSet /\ store \in StoreSet
  BY <1>1, ReplayedType DEF Replayed
<1>5. /\ \A k \in Keys \ {c.key} : store'[k] = store[k]
      /\ store[c.key] = Replayed[c.key] => store'[c.key] = Apply(Replayed, c)[c.key]
  BY <1>1, <1>2, <1>4, ApplyFacts
<1>6. ASSUME NEW k \in Keys \ raced' PROVE Matches(k)'
  <2>1. Matches(k)
    BY <1>1, <1>6 DEF MatchInv
  <2>2. \A v \in Writers \ {w} : run'[v] = run[v] /\ pc'[v] = pc[v]
    BY <1>1
  <2>3. run'[w] = c /\ pc'[w] = "append"
    BY <1>1, <1>3
  <2>4. CASE k = c.key
    <3>1. ~InFlight(k)
      BY <1>1, <1>6, <2>4
    <3>2. store[k] = Replayed[k]
      BY <2>1, <3>1 DEF Matches
    <3>3. store'[k] = Apply(Replayed, c)[k]
      BY <3>2, <1>5, <2>4
    <3>4. \A v \in Writers : Handles(v, k)' => v = w
      BY <2>2, <3>1 DEF Handles, InFlight
    <3>5. InFlight(k)'
      BY <2>3, <2>4, <1>2 DEF InFlight
    <3> QED  BY <3>3, <3>4, <3>5, <2>3, <1>4 DEF Matches
  <2>5. CASE k # c.key
    <3>1. store'[k] = store[k]
      BY <1>5, <2>5
    <3>2. \A v \in Writers : Handles(v, k)' <=> Handles(v, k)
      BY <1>1, <2>2, <2>3, <2>5 DEF Handles
    <3>3. InFlight(k)' <=> InFlight(k)
      BY <3>2 DEF InFlight, Handles
    <3>4. \A v \in Writers : Handles(v, k) => run'[v] = run[v] /\ pc'[v] = pc[v]
      BY <1>1, <2>2 DEF Handles
    <3> QED  BY <2>1, <3>1, <3>2, <3>3, <3>4, <1>4 DEF Matches
  <2> QED  BY <2>4, <2>5
<1> QED  BY <1>1, <1>6 DEF MatchInv

LEMMA LogMatches ==
  ASSUME TypeOK, TypeOK', MatchInv, NEW w \in Writers, Log(w)
  PROVE  MatchInv'
<1>1. /\ run[w] \in Commands(Nat) /\ run[w] # None /\ status = "up" /\ file \in Seq(Commands(Nat))
      /\ pc[w] = "append" /\ file' = Append(file, run[w])
      /\ UNCHANGED <<status, store, run, raced>>
  BY DEF TypeOK, Log, MatchInv, Quiet
<1>2. pc \in [Writers -> {"idle", "append", "sync", "reply"}] /\ pc'[w] # "append"
      /\ \A v \in Writers \ {w} : pc'[v] = pc[v]
  BY DEF TypeOK, Log
<1>3. Replayed' = Apply(Replayed, run[w])
  <2>1. Len(file') = Len(file) + 1
    BY <1>1, AppendProperties
  <2> QED  BY <1>1, <2>1, StoresAppend DEF Replayed
<1>4. Replayed \in StoreSet
  BY ReplayedType
<1>5. run[w].key \in Keys /\ \A k \in Keys \ {run[w].key} : Replayed'[k] = Replayed[k]
  BY <1>1, <1>3, <1>4, ApplyFacts
<1>6. ASSUME NEW k \in Keys \ raced' PROVE Matches(k)'
  <2>1. Matches(k)
    BY <1>1, <1>6 DEF MatchInv
  <2>2. (InFlight(k)' <=> InFlight(k)) /\ \A v \in Writers : Handles(v, k)' <=> Handles(v, k)
    BY <1>1 DEF InFlight, Handles
  <2>3. CASE k = run[w].key
    <3>1. Handles(w, k) /\ InFlight(k)
      BY <1>1, <2>3 DEF Handles, InFlight
    <3>2. store[k] = Replayed'[k]
      BY <1>1, <1>3, <2>1, <3>1 DEF Matches
    <3>3. \A v \in Writers : Handles(v, k) => v = w
      BY <2>1, <3>1 DEF Matches
    <3> QED  BY <1>1, <1>2, <2>2, <3>1, <3>2, <3>3 DEF Matches
  <2>4. CASE k # run[w].key
    <3>1. ~Handles(w, k)
      BY <2>4 DEF Handles
    <3>2. Replayed'[k] = Replayed[k]
      BY <1>5, <2>4, <1>6
    <3>3. ASSUME NEW v \in Writers, Handles(v, k)
          PROVE  Apply(Replayed', run[v])[k] = Apply(Replayed, run[v])[k]
      <4>1. run[v] \in Commands(Nat) /\ run[v].key = k
        BY <3>3 DEF Handles, TypeOK
      <4>2. Replayed' \in StoreSet
        BY <1>1, <1>3, <1>4, ApplyType DEF StoreSet
      <4> QED  BY <1>4, <3>2, <4>1, <4>2, ApplyFacts
    <3>4. \A v \in Writers : Handles(v, k) => v # w /\ pc'[v] = pc[v]
      BY <1>2, <3>1
    <3> QED  BY <1>1, <2>1, <2>2, <3>2, <3>3, <3>4 DEF Matches
  <2> QED  BY <2>3, <2>4
<1> QED  BY <1>1, <1>6 DEF MatchInv

LEMMA MatchStep == TypeOK /\ TypeOK' /\ MatchInv /\ [Next]_vars => MatchInv'
<1> SUFFICES ASSUME TypeOK, TypeOK', MatchInv, [Next]_vars PROVE MatchInv'
  OBVIOUS
<1>1. file \in Seq(Commands(Nat)) /\ Len(file) \in Nat /\ run \in [Writers -> Commands(Nat) \union {None}]
      /\ pc \in [Writers -> {"idle", "append", "sync", "reply"}]
  BY LenProperties DEF TypeOK
<1>2. Replays(file, Len(file), Stores(file))
  BY <1>1, StoresRecurrence
<1>3. ASSUME NEW w \in Writers, Handler(w) PROVE MatchInv'
  <2>1. CASE Log(w)
    BY <2>1, LogMatches
  <2>2. CASE Sync(w) \/ Reply(w) \/ AppendFails(w)
    <3>1. run[w] # None /\ status = "up" /\ run[w].key \in Keys
      <4>1. pc[w] # "idle"  BY <2>2 DEF Sync, Reply, AppendFails
      <4>2. run[w] # None /\ run[w] \in Commands(Nat)  BY <4>1 DEF TypeOK
      <4> QED  BY <4>2 DEF MatchInv, Quiet, TypeOK, Commands, Keys
    <3>2. /\ UNCHANGED <<status, store, file>> /\ next' = next /\ raced \subseteq raced'
          /\ pc[w] = "append" => run[w].key \in raced'
          /\ \A v \in Writers \ {w} : pc'[v] = pc[v]
      <4>1. CASE Sync(w)         BY <4>1 DEF Sync
      <4>2. CASE Reply(w)        BY <4>2 DEF Reply, Return
      <4>3. CASE AppendFails(w)  BY <4>3 DEF AppendFails, Return
      <4> QED  BY <2>2, <4>1, <4>2, <4>3
    <3>3. \/ run' = run /\ pc'[w] # "append"
          \/ run' = [run EXCEPT ![w] = None]
      BY <1>1, <2>2 DEF Sync, Reply, AppendFails, Return
    <3> QED  BY <3>1, <3>2, <3>3, HandlerMatches
  <2> QED  BY <1>3, <2>1, <2>2 DEF Handler
<1>4. CASE Crash \/ ReplayPanics
  BY <1>4 DEF Crash, ReplayPanics, GoDown, MatchInv, Quiet
<1>5. CASE Start
  <2>1. Stores(file)[0] = Loaded
    BY <1>1, <1>2 DEF Replays
  <2> QED  BY <1>5, <2>1 DEF Start, MatchInv, Quiet
<1>6. CASE Replay
  <2>1. next + 1 \in 0 .. Len(file) /\ next + 1 # 0 /\ (next + 1) - 1 = next
    BY <1>1, <1>6 DEF Replay, TypeOK
  <2>2. Stores(file)[next + 1] = Apply(Stores(file)[next], file[next + 1])
    BY <1>2, <2>1 DEF Replays
  <2> QED  BY <1>6, <2>2 DEF Replay, MatchInv, Quiet
<1>7. CASE Serve
  BY <1>7 DEF Serve, MatchInv, Quiet, Matches, Handles, Replayed
<1>8. CASE UNCHANGED vars
  BY <1>8 DEF vars, MatchInv, Quiet, Matches, Handles, InFlight, Replayed
<1>9. ASSUME NEW w \in Writers, Begin(w) PROVE MatchInv'
  BY <1>9, BeginMatches
<1> QED  BY <1>3, <1>4, <1>5, <1>6, <1>7, <1>8, <1>9 DEF Next, Loading

-------------------------------------------------------------------------------

THEOREM Invariance == Spec => []IInv
<1>1. Init => IInv
  BY InitInv
<1>2. IInv /\ [Next]_vars => IInv'
  BY NextInv
<1> QED  BY <1>1, <1>2, PTL DEF Spec

\* Every variable keeps its type, no replay reads beyond the end of the file, and a
\* handler has a command exactly while it runs.
THEOREM TypeCorrect == Spec => []TypeOK
<1>1. IInv => TypeOK
  BY DEF IInv
<1> QED  BY <1>1, Invariance, PTL

\* Acknowledged commands stay in the file, whatever crashes.
THEOREM AcknowledgedIsKept == Spec => []AckedIsKept
<1>1. IInv => AckedIsKept
  BY DEF IInv
<1> QED  BY <1>1, Invariance, PTL

LEMMA MatchInvariance == Spec => []MatchInv
<1>1. Init => MatchInv
  BY InitMatches
<1>2. TypeOK /\ TypeOK' /\ MatchInv /\ [Next]_vars => MatchInv'
  BY MatchStep
<1> QED  BY <1>1, <1>2, TypeCorrect, PTL DEF Spec

\* What a running server holds is what a replay of its file would give, whatever the
\* commands, crashes and replays before.
THEOREM StoreIsReplayed == Spec => []FileMatchesStore
<1>1. MatchInv => FileMatchesStore
  BY DEF MatchInv, Matches, FileMatchesStore, Replayed
<1> QED  BY <1>1, MatchInvariance, PTL

-------------------------------------------------------------------------------
(* Times to live: the clock.                                               *)

USE NothingAssumption

LEMMA ClipType == \A t \in Int : Clip(t) \in Instants /\ Clip(t) \in Int /\ Clip(t) <= Pause(t)
BY DEF Clip, Instants, Pause

LEMMA PauseType == \A t \in Int : Pause(t) \in Nat
BY DEF Pause

LEMMA LaterType ==
  /\ \A t \in Instants \union {Nothing} : Later(t) \in Instants \union {Nothing}
  /\ \A t \in Int \union {Nothing} : Later(t) \in Int \union {Nothing} /\ (Later(t) = Nothing <=> t = Nothing)
BY DEF Later, Clip, Instants

\* Whatever is no sooner than an instant still is when both come a tick closer.
LEMMA LaterIsMonotonic ==
  ASSUME NEW e \in Instants, NEW l \in Int, l >= e
  PROVE  Pause(l - 1) >= Later(e) /\ l >= Later(e)
BY DEF Later, Clip, Instants, Pause

-------------------------------------------------------------------------------
(* Types.                                                                  *)

LEMMA ExpiryTypeInit == TTLInit => TTLTypeOK
<1> SUFFICES ASSUME TTLInit PROVE TTLTypeOK
  OBVIOUS
<1>1. \A t \in TTLs : Clip(t) \in Instants
  BY TTLAssumption, ClipType
<1>2. expiry \in [Names -> Instants \union {Nothing}]
  BY <1>1 DEF TTLInit
<1> QED
  BY <1>2, FromRDBAssumption DEF TTLInit, TTLTypeOK, Origins, PCs

\* Store and Drop, which several actions share, keep the types of the Store.
LEMMA StringsType ==
  ASSUME TTLTypeOK, NEW k \in Names, NEW origin \in Origins, Store(k, origin) \/ Drop(k)
  PROVE  /\ cache' \in [Names -> Origins \union {Nothing}]
         /\ expiry' \in [Names -> Instants \union {Nothing}]
         /\ fromFile' \in SUBSET Names
BY DEF TTLTypeOK, Store, Drop

LEMMA FinishType ==
  ASSUME TTLTypeOK, NEW c \in Conns, Finish(c)
  PROVE  /\ at' \in [Conns -> PCs]
         /\ key' \in [Conns -> Names \union {Nothing}] /\ left' \in [Conns -> Int \union {Nothing}]
         /\ \A d \in Conns : at'[d] # "idle" => key'[d] \in Names /\ left'[d] \in Int
BY DEF TTLTypeOK, Finish, Move, PCs

LEMMA ExpiryTypeStep == TTLTypeOK /\ [TTLNext]_ttlVars => TTLTypeOK'
<1> SUFFICES ASSUME TTLTypeOK, [TTLNext]_ttlVars PROVE TTLTypeOK'
  OBVIOUS
<1>1. CASE Tick
  <2>1. expiry' \in [Names -> Instants \union {Nothing}]
    BY <1>1, LaterType DEF Tick, TTLTypeOK
  <2>2. asleep' \in [Goroutines -> [key : Names, left : Nat] \union {Nothing}]
    <3>1. \A g \in Goroutines : asleep[g] # Nothing =>
            [asleep[g] EXCEPT !.left = Pause(@ - 1)] \in [key : Names, left : Nat]
      BY PauseType DEF TTLTypeOK
    <3> QED
      BY <1>1, <3>1 DEF Tick, TTLTypeOK
  <2>3. left' \in [Conns -> Int \union {Nothing}]
    BY <1>1, LaterType DEF Tick, TTLTypeOK
  <2>4. \A c \in Conns : left[c] \in Int => left'[c] \in Int
    BY <1>1, LaterType DEF Tick, TTLTypeOK
  <2> QED
    BY <1>1, <2>1, <2>2, <2>3, <2>4 DEF Tick, TTLTypeOK
<1>2. ASSUME NEW c \in Conns, Set(c) PROVE TTLTypeOK'
  BY <1>2, StringsType DEF Set, TTLTypeOK, Origins
<1>3. ASSUME NEW c \in Conns, SetPX(c) PROVE TTLTypeOK'
  <2> PICK k \in Names, t \in TTLs : /\ at[c] = "idle" /\ Store(k, "setpx")
                                    /\ Take(c, k, t) /\ Move(c, "expiry") /\ UNCHANGED asleep
    BY <1>3 DEF SetPX
  <2>1. /\ cache' \in [Names -> Origins \union {Nothing}]
        /\ expiry' \in [Names -> Instants \union {Nothing}] /\ fromFile' \in SUBSET Names
    BY StringsType DEF Origins
  <2>2. /\ at' \in [Conns -> PCs] /\ key' \in [Conns -> Names \union {Nothing}]
        /\ left' \in [Conns -> Int \union {Nothing}]
        /\ \A d \in Conns : at'[d] # "idle" => key'[d] \in Names /\ left'[d] \in Int
    BY TTLAssumption DEF TTLTypeOK, Take, Move, PCs
  <2> QED
    BY <2>1, <2>2 DEF TTLTypeOK
<1>4. ASSUME NEW c \in Conns, GetRead(c) PROVE TTLTypeOK'
  BY <1>4 DEF GetRead, TTLTypeOK, Take, Move, PCs, Instants
<1>5. ASSUME NEW c \in Conns, Incr(c) PROVE TTLTypeOK'
  BY <1>5 DEF Incr, TTLTypeOK, Origins
<1>6. ASSUME NEW c \in Conns, SetExpiry(c) PROVE TTLTypeOK'
  <2>1. Clip(left[c]) \in Instants
    BY <1>6, ClipType DEF SetExpiry, TTLTypeOK
  <2> QED
    BY <1>6, <2>1 DEF SetExpiry, TTLTypeOK, Move, PCs
<1>7. ASSUME NEW c \in Conns, Spawn(c) PROVE TTLTypeOK'
  <2>1. [key |-> key[c], left |-> Pause(left[c])] \in [key : Names, left : Nat]
    BY <1>7, PauseType DEF Spawn, TTLTypeOK
  <2>2. asleep' \in [Goroutines -> [key : Names, left : Nat] \union {Nothing}]
    BY <1>7, <2>1 DEF Spawn, TTLTypeOK
  <2> QED
    BY <1>7, <2>2, FinishType DEF Spawn, TTLTypeOK
<1>8. ASSUME NEW c \in Conns, GetClock(c) PROVE TTLTypeOK'
  <2>1. CASE left[c] < 0
    BY <1>8, <2>1 DEF GetClock, TTLTypeOK, Move, PCs
  <2>2. CASE ~(left[c] < 0)
    BY <1>8, <2>2, FinishType DEF GetClock, TTLTypeOK
  <2> QED
    BY <2>1, <2>2
<1>9. ASSUME NEW c \in Conns, GetDelete(c) PROVE TTLTypeOK'
  <2>1. key[c] \in Names /\ "set" \in Origins
    BY <1>9 DEF GetDelete, TTLTypeOK, Origins
  <2> QED
    BY <1>9, <2>1, StringsType, FinishType DEF GetDelete, TTLTypeOK
<1>10. ASSUME NEW g \in Goroutines, Wake(g) PROVE TTLTypeOK'
  <2>1. asleep[g].key \in Names /\ "set" \in Origins
    BY <1>10 DEF Wake, TTLTypeOK, Origins
  <2>2. /\ cache' \in [Names -> Origins \union {Nothing}]
        /\ expiry' \in [Names -> Instants \union {Nothing}]
        /\ fromFile' \in SUBSET Names
    BY <1>10, <2>1, StringsType DEF Wake, TTLTypeOK
  <2>3. asleep' \in [Goroutines -> [key : Names, left : Nat] \union {Nothing}]
    BY <1>10 DEF Wake, TTLTypeOK
  <2> QED
    BY <1>10, <2>2, <2>3 DEF Wake, TTLTypeOK
<1>11. CASE UNCHANGED ttlVars
  BY <1>11 DEF ttlVars, TTLTypeOK
<1> QED
  BY <1>1, <1>2, <1>3, <1>4, <1>5, <1>6, <1>7, <1>8, <1>9, <1>10, <1>11
     DEF TTLNext, Client, SetOrGet

\* The variables have their types: no instant, pause or place of a handler is ever
\* outside the range the handlers of storage.go allow for.
THEOREM ExpiryTypeCorrect == TTLSpec => []TTLTypeOK
BY ExpiryTypeInit, ExpiryTypeStep, PTL DEF TTLSpec

-------------------------------------------------------------------------------
(* Goroutines and instants of expiry.                                      *)

\* A deletion leaves nothing of k to attend to, and a step that leaves the rest
\* of the Store, the goroutines and the SETs of other keys alone disturbs nothing.
LEMMA AttendedStays ==
  ASSUME NEW k \in Names, Attended(k), expiry'[k] = expiry[k],
         \A g \in Goroutines : asleep[g] # Nothing /\ asleep[g].key = k => asleep'[g] = asleep[g],
         \A c \in Conns : at[c] = "spawn" => at'[c] = "spawn" /\ key'[c] = key[c] /\ left'[c] = left[c]
  PROVE  Attended(k)'
BY DEF Attended

LEMMA AttendedInit == TTLInit => EveryTTLIsAttended
BY DEF TTLInit, EveryTTLIsAttended

LEMMA AttendedStep == TTLTypeOK /\ EveryTTLIsAttended /\ [TTLNext]_ttlVars => EveryTTLIsAttended'
<1> SUFFICES ASSUME TTLTypeOK, EveryTTLIsAttended, [TTLNext]_ttlVars,
                    NEW k \in Names, k \notin fromFile', expiry'[k] # Nothing
             PROVE  Attended(k)'
  BY DEF EveryTTLIsAttended
<1>1. CASE Tick
  <2>1. expiry[k] # Nothing /\ expiry[k] \in Instants /\ expiry'[k] = Later(expiry[k])
    BY <1>1 DEF Tick, TTLTypeOK, Later
  <2>2. Attended(k)
    BY <1>1, <2>1 DEF EveryTTLIsAttended, Tick
  <2>3. ASSUME NEW g \in Goroutines, asleep[g] # Nothing, asleep[g].key = k, asleep[g].left >= expiry[k]
        PROVE  asleep'[g] # Nothing /\ asleep'[g].key = k /\ asleep'[g].left >= expiry'[k]
    <3>1. asleep[g] \in [key : Names, left : Nat] /\ asleep[g].left \in Int
      BY <2>3 DEF TTLTypeOK
    <3>2. asleep'[g] = [asleep[g] EXCEPT !.left = Pause(@ - 1)]
      BY <1>1, <2>3 DEF Tick
    <3>3. /\ asleep'[g] \in [key : Names, left : Nat]
          /\ asleep'[g].key = k /\ asleep'[g].left = Pause(asleep[g].left - 1)
      BY <2>3, <3>1, <3>2, PauseType
    <3> QED
      BY <2>1, <2>3, <3>1, <3>3, LaterIsMonotonic
  <2>4. ASSUME NEW c \in Conns, at[c] = "spawn", key[c] = k, Pause(left[c]) >= expiry[k]
        PROVE  at'[c] = "spawn" /\ key'[c] = k /\ Pause(left'[c]) >= expiry'[k]
    <3>1. Pause(left[c]) \in Int
      BY <2>4, PauseType DEF TTLTypeOK
    <3>2. left'[c] = left[c] /\ at' = at /\ key' = key
      BY <1>1, <2>4 DEF Tick, TTLTypeOK
    <3> QED
      BY <2>1, <2>4, <3>1, <3>2, LaterIsMonotonic
  <2> QED
    BY <2>2, <2>3, <2>4 DEF Attended
<1>2. ASSUME NEW c \in Conns, Set(c) \/ SetPX(c) PROVE Attended(k)'
  <2>1. PICK k2 \in Names : Store(k2, "set") \/ Store(k2, "setpx")
    BY <1>2 DEF Set, SetPX
  <2>2. k # k2 /\ expiry'[k] = expiry[k] /\ k \notin fromFile
    BY <2>1 DEF Store, TTLTypeOK
  <2>3. /\ asleep' = asleep
        /\ \A d \in Conns : at[d] = "spawn" => at'[d] = "spawn" /\ key'[d] = key[d] /\ left'[d] = left[d]
    BY <1>2 DEF Set, SetPX, Take, Move, TTLTypeOK
  <2> QED
    BY <2>2, <2>3, AttendedStays DEF EveryTTLIsAttended
<1>3. ASSUME NEW c \in Conns, GetRead(c) \/ GetClock(c) \/ Incr(c) PROVE Attended(k)'
  <2>1. /\ expiry' = expiry /\ fromFile' = fromFile /\ asleep' = asleep
        /\ \A d \in Conns : at[d] = "spawn" => at'[d] = "spawn" /\ key'[d] = key[d] /\ left'[d] = left[d]
    BY <1>3 DEF GetRead, GetClock, Incr, Take, Move, Finish, TTLTypeOK
  <2> QED
    BY <2>1, AttendedStays DEF EveryTTLIsAttended
<1>4. ASSUME NEW c \in Conns, SetExpiry(c) PROVE Attended(k)'
  <2>1. CASE k = key[c]
    <3>1. left[c] \in Int /\ expiry'[k] = Clip(left[c])
      BY <1>4, <2>1 DEF SetExpiry, TTLTypeOK
    <3>2. at'[c] = "spawn" /\ key'[c] = k /\ left'[c] = left[c]
      BY <1>4, <2>1 DEF SetExpiry, Move, TTLTypeOK
    <3> QED
      BY <3>1, <3>2, ClipType, PauseType DEF Attended
  <2>2. CASE k # key[c]
    <3>1. expiry'[k] = expiry[k] /\ k \notin fromFile
      BY <1>4, <2>2 DEF SetExpiry, TTLTypeOK
    <3>2. /\ asleep' = asleep
          /\ \A d \in Conns : at[d] = "spawn" => at'[d] = "spawn" /\ key'[d] = key[d] /\ left'[d] = left[d]
      BY <1>4 DEF SetExpiry, Move, TTLTypeOK
    <3> QED
      BY <3>1, <3>2, AttendedStays DEF EveryTTLIsAttended
  <2> QED
    BY <2>1, <2>2
<1>5. ASSUME NEW c \in Conns, Spawn(c) PROVE Attended(k)'
  <2>1. PICK g \in Goroutines :
          asleep[g] = Nothing /\ asleep' = [asleep EXCEPT ![g] = [key |-> key[c], left |-> Pause(left[c])]]
    BY <1>5 DEF Spawn
  <2>2. /\ expiry' = expiry /\ fromFile' = fromFile /\ at[c] = "spawn"
        /\ \A d \in Conns \ {c} : at'[d] = at[d] /\ key'[d] = key[d] /\ left'[d] = left[d]
    BY <1>5 DEF Spawn, Finish, Move, TTLTypeOK
  <2>3. Attended(k)
    BY <2>2 DEF EveryTTLIsAttended
  <2>4. ASSUME NEW h \in Goroutines, asleep[h] # Nothing, asleep[h].key = k, asleep[h].left >= expiry[k]
        PROVE  Attended(k)'
    BY <2>1, <2>2, <2>4 DEF Attended, TTLTypeOK
  <2>5. ASSUME NEW d \in Conns, at[d] = "spawn", key[d] = k, Pause(left[d]) >= expiry[k]
        PROVE  Attended(k)'
    <3>1. CASE d = c
      <4>1. asleep'[g] = [key |-> k, left |-> Pause(left[c])]
        BY <2>1, <2>5, <3>1 DEF TTLTypeOK
      <4>2. asleep'[g] \in [key : Names, left : Nat]
        BY <2>2, <4>1, PauseType DEF TTLTypeOK
      <4> QED
        BY <2>2, <2>5, <3>1, <4>1, <4>2 DEF Attended
    <3>2. CASE d # c
      BY <2>2, <2>5, <3>2 DEF Attended
    <3> QED
      BY <3>1, <3>2
  <2> QED
    BY <2>3, <2>4, <2>5 DEF Attended
<1>6. ASSUME NEW c \in Conns, GetDelete(c) PROVE Attended(k)'
  <2>1. k # key[c] /\ expiry'[k] = expiry[k] /\ k \notin fromFile
    BY <1>6 DEF GetDelete, Drop, TTLTypeOK
  <2>2. /\ asleep' = asleep
        /\ \A d \in Conns : at[d] = "spawn" => at'[d] = "spawn" /\ key'[d] = key[d] /\ left'[d] = left[d]
    BY <1>6 DEF GetDelete, Finish, Move, TTLTypeOK
  <2> QED
    BY <2>1, <2>2, AttendedStays DEF EveryTTLIsAttended
<1>7. ASSUME NEW g \in Goroutines, Wake(g) PROVE Attended(k)'
  <2>1. /\ asleep[g] # Nothing /\ asleep[g].left = 0
        /\ \A h \in Goroutines \ {g} : asleep'[h] = asleep[h]
        /\ at' = at /\ key' = key /\ left' = left
    BY <1>7 DEF Wake, TTLTypeOK
  <2>2. expiry'[k] = expiry[k] /\ k \notin fromFile
    BY <1>7 DEF Wake, Drop, TTLTypeOK
  <2>3. Attended(k) /\ expiry[k] # Nothing /\ expiry[k] \in Int
    BY <2>2 DEF EveryTTLIsAttended, TTLTypeOK, Instants
  <2>4. ~(asleep[g].key = k /\ asleep[g].left >= expiry[k])
    \* If it was g that attended to k, g has found the instant reached and deleted k.
    <3> SUFFICES ASSUME asleep[g].key = k, asleep[g].left >= expiry[k] PROVE FALSE
      OBVIOUS
    <3>1. expiry[k] <= 0
      BY <2>1, <2>3
    <3>2. expiry' = [expiry EXCEPT ![k] = Nothing]
      BY <1>7, <2>3, <3>1 DEF Wake, Drop
    <3> QED
      BY <3>2 DEF TTLTypeOK
  <2>5. ASSUME NEW h \in Goroutines, asleep[h] # Nothing, asleep[h].key = k, asleep[h].left >= expiry[k]
        PROVE  Attended(k)'
    BY <2>1, <2>2, <2>4, <2>5 DEF Attended
  <2>6. ASSUME NEW d \in Conns, at[d] = "spawn", key[d] = k, Pause(left[d]) >= expiry[k]
        PROVE  Attended(k)'
    BY <2>1, <2>2, <2>6 DEF Attended
  <2> QED
    BY <2>3, <2>5, <2>6 DEF Attended
<1>8. CASE UNCHANGED ttlVars
  BY <1>8 DEF ttlVars, EveryTTLIsAttended, Attended
<1> QED
  BY <1>1, <1>2, <1>3, <1>4, <1>5, <1>6, <1>7, <1>8 DEF TTLNext, Client, SetOrGet

\* Whatever SETs, GETs, INCRs and goroutines overlap, the instant of expiry that a
\* SET leaves behind is one some goroutine of SetWithTTL will find reached.
THEOREM EveryTTLHasAGoroutine == TTLSpec => []EveryTTLIsAttended
<1>1. TTLSpec => []TTLTypeOK
  BY ExpiryTypeCorrect
<1> QED
  BY <1>1, AttendedInit, AttendedStep, PTL DEF TTLSpec

\* No SET, INCR or goroutine of an earlier SET takes a value away before the instant of
\* expiry stored for its key: only a GET that had found the key expired may.
THEOREM OnlyTheExpiredGo == TTLSpec => GoesWhenExpired
<1>1. ASSUME TTLTypeOK, [TTLNext]_ttlVars, NEW k \in Names, cache[k] # Nothing, cache'[k] = Nothing
      PROVE  \/ expiry[k] # Nothing /\ expiry[k] <= 0
             \/ \E c \in Conns : at[c] = "delete" /\ key[c] = k
  <2>1. CASE Tick \/ (\E c \in Conns : GetRead(c) \/ SetExpiry(c) \/ Spawn(c) \/ GetClock(c)) \/ UNCHANGED ttlVars
    BY <1>1, <2>1 DEF Tick, GetRead, SetExpiry, Spawn, GetClock, ttlVars
  <2>2. ASSUME NEW c \in Conns, Set(c) \/ SetPX(c) \/ Incr(c) PROVE FALSE
    <3>1. "set" # Nothing /\ "setpx" # Nothing /\ "incr" # Nothing
      BY DEF Origins
    <3> QED
      BY <1>1, <2>2, <3>1 DEF Set, SetPX, Incr, Store, TTLTypeOK
  <2>3. ASSUME NEW c \in Conns, GetDelete(c) PROVE at[c] = "delete" /\ key[c] = k
    BY <1>1, <2>3 DEF GetDelete, Drop, TTLTypeOK
  <2>4. ASSUME NEW g \in Goroutines, Wake(g) PROVE expiry[k] # Nothing /\ expiry[k] <= 0
    BY <1>1, <2>4 DEF Wake, Drop, TTLTypeOK
  <2> QED
    BY <1>1, <2>1, <2>2, <2>3, <2>4 DEF TTLNext, Client, SetOrGet
<1>2. TTLTypeOK /\ [TTLNext]_ttlVars =>
        [\A k \in Names : cache[k] # Nothing /\ cache'[k] = Nothing =>
           \/ expiry[k] # Nothing /\ expiry[k] <= 0
           \/ \E c \in Conns : at[c] = "delete" /\ key[c] = k]_ttlVars
  BY <1>1
<1> QED
  BY <1>2, ExpiryTypeCorrect, PTL DEF TTLSpec, GoesWhenExpired

-------------------------------------------------------------------------------
(* The replicas.                                                           *)

WriteMsg(v, n) == [kind |-> "write", val |-> v, at |-> n]
GetackMsg(n)   == [kind |-> "getack", at |-> n]

\* Of the queue of a replica that is not connected nothing is left.
Ends == \A r \in Replicas :
  /\ state[r] # "up" => link[r] = <<>>
  /\ state[r] = "new" => acks[r] = <<>> /\ offset[r] = 0 /\ pos[r] = joined[r]

Offsets ==
  /\ masterOffset = WriteSize * Len(log)
  /\ \A x \in Waiters : wait[x] # Nil => wait[x].target = WriteSize * wait[x].mark

\* An answer leaves out at least the GETACK it answers.
True(bytes, off, a) == bytes >= AckSize /\ a <= off - AckSize

Answers == \A r \in Replicas :
  /\ AckBytes(r) >= 0
  /\ \A i \in 1 .. Len(acks[r]) : True(AckBytes(r), offset[r], acks[r][i])
  /\ recorded[r] # Nil => True(AckBytes(r), offset[r], recorded[r])

ReplInv == ReplTypeOK /\ LinksCarryTheLog /\ Ends /\ Offsets /\ Answers

-------------------------------------------------------------------------------
(* Queues.                                                                 *)

\* propagate appends the same write to the log and to a queue that leads to its end.
LEMMA CarriesWrite ==
  ASSUME NEW q \in Seq(Messages), NEW p \in Nat, NEW l \in Seq(Values), NEW v \in Values,
         Carries(q, p, l)
  PROVE  Carries(Append(q, WriteMsg(v, Len(l) + 1)), p, Append(l, v))
<1> DEFINE m  == WriteMsg(v, Len(l) + 1)
           q2 == Append(q, m)
           l2 == Append(l, v)
<1>1. m \in Messages /\ m.kind = "write" /\ m.at = Len(l) + 1 /\ m.val = v
  BY DEF WriteMsg, Messages
<1>2. /\ q2 \in Seq(Messages) /\ Len(q2) = Len(q) + 1 /\ q2[Len(q) + 1] = m
      /\ \A i \in 1 .. Len(q) : q2[i] = q[i]
  BY <1>1
<1>3. /\ Len(l2) = Len(l) + 1 /\ l2[Len(l) + 1] = v
      /\ \A i \in 1 .. Len(l) : l2[i] = l[i]
  OBVIOUS
<1>4. Len(q) \in Nat /\ Len(l) \in Nat /\ \A i \in 1 .. Len(q) : q[i] \in Messages /\ q[i].at \in Nat
  BY DEF Messages
<1>5. q2 # <<>> /\ q2[1].at = p + Step(q2[1]) /\ q2[Len(q2)].at = Len(l2)
  <2>1. CASE q = <<>>
    BY <2>1, <1>1, <1>2, <1>3, <1>4 DEF Carries, Step
  <2>2. CASE q # <<>>
    <3>1. Len(q) >= 1 /\ q2[1] = q[1]  BY <2>2, <1>2, <1>4
    <3>2. q[1].at = p + Step(q[1])     BY <2>2 DEF Carries
    <3> QED  BY <3>1, <3>2, <1>1, <1>2, <1>3, <1>4
  <2> QED  BY <2>1, <2>2
<1>6. \A i \in 1 .. Len(q2) - 1 : q2[i + 1].at = q2[i].at + Step(q2[i + 1])
  <2> SUFFICES ASSUME NEW i \in 1 .. Len(q) PROVE q2[i + 1].at = q2[i].at + Step(q2[i + 1])
    BY <1>2, <1>4
  <2>1. CASE i = Len(q)
    <3>1. q # <<>> /\ q[i].at = Len(l)  BY <2>1, <1>4 DEF Carries
    <3> QED  BY <3>1, <2>1, <1>1, <1>2, <1>4 DEF Step
  <2>2. CASE i < Len(q)
    <3>1. q2[i + 1] = q[i + 1] /\ q2[i] = q[i]  BY <2>2, <1>2, <1>4
    <3>2. i \in 1 .. Len(q) - 1                 BY <2>2, <1>4
    <3> QED  BY <3>1, <3>2 DEF Carries
  <2> QED  BY <2>1, <2>2, <1>4
<1>7. \A i \in 1 .. Len(q2) :
        /\ q2[i].at <= Len(l2)
        /\ q2[i].kind = "write" => q2[i].at > 0 /\ q2[i].val = l2[q2[i].at]
  <2> SUFFICES ASSUME NEW i \in 1 .. Len(q2)
               PROVE  /\ q2[i].at <= Len(l2)
                      /\ q2[i].kind = "write" => q2[i].at > 0 /\ q2[i].val = l2[q2[i].at]
    OBVIOUS
  <2>1. CASE i = Len(q) + 1  BY <2>1, <1>1, <1>2, <1>3, <1>4
  <2>2. CASE i \in 1 .. Len(q)
    <3>1. /\ q[i].at <= Len(l)
          /\ q[i].kind = "write" => q[i].at > 0 /\ q[i].val = l[q[i].at]
      BY <2>2 DEF Carries
    <3> QED  BY <3>1, <2>2, <1>2, <1>3, <1>4
  <2>3. i = Len(q) + 1 \/ i \in 1 .. Len(q)  BY <1>2, <1>4
  <2> QED  BY <2>1, <2>2, <2>3
<1> QED  BY <1>5, <1>6, <1>7 DEF Carries

\* A GETACK at the end of a queue changes nothing for the writes in it.
LEMMA CarriesGetack ==
  ASSUME NEW q \in Seq(Messages), NEW p \in Nat, NEW l \in Seq(Values), Carries(q, p, l)
  PROVE  Carries(Append(q, GetackMsg(Len(l))), p, l)
<1> DEFINE m  == GetackMsg(Len(l))
           q2 == Append(q, m)
<1>1. m \in Messages /\ m.kind = "getack" /\ m.at = Len(l)
  BY DEF GetackMsg, Messages
<1>2. /\ q2 \in Seq(Messages) /\ Len(q2) = Len(q) + 1 /\ q2[Len(q) + 1] = m
      /\ \A i \in 1 .. Len(q) : q2[i] = q[i]
  BY <1>1
<1>3. Len(q) \in Nat /\ Len(l) \in Nat /\ \A i \in 1 .. Len(q) : q[i] \in Messages /\ q[i].at \in Nat
  BY DEF Messages
<1>4. q2 # <<>> /\ q2[1].at = p + Step(q2[1]) /\ q2[Len(q2)].at = Len(l)
  <2>1. CASE q = <<>>
    BY <2>1, <1>1, <1>2, <1>3 DEF Carries, Step
  <2>2. CASE q # <<>>
    <3>1. Len(q) >= 1 /\ q2[1] = q[1]  BY <2>2, <1>2, <1>3
    <3>2. q[1].at = p + Step(q[1])     BY <2>2 DEF Carries
    <3> QED  BY <3>1, <3>2, <1>1, <1>2, <1>3
  <2> QED  BY <2>1, <2>2
<1>5. \A i \in 1 .. Len(q2) - 1 : q2[i + 1].at = q2[i].at + Step(q2[i + 1])
  <2> SUFFICES ASSUME NEW i \in 1 .. Len(q) PROVE q2[i + 1].at = q2[i].at + Step(q2[i + 1])
    BY <1>2, <1>3
  <2>1. CASE i = Len(q)
    <3>1. q # <<>> /\ q[i].at = Len(l)  BY <2>1, <1>3 DEF Carries
    <3> QED  BY <3>1, <2>1, <1>1, <1>2, <1>3 DEF Step
  <2>2. CASE i < Len(q)
    <3>1. q2[i + 1] = q[i + 1] /\ q2[i] = q[i]  BY <2>2, <1>2, <1>3
    <3>2. i \in 1 .. Len(q) - 1                 BY <2>2, <1>3
    <3> QED  BY <3>1, <3>2 DEF Carries
  <2> QED  BY <2>1, <2>2, <1>3
<1>6. \A i \in 1 .. Len(q2) :
        /\ q2[i].at <= Len(l)
        /\ q2[i].kind = "write" => q2[i].at > 0 /\ q2[i].val = l[q2[i].at]
  BY <1>1, <1>2, <1>3 DEF Carries
<1> QED  BY <1>4, <1>5, <1>6 DEF Carries

\* A replica that takes the first message of its queue advances by what it took.
LEMMA CarriesTail ==
  ASSUME NEW q \in Seq(Messages), NEW p \in Nat, NEW l \in Seq(Values), q # <<>>, Carries(q, p, l)
  PROVE  Carries(Tail(q), p + Step(Head(q)), l)
<1> DEFINE t == Tail(q)
<1>1. /\ Len(q) \in Nat /\ Len(q) >= 1 /\ Len(t) = Len(q) - 1 /\ Head(q) = q[1]
      /\ t \in Seq(Messages) /\ \A i \in 1 .. Len(t) : t[i] = q[i + 1]
  OBVIOUS
<1>2. q[1].at = p + Step(q[1]) /\ q[Len(q)].at = Len(l)
  BY DEF Carries
<1>3. \A i \in 1 .. Len(q) - 1 : q[i + 1].at = q[i].at + Step(q[i + 1])
  BY DEF Carries
<1>4. IF t = <<>> THEN p + Step(Head(q)) = Len(l)
      ELSE t[1].at = p + Step(Head(q)) + Step(t[1]) /\ t[Len(t)].at = Len(l)
  <2>1. CASE t = <<>>
    <3> HIDE DEF t
    <3>1. Len(t) = 0  BY <2>1
    <3>2. Len(q) = 1  BY <3>1, <1>1
    <3> QED  BY <3>2, <2>1, <1>1, <1>2
  <2>2. CASE t # <<>>
    <3>1. Len(t) >= 1 /\ t[1] = q[2] /\ t[Len(t)] = q[Len(q)]  BY <2>2, <1>1
    <3>2. 1 \in 1 .. Len(q) - 1                                BY <3>1, <1>1
    <3>3. q[2].at = q[1].at + Step(q[2])                       BY <3>2, <1>3
    <3> QED  BY <3>1, <3>3, <2>2, <1>1, <1>2
  <2> QED  BY <2>1, <2>2
<1>5. \A i \in 1 .. Len(t) - 1 : t[i + 1].at = t[i].at + Step(t[i + 1])
  <2> SUFFICES ASSUME NEW i \in 1 .. Len(t) - 1 PROVE t[i + 1].at = t[i].at + Step(t[i + 1])
    OBVIOUS
  <2>1. i + 1 \in 1 .. Len(q) - 1 /\ t[i] = q[i + 1] /\ t[i + 1] = q[(i + 1) + 1]
    BY <1>1
  <2> QED  BY <2>1, <1>3
<1>6. \A i \in 1 .. Len(t) :
        /\ t[i].at <= Len(l)
        /\ t[i].kind = "write" => t[i].at > 0 /\ t[i].val = l[t[i].at]
  BY <1>1 DEF Carries
<1> QED  BY <1>4, <1>5, <1>6 DEF Carries

-------------------------------------------------------------------------------
(* The inductive invariant.                                                *)

LEMMA OneMoreWrite == \A a, b \in Int : WriteSize * (a + 1 - b) = WriteSize * (a - b) + WriteSize
BY SizeAssumption

\* The first message of a queue, and what a queue is without it.
LEMMA FirstMessage ==
  ASSUME ReplTypeOK, NEW r \in Replicas, link[r] # <<>>
  PROVE  /\ Head(link[r]) \in Messages /\ Head(link[r]) = link[r][1] /\ Tail(link[r]) \in Seq(Messages)
         /\ Head(link[r]).at \in Nat
         /\ Head(link[r]).kind = "write" => Head(link[r]).val \in Values
         /\ Head(link[r]).kind # "write" => Head(link[r]).kind = "getack"
<1>1. link[r] \in Seq(Messages)
  BY DEF ReplTypeOK
<1>2. Head(link[r]) \in Messages /\ Head(link[r]) = link[r][1] /\ Tail(link[r]) \in Seq(Messages)
  BY <1>1
<1> QED  BY <1>2 DEF Messages

LEMMA ReplInitInv == ReplInit => ReplInv
<1> SUFFICES ASSUME ReplInit PROVE ReplInv
  OBVIOUS
<1>1. ReplTypeOK
  BY NilAssumption DEF ReplInit, ReplTypeOK
<1>2. LinksCarryTheLog
  BY DEF ReplInit, LinksCarryTheLog
<1>3. Ends
  BY DEF ReplInit, Ends
<1>4. Offsets
  BY SizeAssumption DEF ReplInit, Offsets
<1>5. Answers
  <2>1. \A r \in Replicas : AckBytes(r) = 0
    BY SizeAssumption DEF ReplInit, AckBytes, WriteBytes
  <2> QED  BY <2>1 DEF ReplInit, Answers
<1> QED  BY <1>1, <1>2, <1>3, <1>4, <1>5 DEF ReplInv

\* A write enters the log and all the queues at once.
LEMMA PropagateInv ==
  ASSUME ReplInv, NEW v \in Values, Propagate(v)
  PROVE  ReplInv'
<1> USE DEF Propagate
<1> DEFINE m == WriteMsg(v, Len(log) + 1)
<1>1. ReplTypeOK
  BY DEF ReplInv
<1>2. m \in Messages /\ log \in Seq(Values) /\ Len(log) \in Nat
  BY <1>1 DEF WriteMsg, Messages, ReplTypeOK
<1>3. link' = [r \in Replicas |-> IF state[r] = "up" THEN Append(link[r], m) ELSE link[r]]
  BY <1>1 DEF Send, WriteMsg, ReplTypeOK
<1>4. ReplTypeOK'
  <2>1. link' \in [Replicas -> Seq(Messages)]
    BY <1>1, <1>2, <1>3 DEF ReplTypeOK
  <2>2. masterOffset' \in Nat /\ log' \in Seq(Values)
    BY <1>1, SizeAssumption DEF ReplTypeOK
  <2> QED  BY <1>1, <2>1, <2>2 DEF ReplTypeOK
<1>5. LinksCarryTheLog'
  <2> SUFFICES ASSUME NEW r \in Replicas, state[r] = "up"
               PROVE  Carries(Append(link[r], m), pos[r], Append(log, v))
    BY <1>3 DEF LinksCarryTheLog
  <2>1. Carries(link[r], pos[r], log) /\ link[r] \in Seq(Messages) /\ pos[r] \in Nat
    BY <1>1 DEF ReplInv, LinksCarryTheLog, ReplTypeOK
  <2> QED  BY <2>1, <1>2, CarriesWrite
<1>6. Ends'
  BY <1>3 DEF ReplInv, Ends
<1>7. Offsets'
  <2>1. Len(log') = Len(log) + 1 /\ masterOffset = WriteSize * Len(log)
    BY <1>2 DEF ReplInv, Offsets
  <2>2. masterOffset' = WriteSize * Len(log')
    BY <2>1, <1>2, SizeAssumption
  <2> QED  BY <2>2 DEF ReplInv, Offsets
<1>8. Answers'
  BY DEF ReplInv, Answers, True, AckBytes, WriteBytes
<1> QED  BY <1>4, <1>5, <1>6, <1>7, <1>8 DEF ReplInv

\* A replica joins at the end of the log, with an empty queue.
LEMMA JoinInv ==
  ASSUME ReplInv, NEW r \in Replicas, Join(r)
  PROVE  ReplInv'
<1> USE DEF Join
<1>1. ReplTypeOK /\ link[r] = <<>> /\ acks[r] = <<>> /\ offset[r] = 0
  BY DEF ReplInv, Ends
<1>2. ReplTypeOK'
  BY <1>1 DEF ReplTypeOK
<1>3. LinksCarryTheLog'
  <2> SUFFICES ASSUME NEW s \in Replicas, state'[s] = "up"
               PROVE  Carries(link[s], pos'[s], log)
    BY DEF LinksCarryTheLog
  <2>1. CASE s = r
    <3>1. pos'[s] = Len(log) /\ link[s] = <<>>  BY <2>1, <1>1 DEF ReplTypeOK
    <3> QED  BY <3>1 DEF Carries
  <2>2. CASE s # r
    BY <2>2, <1>1 DEF ReplInv, LinksCarryTheLog, ReplTypeOK
  <2> QED  BY <2>1, <2>2
<1>4. Ends'
  BY <1>1 DEF ReplInv, Ends, ReplTypeOK
<1>5. Offsets'
  BY DEF ReplInv, Offsets
<1>6. Answers'
  <2>1. \A s \in Replicas : AckBytes(s)' = AckBytes(s)
    <3> SUFFICES ASSUME NEW s \in Replicas PROVE AckBytes(s)' = AckBytes(s)
      OBVIOUS
    <3>1. CASE s = r
      <4>1. pos'[s] - joined'[s] = 0 /\ pos[s] - joined[s] = 0
        BY <3>1, <1>1 DEF ReplInv, Ends, ReplTypeOK
      <4> QED  BY <4>1 DEF AckBytes, WriteBytes
    <3>2. CASE s # r
      BY <3>2, <1>1 DEF AckBytes, WriteBytes, ReplTypeOK
    <3> QED  BY <3>1, <3>2
  <2> QED  BY <2>1 DEF ReplInv, Answers, True
<1> QED  BY <1>2, <1>3, <1>4, <1>5, <1>6 DEF ReplInv

\* A replica takes a write from its queue.
LEMMA ReceiveWriteInv ==
  ASSUME ReplInv, NEW r \in Replicas, ReceiveWrite(r)
  PROVE  ReplInv' /\ pos[r] < Len(log) /\ pos' = [pos EXCEPT ![r] = @ + 1]
               /\ copy' = [copy EXCEPT ![r] = log[pos[r] + 1]]
<1> USE DEF ReceiveWrite, master
<1> DEFINE m == Head(link[r])
<1>1. ReplTypeOK /\ Carries(link[r], pos[r], log) /\ link[r] \in Seq(Messages)
  BY DEF ReplInv, LinksCarryTheLog, ReplTypeOK
<1>2. m = link[r][1] /\ m.at \in Nat /\ m.val \in Values /\ m.kind = "write"
      /\ Tail(link[r]) \in Seq(Messages)
  BY <1>1, FirstMessage
<1>3. m.at = pos[r] + 1 /\ m.at <= Len(log) /\ m.val = log[pos[r] + 1] /\ Step(m) = 1
  <2>1. Step(m) = 1                    BY <1>2 DEF Step
  <2>2. m.at = pos[r] + 1              BY <1>1, <1>2, <2>1 DEF Carries
  <2>3. 1 \in 1 .. Len(link[r])        BY <1>1
  <2>4. m.at <= Len(log) /\ m.val = log[m.at]
    BY <1>1, <1>2, <2>3 DEF Carries
  <2> QED  BY <2>1, <2>2, <2>4
<1>4. ReplTypeOK'
  BY <1>1, <1>2, SizeAssumption, SMTT(30) DEF ReplTypeOK
<1>5. LinksCarryTheLog'
  <2> SUFFICES ASSUME NEW s \in Replicas, state[s] = "up"
               PROVE  Carries(link'[s], pos'[s], log)
    BY DEF LinksCarryTheLog
  <2>1. CASE s = r
    <3>1. link'[s] = Tail(link[r]) /\ pos'[s] = pos[r] + Step(Head(link[r]))
      BY <2>1, <1>1, <1>3 DEF ReplTypeOK
    <3>2. pos[r] \in Nat /\ log \in Seq(Values)  BY <1>1 DEF ReplTypeOK
    <3> QED  BY <3>1, <3>2, <1>1, CarriesTail
  <2>2. CASE s # r
    BY <2>2, <1>1 DEF ReplInv, LinksCarryTheLog, ReplTypeOK
  <2> QED  BY <2>1, <2>2
<1>6. Ends'
  BY <1>1 DEF ReplInv, Ends, ReplTypeOK
<1>7. Offsets'
  BY DEF ReplInv, Offsets
<1>8. Answers'
  <2>1. \A s \in Replicas : AckBytes(s)' = AckBytes(s) /\ offset'[s] >= offset[s]
    <3> SUFFICES ASSUME NEW s \in Replicas PROVE AckBytes(s)' = AckBytes(s) /\ offset'[s] >= offset[s]
      OBVIOUS
    <3>1. CASE s = r
      <4>1. pos'[s] = pos[r] + 1 /\ offset'[s] = offset[r] + WriteSize /\ joined'[s] = joined[r]
        BY <3>1, <1>1, <1>3 DEF ReplTypeOK
      <4>2. pos[r] \in Int /\ joined[r] \in Int /\ offset[r] \in Int /\ WriteSize \in Nat
        BY <1>1, SizeAssumption DEF ReplTypeOK
      <4>3. WriteSize * (pos[r] + 1 - joined[r]) = WriteSize * (pos[r] - joined[r]) + WriteSize
        BY <4>2, OneMoreWrite
      <4>4. WriteSize * (pos[r] - joined[r]) \in Int
        BY <4>2
      <4> QED  BY <3>1, <4>1, <4>2, <4>3, <4>4, SMTT(30) DEF AckBytes, WriteBytes
    <3>2. CASE s # r
      BY <3>2, <1>1 DEF AckBytes, WriteBytes, ReplTypeOK
    <3> QED  BY <3>1, <3>2
  <2>2. \A s \in Replicas, a \in Nat : True(AckBytes(s), offset[s], a) => True(AckBytes(s)', offset'[s], a)
    <3>1. AckSize \in Int /\ \A s \in Replicas : offset[s] \in Int /\ offset'[s] \in Int
      BY <1>1, <1>4, SizeAssumption DEF ReplTypeOK
    <3>2. ASSUME NEW s \in Replicas, NEW a \in Nat, True(AckBytes(s), offset[s], a)
          PROVE  AckBytes(s)' >= AckSize /\ a <= offset'[s] - AckSize
      <4>1. AckBytes(s)' = AckBytes(s) /\ offset'[s] >= offset[s]
        BY <2>1
      <4>2. AckBytes(s) >= AckSize /\ a <= offset[s] - AckSize
        BY <3>2 DEF True
      <4> QED  BY <3>1, <4>1, <4>2
    <3> QED  BY <3>2 DEF True
  <2>3. \A s \in Replicas : \A i \in 1 .. Len(acks[s]) : acks[s][i] \in Nat
    <3>1. \A s \in Replicas : acks[s] \in Seq(Nat)
      BY <1>1 DEF ReplTypeOK
    <3> HIDE DEF ReceiveWrite
    <3> QED  BY <3>1
  <2>4. \A s \in Replicas : recorded[s] # Nil => recorded[s] \in Nat
    BY <1>1 DEF ReplTypeOK
  <2> QED  BY <2>1, <2>2, <2>3, <2>4 DEF ReplInv, Answers
<1>9. ReplInv'
  BY <1>4, <1>5, <1>6, <1>7, <1>8 DEF ReplInv
<1>10. pos[r] < Len(log)
  BY <1>1, <1>3 DEF ReplTypeOK
<1>11. pos' = [pos EXCEPT ![r] = @ + 1] /\ copy' = [copy EXCEPT ![r] = log[pos[r] + 1]]
  BY <1>3
<1> QED  BY <1>9, <1>10, <1>11

\* A replica answers a GETACK.
LEMMA ReceiveGetackInv ==
  ASSUME ReplInv, NEW r \in Replicas, ReceiveGetack(r)
  PROVE  ReplInv'
<1> USE DEF ReceiveGetack, master
<1> DEFINE m == Head(link[r])
<1>1. ReplTypeOK /\ Carries(link[r], pos[r], log) /\ link[r] \in Seq(Messages)
  BY DEF ReplInv, LinksCarryTheLog, ReplTypeOK
<1>2. m.kind = "getack" /\ Tail(link[r]) \in Seq(Messages) /\ Step(m) = 0
  BY <1>1, FirstMessage DEF Step
<1>3. ReplTypeOK'
  <2>1. acks[r] \in Seq(Nat) /\ offset[r] \in Nat /\ offset[r] + AckSize \in Nat
    BY <1>1, SizeAssumption DEF ReplTypeOK
  <2>2. acks' \in [Replicas -> Seq(Nat)] /\ offset' \in [Replicas -> Nat]
    BY <2>1, <1>1 DEF ReplTypeOK
  <2> QED  BY <2>2, <1>1, <1>2 DEF ReplTypeOK
<1>4. LinksCarryTheLog'
  <2> SUFFICES ASSUME NEW s \in Replicas, state[s] = "up"
               PROVE  Carries(link'[s], pos[s], log)
    BY DEF LinksCarryTheLog
  <2>1. CASE s = r
    <3>1. link'[s] = Tail(link[r]) /\ pos[s] = pos[r] + Step(Head(link[r]))
      BY <2>1, <1>1, <1>2 DEF ReplTypeOK
    <3>2. pos[r] \in Nat /\ log \in Seq(Values)  BY <1>1 DEF ReplTypeOK
    <3> QED  BY <3>1, <3>2, <1>1, CarriesTail
  <2>2. CASE s # r
    BY <2>2, <1>1 DEF ReplInv, LinksCarryTheLog, ReplTypeOK
  <2> QED  BY <2>1, <2>2
<1>5. Ends'
  BY <1>1 DEF ReplInv, Ends, ReplTypeOK
<1>6. Offsets'
  BY DEF ReplInv, Offsets
<1>7. Answers'
  <2>1. \A s \in Replicas :
          /\ AckBytes(s) \in Int /\ AckBytes(s)' \in Int /\ AckBytes(s) >= 0 /\ AckBytes(s)' >= AckBytes(s)
          /\ offset[s] \in Nat /\ offset'[s] \in Nat /\ offset'[s] >= offset[s]
    <3>1. \A s \in Replicas : WriteSize * (pos[s] - joined[s]) \in Int
      BY <1>1, SizeAssumption DEF ReplTypeOK
    <3>2. \A s \in Replicas : offset'[s] \in Nat /\ offset[s] \in Nat /\ offset'[s] >= offset[s]
      BY <1>1, SizeAssumption DEF ReplTypeOK
    <3>3. \A s \in Replicas : AckBytes(s) >= 0
      BY DEF ReplInv, Answers
    <3> QED  BY <3>1, <3>2, <3>3 DEF AckBytes, WriteBytes
  <2>2. AckBytes(r)' = AckBytes(r) + AckSize
    BY <1>1, SizeAssumption DEF AckBytes, WriteBytes, ReplTypeOK
  <2>3. \A s \in Replicas, a \in Nat : True(AckBytes(s), offset[s], a) => True(AckBytes(s)', offset'[s], a)
    BY <2>1, SizeAssumption DEF True
  <2>4. True(AckBytes(r)', offset'[r], offset[r])
    BY <2>1, <2>2, <1>1, SizeAssumption DEF True, ReplTypeOK
  <2> SUFFICES ASSUME NEW s \in Replicas
               PROVE  /\ AckBytes(s)' >= 0
                      /\ \A i \in 1 .. Len(acks'[s]) : True(AckBytes(s)', offset'[s], acks'[s][i])
                      /\ recorded[s] # Nil => True(AckBytes(s)', offset'[s], recorded[s])
    BY DEF Answers
  <2>5. recorded[s] # Nil => True(AckBytes(s)', offset'[s], recorded[s])
    BY <2>3, <1>1 DEF ReplInv, Answers, ReplTypeOK
  <2>6. \A i \in 1 .. Len(acks'[s]) : True(AckBytes(s)', offset'[s], acks'[s][i])
    <3>1. acks[s] \in Seq(Nat) /\ \A i \in 1 .. Len(acks[s]) : True(AckBytes(s)', offset'[s], acks[s][i])
      <4>1. acks[s] \in Seq(Nat)
        BY <1>1 DEF ReplTypeOK
      <4>2. \A i \in 1 .. Len(acks[s]) : acks[s][i] \in Nat
        BY <4>1
      <4>3. \A i \in 1 .. Len(acks[s]) : True(AckBytes(s), offset[s], acks[s][i])
        BY DEF ReplInv, Answers
      <4> QED  BY <4>1, <4>2, <4>3, <2>3
    <3>2. CASE s = r
      <4>1. acks'[s] = Append(acks[r], offset[r]) /\ offset[r] \in Nat  BY <3>2, <1>1 DEF ReplTypeOK
      <4>2. /\ Len(acks'[s]) = Len(acks[r]) + 1 /\ acks'[s][Len(acks[r]) + 1] = offset[r]
            /\ \A i \in 1 .. Len(acks[r]) : acks'[s][i] = acks[r][i]
        BY <4>1, <3>1, <3>2
      <4> QED  BY <4>2, <3>1, <3>2, <2>4
    <3>3. CASE s # r
      BY <3>1, <3>3, <1>1 DEF ReplTypeOK
    <3> QED  BY <3>2, <3>3
  <2>7. AckBytes(s)' >= 0
    BY <2>1
  <2> QED  BY <2>5, <2>6, <2>7
<1> QED  BY <1>3, <1>4, <1>5, <1>6, <1>7 DEF ReplInv

\* The master records an answer.
LEMMA ReceiveAckInv ==
  ASSUME ReplInv, NEW r \in Replicas, ReceiveAck(r)
  PROVE  ReplInv'
<1> USE DEF ReceiveAck
<1>1. ReplTypeOK /\ acks[r] \in Seq(Nat)
  BY DEF ReplInv, ReplTypeOK
<1>2. Head(acks[r]) = acks[r][1] /\ Head(acks[r]) \in Nat /\ Tail(acks[r]) \in Seq(Nat)
  BY <1>1
<1>3. ReplTypeOK'
  BY <1>1, <1>2 DEF ReplTypeOK
<1>4. LinksCarryTheLog' /\ Ends' /\ Offsets'
  BY <1>1 DEF ReplInv, LinksCarryTheLog, Ends, Offsets, ReplTypeOK
<1>5. Answers'
  <2> SUFFICES ASSUME NEW s \in Replicas
               PROVE  /\ AckBytes(s) >= 0
                      /\ \A i \in 1 .. Len(acks'[s]) : True(AckBytes(s), offset[s], acks'[s][i])
                      /\ recorded'[s] # Nil => True(AckBytes(s), offset[s], recorded'[s])
    BY DEF Answers, AckBytes, WriteBytes
  <2>1. /\ AckBytes(s) >= 0
        /\ \A i \in 1 .. Len(acks[s]) : True(AckBytes(s), offset[s], acks[s][i])
        /\ recorded[s] # Nil => True(AckBytes(s), offset[s], recorded[s])
    BY DEF ReplInv, Answers
  <2>2. CASE s = r
    <3>1. acks'[s] = Tail(acks[s]) /\ recorded'[s] = acks[s][1]  BY <2>2, <1>1, <1>2 DEF ReplTypeOK
    <3>2. 1 \in 1 .. Len(acks[s])                                BY <2>2, <1>1
    <3>3. \A i \in 1 .. Len(Tail(acks[s])) : Tail(acks[s])[i] = acks[s][i + 1] /\ i + 1 \in 1 .. Len(acks[s])
      BY <2>2, <1>1
    <3> QED  BY <3>1, <3>2, <3>3, <2>1
  <2>3. CASE s # r
    BY <2>1, <2>3, <1>1 DEF ReplTypeOK
  <2> QED  BY <2>2, <2>3
<1> QED  BY <1>3, <1>4, <1>5 DEF ReplInv

\* A connection breaks.
LEMMA CutInv ==
  ASSUME ReplInv, NEW r \in Replicas, Cut(r)
  PROVE  ReplInv'
<1> USE DEF Cut, master
<1>1. ReplTypeOK
  BY DEF ReplInv
<1>2. ReplTypeOK'
  BY <1>1 DEF ReplTypeOK
<1>3. LinksCarryTheLog' /\ Ends' /\ Offsets'
  BY <1>1 DEF ReplInv, LinksCarryTheLog, Ends, Offsets, ReplTypeOK
<1>4. Answers'
  BY DEF ReplInv, Answers, True, AckBytes, WriteBytes
<1> QED  BY <1>2, <1>3, <1>4 DEF ReplInv

\* The master forgets a replica.
LEMMA RemoveInv ==
  ASSUME ReplInv, NEW r \in Replicas, Remove(r)
  PROVE  ReplInv'
<1> USE DEF Remove
<1>1. ReplTypeOK
  BY DEF ReplInv
<1>2. ReplTypeOK'
  BY <1>1 DEF ReplTypeOK
<1>3. LinksCarryTheLog' /\ Ends' /\ Offsets'
  BY <1>1 DEF ReplInv, LinksCarryTheLog, Ends, Offsets, ReplTypeOK
<1>4. Answers'
  <2> SUFFICES ASSUME NEW s \in Replicas
               PROVE  /\ AckBytes(s) >= 0
                      /\ \A i \in 1 .. Len(acks'[s]) : True(AckBytes(s), offset[s], acks'[s][i])
                      /\ recorded'[s] # Nil => True(AckBytes(s), offset[s], recorded'[s])
    BY DEF Answers, AckBytes, WriteBytes
  <2>1. CASE s = r
    <3>1. acks'[s] = <<>> /\ recorded'[s] = Nil  BY <2>1, <1>1 DEF ReplTypeOK
    <3> QED  BY <3>1 DEF ReplInv, Answers
  <2>2. CASE s # r
    BY <2>2, <1>1 DEF ReplInv, Answers, ReplTypeOK
  <2> QED  BY <2>1, <2>2
<1> QED  BY <1>2, <1>3, <1>4 DEF ReplInv

\* The four steps of WAIT.
LEMMA WaitInv ==
  ASSUME ReplInv, NEW x \in Waiters, WaitBegin(x) \/ WaitHandler(x)
  PROVE  ReplInv'
<1>1. ReplTypeOK
  BY DEF ReplInv
<1>2. CASE WaitBegin(x)
  <2> USE DEF WaitBegin, master, remote
  <2>1. PICK n \in Needs, limited \in BOOLEAN :
          wait' = [wait EXCEPT ![x] = [need |-> n, limited |-> limited, target |-> masterOffset,
                                       active |-> replicas, ask |-> replicas, mark |-> Len(log)]]
    BY <1>2
  <2>2. n \in Nat /\ Len(log) \in Nat
    BY <1>1, NeedsAssumption DEF ReplTypeOK
  <2>3. ReplTypeOK'
    BY <1>1, <1>2, <2>1, <2>2 DEF ReplTypeOK, Waits
  <2>4. LinksCarryTheLog' /\ Ends'
    BY <1>2 DEF ReplInv, LinksCarryTheLog, Ends
  <2>5. Offsets'
    BY <1>1, <1>2, <2>1 DEF ReplInv, Offsets, ReplTypeOK
  <2>6. Answers'
    BY <1>2 DEF ReplInv, Answers, True, AckBytes, WriteBytes
  <2> QED  BY <2>3, <2>4, <2>5, <2>6 DEF ReplInv
<1>3. CASE WaitAsk(x)
  <2> USE DEF WaitAsk, master
  <2>1. PICK r \in wait[x].ask : /\ Send({r}, [kind |-> "getack", at |-> Len(log)])
                                 /\ wait' = [wait EXCEPT ![x].ask = @ \ {r}]
    BY <1>3
  <2>2. wait[x] \in Waits /\ r \in Replicas /\ log \in Seq(Values) /\ Len(log) \in Nat
    BY <1>1, <1>3 DEF ReplTypeOK, Waits
  <2>3. GetackMsg(Len(log)) \in Messages
    BY <2>2 DEF GetackMsg, Messages
  <2>4. link' = [s \in Replicas |-> IF s = r /\ state[s] = "up"
                                    THEN Append(link[s], GetackMsg(Len(log))) ELSE link[s]]
    BY <2>1 DEF Send, GetackMsg
  <2>5. ReplTypeOK'
    <3>1. link' \in [Replicas -> Seq(Messages)]
      BY <2>3, <2>4, <1>1 DEF ReplTypeOK
    <3>2. wait'[x] \in Waits /\ wait' \in [Waiters -> Waits \union {Nil}]
      BY <2>1, <2>2, <1>1 DEF ReplTypeOK, Waits
    <3> QED  BY <3>1, <3>2, <1>1, <1>3 DEF ReplTypeOK
  <2>6. LinksCarryTheLog'
    <3> SUFFICES ASSUME NEW s \in Replicas, state[s] = "up"
                 PROVE  Carries(link'[s], pos[s], log)
      BY <1>3 DEF LinksCarryTheLog
    <3>1. Carries(link[s], pos[s], log) /\ link[s] \in Seq(Messages) /\ pos[s] \in Nat
      BY <1>1 DEF ReplInv, LinksCarryTheLog, ReplTypeOK
    <3>2. link'[s] = Append(link[s], GetackMsg(Len(log))) \/ link'[s] = link[s]
      BY <2>4
    <3> QED  BY <3>1, <3>2, <2>2, CarriesGetack
  <2>7. Ends'
    BY <1>3, <2>4 DEF ReplInv, Ends
  <2>8. Offsets'
    BY <1>1, <1>3, <2>1, <2>2 DEF ReplInv, Offsets, ReplTypeOK, Waits
  <2>9. Answers'
    BY <1>3 DEF ReplInv, Answers, True, AckBytes, WriteBytes
  <2> QED  BY <2>5, <2>6, <2>7, <2>8, <2>9 DEF ReplInv
<1>4. CASE WaitEnough(x) \/ WaitTimeout(x)
  <2> USE DEF WaitEnough, WaitTimeout, master, remote
  <2>1. ReplTypeOK'
    BY <1>1, <1>4 DEF ReplTypeOK
  <2>2. LinksCarryTheLog' /\ Ends'
    BY <1>4 DEF ReplInv, LinksCarryTheLog, Ends
  <2>3. Offsets'
    BY <1>1, <1>4 DEF ReplInv, Offsets, ReplTypeOK
  <2>4. Answers'
    BY <1>4 DEF ReplInv, Answers, True, AckBytes, WriteBytes
  <2> QED  BY <2>1, <2>2, <2>3, <2>4 DEF ReplInv
<1> QED  BY <1>2, <1>3, <1>4 DEF WaitHandler

LEMMA ReplNextInv == ReplInv /\ [ReplNext]_replVars => ReplInv'
<1> SUFFICES ASSUME ReplInv, [ReplNext]_replVars PROVE ReplInv'
  OBVIOUS
<1>1. ASSUME NEW v \in Values, Propagate(v) PROVE ReplInv'
  BY <1>1, PropagateInv
<1>2. ASSUME NEW r \in Replicas, Join(r) \/ Replica(r) \/ Session(r) \/ Cut(r) PROVE ReplInv'
  BY <1>2, JoinInv, ReceiveWriteInv, ReceiveGetackInv, ReceiveAckInv, RemoveInv, CutInv
     DEF Replica, Session
<1>3. ASSUME NEW x \in Waiters, WaitBegin(x) \/ WaitHandler(x) PROVE ReplInv'
  BY <1>3, WaitInv
<1>4. CASE UNCHANGED replVars
  BY <1>4 DEF replVars, master, remote, ReplInv, ReplTypeOK, LinksCarryTheLog, Ends, Offsets, Answers, True,
              AckBytes, WriteBytes
<1> QED  BY <1>1, <1>2, <1>3, <1>4 DEF ReplNext

-------------------------------------------------------------------------------
(* The theorems.                                                           *)

THEOREM ReplInvariance == ReplSpec => []ReplInv
<1>1. ReplInit => ReplInv
  BY ReplInitInv
<1>2. ReplInv /\ [ReplNext]_replVars => ReplInv'
  BY ReplNextInv
<1> QED  BY <1>1, <1>2, PTL DEF ReplSpec

\* Every variable keeps its type, and the registered replicas are those whose
\* connection the master believes in.
THEOREM ReplTypeCorrect == ReplSpec => []ReplTypeOK
<1>1. ReplInv => ReplTypeOK
  BY DEF ReplInv
<1> QED  BY <1>1, ReplInvariance, PTL

\* No write is skipped, repeated or out of order on the way to a replica.
THEOREM QueuesCarryTheLog == ReplSpec => []LinksCarryTheLog
<1>1. ReplInv => LinksCarryTheLog
  BY DEF ReplInv
<1> QED  BY <1>1, ReplInvariance, PTL

\* What WAIT can claim of a replica that it counts.
THEOREM WaitError == ReplSpec => []WaitFallsShortByGetacks
<1>1. ReplInv => WaitFallsShortByGetacks
  <2> SUFFICES ASSUME ReplInv, NEW x \in Waiters, wait[x] # Nil, NEW r \in Counted(x)
               PROVE  /\ AckBytes(r) >= AckSize
                      /\ WriteBytes(r) + (AckBytes(r) - AckSize) >= WriteSize * wait[x].mark
    BY DEF WaitFallsShortByGetacks
  <2>1. ReplTypeOK /\ wait[x] \in Waits
    BY DEF ReplInv, ReplTypeOK
  <2>2. r \in Replicas /\ recorded[r] \in Nat /\ recorded[r] >= wait[x].target
    BY <2>1 DEF Counted, Waits, ReplTypeOK
  <2>3. True(AckBytes(r), offset[r], recorded[r])
    BY <2>2, NilAssumption DEF ReplInv, Answers, Counted
  <2>4. wait[x].target = WriteSize * wait[x].mark /\ wait[x].target \in Nat
    BY <2>1 DEF ReplInv, Offsets, Waits
  <2>5. WriteBytes(r) + AckBytes(r) = offset[r] /\ WriteBytes(r) \in Int /\ AckBytes(r) \in Int
        /\ offset[r] \in Nat
    <3>1. offset[r] \in Nat /\ WriteSize * (pos[r] - joined[r]) \in Int
      BY <2>1, <2>2, SizeAssumption DEF ReplTypeOK
    <3> QED  BY <3>1 DEF WriteBytes, AckBytes
  <2> QED  BY <2>2, <2>3, <2>4, <2>5, SizeAssumption DEF True
<1> QED  BY <1>1, ReplInvariance, PTL

\* Replication implements ReplicatedLog: initial states map to initial states, and a
\* step maps to a step of the log or of one replica, or to none.
THEOREM Refinement == ReplSpec => ReplicasFollowTheLog
<1>1. ReplInit => Abstract!Init
  BY DEF ReplInit, Abstract!Init, Executed
<1>2. ReplInv /\ ReplInv' /\ [ReplNext]_replVars => [Abstract!Next]_(Abstract!vars)
  <2> SUFFICES ASSUME ReplInv, [ReplNext]_replVars PROVE [Abstract!Next]_(Abstract!vars)
    OBVIOUS
  <2>1. ReplTypeOK
    BY DEF ReplInv
  <2>2. ASSUME NEW v \in Values, Propagate(v) PROVE Abstract!Next
    <3>1. Executed' = Executed
      BY <2>2 DEF Propagate, Executed
    <3> QED  BY <2>2, <3>1 DEF Propagate, Abstract!Next, Abstract!Extend
  <2>3. ASSUME NEW r \in Replicas, Join(r) PROVE Abstract!Next
    <3>1. Executed[r] = Nil
      BY <2>3 DEF Join, Executed
    <3>2. Executed' = [Executed EXCEPT ![r] = Len(log)]
      BY <2>1, <2>3 DEF Join, Executed, ReplTypeOK
    <3> QED  BY <2>3, <3>1, <3>2 DEF Join, Abstract!Next, Abstract!Join
  <2>4. ASSUME NEW r \in Replicas, ReceiveWrite(r) PROVE Abstract!Next
    <3>1. pos[r] < Len(log) /\ pos' = [pos EXCEPT ![r] = @ + 1]
          /\ copy' = [copy EXCEPT ![r] = log[pos[r] + 1]]
      BY <2>4, ReceiveWriteInv
    <3>2. Executed[r] = pos[r] /\ pos[r] # Nil
      BY <2>1, <2>4, NilAssumption DEF ReceiveWrite, Executed, ReplTypeOK
    <3>3. Executed' = [Executed EXCEPT ![r] = @ + 1]
      BY <2>1, <2>4, <3>1 DEF ReceiveWrite, Executed, ReplTypeOK
    <3>4. log' = log
      BY <2>4 DEF ReceiveWrite, master
    <3> QED  BY <3>1, <3>2, <3>3, <3>4 DEF Abstract!Next, Abstract!Apply
  <2>5. ASSUME NEW r \in Replicas, ReceiveGetack(r) \/ ReceiveAck(r) PROVE UNCHANGED Abstract!vars
    BY <2>5 DEF ReceiveGetack, ReceiveAck, master, Executed, Abstract!vars
  <2>6. ASSUME NEW r \in Replicas, Cut(r) \/ Remove(r) PROVE UNCHANGED Abstract!vars
    <3>1. \A s \in Replicas : state'[s] = "new" <=> state[s] = "new"
      BY <2>1, <2>6 DEF Cut, Remove, ReplTypeOK
    <3>2. Executed' = Executed
      BY <2>6, <3>1 DEF Cut, Remove, Executed
    <3> QED  BY <2>6, <3>2 DEF Cut, Remove, master, Abstract!vars
  <2>7. ASSUME NEW x \in Waiters, WaitBegin(x) \/ WaitHandler(x) PROVE UNCHANGED Abstract!vars
    BY <2>7 DEF WaitBegin, WaitHandler, WaitAsk, WaitEnough, WaitTimeout, master, remote, Executed,
                Abstract!vars
  <2>8. CASE UNCHANGED replVars
    BY <2>8 DEF replVars, master, remote, Executed, Abstract!vars
  <2>9. ASSUME NEW r \in Replicas, Join(r) \/ Replica(r) \/ Session(r) \/ Cut(r)
        PROVE  Abstract!Next \/ UNCHANGED Abstract!vars
    BY <2>3, <2>4, <2>5, <2>6, <2>9 DEF Replica, Session
  <2> QED  BY <2>2, <2>7, <2>8, <2>9 DEF ReplNext
<1> QED  BY <1>1, <1>2, ReplInvariance, PTL DEF ReplSpec, ReplicasFollowTheLog, Abstract!Spec

===============================================================================
