-------------------------- MODULE TransactionsProofs --------------------------
(***************************************************************************)
(* Theorems about Transactions, for every set of connections and keys,     *)
(* every range of integers and every set of commands.                      *)
(***************************************************************************)
EXTENDS Transactions, SequenceTheorems, TLAPS

-------------------------------------------------------------------------------
(* Types.                                                                  *)

\* The command at the head of a running handler's list is one of Commands.
LEMMA HeadCommand ==
  ASSUME TypeOK, NEW c \in Conns, pc[c] \in {"run", "ttl", "gone"}
  PROVE  /\ Head(todo[c]) \in Commands
         /\ Key(c) \in Keys
         /\ Head(todo[c]).val \in Strings
         /\ Tail(todo[c]) \in Seq(Commands)
         /\ Len(todo[c]) # 1 => Tail(todo[c]) # <<>>
<1>1. todo[c] \in Seq(Commands) /\ todo[c] # <<>>
  BY DEF TypeOK
<1>2. Head(todo[c]) \in Commands /\ Tail(todo[c]) \in Seq(Commands)
  BY <1>1
<1>3. Len(todo[c]) # 1 => Tail(todo[c]) # <<>>
  <2>1. Len(Tail(todo[c])) = Len(todo[c]) - 1 /\ Len(todo[c]) \in Nat
    BY <1>1, HeadTailProperties
  <2>2. Len(<<>>) = 0
    OBVIOUS
  <2>3. ASSUME Tail(todo[c]) = <<>> PROVE Len(todo[c]) = 1
    <3>1. Len(Tail(todo[c])) = 0
      BY <2>2, <2>3, Zenon
    <3> QED
      BY <2>1, <3>1
  <2> QED
    BY <2>3
<1>4. Head(todo[c]).key \in Keys /\ Head(todo[c]).val \in Strings
  BY <1>2, CommandsAssumption
<1> QED
  BY <1>2, <1>3, <1>4 DEF Key

\* INCR stays within Go's int, whatever the value.
LEMMA IncrementType == \A i \in Ints : Increment(i) \in Ints
BY RangeAssumption DEF Ints, Increment

\* The part of TypeOK a returning handler touches.
LEMMA FinishType ==
  ASSUME TypeOK, NEW c \in Conns, pc[c] \in {"run", "ttl", "gone"}, Finish(c)
  PROVE  /\ pc' \in [Conns -> PCs] /\ todo' \in [Conns -> Seq(Commands)]
         /\ \A d \in Conns : pc'[d] \in {"run", "ttl", "gone"} => todo'[d] # <<>>
<1>1. /\ Tail(todo[c]) \in Seq(Commands)
      /\ Len(todo[c]) # 1 => Tail(todo[c]) # <<>>
  BY HeadCommand
<1>2. pc' \in [Conns -> PCs] /\ todo' \in [Conns -> Seq(Commands)]
  BY <1>1 DEF TypeOK, Finish, Goto, PCs
<1>3. ASSUME NEW d \in Conns, pc'[d] \in {"run", "ttl", "gone"}
      PROVE  todo'[d] # <<>>
  <2>1. CASE d = c
    BY <1>1, <1>3, <2>1 DEF TypeOK, Finish, Goto
  <2>2. CASE d # c
    BY <1>3, <2>2 DEF TypeOK, Finish, Goto
  <2> QED
    BY <2>1, <2>2
<1> QED
  BY <1>2, <1>3

\* The part of TypeOK a write touches.
LEMMA WriteType ==
  ASSUME TypeOK, NEW k \in Keys, NEW v \in Strings, Write(k, v)
  PROVE  /\ cache' \in [Keys -> Strings \union {Nil}]
         /\ watchedKeys' \in [Keys -> SUBSET Conns] /\ dirtyClients' \in SUBSET Conns
BY DEF TypeOK, Write

\* The part of TypeOK an Unwatch touches.
LEMMA ForgetType ==
  ASSUME TypeOK, NEW c \in Conns, Forget(c)
  PROVE  watchedKeys' \in [Keys -> SUBSET Conns] /\ dirtyClients' \in SUBSET Conns
BY DEF TypeOK, Forget

\* The part of TypeOK the history variables are.
LEMMA SpendType ==
  ASSUME TypeOK, NEW c \in Conns, Spend(c)
  PROVE  seen' \in [Conns -> [Keys -> Strings \union {Nil}]] /\ guard' \in [Conns -> SUBSET Keys]
BY DEF TypeOK, Spend

LEMMA UnseeType ==
  ASSUME TypeOK, NEW c \in Conns, Unsee(c)
  PROVE  seen' \in [Conns -> [Keys -> Strings \union {Nil}]]
BY DEF TypeOK, Unsee

LEMMA InitType == Init => TypeOK
BY DEF Init, TypeOK, PCs

\* What a client begins.
LEMMA ClientType ==
  ASSUME TypeOK, NEW c \in Conns, Client(c)
  PROVE  TypeOK'
<1>1. CASE Accept(c)
  BY <1>1 DEF TypeOK, Accept, Goto, PCs, store, tx, ghost
<1>2. CASE Receive(c)
  <2>1. PICK cmd \in Commands : todo' = [todo EXCEPT ![c] = <<cmd>>]
    BY <1>2 DEF Receive
  <2> QED
    BY <1>2, <2>1 DEF TypeOK, Receive, Goto, PCs, store, tx, ghost
<1>3. CASE QueueCommand(c)
  BY <1>3 DEF TypeOK, QueueCommand, store, ghost
<1>4. CASE Multi(c)
  BY <1>4 DEF TypeOK, Multi, store, ghost
<1>5. CASE Watch(c)
  BY <1>5 DEF TypeOK, Watch, tx
<1>6. CASE Discard(c)
  BY <1>6 DEF TypeOK, Discard, Goto, PCs, store, ghost
<1>7. CASE CloseUnwatch(c)
  <2>1. watchedKeys' \in [Keys -> SUBSET Conns] /\ dirtyClients' \in SUBSET Conns
    BY <1>7, ForgetType DEF CloseUnwatch
  <2>2. seen' \in [Conns -> [Keys -> Strings \union {Nil}]]
    BY <1>7, UnseeType DEF CloseUnwatch
  <2> QED
    BY <1>7, <2>1, <2>2 DEF TypeOK, CloseUnwatch, Goto, PCs, tx
<1>8. CASE ExecTakeQueue(c)
  BY <1>8 DEF TypeOK, ExecTakeQueue, Goto, PCs, store, ghost
<1> QED
  BY <1>1, <1>2, <1>3, <1>4, <1>5, <1>6, <1>7, <1>8 DEF Client

\* What a handler does next.
LEMMA HandlerType ==
  ASSUME TypeOK, NEW c \in Conns, Handler(c)
  PROVE  TypeOK'
<1>1. CASE DiscardUnwatch(c)
  <2>1. watchedKeys' \in [Keys -> SUBSET Conns] /\ dirtyClients' \in SUBSET Conns
    BY <1>1, ForgetType DEF DiscardUnwatch
  <2>2. seen' \in [Conns -> [Keys -> Strings \union {Nil}]]
    BY <1>1, UnseeType DEF DiscardUnwatch
  <2> QED
    BY <1>1, <2>1, <2>2 DEF TypeOK, DiscardUnwatch, Goto, PCs, tx
<1>2. CASE CloseTx(c)
  BY <1>2 DEF TypeOK, CloseTx, Goto, PCs, store, ghost
<1>3. CASE ExecIsDirty(c)
  BY <1>3 DEF TypeOK, ExecIsDirty, Goto, PCs, store, tx, ghost
<1>4. CASE ExecUnwatchAbort(c)
  <2>1. watchedKeys' \in [Keys -> SUBSET Conns] /\ dirtyClients' \in SUBSET Conns
    BY <1>4, ForgetType DEF ExecUnwatchAbort
  <2>2. seen' \in [Conns -> [Keys -> Strings \union {Nil}]]
    BY <1>4, UnseeType DEF ExecUnwatchAbort
  <2>3. pc' = [pc EXCEPT ![c] = "idle"] /\ todo' = [todo EXCEPT ![c] = <<>>]
    BY <1>4 DEF ExecUnwatchAbort, Goto
  <2>4. pc' \in [Conns -> PCs] /\ todo' \in [Conns -> Seq(Commands)]
    BY <2>3 DEF TypeOK, PCs
  <2>5. \A d \in Conns : pc'[d] \in {"run", "ttl", "gone"} => todo'[d] # <<>>
    BY <2>3 DEF TypeOK
  <2> QED
    BY <1>4, <2>1, <2>2, <2>4, <2>5 DEF TypeOK, ExecUnwatchAbort, tx
<1>5. CASE ExecUnwatchCommit(c)
  <2>1. watchedKeys' \in [Keys -> SUBSET Conns] /\ dirtyClients' \in SUBSET Conns
    BY <1>5, ForgetType DEF ExecUnwatchCommit
  <2>2. CASE todo[c] = <<>> /\ Goto(c, "idle") /\ Unsee(c) /\ UNCHANGED guard
    <3>1. seen' \in [Conns -> [Keys -> Strings \union {Nil}]]
      BY <2>2, UnseeType
    <3> QED
      BY <1>5, <2>1, <2>2, <3>1 DEF TypeOK, ExecUnwatchCommit, Goto, PCs, tx
  <2>3. CASE /\ todo[c] # <<>> /\ Goto(c, "run")
             /\ guard' = [guard EXCEPT ![c] = WatchedBy(c)] /\ UNCHANGED seen
    BY <1>5, <2>1, <2>3 DEF TypeOK, ExecUnwatchCommit, Goto, PCs, tx, WatchedBy
  <2> QED
    BY <1>5, <2>2, <2>3 DEF ExecUnwatchCommit
<1>6. CASE RunSet(c)
  <2>1. pc[c] = "run" /\ Key(c) \in Keys /\ Head(todo[c]).val \in Strings
    BY <1>6, HeadCommand DEF RunSet, At
  <2>2. /\ cache' \in [Keys -> Strings \union {Nil}]
        /\ watchedKeys' \in [Keys -> SUBSET Conns] /\ dirtyClients' \in SUBSET Conns
    BY <1>6, <2>1, WriteType DEF RunSet
  <2>3. seen' \in [Conns -> [Keys -> Strings \union {Nil}]] /\ guard' \in [Conns -> SUBSET Keys]
    BY <1>6, SpendType DEF RunSet
  <2>4. /\ pc' \in [Conns -> PCs] /\ todo' \in [Conns -> Seq(Commands)]
        /\ \A d \in Conns : pc'[d] \in {"run", "ttl", "gone"} => todo'[d] # <<>>
    BY <1>6, <2>1, FinishType DEF RunSet
  <2> QED
    BY <1>6, <2>2, <2>3, <2>4 DEF TypeOK, RunSet, tx
<1>7. CASE RunSetPX(c)
  <2>1. pc[c] = "run" /\ Key(c) \in Keys /\ Head(todo[c]).val \in Strings
    BY <1>7, HeadCommand DEF RunSetPX, At
  <2>2. /\ cache' \in [Keys -> Strings \union {Nil}]
        /\ watchedKeys' \in [Keys -> SUBSET Conns] /\ dirtyClients' \in SUBSET Conns
    BY <1>7, <2>1, WriteType DEF RunSetPX
  <2>3. seen' \in [Conns -> [Keys -> Strings \union {Nil}]] /\ guard' \in [Conns -> SUBSET Keys]
    BY <1>7, SpendType DEF RunSetPX
  <2> QED
    BY <1>7, <2>1, <2>2, <2>3 DEF TypeOK, RunSetPX, Goto, PCs, tx
<1>8. CASE SetExpiry(c)
  <2>1. /\ pc' \in [Conns -> PCs] /\ todo' \in [Conns -> Seq(Commands)]
        /\ \A d \in Conns : pc'[d] \in {"run", "ttl", "gone"} => todo'[d] # <<>>
    BY <1>8, FinishType DEF SetExpiry
  <2> QED
    BY <1>8, <2>1 DEF TypeOK, SetExpiry, tx, ghost
<1>9. CASE RunIncr(c)
  <2>1. pc[c] = "run" /\ Key(c) \in Keys
    BY <1>9, HeadCommand DEF RunIncr, At
  <2>2. 1 \in Strings /\ Ints \subseteq Strings
    BY RangeAssumption DEF Strings, Ints
  <2>3. /\ cache' \in [Keys -> Strings \union {Nil}]
        /\ watchedKeys' \in [Keys -> SUBSET Conns] /\ dirtyClients' \in SUBSET Conns
    <3>1. CASE Write(Key(c), 1)
      BY <2>1, <2>2, <3>1, WriteType
    <3>2. CASE cache[Key(c)] \in Ints /\ Write(Key(c), Increment(cache[Key(c)]))
      <4>1. Increment(cache[Key(c)]) \in Strings
        BY <2>2, <3>2, IncrementType
      <4> QED
        BY <2>1, <3>2, <4>1, WriteType
    <3>3. CASE UNCHANGED <<cache, watchedKeys, dirtyClients>>
      BY <3>3 DEF TypeOK
    <3> QED
      BY <1>9, <3>1, <3>2, <3>3 DEF RunIncr
  <2>4. seen' \in [Conns -> [Keys -> Strings \union {Nil}]] /\ guard' \in [Conns -> SUBSET Keys]
    BY <1>9, SpendType DEF RunIncr
  <2>5. /\ pc' \in [Conns -> PCs] /\ todo' \in [Conns -> Seq(Commands)]
        /\ \A d \in Conns : pc'[d] \in {"run", "ttl", "gone"} => todo'[d] # <<>>
    BY <1>9, <2>1, FinishType DEF RunIncr
  <2> QED
    BY <1>9, <2>3, <2>4, <2>5 DEF TypeOK, RunIncr, tx
<1>10. CASE RunGet(c)
  <2>1. pc[c] = "run"
    BY <1>10 DEF RunGet, At
  <2>2. seen' \in [Conns -> [Keys -> Strings \union {Nil}]] /\ guard' \in [Conns -> SUBSET Keys]
    BY <1>10, SpendType DEF RunGet
  <2>3. CASE Goto(c, "gone") /\ UNCHANGED todo
    BY <1>10, <2>1, <2>2, <2>3 DEF TypeOK, RunGet, Goto, PCs, store, tx
  <2>4. CASE Finish(c)
    <3>1. /\ pc' \in [Conns -> PCs] /\ todo' \in [Conns -> Seq(Commands)]
          /\ \A d \in Conns : pc'[d] \in {"run", "ttl", "gone"} => todo'[d] # <<>>
      BY <2>1, <2>4, FinishType
    <3> QED
      BY <1>10, <2>2, <3>1 DEF TypeOK, RunGet, store, tx
  <2> QED
    BY <1>10, <2>3, <2>4 DEF RunGet
<1>11. CASE GetDelete(c)
  <2>1. /\ pc' \in [Conns -> PCs] /\ todo' \in [Conns -> Seq(Commands)]
        /\ \A d \in Conns : pc'[d] \in {"run", "ttl", "gone"} => todo'[d] # <<>>
    BY <1>11, FinishType DEF GetDelete
  <2> QED
    BY <1>11, <2>1 DEF TypeOK, GetDelete, Drop, tx, ghost
<1>12. CASE RunUnwatch(c)
  <2>1. watchedKeys' \in [Keys -> SUBSET Conns] /\ dirtyClients' \in SUBSET Conns
    BY <1>12, ForgetType DEF RunUnwatch
  <2>2. seen' \in [Conns -> [Keys -> Strings \union {Nil}]]
    BY <1>12, UnseeType DEF RunUnwatch
  <2>3. /\ pc' \in [Conns -> PCs] /\ todo' \in [Conns -> Seq(Commands)]
        /\ \A d \in Conns : pc'[d] \in {"run", "ttl", "gone"} => todo'[d] # <<>>
    BY <1>12, FinishType DEF RunUnwatch, At
  <2> QED
    BY <1>12, <2>1, <2>2, <2>3 DEF TypeOK, RunUnwatch, tx
<1> QED
  BY <1>1, <1>2, <1>3, <1>4, <1>5, <1>6, <1>7, <1>8, <1>9, <1>10, <1>11, <1>12 DEF Handler

LEMMA ClockType ==
  ASSUME TypeOK, NEW k \in Keys, Lapse(k) \/ ExpireSleeper(k)
  PROVE  TypeOK'
<1>1. CASE Lapse(k)
  BY <1>1 DEF TypeOK, Lapse, tx, ghost
<1>2. CASE ExpireSleeper(k)
  BY <1>2 DEF TypeOK, ExpireSleeper, Drop, tx, ghost
<1> QED
  BY <1>1, <1>2

LEMMA NextType == TypeOK /\ [Next]_vars => TypeOK'
<1> SUFFICES ASSUME TypeOK, [Next]_vars PROVE TypeOK'
  OBVIOUS
<1>1. CASE Clock
  BY <1>1, ClockType DEF Clock
<1>2. CASE \E c \in Conns : Client(c) \/ Handler(c)
  BY <1>2, ClientType, HandlerType
<1>3. CASE UNCHANGED vars
  BY <1>3 DEF TypeOK, vars, store, tx, ghost
<1> QED
  BY <1>1, <1>2, <1>3 DEF Next

\* The maps of the Store hold only what they may, INCR's wrap-around included,
\* and a handler that runs a command has one to run.
THEOREM TypeCorrect == Spec => []TypeOK
BY InitType, NextType, PTL DEF Spec

-------------------------------------------------------------------------------
(* The five things a step can do to the watched keys, as seen from outside. *)

\* What is remembered of a watched key is not forgotten while it is watched.
Kept == \A c \in Conns : \A k \in Keys : c \in watchedKeys[k] => seen'[c][k] = seen[c][k]

WatchEffect  == \E c \in Conns : Watch(c)
ForgetEffect == \E c \in Conns : /\ Forget(c) /\ UNCHANGED cache
                                 /\ \A d \in Conns \ {c} : seen'[d] = seen[d]
WriteEffect  == \E k \in Keys : \E v \in Strings : Write(k, v) /\ Kept
DropEffect   == \E k \in Keys : Drop(k) /\ Kept
NoEffect     == UNCHANGED <<cache, watchedKeys, dirtyClients>> /\ Kept

LEMMA SpendKeeps ==
  ASSUME TypeOK, NEW c \in Conns, Spend(c)
  PROVE  Kept
BY DEF TypeOK, Spend, Kept

LEMMA UnseeOthers ==
  ASSUME TypeOK, NEW c \in Conns, Unsee(c)
  PROVE  \A d \in Conns \ {c} : seen'[d] = seen[d]
BY DEF TypeOK, Unsee

LEMMA ClientEffect ==
  ASSUME TypeOK, NEW c \in Conns, Client(c)
  PROVE  WatchEffect \/ ForgetEffect \/ NoEffect
<1>1. CASE Watch(c)
  BY <1>1 DEF WatchEffect
<1>2. CASE CloseUnwatch(c)
  BY <1>2, UnseeOthers DEF CloseUnwatch, ForgetEffect
<1>3. CASE Accept(c) \/ Receive(c) \/ QueueCommand(c) \/ Multi(c) \/ Discard(c) \/ ExecTakeQueue(c)
  BY <1>3 DEF NoEffect, Kept, Accept, Receive, QueueCommand, Multi, Discard, ExecTakeQueue,
              store, ghost
<1> QED
  BY <1>1, <1>2, <1>3 DEF Client

LEMMA HandlerEffect ==
  ASSUME TypeOK, NEW c \in Conns, Handler(c)
  PROVE  ForgetEffect \/ WriteEffect \/ DropEffect \/ NoEffect
<1>1. CASE DiscardUnwatch(c)
  BY <1>1, UnseeOthers DEF DiscardUnwatch, ForgetEffect
<1>2. CASE CloseTx(c)
  BY <1>2 DEF NoEffect, Kept, CloseTx, store, ghost
<1>3. CASE ExecIsDirty(c)
  BY <1>3 DEF NoEffect, Kept, ExecIsDirty, store, ghost
<1>4. CASE ExecUnwatchAbort(c)
  BY <1>4, UnseeOthers DEF ExecUnwatchAbort, ForgetEffect
<1>5. CASE ExecUnwatchCommit(c)
  BY <1>5, UnseeOthers DEF ExecUnwatchCommit, ForgetEffect
<1>6. CASE RunSet(c) \/ RunSetPX(c)
  <2>1. Key(c) \in Keys /\ Head(todo[c]).val \in Strings
    BY <1>6, HeadCommand DEF RunSet, RunSetPX, At
  <2>2. Write(Key(c), Head(todo[c]).val) /\ Kept
    BY <1>6, SpendKeeps DEF RunSet, RunSetPX
  <2> QED
    BY <2>1, <2>2 DEF WriteEffect
<1>7. CASE SetExpiry(c)
  BY <1>7 DEF NoEffect, Kept, SetExpiry, ghost
<1>8. CASE RunIncr(c)
  <2>1. Kept
    BY <1>8, SpendKeeps DEF RunIncr
  <2>2. Key(c) \in Keys /\ 1 \in Strings /\ Ints \subseteq Strings
    BY <1>8, HeadCommand, RangeAssumption DEF RunIncr, At, Strings, Ints
  <2>3. CASE Write(Key(c), 1)
    BY <2>1, <2>2, <2>3 DEF WriteEffect
  <2>4. CASE cache[Key(c)] \in Ints /\ Write(Key(c), Increment(cache[Key(c)]))
    BY <2>1, <2>2, <2>4, IncrementType DEF WriteEffect
  <2>5. CASE UNCHANGED <<cache, watchedKeys, dirtyClients>>
    BY <2>1, <2>5 DEF NoEffect
  <2> QED
    BY <1>8, <2>3, <2>4, <2>5 DEF RunIncr
<1>9. CASE RunGet(c)
  BY <1>9, SpendKeeps DEF NoEffect, RunGet, store
<1>10. CASE GetDelete(c)
  <2>1. Key(c) \in Keys
    BY <1>10, HeadCommand DEF GetDelete
  <2> QED
    BY <1>10, <2>1 DEF DropEffect, Kept, GetDelete, ghost
<1>11. CASE RunUnwatch(c)
  BY <1>11, UnseeOthers DEF RunUnwatch, ForgetEffect
<1> QED
  BY <1>1, <1>2, <1>3, <1>4, <1>5, <1>6, <1>7, <1>8, <1>9, <1>10, <1>11 DEF Handler

LEMMA StepEffect ==
  ASSUME TypeOK, [Next]_vars
  PROVE  WatchEffect \/ ForgetEffect \/ WriteEffect \/ DropEffect \/ NoEffect
<1>1. ASSUME NEW k \in Keys, Lapse(k) PROVE NoEffect
  BY <1>1 DEF NoEffect, Kept, Lapse, ghost
<1>2. ASSUME NEW k \in Keys, ExpireSleeper(k) PROVE DropEffect
  BY <1>2 DEF DropEffect, Kept, ExpireSleeper, ghost
<1>3. ASSUME UNCHANGED vars PROVE NoEffect
  BY <1>3 DEF NoEffect, Kept, vars, store, ghost
<1> QED
  BY <1>1, <1>2, <1>3, ClientEffect, HandlerEffect DEF Next, Clock

-------------------------------------------------------------------------------
(* Flags and watched values.                                               *)

LEMMA NextFlags ==
  ASSUME TypeOK, FlagOnlyWatchers, [Next]_vars
  PROVE  FlagOnlyWatchers'
<1>1. CASE WatchEffect
  BY <1>1 DEF TypeOK, FlagOnlyWatchers, WatchedBy, WatchEffect, Watch
<1>2. CASE ForgetEffect
  BY <1>2 DEF TypeOK, FlagOnlyWatchers, WatchedBy, ForgetEffect, Forget
<1>3. CASE WriteEffect
  BY <1>3 DEF TypeOK, FlagOnlyWatchers, WatchedBy, WriteEffect, Write
<1>4. CASE DropEffect
  BY <1>4 DEF FlagOnlyWatchers, WatchedBy, DropEffect, Drop
<1>5. CASE NoEffect
  BY <1>5 DEF FlagOnlyWatchers, WatchedBy, NoEffect
<1> QED
  BY <1>1, <1>2, <1>3, <1>4, <1>5, StepEffect

\* No flag outlives the watches it was raised for: the EXEC of a later
\* transaction is not aborted by what happened to an earlier one.
THEOREM FlagsBelongToWatchers == Spec => []FlagOnlyWatchers
<1>1. Init => FlagOnlyWatchers
  BY DEF Init, FlagOnlyWatchers
<1>2. TypeOK /\ FlagOnlyWatchers /\ [Next]_vars => FlagOnlyWatchers'
  BY NextFlags
<1> QED
  BY <1>1, <1>2, TypeCorrect, PTL DEF Spec

LEMMA NextFresh ==
  ASSUME TypeOK, UnflaggedWatchIsFresh, [Next]_vars
  PROVE  UnflaggedWatchIsFresh'
<1>1. CASE WatchEffect
  <2>1. PICK c \in Conns : Watch(c)
    BY <1>1 DEF WatchEffect
  <2>2. PICK ks \in (SUBSET Keys) \ {{}} :
          /\ watchedKeys' = [k \in Keys |-> IF k \in ks THEN watchedKeys[k] \union {c} ELSE watchedKeys[k]]
          /\ seen' = [seen EXCEPT ![c] = [k \in Keys |->
                        IF k \in ks /\ c \notin watchedKeys[k] THEN cache[k] ELSE seen[c][k]]]
          /\ UNCHANGED <<cache, dirtyClients>>
    BY <2>1 DEF Watch
  <2>3. ASSUME NEW k \in Keys, NEW d \in watchedKeys'[k], d \notin dirtyClients'
        PROVE  cache'[k] \in {seen'[d][k], Nil}
    <3>1. CASE d = c /\ c \notin watchedKeys[k]
      BY <2>2, <2>3, <3>1 DEF TypeOK
    <3>2. CASE d \in watchedKeys[k]
      <4>1. cache[k] \in {seen[d][k], Nil} /\ d \in Conns
        BY <2>2, <2>3, <3>2 DEF TypeOK, UnflaggedWatchIsFresh
      <4> QED
        BY <2>2, <3>2, <4>1 DEF TypeOK
    <3> QED
      BY <2>2, <2>3, <3>1, <3>2
  <2> QED
    BY <2>3 DEF UnflaggedWatchIsFresh
<1>2. CASE ForgetEffect
  BY <1>2 DEF TypeOK, UnflaggedWatchIsFresh, ForgetEffect, Forget
<1>3. CASE WriteEffect
  BY <1>3 DEF TypeOK, UnflaggedWatchIsFresh, WriteEffect, Write, Kept
<1>4. CASE DropEffect
  BY <1>4 DEF TypeOK, UnflaggedWatchIsFresh, DropEffect, Drop, Kept
<1>5. CASE NoEffect
  BY <1>5 DEF TypeOK, UnflaggedWatchIsFresh, NoEffect, Kept
<1> QED
  BY <1>1, <1>2, <1>3, <1>4, <1>5, StepEffect

\* No interleaving of the commands hides a write of a watched key from its
\* watchers: unflagged, they would read what they read when they watched it,
\* or find the key expired.
THEOREM WritesAreNeverMissed == Spec => []UnflaggedWatchIsFresh
<1>1. Init => UnflaggedWatchIsFresh
  BY DEF Init, UnflaggedWatchIsFresh
<1>2. TypeOK /\ UnflaggedWatchIsFresh /\ [Next]_vars => UnflaggedWatchIsFresh'
  BY NextFresh
<1> QED
  BY <1>1, <1>2, TypeCorrect, PTL DEF Spec

-------------------------------------------------------------------------------
(* Transactions and the handlers.                                          *)

\* OutsideTxWhileRunning is not inductive: between its two deferred calls a
\* connection that ends must already have left every watch set.
LeftAllWatches == \A c \in Conns : pc[c] \in {"closing", "closed"} => WatchedBy(c) = {}

LEMMA NextOutsideTx ==
  ASSUME TypeOK, [Next]_vars, \A c \in inTx : pc[c] \in {"idle", "closing"}
  PROVE  \A c \in inTx' : pc'[c] \in {"idle", "closing"}
<1>1. ASSUME NEW c \in Conns, Client(c) PROVE \A d \in inTx' : pc'[d] \in {"idle", "closing"}
  <2>1. CASE Accept(c) \/ Receive(c) \/ QueueCommand(c) \/ Multi(c) \/ Watch(c)
    BY <2>1 DEF TypeOK, Accept, Receive, QueueCommand, Multi, Watch, Goto, tx
  <2>2. CASE Discard(c) \/ CloseUnwatch(c) \/ ExecTakeQueue(c)
    BY <2>2 DEF TypeOK, Discard, CloseUnwatch, ExecTakeQueue, Goto, tx
  <2> QED
    BY <1>1, <2>1, <2>2 DEF Client
<1>2. ASSUME NEW c \in Conns, Handler(c) PROVE \A d \in inTx' : pc'[d] \in {"idle", "closing"}
  <2>1. CASE CloseTx(c)
    BY <2>1 DEF TypeOK, CloseTx, Goto
  <2>2. CASE DiscardUnwatch(c) \/ ExecIsDirty(c) \/ ExecUnwatchAbort(c) \/ ExecUnwatchCommit(c)
    BY <2>2 DEF TypeOK, DiscardUnwatch, ExecIsDirty, ExecUnwatchAbort, ExecUnwatchCommit, Goto, tx
  <2>3. CASE RunSet(c) \/ RunSetPX(c) \/ SetExpiry(c) \/ RunIncr(c)
    BY <2>3 DEF TypeOK, RunSet, RunSetPX, SetExpiry, RunIncr, At, Finish, Goto, tx
  <2>4. CASE RunGet(c) \/ GetDelete(c) \/ RunUnwatch(c)
    BY <2>4 DEF TypeOK, RunGet, GetDelete, RunUnwatch, At, Finish, Goto, tx
  <2> QED
    BY <1>2, <2>1, <2>2, <2>3, <2>4 DEF Handler
<1>3. ASSUME Clock \/ UNCHANGED vars PROVE \A d \in inTx' : pc'[d] \in {"idle", "closing"}
  BY <1>3 DEF Clock, Lapse, ExpireSleeper, vars, tx
<1> QED
  BY <1>1, <1>2, <1>3 DEF Next

LEMMA NextLeft ==
  ASSUME TypeOK, [Next]_vars, LeftAllWatches
  PROVE  LeftAllWatches'
<1>1. ASSUME NEW c \in Conns, Client(c) PROVE LeftAllWatches'
  <2>1. CASE Accept(c) \/ Receive(c) \/ QueueCommand(c) \/ Multi(c) \/ Discard(c) \/ ExecTakeQueue(c)
    BY <2>1 DEF TypeOK, LeftAllWatches, WatchedBy, Accept, Receive, QueueCommand, Multi, Discard,
                ExecTakeQueue, Goto, store
  <2>2. CASE Watch(c)
    BY <2>2 DEF TypeOK, LeftAllWatches, WatchedBy, Watch
  <2>3. CASE CloseUnwatch(c)
    BY <2>3 DEF TypeOK, LeftAllWatches, WatchedBy, CloseUnwatch, Forget, Goto
  <2> QED
    BY <1>1, <2>1, <2>2, <2>3 DEF Client
<1>2. ASSUME NEW c \in Conns, Handler(c) PROVE LeftAllWatches'
  <2>1. CASE CloseTx(c)
    BY <2>1 DEF TypeOK, LeftAllWatches, WatchedBy, CloseTx, Goto, store
  <2>2. CASE DiscardUnwatch(c) \/ ExecUnwatchAbort(c) \/ ExecUnwatchCommit(c)
    BY <2>2 DEF TypeOK, LeftAllWatches, WatchedBy, DiscardUnwatch, ExecUnwatchAbort,
                ExecUnwatchCommit, Forget, Goto
  <2>3. CASE ExecIsDirty(c)
    BY <2>3 DEF TypeOK, LeftAllWatches, WatchedBy, ExecIsDirty, Goto, store
  <2>4. CASE RunSet(c) \/ RunSetPX(c) \/ SetExpiry(c) \/ RunGet(c) \/ GetDelete(c)
    <3>1. UNCHANGED watchedKeys
      BY <2>4 DEF RunSet, RunSetPX, SetExpiry, RunGet, GetDelete, Write, Drop, store
    <3>2. \E at \in {"idle", "run", "ttl", "gone"} : Goto(c, at)
      BY <2>4 DEF RunSet, RunSetPX, SetExpiry, RunGet, GetDelete, Finish
    <3> QED
      BY <3>1, <3>2 DEF TypeOK, LeftAllWatches, WatchedBy, Goto
  <2>5. CASE RunIncr(c)
    <3>1. UNCHANGED watchedKeys
      BY <2>5 DEF RunIncr, Write
    <3> QED
      BY <2>5, <3>1 DEF TypeOK, LeftAllWatches, WatchedBy, RunIncr, Finish, Goto
  <2>6. CASE RunUnwatch(c)
    BY <2>6 DEF TypeOK, LeftAllWatches, WatchedBy, RunUnwatch, Forget, Finish, Goto
  <2> QED
    BY <1>2, <2>1, <2>2, <2>3, <2>4, <2>5, <2>6 DEF Handler
<1>3. ASSUME Clock \/ UNCHANGED vars PROVE LeftAllWatches'
  BY <1>3 DEF LeftAllWatches, WatchedBy, Clock, Lapse, ExpireSleeper, Drop, vars, store
<1> QED
  BY <1>1, <1>2, <1>3 DEF Next

\* The queued commands of an EXEC are never queued a second time, and the maps
\* of the Store keep nothing of a connection that is gone.
THEOREM RunsOutsideTx == Spec => []OutsideTxWhileRunning
<1> DEFINE Outside == \A c \in inTx : pc[c] \in {"idle", "closing"}
<1>1. Init => Outside /\ LeftAllWatches
  BY DEF Init, LeftAllWatches, WatchedBy
<1>2. TypeOK /\ [Next]_vars /\ Outside => Outside'
  BY NextOutsideTx
<1>3. TypeOK /\ [Next]_vars /\ LeftAllWatches => LeftAllWatches'
  BY NextLeft
<1>4. Outside /\ LeftAllWatches /\ FlagOnlyWatchers => OutsideTxWhileRunning
  BY DEF OutsideTxWhileRunning, LeftAllWatches, FlagOnlyWatchers
<1> HIDE DEF Outside
<1> QED
  BY <1>1, <1>2, <1>3, <1>4, TypeCorrect, FlagsBelongToWatchers, PTL DEF Spec

-------------------------------------------------------------------------------
(* The refinement of OptimisticLock.                                       *)

\* A step that leaves flags, watches and the place of EXEC alone is a stutter.
SameVerdicts == \A c \in Conns : Verdict(c)' = Verdict(c)

LEMMA NoEffectRefines ==
  ASSUME NoEffect \/ DropEffect, SameVerdicts
  PROVE  UNCHANGED OL!vars
<1>1. UNCHANGED <<watchedKeys, dirtyClients>>
  BY DEF NoEffect, DropEffect, Drop
<1> QED
  BY <1>1 DEF OL!vars, Status, WatchedBy, SameVerdicts

\* A write flags, at once, every clean client that watches the key.
LEMMA WriteRefines ==
  ASSUME TypeOK, FlagOnlyWatchers, NEW k \in Keys, NEW v \in Strings, Write(k, v), SameVerdicts
  PROVE  OL!Next
<1> DEFINE S == watchedKeys[k] \ dirtyClients
<1>1. S \in SUBSET Conns
  BY DEF TypeOK
<1>2. \A c \in S : Status(c) = "clean"
  BY DEF TypeOK, Status, WatchedBy
<1>3. \A c \in Conns : Status(c)' = IF c \in S THEN "flagged" ELSE Status(c)
  BY DEF TypeOK, Write, Status, WatchedBy
<1>4. [c \in Conns |-> Status(c)]' =
        [c \in Conns |-> IF c \in S THEN "flagged" ELSE [d \in Conns |-> Status(d)][c]]
  BY <1>3
<1>5. [c \in Conns |-> Verdict(c)]' = [c \in Conns |-> Verdict(c)]
  BY DEF SameVerdicts
<1>6. OL!Touch(S)
  BY <1>1, <1>2, <1>4, <1>5 DEF OL!Touch
<1> QED
  BY <1>1, <1>6 DEF OL!Next

\* Unwatch releases a client, whatever its status.
LEMMA ForgetRefines ==
  ASSUME TypeOK, NEW c \in Conns, Forget(c),
         Verdict(c) # "pending", Verdict(c)' = "none", \A d \in Conns \ {c} : Verdict(d)' = Verdict(d)
  PROVE  OL!Next
<1>1. Status(c)' = "unwatched"
  BY DEF TypeOK, Forget, Status, WatchedBy
<1>2. \A d \in Conns \ {c} : Status(d)' = Status(d)
  BY DEF TypeOK, Forget, Status, WatchedBy
<1>3. OL!Release(c)
  BY <1>1, <1>2 DEF OL!Release
<1> QED
  BY <1>3 DEF OL!Next

\* The place of a handler decides its verdict.
LEMMA GotoVerdict ==
  ASSUME TypeOK, NEW c \in Conns, NEW at, Goto(c, at)
  PROVE  /\ at \notin {"check", "commit", "abort"} => Verdict(c)' = "none"
         /\ at = "check" => Verdict(c)' = "pending"
         /\ at \in {"commit", "abort"} => Verdict(c)' = at
         /\ \A d \in Conns \ {c} : Verdict(d)' = Verdict(d)
         /\ pc[c] \notin {"check", "commit", "abort"} /\ at \notin {"check", "commit", "abort"}
              => SameVerdicts
BY DEF TypeOK, Goto, Verdict, SameVerdicts

LEMMA ClientRefines ==
  ASSUME TypeOK, FlagOnlyWatchers, NEW c \in Conns, Client(c)
  PROVE  OL!Next \/ UNCHANGED OL!vars
<1>1. CASE Accept(c) \/ Receive(c) \/ Discard(c)
  <2>1. NoEffect
    BY <1>1 DEF NoEffect, Kept, Accept, Receive, Discard, store, ghost
  <2>2. SameVerdicts
    BY <1>1, GotoVerdict DEF Accept, Receive, Discard
  <2> QED
    BY <2>1, <2>2, NoEffectRefines
<1>2. CASE QueueCommand(c) \/ Multi(c)
  <2>1. NoEffect
    BY <1>2 DEF NoEffect, Kept, QueueCommand, Multi, store, ghost
  <2>2. SameVerdicts
    BY <1>2 DEF QueueCommand, Multi, SameVerdicts, Verdict
  <2> QED
    BY <2>1, <2>2, NoEffectRefines
<1>3. CASE Watch(c)
  <2>1. /\ \A d \in Conns : d # c => WatchedBy(d)' = WatchedBy(d)
        /\ WatchedBy(c)' # {} /\ UNCHANGED <<dirtyClients, pc>> /\ pc[c] = "idle"
    <3>1. PICK ks \in (SUBSET Keys) \ {{}} :
            watchedKeys' = [k \in Keys |-> IF k \in ks THEN watchedKeys[k] \union {c} ELSE watchedKeys[k]]
      BY <1>3 DEF Watch
    <3>2. \A d \in Conns : d # c => WatchedBy(d)' = WatchedBy(d)
      BY <3>1 DEF TypeOK, WatchedBy
    <3>3. PICK k \in Keys : k \in ks
      OBVIOUS
    <3>4. k \in WatchedBy(c)'
      BY <3>1, <3>3 DEF WatchedBy
    <3> QED
      BY <1>3, <3>2, <3>4 DEF Watch
  <2>2. [d \in Conns |-> Verdict(d)]' = [d \in Conns |-> Verdict(d)] /\ Verdict(c) = "none"
    BY <2>1 DEF Verdict
  <2>3. CASE Status(c) = "unwatched"
    <3>1. c \notin dirtyClients
      BY <2>3 DEF Status
    <3>2. [d \in Conns |-> Status(d)]' = [[d \in Conns |-> Status(d)] EXCEPT ![c] = "clean"]
      BY <2>1, <3>1 DEF Status
    <3>3. OL!Watch(c)
      BY <2>2, <2>3, <3>2 DEF OL!Watch
    <3> QED
      BY <3>3 DEF OL!Next
  <2>4. CASE Status(c) # "unwatched"
    <3>1. \A d \in Conns : Status(d)' = Status(d)
      BY <2>1, <2>4 DEF Status
    <3> QED
      BY <2>2, <3>1 DEF OL!vars
  <2> QED
    BY <2>3, <2>4
<1>4. CASE CloseUnwatch(c)
  <2>1. Verdict(c) = "none"
    BY <1>4 DEF CloseUnwatch, Verdict
  <2> QED
    BY <1>4, <2>1, GotoVerdict, ForgetRefines DEF CloseUnwatch
<1>5. CASE ExecTakeQueue(c)
  <2>1. /\ Verdict(c) = "none" /\ Verdict(c)' = "pending"
        /\ \A d \in Conns \ {c} : Verdict(d)' = Verdict(d)
    BY <1>5, GotoVerdict DEF ExecTakeQueue, Verdict
  <2>2. [d \in Conns |-> Status(d)]' = [d \in Conns |-> Status(d)]
    BY <1>5 DEF ExecTakeQueue, store, Status, WatchedBy
  <2>3. OL!Submit(c)
    BY <2>1, <2>2 DEF OL!Submit
  <2> QED
    BY <2>3 DEF OL!Next
<1> QED
  BY <1>1, <1>2, <1>3, <1>4, <1>5 DEF Client

LEMMA HandlerRefines ==
  ASSUME TypeOK, FlagOnlyWatchers, NEW c \in Conns, Handler(c)
  PROVE  OL!Next \/ UNCHANGED OL!vars
<1>1. CASE DiscardUnwatch(c) \/ ExecUnwatchAbort(c) \/ ExecUnwatchCommit(c) \/ RunUnwatch(c)
  <2>1. Forget(c) /\ (Goto(c, "idle") \/ Goto(c, "run"))
    BY <1>1 DEF DiscardUnwatch, ExecUnwatchAbort, ExecUnwatchCommit, RunUnwatch, Finish
  <2>2. Verdict(c) # "pending"
    BY <1>1 DEF DiscardUnwatch, ExecUnwatchAbort, ExecUnwatchCommit, RunUnwatch, At, Verdict
  <2> QED
    BY <2>1, <2>2, GotoVerdict, ForgetRefines
<1>2. CASE CloseTx(c)
  <2>1. NoEffect
    BY <1>2 DEF NoEffect, Kept, CloseTx, store, ghost
  <2>2. SameVerdicts
    BY <1>2, GotoVerdict DEF CloseTx
  <2> QED
    BY <2>1, <2>2, NoEffectRefines
<1>3. CASE ExecIsDirty(c)
  <2> DEFINE at == IF c \in dirtyClients THEN "abort" ELSE "commit"
  <2>1. Goto(c, at) /\ UNCHANGED <<watchedKeys, dirtyClients>> /\ pc[c] = "check"
    BY <1>3 DEF ExecIsDirty, store
  <2>2. Verdict(c) = "pending" /\ Verdict(c)' = at /\ \A d \in Conns \ {c} : Verdict(d)' = Verdict(d)
    BY <2>1, GotoVerdict DEF Verdict
  <2>3. (Status(c) = "flagged") <=> c \in dirtyClients
    BY DEF Status
  <2>4. [d \in Conns |-> Status(d)]' = [d \in Conns |-> Status(d)]
    BY <2>1 DEF Status, WatchedBy
  <2>5. OL!Decide(c)
    BY <2>2, <2>3, <2>4 DEF OL!Decide
  <2> QED
    BY <2>5 DEF OL!Next
<1>4. CASE RunSet(c) \/ RunSetPX(c) \/ RunIncr(c)
  <2>1. pc[c] = "run" /\ Key(c) \in Keys /\ Head(todo[c]).val \in Strings /\ 1 \in Strings /\ Ints \subseteq Strings
    BY <1>4, HeadCommand, RangeAssumption DEF RunSet, RunSetPX, RunIncr, At, Strings, Ints
  <2>2. SameVerdicts
    <3>1. Goto(c, "idle") \/ Goto(c, "run") \/ Goto(c, "ttl")
      BY <1>4 DEF RunSet, RunSetPX, RunIncr, Finish
    <3> QED
      BY <2>1, <3>1, GotoVerdict
  <2>3. CASE RunSet(c) \/ RunSetPX(c)
    BY <2>1, <2>2, <2>3, WriteRefines DEF RunSet, RunSetPX
  <2>4. CASE RunIncr(c)
    <3>1. CASE Write(Key(c), 1)
      BY <2>1, <2>2, <3>1, WriteRefines
    <3>2. CASE cache[Key(c)] \in Ints /\ Write(Key(c), Increment(cache[Key(c)]))
      BY <2>1, <2>2, <3>2, IncrementType, WriteRefines
    <3>3. CASE UNCHANGED <<cache, watchedKeys, dirtyClients>>
      <4>1. NoEffect
        BY <2>4, <3>3, SpendKeeps DEF RunIncr, NoEffect
      <4> QED
        BY <2>2, <4>1, NoEffectRefines
    <3> QED
      BY <2>4, <3>1, <3>2, <3>3 DEF RunIncr
  <2> QED
    BY <1>4, <2>3, <2>4
<1>5. CASE SetExpiry(c) \/ RunGet(c) \/ GetDelete(c)
  <2>1. NoEffect \/ DropEffect
    <3>1. CASE SetExpiry(c)
      BY <3>1 DEF SetExpiry, NoEffect, Kept, ghost
    <3>2. CASE RunGet(c)
      BY <3>2, SpendKeeps DEF RunGet, NoEffect, store
    <3>3. CASE GetDelete(c)
      BY <3>3, HeadCommand DEF GetDelete, DropEffect, Kept, ghost
    <3> QED
      BY <1>5, <3>1, <3>2, <3>3
  <2>2. pc[c] \in {"run", "ttl", "gone"} /\ (Goto(c, "idle") \/ Goto(c, "run") \/ Goto(c, "gone"))
    BY <1>5 DEF SetExpiry, RunGet, GetDelete, Finish, At
  <2>3. SameVerdicts
    BY <2>2, GotoVerdict
  <2> QED
    BY <2>1, <2>3, NoEffectRefines
<1> QED
  BY <1>1, <1>2, <1>3, <1>4, <1>5 DEF Handler

LEMMA NextRefines ==
  ASSUME TypeOK, FlagOnlyWatchers, [Next]_vars
  PROVE  [OL!Next]_OL!vars
<1>1. ASSUME NEW k \in Keys, Lapse(k) \/ ExpireSleeper(k) PROVE UNCHANGED OL!vars
  <2>1. NoEffect \/ DropEffect
    BY <1>1 DEF NoEffect, DropEffect, Kept, Lapse, ExpireSleeper, ghost
  <2>2. SameVerdicts
    BY <1>1 DEF Lapse, ExpireSleeper, SameVerdicts, Verdict
  <2> QED
    BY <2>1, <2>2, NoEffectRefines
<1>2. ASSUME UNCHANGED vars PROVE UNCHANGED OL!vars
  BY <1>2 DEF vars, store, OL!vars, Status, Verdict, WatchedBy
<1> QED
  BY <1>1, <1>2, ClientRefines, HandlerRefines DEF Next, Clock

\* However the critical sections of MULTI, EXEC, DISCARD, WATCH and the commands
\* interleave, each client sees the life cycle that WATCH promises.
THEOREM RefinesOptimisticLock == Spec => OptimisticLocking
<1>1. Init => OL!Init
  BY DEF Init, OL!Init, Status, Verdict, WatchedBy
<1>2. TypeOK /\ FlagOnlyWatchers /\ [Next]_vars => [OL!Next]_OL!vars
  BY NextRefines
<1> QED
  BY <1>1, <1>2, TypeCorrect, FlagsBelongToWatchers, PTL DEF Spec, OptimisticLocking, OL!Spec

===============================================================================
