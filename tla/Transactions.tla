----------------------------- MODULE Transactions -----------------------------
(***************************************************************************)
(* MULTI, EXEC, DISCARD, WATCH and UNWATCH over the string commands, as    *)
(* the connection handlers of the server run them: one goroutine per       *)
(* connection, all of them sharing one Store whose mutex every operation   *)
(* takes and gives back, some handlers several times.  One action is one   *)
(* critical section of the Store, together with whatever its handler does  *)
(* alone before and after it; between two actions of a handler the other   *)
(* handlers and the expiry goroutines run.                                 *)
(*                                                                         *)
(* Left out: the arity errors, the reply bytes, and persistWriteCommand    *)
(* (the log and the replicas), none of which touches this state.           *)
(***************************************************************************)
EXTENDS Integers, Sequences

CONSTANTS
  Conns,           \* client connections
  Keys,            \* names of keys
  Text,            \* string values strconv.Atoi refuses
  MinInt, MaxInt,  \* the range of Go's int
  Nil,             \* "the map has no such entry"
  Commands,        \* the commands the clients send
  MaxQueue         \* bound on the length of a transaction queue (state space)

Ints    == MinInt..MaxInt
Strings == Text \union Ints   \* a decimal string is the number it denotes
Ops     == {"SET", "SETPX", "INCR", "GET", "UNWATCH"}
PCs     == {"closed", "idle", "run", "ttl", "gone",
            "check", "commit", "abort", "discard", "closing"}

ASSUME RangeAssumption    == MinInt \in Int /\ MaxInt \in Int /\ MinInt <= 0 /\ MaxInt >= 1
ASSUME NilAssumption      == Nil \notin Strings
ASSUME CommandsAssumption == Commands \subseteq [op : Ops, key : Keys, val : Strings]
ASSUME MaxQueueAssumption == MaxQueue \in Nat

VARIABLES
  cache,         \* Store.cache
  expiry,        \* Store.expiry: no entry, an instant to come, an instant past
  inTx,          \* the connections with an entry in Store.transactions
  queue,         \* the commands of those entries
  watchedKeys,   \* Store.watchedKeys: the connections that watch a key
  dirtyClients,  \* Store.dirtyClients
  pc,            \* where the handler of a connection stands
  todo,          \* the commands it has still to run (EXEC: the local queue)
  seen,          \* history: what a watched key held when it was first watched
  guard          \* history: the keys EXEC vouched for, until its first command

store == <<cache, expiry, watchedKeys, dirtyClients>>
tx    == <<inTx, queue>>
ghost == <<seen, guard>>
vars  == <<store, tx, pc, todo, ghost>>

WatchedBy(c) == {k \in Keys : c \in watchedKeys[k]}

Init ==
  /\ cache = [k \in Keys |-> Nil] /\ expiry = [k \in Keys |-> "none"]
  /\ inTx = {} /\ queue = [c \in Conns |-> <<>>]
  /\ watchedKeys = [k \in Keys |-> {}] /\ dirtyClients = {}
  /\ pc = [c \in Conns |-> "closed"] /\ todo = [c \in Conns |-> <<>>]
  /\ seen = [c \in Conns |-> [k \in Keys |-> Nil]]
  /\ guard = [c \in Conns |-> {}]

-------------------------------------------------------------------------------
(* Helpers of the Store and of the handlers.                               *)

Goto(c, at) == pc' = [pc EXCEPT ![c] = at]

\* Unwatch: c leaves every watch set and its flag is dropped.
Forget(c) ==
  /\ watchedKeys'  = [k \in Keys |-> watchedKeys[k] \ {c}]
  /\ dirtyClients' = dirtyClients \ {c}

Unsee(c) == seen' = [seen EXCEPT ![c] = [k \in Keys |-> Nil]]

\* A write of k by Set or Incr ends with markDirty: all who watch k are flagged.
Write(k, v) ==
  /\ cache' = [cache EXCEPT ![k] = v]
  /\ dirtyClients' = dirtyClients \union watchedKeys[k]
  /\ UNCHANGED watchedKeys

\* delete(cache, k); delete(expiry, k): the deletions by expiry flag nobody.
Drop(k) ==
  /\ cache'  = [cache EXCEPT ![k] = Nil]
  /\ expiry' = [expiry EXCEPT ![k] = "none"]
  /\ UNCHANGED <<watchedKeys, dirtyClients>>

\* intVal++ on a Go int wraps around.
Increment(i) == IF i = MaxInt THEN MinInt ELSE i + 1

-------------------------------------------------------------------------------
(* Between commands: the accept loop and the read loop of a connection.    *)

Accept(c) ==
  /\ pc[c] = "closed"
  /\ Goto(c, "idle")
  /\ UNCHANGED <<store, tx, todo, ghost>>

\* A plain command, outside a transaction, goes to its handler at once ...
Receive(c) == \E cmd \in Commands :
  /\ pc[c] = "idle" /\ c \notin inTx
  /\ Goto(c, "run") /\ todo' = [todo EXCEPT ![c] = <<cmd>>]
  /\ UNCHANGED <<store, tx, ghost>>

\* ... and inside one it is queued.
QueueCommand(c) == \E cmd \in Commands :
  /\ pc[c] = "idle" /\ c \in inTx /\ Len(queue[c]) < MaxQueue
  /\ queue' = [queue EXCEPT ![c] = Append(@, cmd)]
  /\ UNCHANGED <<store, inTx, pc, todo, ghost>>

Multi(c) ==
  /\ pc[c] = "idle" /\ c \notin inTx
  /\ inTx' = inTx \union {c} /\ queue' = [queue EXCEPT ![c] = <<>>]
  /\ UNCHANGED <<store, pc, todo, ghost>>

\* Mutant: a second WATCH starts with a clean slate.
Watch_ResetsFlag(c) == \E ks \in (SUBSET Keys) \ {{}} :
  /\ pc[c] = "idle" /\ c \notin inTx
  /\ watchedKeys' = [k \in Keys |-> IF k \in ks THEN watchedKeys[k] \union {c} ELSE watchedKeys[k]]
  /\ seen' = [seen EXCEPT ![c] = [k \in Keys |->
                IF k \in ks /\ c \notin watchedKeys[k] THEN cache[k] ELSE seen[c][k]]]
  /\ dirtyClients' = dirtyClients \ {c}
  /\ UNCHANGED <<cache, expiry, tx, pc, todo, guard>>

Watch(c) == \E ks \in (SUBSET Keys) \ {{}} :
  /\ pc[c] = "idle" /\ c \notin inTx
  /\ watchedKeys' = [k \in Keys |-> IF k \in ks THEN watchedKeys[k] \union {c} ELSE watchedKeys[k]]
  /\ seen' = [seen EXCEPT ![c] = [k \in Keys |->
                IF k \in ks /\ c \notin watchedKeys[k] THEN cache[k] ELSE seen[c][k]]]
  /\ UNCHANGED <<cache, expiry, dirtyClients, tx, pc, todo, guard>>

\* DISCARD clears the transaction and, in a second section, the watches.
Discard(c) ==
  /\ pc[c] = "idle" /\ c \in inTx
  /\ inTx' = inTx \ {c} /\ queue' = [queue EXCEPT ![c] = <<>>]
  /\ Goto(c, "discard")
  /\ UNCHANGED <<store, todo, ghost>>

DiscardUnwatch(c) ==
  /\ pc[c] = "discard"
  /\ Forget(c) /\ Unsee(c) /\ Goto(c, "idle")
  /\ UNCHANGED <<cache, expiry, tx, todo, guard>>

\* The connection ends between two commands: the deferred calls, in order.
CloseUnwatch(c) ==
  /\ pc[c] = "idle"
  /\ Forget(c) /\ Unsee(c) /\ Goto(c, "closing")
  /\ UNCHANGED <<cache, expiry, tx, todo, guard>>

CloseTx(c) ==
  /\ pc[c] = "closing"
  /\ inTx' = inTx \ {c} /\ queue' = [queue EXCEPT ![c] = <<>>]
  /\ Goto(c, "closed")
  /\ UNCHANGED <<store, todo, ghost>>

-------------------------------------------------------------------------------
(* EXEC: take the queue, read the flag, unwatch, and only then run.        *)

\* Mutant: the queue is read but the transaction is not ended.
ExecTakeQueue_KeepsTx(c) ==
  /\ pc[c] = "idle" /\ c \in inTx
  /\ todo' = [todo EXCEPT ![c] = queue[c]]
  /\ Goto(c, "check")
  /\ UNCHANGED <<store, tx, ghost>>

\* Mutant: the watches are released before the flag is read.
ExecTakeQueue_UnwatchFirst(c) ==
  /\ pc[c] = "idle" /\ c \in inTx
  /\ inTx' = inTx \ {c} /\ queue' = [queue EXCEPT ![c] = <<>>]
  /\ todo' = [todo EXCEPT ![c] = queue[c]]
  /\ Forget(c) /\ Goto(c, "check")
  /\ UNCHANGED <<cache, expiry, ghost>>

ExecTakeQueue(c) ==
  /\ pc[c] = "idle" /\ c \in inTx
  /\ inTx' = inTx \ {c} /\ queue' = [queue EXCEPT ![c] = <<>>]
  /\ todo' = [todo EXCEPT ![c] = queue[c]]
  /\ Goto(c, "check")
  /\ UNCHANGED <<store, ghost>>

ExecIsDirty(c) ==
  /\ pc[c] = "check"
  /\ Goto(c, IF c \in dirtyClients THEN "abort" ELSE "commit")
  /\ UNCHANGED <<store, tx, todo, ghost>>

ExecUnwatchAbort(c) ==
  /\ pc[c] = "abort"
  /\ Forget(c) /\ Unsee(c)
  /\ todo' = [todo EXCEPT ![c] = <<>>] /\ Goto(c, "idle")
  /\ UNCHANGED <<cache, expiry, tx, guard>>

ExecUnwatchCommit(c) ==
  /\ pc[c] = "commit"
  /\ Forget(c)
  /\ \/ /\ todo[c] = <<>> /\ Goto(c, "idle")
        /\ Unsee(c) /\ UNCHANGED guard
     \/ /\ todo[c] # <<>> /\ Goto(c, "run")
        /\ guard' = [guard EXCEPT ![c] = WatchedBy(c)] /\ UNCHANGED seen
  /\ UNCHANGED <<cache, expiry, tx, todo>>

-------------------------------------------------------------------------------
(* Running one command: alone, or the next of EXEC's queue.                *)

\* History: once a command runs, EXEC's promise about the watched keys is spent.
Spend(c) ==
  /\ guard' = [guard EXCEPT ![c] = {}]
  /\ seen' = [seen EXCEPT ![c] = [k \in Keys |-> IF c \in watchedKeys[k] THEN @[k] ELSE Nil]]

At(c, op) == pc[c] = "run" /\ Head(todo[c]).op = op
Key(c)    == Head(todo[c]).key

\* Mutant: the loop over the queue does not advance.
Finish_Stuck(c) == Goto(c, IF Len(todo[c]) = 0 THEN "idle" ELSE "run") /\ UNCHANGED todo

\* The handler returns: the next command of the queue, or the next request.
Finish(c) ==
  /\ todo' = [todo EXCEPT ![c] = Tail(@)]
  /\ Goto(c, IF Len(todo[c]) = 1 THEN "idle" ELSE "run")

RunSet(c) ==
  /\ At(c, "SET")
  /\ Write(Key(c), Head(todo[c]).val) /\ expiry' = [expiry EXCEPT ![Key(c)] = "none"]
  /\ Spend(c) /\ Finish(c)
  /\ UNCHANGED tx

\* SetWithTTL: Set, and the instant of expiry in a section of its own.
RunSetPX(c) ==
  /\ At(c, "SETPX")
  /\ Write(Key(c), Head(todo[c]).val) /\ expiry' = [expiry EXCEPT ![Key(c)] = "none"]
  /\ Spend(c) /\ Goto(c, "ttl")
  /\ UNCHANGED <<tx, todo>>

SetExpiry(c) ==
  /\ pc[c] = "ttl"
  /\ expiry' = [expiry EXCEPT ![Key(c)] = "live"]
  /\ Finish(c)
  /\ UNCHANGED <<cache, watchedKeys, dirtyClients, tx, ghost>>

RunIncr(c) ==
  /\ At(c, "INCR")
  /\ \/ /\ cache[Key(c)] = Nil     /\ Write(Key(c), 1)
     \/ /\ cache[Key(c)] \in Ints  /\ Write(Key(c), Increment(cache[Key(c)]))
     \/ /\ cache[Key(c)] \in Text \ Ints  /\ UNCHANGED <<cache, watchedKeys, dirtyClients>>
  /\ Spend(c) /\ Finish(c)
  /\ UNCHANGED <<expiry, tx>>

\* Get: one read section; a value past its instant is deleted in a second one.
RunGet(c) ==
  /\ At(c, "GET")
  /\ \/ /\ cache[Key(c)] # Nil /\ expiry[Key(c)] = "due"
        /\ Goto(c, "gone") /\ UNCHANGED todo
     \/ /\ cache[Key(c)] = Nil \/ expiry[Key(c)] # "due"
        /\ Finish(c)
  /\ Spend(c)
  /\ UNCHANGED <<store, tx>>

GetDelete(c) ==
  /\ pc[c] = "gone"
  /\ Drop(Key(c)) /\ Finish(c)
  /\ UNCHANGED <<tx, ghost>>

RunUnwatch(c) ==
  /\ At(c, "UNWATCH")
  /\ Forget(c) /\ Unsee(c) /\ guard' = [guard EXCEPT ![c] = {}] /\ Finish(c)
  /\ UNCHANGED <<cache, expiry, tx>>

-------------------------------------------------------------------------------
(* Time, and the goroutine SetWithTTL leaves behind.                       *)

Lapse(k) ==
  /\ expiry[k] = "live"
  /\ expiry' = [expiry EXCEPT ![k] = "due"]
  /\ UNCHANGED <<cache, watchedKeys, dirtyClients, tx, pc, todo, ghost>>

ExpireSleeper(k) ==
  /\ expiry[k] = "due"
  /\ Drop(k)
  /\ UNCHANGED <<tx, pc, todo, ghost>>

-------------------------------------------------------------------------------

\* What a client sends or does, and what a handler in the middle of one does.
Client(c) ==
  \/ Accept(c) \/ Receive(c) \/ QueueCommand(c) \/ Multi(c) \/ Watch(c)
  \/ Discard(c) \/ CloseUnwatch(c) \/ ExecTakeQueue(c)

Handler(c) ==
  \/ DiscardUnwatch(c) \/ CloseTx(c)
  \/ ExecIsDirty(c) \/ ExecUnwatchAbort(c) \/ ExecUnwatchCommit(c)
  \/ RunSet(c) \/ RunSetPX(c) \/ SetExpiry(c) \/ RunIncr(c)
  \/ RunGet(c) \/ GetDelete(c) \/ RunUnwatch(c)

Clock == \E k \in Keys : Lapse(k) \/ ExpireSleeper(k)

Next == Clock \/ \E c \in Conns : Client(c) \/ Handler(c)

\* The Go scheduler runs every goroutine that can run; clients owe nothing.
Fairness == \A c \in Conns : WF_vars(Handler(c))

Spec == Init /\ [][Next]_vars /\ Fairness

-------------------------------------------------------------------------------
(* Properties.                                                             *)

TypeOK ==
  /\ cache \in [Keys -> Strings \union {Nil}]
  /\ expiry \in [Keys -> {"none", "live", "due"}]
  /\ inTx \in SUBSET Conns /\ queue \in [Conns -> Seq(Commands)]
  /\ watchedKeys \in [Keys -> SUBSET Conns] /\ dirtyClients \in SUBSET Conns
  /\ pc \in [Conns -> PCs] /\ todo \in [Conns -> Seq(Commands)]
  /\ seen \in [Conns -> [Keys -> Strings \union {Nil}]]
  /\ guard \in [Conns -> SUBSET Keys]
  /\ \A c \in Conns : pc[c] \in {"run", "ttl", "gone"} => todo[c] # <<>>

\* A connection is flagged only while it watches something: no flag of an
\* earlier transaction, UNWATCH or connection can abort a later EXEC.
FlagOnlyWatchers == \A c \in dirtyClients : WatchedBy(c) # {}

\* As long as its client is not flagged, a watched key holds what it held when
\* it was watched, or has expired since (storage.go's deletions by expiry do
\* not call markDirty): no interleaving of Set, SetWithTTL, Incr and a second
\* WATCH hides a write.
UnflaggedWatchIsFresh ==
  \A k \in Keys : \A c \in watchedKeys[k] \ dirtyClients : cache[k] \in {seen[c][k], Nil}

\* handleEXEC runs the queued commands through handleCommand, which would queue
\* them again for a connection still in a transaction: it never is, at any point
\* of EXEC, DISCARD or a command, and a connection that is gone has left nothing.
OutsideTxWhileRunning ==
  /\ \A c \in inTx : pc[c] \in {"idle", "closing"}
  /\ \A c \in Conns : pc[c] = "closed" => WatchedBy(c) = {} /\ c \notin inTx \union dirtyClients

\* The README's "aborting transactions if changes occur (CAS - Compare and Swap
\* logic)": when the first command of a committed EXEC is about to run, every key
\* the client watched still holds what it held when it was watched.
CompareAndSwap == \A c \in Conns : \A k \in guard[c] : cache[k] \in {seen[c][k], Nil}

\* Every EXEC, DISCARD or command that was begun returns to its client, whatever
\* the other connections do: no handler waits for another.
HandlersReturn == \A c \in Conns : pc[c] \notin {"closed", "idle"} ~> pc[c] \in {"closed", "idle"}

(* The life cycle a WATCH promises (module OptimisticLock).                *)
Status(c)  == IF c \in dirtyClients THEN "flagged"
              ELSE IF WatchedBy(c) # {} THEN "clean" ELSE "unwatched"
Verdict(c) == CASE pc[c] = "check"               -> "pending"
                [] pc[c] \in {"commit", "abort"} -> pc[c]
                [] OTHER                         -> "none"

OL == INSTANCE OptimisticLock WITH status  <- [c \in Conns |-> Status(c)],
                                   verdict <- [c \in Conns |-> Verdict(c)]

\* However the critical sections of the handlers interleave, a client sees the
\* WATCH life cycle: flags are never lost, never invented, and decide EXEC.
OptimisticLocking == OL!Spec

===============================================================================
