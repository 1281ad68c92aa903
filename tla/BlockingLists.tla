----------------------------- MODULE BlockingLists ----------------------------
(***************************************************************************)
(* LPUSH, RPUSH, LPOP, RPOP and BLPOP on the lists of the Store.           *)
(*                                                                         *)
(* A BLPOP that finds nothing parks: it puts a channel of capacity one     *)
(* into Store.waiters and sleeps on it.  A push first hands its values to  *)
(* the parked channels, holding the Store's mutex, gives the mutex back,   *)
(* and stores what is left in a second critical section.  LPOP and RPOP    *)
(* read the list in one section and write the rest of it in another.       *)
(*                                                                         *)
(* One action is one critical section or one channel operation; the push   *)
(* loop, which may block on a channel with the mutex held, is one action   *)
(* per value.  Left out: the lengths that pushes reply, keys of another    *)
(* type or with a TTL, LRANGE and LLEN, which change nothing.  A list is a *)
(* value here: that slices share backing arrays is in Slices.  No XREAD    *)
(* waits on these keys and queues its channel in the same map: Waiters.    *)
(***************************************************************************)
EXTENDS Integers, Sequences, FiniteSets

CONSTANTS
  Conns,       \* client connections
  Keys,        \* names of lists
  Values,      \* elements; each is pushed at most once, so that it can be traced
  Chans,       \* channels make(chan string, 1) can return
  None,
  Calls,       \* the commands the clients send
  AofMayFail   \* can appendRESPCommandToAOF fail?

Ops == {"LPUSH", "RPUSH", "LPOP", "RPOP", "BLPOP"}

ASSUME NoneAssumption  == None \notin Values \union Chans \union Conns \union Calls
ASSUME CallsAssumption == Calls \subseteq [op : Ops, key : Keys, vals : Seq(Values),
                                           cnt : Nat \ {0}, timed : BOOLEAN]
ASSUME ValuesAssumption == \A cl \in Calls : \A i, j \in DOMAIN cl.vals :
                             cl.vals[i] = cl.vals[j] => i = j
ASSUME AofAssumption   == AofMayFail \in BOOLEAN

VARIABLES
  list,     \* Store.cache: the lists; an absent key is an empty list
  waiters,  \* Store.waiters
  buf,      \* what a channel holds
  mu,       \* who holds Store.mu between two actions
  pc,       \* where the handler of a connection stands
  call,     \* the command it runs
  local,    \* its slice: the values to place (pushes), the list it read (pops)
  chan,     \* its waiterChan (BLPOP)
  sent,     \* history: the values pushed so far
  taken,    \* history: how often a value went to a client (2: more than once)
  lost,     \* history: the values removed for a client that never gets them
  raced     \* history: the lists that a pop wrote though they had changed since it read them

store == <<list, waiters, buf>>
proc  == <<pc, call, local, chan>>
ghost == <<sent, taken, lost, raced>>
vars  == <<store, mu, proc, ghost>>

Elems(s) == {s[i] : i \in DOMAIN s}

Init ==
  /\ list = [k \in Keys |-> <<>>] /\ waiters = [k \in Keys |-> <<>>]
  /\ buf = [ch \in Chans |-> None]
  /\ mu = None
  /\ pc = [c \in Conns |-> "idle"] /\ call = [c \in Conns |-> None]
  /\ local = [c \in Conns |-> <<>>] /\ chan = [c \in Conns |-> None]
  /\ sent = {} /\ taken = [v \in Values |-> 0] /\ lost = {} /\ raced = {}

-------------------------------------------------------------------------------

Free == mu = None
K(c) == call[c].key

\* The command c runs next, and the place its handler goes to.
Begin(c, cl, at) == call' = [call EXCEPT ![c] = cl] /\ pc' = [pc EXCEPT ![c] = at]
Goto(c, at)      == pc' = [pc EXCEPT ![c] = at] /\ UNCHANGED call
Return(c)        == Begin(c, None, "idle")

\* The client of c is sent the values vs.
Deliver(vs) ==
  /\ taken' = [v \in Values |-> IF v \notin vs THEN taken[v] ELSE IF taken[v] = 0 THEN 1 ELSE 2]
  /\ UNCHANGED lost

\* The values vs leave the Store for nobody.
Lose(vs) == lost' = lost \union vs /\ UNCHANGED taken

Backwards(s) == [i \in DOMAIN s |-> s[Len(s) + 1 - i]]
Without(s, i) == [j \in 1 .. Len(s) - 1 |-> IF j < i THEN s[j] ELSE s[j + 1]]

\* The channels something still refers to: make returns none of them.
InUse == (UNION {Elems(waiters[k]) : k \in Keys}) \union {chan[c] : c \in Conns}

-------------------------------------------------------------------------------
(* LPUSH and RPUSH.                                                        *)

PushLock(c) == \E cl \in Calls :
  /\ pc[c] = "idle" /\ Free
  /\ cl.op \in {"LPUSH", "RPUSH"} /\ cl.vals # <<>> /\ Elems(cl.vals) \intersect sent = {}
  /\ mu' = c
  /\ local' = [local EXCEPT ![c] = cl.vals] /\ sent' = sent \union Elems(cl.vals)
  /\ Begin(c, cl, "handoff")
  /\ UNCHANGED <<store, chan, taken, lost, raced>>

\* Mutant: the value is handed over and stored as well.
HandOver_KeepsValue(c) ==
  /\ pc[c] = "handoff" /\ local[c] # <<>> /\ waiters[K(c)] # <<>>
  /\ buf[Head(waiters[K(c)])] = None
  /\ buf' = [buf EXCEPT ![Head(waiters[K(c)])] = Head(local[c])]
  /\ waiters' = [waiters EXCEPT ![K(c)] = Tail(@)]
  /\ UNCHANGED <<list, mu, proc, ghost>>

\* waiterChan <- val, under the mutex: it blocks while the channel is full.
HandOver(c) ==
  /\ pc[c] = "handoff" /\ local[c] # <<>> /\ waiters[K(c)] # <<>>
  /\ buf[Head(waiters[K(c)])] = None
  /\ buf' = [buf EXCEPT ![Head(waiters[K(c)])] = Head(local[c])]
  /\ waiters' = [waiters EXCEPT ![K(c)] = Tail(@)]
  /\ local' = [local EXCEPT ![c] = Tail(@)]
  /\ UNCHANGED <<list, mu, pc, call, chan, ghost>>

PushUnlock(c) ==
  /\ pc[c] = "handoff" /\ (local[c] = <<>> \/ waiters[K(c)] = <<>>)
  /\ mu' = None
  /\ IF local[c] = <<>> THEN Return(c) ELSE Goto(c, "store")
  /\ UNCHANGED <<store, local, chan, ghost>>

\* LPush or RPush of the remaining values, in the second critical section.
PushStore(c) ==
  /\ pc[c] = "store" /\ Free
  /\ list' = [list EXCEPT ![K(c)] = IF call[c].op = "LPUSH" THEN Backwards(local[c]) \o @
                                                            ELSE @ \o local[c]]
  /\ local' = [local EXCEPT ![c] = <<>>] /\ Return(c)
  /\ UNCHANGED <<waiters, buf, mu, chan, ghost>>

-------------------------------------------------------------------------------
(* LPOP and RPOP.                                                          *)

PopGet(c) == \E cl \in Calls :
  /\ pc[c] = "idle" /\ Free
  /\ cl.op \in {"LPOP", "RPOP"} /\ list[cl.key] # <<>>
  /\ local' = [local EXCEPT ![c] = list[cl.key]]
  /\ Begin(c, cl, "set")
  /\ UNCHANGED <<store, mu, chan, ghost>>

\* How many elements LPOP takes of the list it read, and the values either takes.
Count(c)  == IF call[c].cnt > Len(local[c]) THEN Len(local[c]) ELSE call[c].cnt
Popped(c) == {local[c][i] : i \in {j \in DOMAIN local[c] :
                IF call[c].op = "LPOP" THEN j <= Count(c) ELSE j = Len(local[c])}}

Rest(c) == IF call[c].op = "LPOP" THEN SubSeq(local[c], Count(c) + 1, Len(local[c]))
                                  ELSE SubSeq(local[c], 1, Len(local[c]) - 1)

\* Store.Set of the rest, then the reply; if the log fails, an error instead.
PopSet(c) ==
  /\ pc[c] = "set" /\ Free
  /\ list' = [list EXCEPT ![K(c)] = Rest(c)]
  /\ Deliver(Popped(c)) \/ (AofMayFail /\ Lose(Popped(c)))
  /\ local' = [local EXCEPT ![c] = <<>>] /\ Return(c)
  /\ raced' = IF local[c] = list[K(c)] THEN raced ELSE raced \union {K(c)}
  /\ UNCHANGED <<waiters, buf, mu, chan, sent>>

-------------------------------------------------------------------------------
(* BLPOP.                                                                  *)

\* It finds a value: all of this, reply included, under the mutex.  If the log
\* fails the handler returns without giving the mutex back.
BlpopTake(c) == \E cl \in Calls :
  /\ pc[c] = "idle" /\ Free
  /\ cl.op = "BLPOP" /\ list[cl.key] # <<>>
  /\ list' = [list EXCEPT ![cl.key] = Tail(@)]
  /\ \/ Deliver({Head(list[cl.key])}) /\ UNCHANGED mu
     \/ AofMayFail /\ mu' = c /\ Lose({Head(list[cl.key])})
  /\ UNCHANGED <<waiters, buf, proc, sent, raced>>

\* It finds none: it queues a new channel and sleeps.
BlpopPark(c) == \E cl \in Calls : \E ch \in Chans \ InUse :
  /\ pc[c] = "idle" /\ Free
  /\ cl.op = "BLPOP" /\ list[cl.key] = <<>>
  /\ waiters' = [waiters EXCEPT ![cl.key] = Append(@, ch)]
  /\ buf' = [buf EXCEPT ![ch] = None] /\ chan' = [chan EXCEPT ![c] = ch]
  /\ Begin(c, cl, "parked")
  /\ UNCHANGED <<list, mu, local, ghost>>

\* val := <-waiterChan, and the reply.
BlpopWake(c) ==
  /\ pc[c] = "parked" /\ buf[chan[c]] # None
  /\ Deliver({buf[chan[c]]})
  /\ buf' = [buf EXCEPT ![chan[c]] = None] /\ chan' = [chan EXCEPT ![c] = None]
  /\ Return(c)
  /\ UNCHANGED <<list, waiters, mu, local, sent, raced>>

\* <-time.After: select may choose it even when the channel holds a value.
BlpopTimeout(c) ==
  /\ pc[c] = "parked" /\ call[c].timed
  /\ Goto(c, "cleanup")
  /\ UNCHANGED <<store, mu, local, chan, ghost>>

\* Mutant: the channel of a BLPOP that timed out stays in the queue.
CleanUpExpiredKeyWaiter_Forgets(c) ==
  /\ pc[c] = "cleanup" /\ Free
  /\ chan' = [chan EXCEPT ![c] = None] /\ Return(c)
  /\ UNCHANGED <<store, mu, local, ghost>>

\* The first occurrence of the channel leaves the queue.
CleanUpExpiredKeyWaiter(c) ==
  /\ pc[c] = "cleanup" /\ Free
  /\ \/ \E i \in DOMAIN waiters[K(c)] :
          /\ waiters[K(c)][i] = chan[c] /\ \A j \in 1 .. i - 1 : waiters[K(c)][j] # chan[c]
          /\ waiters' = [waiters EXCEPT ![K(c)] = Without(@, i)]
     \/ chan[c] \notin Elems(waiters[K(c)]) /\ UNCHANGED waiters
  /\ chan' = [chan EXCEPT ![c] = None] /\ Return(c)
  /\ buf' = [buf EXCEPT ![chan[c]] = None] /\ Lose({buf[chan[c]]} \ {None})
  /\ UNCHANGED <<list, mu, local, sent, raced>>

-------------------------------------------------------------------------------

Client(c)  == PushLock(c) \/ PopGet(c) \/ BlpopTake(c) \/ BlpopPark(c)
Running(c) == HandOver(c) \/ PushUnlock(c) \/ BlpopWake(c) \/ BlpopTimeout(c)
Locking(c) == PushStore(c) \/ PopSet(c) \/ CleanUpExpiredKeyWaiter(c)

Next == \E c \in Conns : Client(c) \/ Running(c) \/ Locking(c)

\* That calls come to their end, beside streams, is for Waiters to say.
Spec == Init /\ [][Next]_vars

-------------------------------------------------------------------------------
(* Properties.                                                             *)

PCs == {"idle", "handoff", "store", "set", "parked", "cleanup"}

TypeOK ==
  /\ list \in [Keys -> Seq(Values)] /\ waiters \in [Keys -> Seq(Chans)]
  /\ buf \in [Chans -> Values \union {None}]
  /\ mu \in Conns \union {None}
  /\ pc \in [Conns -> PCs] /\ call \in [Conns -> Calls \union {None}]
  /\ local \in [Conns -> Seq(Values)] /\ chan \in [Conns -> Chans \union {None}]
  /\ sent \in SUBSET Values /\ taken \in [Values -> 0 .. 2] /\ lost \in SUBSET Values /\ raced \in SUBSET Keys
  /\ \A c \in Conns : (call[c] = None) <=> (pc[c] = "idle")
  /\ \A c \in Conns : (chan[c] = None) <=> (pc[c] \notin {"parked", "cleanup"})

\* A channel in the queue of a key is there once, is empty, and belongs to a
\* BLPOP of that key whose handler is still in the call: so the send in the push
\* loop of handleLPUSH and handleRPUSH, made with the mutex held, never blocks.
WaitersAreParked ==
  \A k \in Keys : \A i \in DOMAIN waiters[k] :
    /\ buf[waiters[k][i]] = None
    /\ \A j \in DOMAIN waiters[k] : waiters[k][j] = waiters[k][i] => i = j
    /\ \E c \in Conns : /\ chan[c] = waiters[k][i]
                        /\ pc[c] \in {"parked", "cleanup"} /\ K(c) = k

\* Where a value is: in a list, in a channel, in the hands of a push, with a
\* client, or gone: a BLPOP that timed out has thrown it away with its channel, or
\* a pop has removed it and then failed to log that.
Places(v) ==
  (UNION {{<<"list", k, i>> : i \in {j \in DOMAIN list[k] : list[k][j] = v}} : k \in Keys})
  \union {<<"channel", ch>> : ch \in {h \in Chans : buf[h] = v}}
  \union (UNION {{<<"push", c, i>> : i \in {j \in DOMAIN local[c] : local[c][j] = v}} :
                 c \in {d \in Conns : pc[d] \in {"handoff", "store"}}})
  \union {<<"client", n>> : n \in 1 .. taken[v]}
  \union {<<"gone", u>> : u \in lost \intersect {v}}

\* The lists that v is pushed to.
ListsOf(v) == {cl.key : cl \in {d \in Calls : v \in Elems(d.vals)}}

\* A value that was pushed is in one place and goes to one client at most, whatever
\* pushes, BLPOPs, timeouts and cleanups run between the critical sections of
\* handleLPUSH, handleRPUSH, handleLPOP, handleRPOP and handleBLPOP: none is dropped, none
\* is doubled, unless a pop wrote its list back over what others had made of it meanwhile.
OnePlace ==
  \A v \in Values : ListsOf(v) \intersect raced = {} =>
    Cardinality(Places(v)) = IF v \in sent THEN 1 ELSE 0

===============================================================================
