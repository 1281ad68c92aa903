-------------------------------- MODULE Waiters -------------------------------
(***************************************************************************)
(* Lists and streams on one map: LPUSH, RPUSH, BLPOP, XADD and XREAD BLOCK *)
(* all use Store.waiters, and none of them looks what kind of waiter a     *)
(* channel in a queue belongs to, or what the key holds by now.            *)
(*                                                                         *)
(* BlockingLists and Streams are the two halves in detail.  Here an entry  *)
(* is its ID, IDs come from the clock and increase, and pops, IDs that are *)
(* refused and a log that fails are left out; what is kept is every        *)
(* section, send and receive that touches a queue or a channel.  One       *)
(* action is one of these.                                                 *)
(***************************************************************************)
EXTENDS Integers, Sequences, FiniteSets

CONSTANTS
  Conns,   \* client connections
  Keys,    \* names of lists and streams
  Items,   \* elements of lists and IDs of entries; each is given once
  Chans,   \* channels make(chan string, 1) can return
  None,
  Calls    \* the commands each client sends

ASSUME NoneAssumption  == None \notin Items \union Chans \union Conns
                                           \union UNION {Calls[c] : c \in Conns}
ASSUME CallsAssumption ==
  \A c \in Conns : \A cl \in Calls[c] :
    /\ cl.op \in {"LPUSH", "RPUSH", "BLPOP", "XADD", "XREAD"}
    /\ cl.keys \in Seq(Keys) /\ cl.keys # <<>> /\ (Len(cl.keys) > 1 => cl.op = "XREAD")
    /\ \A i, j \in DOMAIN cl.keys : cl.keys[i] = cl.keys[j] => i = j
    /\ cl.op \in {"LPUSH", "RPUSH", "XADD"} => cl.items # <<>>
    /\ \A i, j \in DOMAIN cl.items : cl.items[i] = cl.items[j] => i = j
    /\ cl.items \in Seq(Items) /\ cl.timed \in BOOLEAN /\ cl.news \in BOOLEAN

VARIABLES
  cache,    \* Store.cache: what kind of value a key has, and its elements or entries
  waiters,  \* Store.waiters
  buf,      \* what a channel holds
  sends,    \* the goroutines of XADD: channel and ID
  mu,       \* who holds Store.mu between two actions
  pc,       \* where the handler of a connection stands
  call,     \* the command it runs
  local,    \* the values a push has still to place
  chan,     \* its channel (BLPOP, XREAD)
  todo,     \* the keys an XREAD's loop has still to do
  seen,     \* idsToUse: the entries of each key that are not above the ID
  given,    \* history: the items given to pushes and XADDs so far
  pushed,   \* history: those given to pushes
  taken,    \* history: how often a value went to a client of BLPOP (2: more than once)
  gone,     \* history: the values that were in a channel when nobody had it any more
  shared    \* history: the channels made by an XREAD of several keys

store == <<cache, waiters>>
comm  == <<buf, sends>>
proc  == <<pc, call, local, chan, todo, seen>>
ghost == <<given, pushed, taken, gone, shared>>
vars  == <<store, comm, mu, proc, ghost>>

Elems(s) == {s[i] : i \in DOMAIN s}
Absent   == [kind |-> "none", items |-> <<>>]

Init ==
  /\ cache = [k \in Keys |-> Absent] /\ waiters = [k \in Keys |-> <<>>]
  /\ buf = [ch \in Chans |-> None] /\ sends = {} /\ mu = None
  /\ pc = [c \in Conns |-> "idle"] /\ call = [c \in Conns |-> None]
  /\ local = [c \in Conns |-> <<>>] /\ chan = [c \in Conns |-> None]
  /\ todo = [c \in Conns |-> <<>>] /\ seen = [c \in Conns |-> [k \in Keys |-> {}]]
  /\ given = {} /\ pushed = {} /\ taken = [v \in Items |-> 0] /\ gone = {} /\ shared = {}

-------------------------------------------------------------------------------

Free == mu = None
K(c) == call[c].keys[1]

Goto(c, at) == pc' = [pc EXCEPT ![c] = at]
Begin(c, cl, at) == Goto(c, at) /\ call' = [call EXCEPT ![c] = cl]

\* The handler returns, and nobody has its channel but the queues and goroutines.
Return(c) ==
  /\ Goto(c, "idle") /\ call' = [call EXCEPT ![c] = None] /\ chan' = [chan EXCEPT ![c] = None]
  /\ todo' = [todo EXCEPT ![c] = <<>>] /\ seen' = [seen EXCEPT ![c] = [k \in Keys |-> {}]]

\* A channel that nobody refers to any more, with what it held, becomes the new one of c.
Make(c, ch) ==
  /\ \A k \in Keys : ch \notin Elems(waiters[k])
  /\ \A s \in sends : s[1] # ch
  /\ \A d \in Conns : chan[d] # ch
  /\ chan' = [chan EXCEPT ![c] = ch] /\ buf' = [buf EXCEPT ![ch] = None]
  /\ gone' = gone \union ({buf[ch]} \intersect pushed)

Backwards(s) == [i \in DOMAIN s |-> s[Len(s) + 1 - i]]

-------------------------------------------------------------------------------
(* LPUSH and RPUSH.                                                        *)

PushLock(c) == \E cl \in Calls[c] :
  /\ pc[c] = "idle" /\ Free
  /\ cl.op \in {"LPUSH", "RPUSH"} /\ Elems(cl.items) \intersect given = {}
  /\ mu' = c
  /\ local' = [local EXCEPT ![c] = cl.items]
  /\ given' = given \union Elems(cl.items) /\ pushed' = pushed \union Elems(cl.items)
  /\ Begin(c, cl, "handoff")
  /\ UNCHANGED <<store, comm, chan, todo, seen, taken, gone, shared>>

\* Has the push of c a value to send, and where to?
Sending(c) == pc[c] = "handoff" /\ local[c] # <<>> /\ waiters[K(c)] # <<>>
Target(c)  == Head(waiters[K(c)])

\* Mutant: the value is handed over, the channel stays in the queue.
HandOver_KeepsWaiter(c) ==
  /\ Sending(c) /\ buf[Target(c)] = None
  /\ buf' = [buf EXCEPT ![Target(c)] = Head(local[c])]
  /\ local' = [local EXCEPT ![c] = Tail(@)]
  /\ UNCHANGED <<store, sends, mu, pc, call, chan, todo, seen, ghost>>

\* Mutant: a push gives up on a channel that is full (select with a default).
HandOver_DropsWhenFull(c) ==
  /\ Sending(c)
  /\ buf' = IF buf[Target(c)] = None THEN [buf EXCEPT ![Target(c)] = Head(local[c])] ELSE buf
  /\ waiters' = [waiters EXCEPT ![K(c)] = Tail(@)]
  /\ local' = [local EXCEPT ![c] = Tail(@)]
  /\ UNCHANGED <<cache, sends, mu, pc, call, chan, todo, seen, ghost>>

\* waiterChan <- val, under the mutex: it blocks while the channel is full.
HandOver(c) ==
  /\ Sending(c) /\ buf[Target(c)] = None
  /\ buf' = [buf EXCEPT ![Target(c)] = Head(local[c])]
  /\ waiters' = [waiters EXCEPT ![K(c)] = Tail(@)]
  /\ local' = [local EXCEPT ![c] = Tail(@)]
  /\ UNCHANGED <<cache, sends, mu, pc, call, chan, todo, seen, ghost>>

\* Mutant: with nothing left to store, the mutex is not given back.
PushUnlock_OnlyToStore(c) ==
  /\ pc[c] = "handoff" /\ ~Sending(c)
  /\ IF local[c] = <<>> THEN Return(c) /\ UNCHANGED mu
     ELSE Goto(c, "store") /\ mu' = None /\ UNCHANGED <<call, chan, todo, seen>>
  /\ UNCHANGED <<store, comm, local, ghost>>

PushUnlock(c) ==
  /\ pc[c] = "handoff" /\ ~Sending(c)
  /\ mu' = None
  /\ IF local[c] = <<>> THEN Return(c) ELSE Goto(c, "store") /\ UNCHANGED <<call, chan, todo, seen>>
  /\ UNCHANGED <<store, comm, local, ghost>>

\* LPush or RPush of the rest: what is not a list by now is replaced by one.
PushStore(c) ==
  /\ pc[c] = "store" /\ Free
  /\ LET old == IF cache[K(c)].kind = "list" THEN cache[K(c)].items ELSE <<>>
         new == IF call[c].op = "LPUSH" THEN Backwards(local[c]) \o old ELSE old \o local[c]
     IN  cache' = [cache EXCEPT ![K(c)] = [kind |-> "list", items |-> new]]
  /\ local' = [local EXCEPT ![c] = <<>>] /\ Return(c)
  /\ UNCHANGED <<waiters, comm, mu, ghost>>

-------------------------------------------------------------------------------
(* XADD.                                                                   *)

\* The channels that are told of an entry: all, whoever waits there.
Told(k) == Elems(waiters[k])

\* It refuses a list; otherwise it appends, and starts a goroutine for each channel.
XAdd(c) == \E cl \in Calls[c] :
  /\ pc[c] = "idle" /\ Free
  /\ cl.op = "XADD" /\ Elems(cl.items) \intersect given = {}
  /\ LET k == cl.keys[1] IN
       /\ cache[k].kind # "list"
       /\ cache' = [cache EXCEPT ![k] = [kind |-> "stream", items |-> @.items \o cl.items]]
       /\ sends' = sends \union (Told(k) \X Elems(cl.items))
       /\ waiters' = [waiters EXCEPT ![k] = <<>>]
  /\ given' = given \union Elems(cl.items)
  /\ UNCHANGED <<buf, mu, proc, pushed, taken, gone, shared>>

\* A goroutine of XADD sends when there is room.
Send == \E s \in sends :
  /\ buf[s[1]] = None
  /\ buf' = [buf EXCEPT ![s[1]] = s[2]] /\ sends' = sends \ {s}
  /\ UNCHANGED <<store, mu, proc, ghost>>

-------------------------------------------------------------------------------
(* BLPOP.                                                                  *)

BlpopTake(c) == \E cl \in Calls[c] :
  /\ pc[c] = "idle" /\ Free
  /\ cl.op = "BLPOP"
  /\ LET k == cl.keys[1]
         s == cache[k].items
     IN  /\ cache[k].kind = "list"
         /\ cache' = [cache EXCEPT ![k] = IF Len(s) = 1 THEN Absent
                                          ELSE [@ EXCEPT !.items = Tail(s)]]
         /\ taken' = [taken EXCEPT ![Head(s)] = IF @ = 0 THEN 1 ELSE 2]
  /\ UNCHANGED <<waiters, comm, mu, proc, given, pushed, gone, shared>>

\* No list, or a stream: it sleeps.
BlpopPark(c) == \E cl \in Calls[c], ch \in Chans :
  /\ pc[c] = "idle" /\ Free
  /\ cl.op = "BLPOP" /\ cache[cl.keys[1]].kind # "list"
  /\ Make(c, ch) /\ shared' = shared \ {ch}
  /\ waiters' = [waiters EXCEPT ![cl.keys[1]] = Append(@, ch)]
  /\ Begin(c, cl, "parked")
  /\ UNCHANGED <<cache, sends, mu, local, todo, seen, given, pushed, taken>>

\* It replies what it was sent, be that a value or the ID of an entry.
BlpopWake(c) ==
  /\ pc[c] = "parked" /\ call[c].op = "BLPOP" /\ buf[chan[c]] # None
  /\ taken' = [taken EXCEPT ![buf[chan[c]]] = IF @ = 0 THEN 1 ELSE 2]
  /\ buf' = [buf EXCEPT ![chan[c]] = None]
  /\ Return(c)
  /\ UNCHANGED <<store, sends, mu, local, given, pushed, gone, shared>>

-------------------------------------------------------------------------------
(* XREAD BLOCK.                                                            *)

XreadBegin(c) == \E cl \in Calls[c], ch \in Chans :
  /\ pc[c] = "idle" /\ cl.op = "XREAD"
  /\ Make(c, ch) /\ shared' = IF Len(cl.keys) > 1 THEN shared \union {ch} ELSE shared \ {ch}
  /\ todo' = [todo EXCEPT ![c] = cl.keys]
  /\ Begin(c, cl, "register")
  /\ UNCHANGED <<store, sends, mu, local, seen, given, pushed, taken>>

\* The loop that queues the channel, and captures the tops for "$".
Register(c) ==
  /\ pc[c] = "register" /\ Free
  /\ LET k == Head(todo[c]) IN
       /\ waiters' = [waiters EXCEPT ![k] = Append(@, chan[c])]
       /\ seen' = [seen EXCEPT ![c][k] =
                     IF call[c].news /\ cache[k].kind = "stream" THEN Elems(cache[k].items) ELSE {}]
  /\ todo' = [todo EXCEPT ![c] = Tail(@)]
  /\ Goto(c, IF Len(todo[c]) = 1 THEN "read" ELSE "register")
  /\ UNCHANGED <<cache, comm, mu, call, local, chan, ghost>>

\* Store.XRead: it fails if a key has a list by now.
Bad(c)    == \E k \in Elems(call[c].keys) : cache[k].kind = "list"
HasAny(c) == ~Bad(c) /\ \E k \in Elems(call[c].keys) : Elems(cache[k].items) \ seen[c][k] # {}

\* It finds entries at once: reply.  The channel stays in the queues.
ReadAtOnce(c) ==
  /\ pc[c] = "read" /\ Free /\ HasAny(c)
  /\ Return(c)
  /\ UNCHANGED <<store, comm, mu, local, ghost>>

\* The loop at the end that takes the channel out of the queues.
CleanAll(c, at) ==
  /\ Goto(c, at) /\ todo' = [todo EXCEPT ![c] = call[c].keys]
  /\ UNCHANGED <<call, chan, seen>>

\* It finds an error: clean up, and reply that; or nothing: sleep.
ReadFails(c) ==
  /\ pc[c] = "read" /\ Free /\ Bad(c)
  /\ CleanAll(c, "cleanup")
  /\ UNCHANGED <<store, comm, mu, local, ghost>>

Park(c) ==
  /\ pc[c] = "read" /\ Free /\ ~Bad(c) /\ ~HasAny(c)
  /\ Goto(c, "parked")
  /\ UNCHANGED <<store, comm, mu, call, local, chan, todo, seen, ghost>>

\* <-ch: whatever it was sent, also a value of a push, is only a signal.
XreadWake(c) ==
  /\ pc[c] = "parked" /\ call[c].op = "XREAD" /\ buf[chan[c]] # None
  /\ gone' = gone \union ({buf[chan[c]]} \intersect pushed)
  /\ buf' = [buf EXCEPT ![chan[c]] = None]
  /\ CleanAll(c, "woken")
  /\ UNCHANGED <<store, sends, mu, local, given, pushed, taken, shared>>

\* <-time.After, in BLPOP and XREAD.
Timeout(c) ==
  /\ pc[c] = "parked" /\ call[c].timed
  /\ CleanAll(c, "cleanup")
  /\ UNCHANGED <<store, comm, mu, local, ghost>>

\* The first place of ch in s, dropped.
Without(s, ch) ==
  IF ch \notin Elems(s) THEN s
  ELSE LET i == CHOOSE j \in DOMAIN s : s[j] = ch /\ \A n \in 1 .. j - 1 : s[n] # ch IN
         SubSeq(s, 1, i - 1) \o SubSeq(s, i + 1, Len(s))

\* After the last key: reply the null array or the error, or look again.
CleanUpExpiredKeyWaiter(c) ==
  /\ pc[c] \in {"cleanup", "woken"} /\ todo[c] # <<>> /\ Free
  /\ waiters' = [waiters EXCEPT ![Head(todo[c])] = Without(@, chan[c])]
  /\ IF Len(todo[c]) = 1 /\ pc[c] = "cleanup" THEN Return(c)
     ELSE todo' = [todo EXCEPT ![c] = Tail(@)] /\ UNCHANGED <<pc, call, chan, seen>>
  /\ UNCHANGED <<cache, comm, mu, local, ghost>>

\* The second XRead, and the reply.
Reread(c) ==
  /\ pc[c] = "woken" /\ todo[c] = <<>> /\ Free
  /\ Return(c)
  /\ UNCHANGED <<store, comm, mu, local, ghost>>

-------------------------------------------------------------------------------

Client(c)  == PushLock(c) \/ XAdd(c) \/ BlpopTake(c) \/ BlpopPark(c) \/ XreadBegin(c)
Running(c) == HandOver(c) \/ PushUnlock(c) \/ BlpopWake(c) \/ XreadWake(c) \/ Timeout(c)
Locking(c) == \/ PushStore(c) \/ Register(c) \/ ReadAtOnce(c) \/ ReadFails(c) \/ Park(c)
              \/ CleanUpExpiredKeyWaiter(c) \/ Reread(c)

Next ==
  \/ \E c \in Conns : Client(c) \/ Running(c) \/ Locking(c)
  \/ Send

\* Who can run does, timers go off, and sync.RWMutex does not starve who waits for it.
Fairness == WF_vars(Send) /\ \A c \in Conns : WF_vars(Running(c)) /\ SF_vars(Locking(c))

Spec == Init /\ [][Next]_vars /\ Fairness

-------------------------------------------------------------------------------
(* Properties.                                                             *)

\* Only the channel of an XREAD of several keys can be sent to twice: any other that is
\* queued is queued once in all, empty, and no goroutine of XADD is about to send to it,
\* whether XADDs or pushes have told, and BLPOPs or XREADs have left, their key before.
OthersHaveRoom ==
  \A k \in Keys : \A i \in DOMAIN waiters[k] : waiters[k][i] \notin shared =>
    /\ buf[waiters[k][i]] = None /\ \A s \in sends : s[1] # waiters[k][i]
    /\ \A l \in Keys : \A j \in DOMAIN waiters[l] : waiters[l][j] = waiters[k][i] => l = k /\ j = i

\* Where a value is: in a list, a channel or a push, at a client of BLPOP, or in what
\* was thrown away with a channel or read by XREAD.
Copies(v) ==
  (UNION {{<<"list", k, i>> : i \in {j \in DOMAIN cache[k].items : cache[k].items[j] = v}} : k \in Keys})
  \union {<<"channel", ch>> : ch \in {h \in Chans : buf[h] = v}}
  \union (UNION {{<<"push", c, i>> : i \in {j \in DOMAIN local[c] : local[c][j] = v}} : c \in Conns})
  \union {<<"client", n>> : n \in 1 .. taken[v]}
  \union {<<"gone", w>> : w \in gone \intersect {v}}

\* LPUSH, RPUSH and BLPOP beside XADD and XREAD on the same keys: what these do to each
\* other costs no pushed value and doubles none; one that handleXREAD received as a mere
\* signal, or that was in the channel of a call that is over, is accounted for as gone.
OneCopy == \A v \in pushed : Cardinality(Copies(v)) = 1

\* A push sends with the mutex held to a channel that is full.
Stuck == \E c \in Conns : Sending(c) /\ buf[Target(c)] # None

\* The calls of handleLPUSH, handleBLPOP and handleXREAD return, unless they sleep without
\* a limit and have been sent nothing: nothing but a push that is stuck for ever stops them.
CallsReturn ==
  \A c \in Conns :
    [](pc[c] # "idle" => <>(\/ pc[c] = "idle"
                            \/ pc[c] = "parked" /\ ~call[c].timed /\ buf[chan[c]] = None
                            \/ []Stuck))

===============================================================================
