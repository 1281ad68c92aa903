-------------------------------- MODULE Streams -------------------------------
(***************************************************************************)
(* XADD and XREAD BLOCK on the streams of the Store.                       *)
(*                                                                         *)
(* A blocking XREAD makes one channel of capacity one and queues it in     *)
(* Store.waiters of every key it reads, key by key; only then it looks for *)
(* entries.  If there are some it replies at once and leaves its channel   *)
(* queued; if not it sleeps, and takes the channel out again, key by key,  *)
(* when it has been woken or its time is up.  XADD starts one goroutine    *)
(* for every queued channel, which sends when the channel is empty.        *)
(*                                                                         *)
(* Of an entry only the ID is kept, and an ID is printed and parsed again  *)
(* wherever it is used: one with a negative sequence number does not parse.*)
(* One action is one critical section, one channel operation, or one look  *)
(* at the clock.  Left out: XREAD without BLOCK and XRANGE, which change   *)
(* nothing, IDs that do not parse in a command, a key named twice in one   *)
(* XREAD, keys of another type, and pushes and BLPOP, which use the same   *)
(* waiters for lists (BlockingLists; Waiters has both).                    *)
(***************************************************************************)
EXTENDS Integers, Sequences, FiniteSets

CONSTANTS
  Conns,      \* client connections
  Keys,       \* names of streams
  Chans,      \* channels make(chan string, 1) can return
  MaxSeq,     \* the largest int64
  Adds,       \* the IDs that XADD asks for: a number of milliseconds or Star,
              \* and a sequence number or Star
  Reads,      \* the calls of XREAD BLOCK: keys, the ID for each (Dollar or an ID), timed
  MaxClock,   \* bound on the clock (state space)
  MaxEntries, \* bound on the entries at the start of an XADD (state space)
  Star,       \* "*" in an ID
  Dollar,     \* "$" as an ID
  None

Ids == [ms : Nat, seq : Int]

ASSUME MaxSeqAssumption == MaxSeq \in Nat \ {0}
ASSUME AddsAssumption   == Adds \subseteq [ms : Nat, seq : (0 .. MaxSeq) \union {Star}]
                                          \union [ms : {Star}, seq : {Star}]
ASSUME ReadsAssumption  ==
  \A r \in Reads : /\ r.keys \in Seq(Keys) /\ r.keys # <<>> /\ r.timed \in BOOLEAN
                   /\ \A i, j \in DOMAIN r.keys : r.keys[i] = r.keys[j] => i = j
                   /\ r.from \in [ms : Nat, seq : 0 .. MaxSeq] \union {Dollar}
ASSUME BoundAssumption  == MaxClock \in Nat /\ MaxEntries \in Nat
ASSUME NoneAssumption   == None \notin Chans \union Reads \union [key : Keys, ms : Nat]
ASSUME WordAssumption   == Star \notin Int /\ Dollar \notin Ids

VARIABLES
  stream,   \* Store.cache: the IDs of the entries; an absent key is an empty stream
  waiters,  \* Store.waiters
  full,     \* the channels that hold a value
  sending,  \* how many goroutines of XADD are about to send on a channel
  clock,    \* milliseconds
  pc,       \* where the handler of a connection stands
  add,      \* its XADD with an ID made from the clock: key and milliseconds, or None
  call,     \* its XREAD, or None
  chan,     \* the channel of that, or None
  todo,     \* the keys its loop has still to do
  ids,      \* idsToUse
  left      \* history: the channels of XREADs that replied at once

store == <<stream, waiters>>
comm  == <<full, sending>>
proc  == <<pc, add, call, chan, todo, ids>>
vars  == <<store, comm, clock, proc, left>>

Zero == [ms |-> 0, seq |-> 0]

Less(a, b) == a.ms < b.ms \/ (a.ms = b.ms /\ a.seq < b.seq)

\* parseStreamID splits at every "-".
Parses(id) == id.seq >= 0

Top(k) == IF stream[k] = <<>> THEN Zero ELSE stream[k][Len(stream[k])]

\* XRead: the places of the entries above id.
Above(k, id) == {i \in DOMAIN stream[k] : Parses(stream[k][i]) /\ Less(id, stream[k][i])}

Elems(s) == {s[i] : i \in DOMAIN s}

\* Another channel than any that somebody still has a reference to.
Fresh(ch) ==
  /\ sending[ch] = 0 /\ \A k \in Keys : ch \notin Elems(waiters[k])
  /\ \A c \in Conns : chan[c] # ch

Init ==
  /\ stream = [k \in Keys |-> <<>>] /\ waiters = [k \in Keys |-> <<>>]
  /\ full = {} /\ sending = [ch \in Chans |-> 0] /\ clock = 0
  /\ pc = [c \in Conns |-> "idle"] /\ add = [c \in Conns |-> None]
  /\ call = [c \in Conns |-> None] /\ chan = [c \in Conns |-> None]
  /\ todo = [c \in Conns |-> <<>>] /\ ids = [c \in Conns |-> [k \in Keys |-> Zero]]
  /\ left = {}

Goto(c, at) == pc' = [pc EXCEPT ![c] = at]

-------------------------------------------------------------------------------
(* XADD.                                                                   *)

\* Mutant: the sequence number is not compared.
Accepts_AnySeq(last, ms, seq) ==
  IF seq = Star THEN ms >= last.ms ELSE [ms |-> ms, seq |-> seq] # Zero /\ last.ms <= ms

\* Can an ID with these parts follow the ID last?
Accepts(last, ms, seq) ==
  IF seq = Star THEN ms >= last.ms
               ELSE [ms |-> ms, seq |-> seq] # Zero /\ Less(last, [ms |-> ms, seq |-> seq])

\* int64: the successor of the largest is the smallest.
Succ(seq) == IF seq = MaxSeq THEN -MaxSeq - 1 ELSE seq + 1

FinalSeq(last, ms, seq) == IF seq # Star THEN seq ELSE IF ms = last.ms THEN Succ(last.seq) ELSE 0

\* Mutant: one goroutine, for the reader that has waited longest.
Notify_FirstOnly(k) ==
  /\ sending' = [ch \in Chans |-> sending[ch] + IF waiters[k] # <<>> /\ ch = Head(waiters[k]) THEN 1 ELSE 0]
  /\ waiters' = [waiters EXCEPT ![k] = <<>>]

\* One goroutine for every place in the queue.
Notify(k) ==
  /\ sending' = [ch \in Chans |->
                   sending[ch] + Cardinality({i \in DOMAIN waiters[k] : waiters[k][i] = ch})]
  /\ waiters' = [waiters EXCEPT ![k] = <<>>]

\* The critical section of XAdd: refuse, or append and tell the readers.
Insert(k, ms, seq) ==
  LET last == IF Parses(Top(k)) THEN Top(k) ELSE Zero IN
    IF Accepts(last, ms, seq)
    THEN /\ stream' = [stream EXCEPT ![k] = Append(@, [ms |-> ms, seq |-> FinalSeq(last, ms, seq)])]
         /\ Notify(k)
    ELSE UNCHANGED <<store, sending>>

Room == Cardinality(UNION {{k} \X DOMAIN stream[k] : k \in Keys}) < MaxEntries

\* XADD with an ID or with the milliseconds of one.
XAdd(c) == \E k \in Keys, a \in {b \in Adds : b.ms # Star} :
  /\ pc[c] = "idle" /\ Room
  /\ Insert(k, a.ms, a.seq)
  /\ UNCHANGED <<full, clock, proc, left>>

\* XADD with "*" looks at the clock, ...
XAddClock(c) == \E k \in Keys, a \in {b \in Adds : b.ms = Star} :
  /\ pc[c] = "idle" /\ Room
  /\ add' = [add EXCEPT ![c] = [key |-> k, ms |-> clock]] /\ Goto(c, "add")
  /\ UNCHANGED <<store, comm, clock, call, chan, todo, ids, left>>

\* ... and then takes the mutex.
XAddAuto(c) ==
  /\ pc[c] = "add"
  /\ Insert(add[c].key, add[c].ms, Star)
  /\ add' = [add EXCEPT ![c] = None] /\ Goto(c, "idle")
  /\ UNCHANGED <<full, clock, call, chan, todo, ids, left>>

\* A goroutine of XADD sends when there is room.
Send(ch) ==
  /\ sending[ch] > 0 /\ ch \notin full
  /\ full' = full \union {ch} /\ sending' = [sending EXCEPT ![ch] = @ - 1]
  /\ UNCHANGED <<store, clock, proc, left>>

-------------------------------------------------------------------------------
(* XREAD BLOCK.                                                            *)

Return(c) ==
  /\ Goto(c, "idle")
  /\ call' = [call EXCEPT ![c] = None] /\ chan' = [chan EXCEPT ![c] = None]
  /\ todo' = [todo EXCEPT ![c] = <<>>] /\ ids' = [ids EXCEPT ![c] = [k \in Keys |-> Zero]]

Begin(c) == \E r \in Reads, ch \in Chans :
  /\ pc[c] = "idle" /\ Fresh(ch)
  /\ call' = [call EXCEPT ![c] = r] /\ chan' = [chan EXCEPT ![c] = ch]
  /\ todo' = [todo EXCEPT ![c] = r.keys] /\ Goto(c, "register")
  /\ full' = full \ {ch} /\ left' = left \ {ch}
  /\ UNCHANGED <<store, sending, clock, add, ids>>

\* Mutant: every "$" is the top of the first stream.
Register_FirstTop(c) ==
  /\ pc[c] = "register"
  /\ LET k == Head(todo[c]) IN
       /\ waiters' = [waiters EXCEPT ![k] = Append(@, chan[c])]
       /\ ids' = [ids EXCEPT ![c][k] = IF call[c].from = Dollar THEN Top(call[c].keys[1]) ELSE call[c].from]
  /\ todo' = [todo EXCEPT ![c] = Tail(@)]
  /\ Goto(c, IF Len(todo[c]) = 1 THEN "read" ELSE "register")
  /\ UNCHANGED <<stream, comm, clock, add, call, chan, left>>

\* The loop that queues the channel, and captures the tops for "$".
Register(c) ==
  /\ pc[c] = "register"
  /\ LET k == Head(todo[c]) IN
       /\ waiters' = [waiters EXCEPT ![k] = Append(@, chan[c])]
       /\ ids' = [ids EXCEPT ![c][k] = IF call[c].from = Dollar THEN Top(k) ELSE call[c].from]
  /\ todo' = [todo EXCEPT ![c] = Tail(@)]
  /\ Goto(c, IF Len(todo[c]) = 1 THEN "read" ELSE "register")
  /\ UNCHANGED <<stream, comm, clock, add, call, chan, left>>

HasAny(c) == \E k \in Elems(call[c].keys) : Above(k, ids[c][k]) # {}
Bad(c)    == \E k \in Elems(call[c].keys) : ~Parses(ids[c][k])

\* The loop at the end that takes the channel out of the queues.
CleanAll(c, at) == Goto(c, at) /\ todo' = [todo EXCEPT ![c] = call[c].keys]

\* The first XRead finds entries: reply.
ReadAtOnce(c) ==
  /\ pc[c] = "read" /\ ~Bad(c) /\ HasAny(c)
  /\ left' = left \union {chan[c]}
  /\ Return(c)
  /\ UNCHANGED <<store, comm, clock, add>>

\* It fails on an ID it cannot parse: clean up and reply the error.
ReadFails(c) ==
  /\ pc[c] = "read" /\ Bad(c)
  /\ CleanAll(c, "cleanup")
  /\ UNCHANGED <<store, comm, clock, add, call, chan, ids, left>>

\* Mutant: sleeps without a look at what is there.
Park_WithoutLook(c) ==
  /\ pc[c] = "read" /\ ~Bad(c)
  /\ Goto(c, "parked")
  /\ UNCHANGED <<store, comm, clock, add, call, chan, todo, ids, left>>

\* It finds nothing: sleep.
Park(c) ==
  /\ pc[c] = "read" /\ ~Bad(c) /\ ~HasAny(c)
  /\ Goto(c, "parked")
  /\ UNCHANGED <<store, comm, clock, add, call, chan, todo, ids, left>>

Wake(c) ==
  /\ pc[c] = "parked" /\ chan[c] \in full
  /\ full' = full \ {chan[c]}
  /\ CleanAll(c, "woken")
  /\ UNCHANGED <<store, sending, clock, add, call, chan, ids, left>>

Timeout(c) ==
  /\ pc[c] = "parked" /\ call[c].timed
  /\ CleanAll(c, "cleanup")
  /\ UNCHANGED <<store, comm, clock, add, call, chan, ids, left>>

\* The first place of ch in s, dropped.
Without(s, ch) ==
  IF ch \notin Elems(s) THEN s
  ELSE LET i == CHOOSE j \in DOMAIN s : s[j] = ch /\ \A n \in 1 .. j - 1 : s[n] # ch IN
         SubSeq(s, 1, i - 1) \o SubSeq(s, i + 1, Len(s))

\* Mutant: the channel is taken out of the first queue only.
CleanUpExpiredKeyWaiter_FirstKey(c) ==
  /\ pc[c] \in {"cleanup", "woken"} /\ todo[c] # <<>>
  /\ waiters' = [waiters EXCEPT ![Head(todo[c])] = Without(@, chan[c])]
  /\ IF pc[c] = "cleanup"
     THEN Return(c)
     ELSE todo' = [todo EXCEPT ![c] = <<>>] /\ UNCHANGED <<pc, call, chan, ids>>
  /\ UNCHANGED <<stream, comm, clock, add, left>>

\* After the last key: reply the null array or the error, or look again.
CleanUpExpiredKeyWaiter(c) ==
  /\ pc[c] \in {"cleanup", "woken"} /\ todo[c] # <<>>
  /\ waiters' = [waiters EXCEPT ![Head(todo[c])] = Without(@, chan[c])]
  /\ IF Len(todo[c]) = 1 /\ pc[c] = "cleanup"
     THEN Return(c)
     ELSE todo' = [todo EXCEPT ![c] = Tail(@)] /\ UNCHANGED <<pc, call, chan, ids>>
  /\ UNCHANGED <<stream, comm, clock, add, left>>

\* The second XRead: reply what is above the IDs now.
Reread(c) ==
  /\ pc[c] = "woken" /\ todo[c] = <<>>
  /\ Return(c)
  /\ UNCHANGED <<store, comm, clock, add, left>>

-------------------------------------------------------------------------------

Tick ==
  /\ clock < MaxClock
  /\ clock' = clock + 1
  /\ UNCHANGED <<store, comm, proc, left>>

Client(c)  == XAdd(c) \/ XAddClock(c) \/ Begin(c)
Handler(c) == \/ XAddAuto(c) \/ Register(c) \/ ReadAtOnce(c) \/ ReadFails(c) \/ Park(c)
              \/ Wake(c) \/ Timeout(c) \/ CleanUpExpiredKeyWaiter(c) \/ Reread(c)

Next ==
  \/ Tick
  \/ \E c \in Conns : Client(c) \/ Handler(c)
  \/ \E ch \in Chans : Send(ch)

\* The Go scheduler runs the handlers and goroutines that can run.
Fairness == /\ \A c \in Conns : WF_vars(Handler(c))
            /\ \A ch \in Chans : WF_vars(Send(ch))

Spec == Init /\ [][Next]_vars /\ Fairness

-------------------------------------------------------------------------------
(* Properties.                                                             *)

PCs == {"idle", "add", "register", "read", "parked", "cleanup", "woken"}

TypeOK ==
  /\ stream \in [Keys -> Seq(Ids)] /\ waiters \in [Keys -> Seq(Chans)]
  /\ full \in SUBSET Chans /\ sending \in [Chans -> Nat] /\ clock \in Nat
  /\ pc \in [Conns -> PCs] /\ add \in [Conns -> [key : Keys, ms : Nat] \union {None}]
  /\ call \in [Conns -> Reads \union {None}] /\ chan \in [Conns -> Chans \union {None}]
  /\ todo \in [Conns -> Seq(Keys)] /\ ids \in [Conns -> [Keys -> Ids]] /\ left \in SUBSET Chans
  /\ \A c \in Conns : pc[c] = "add" <=> add[c] # None
  /\ \A c \in Conns : call[c] # None <=> pc[c] \notin {"idle", "add"}
  /\ \A c \in Conns : chan[c] # None <=> call[c] # None
  /\ \A c \in Conns : pc[c] \in {"register", "cleanup"} => todo[c] # <<>>

\* No sequence number of k has left the int64 range.
Intact(k) == \A i \in DOMAIN stream[k] : Parses(stream[k][i])

\* "must be strictly greater than last" (XAdd): whatever clients, clock and "*" bring,
\* the IDs of a stream increase from above 0-0, until a sequence number overflows.
IdsIncrease ==
  \A k \in Keys : Intact(k) =>
    \A i \in DOMAIN stream[k] :
      /\ Less(Zero, stream[k][i])
      /\ \A j \in 1 .. i - 1 : Less(stream[k][j], stream[k][i])

\* "register waiter channel first" (handleXREAD): no XREAD sleeps beside an entry it asked
\* for unless it is about to be woken, whichever of its keys the entry went to, and whoever
\* else was waiting, timed out or cleaned up.
NoEntryBesideReader ==
  \A c \in Conns : pc[c] = "parked" /\ HasAny(c) => chan[c] \in full \/ sending[chan[c]] > 0

\* An XREAD that asked for "$" and was woken has something to reply: it was not woken by
\* an XADD from before its call, or for another reader.
WokenReadersHaveNews ==
  \A c \in Conns :
    pc[c] = "woken" /\ call[c].from = Dollar /\ (\A k \in Elems(call[c].keys) : Intact(k)) => HasAny(c)

\* A channel is queued once for a key, and only by an XREAD of the key that is still in its
\* call, or by one that replied at once: no other path leaves a channel behind.
QueuesNameReaders ==
  \A k \in Keys : \A i \in DOMAIN waiters[k] :
    /\ \A j \in DOMAIN waiters[k] : waiters[k][j] = waiters[k][i] => i = j
    /\ \/ waiters[k][i] \in left
       \/ \E c \in Conns : chan[c] = waiters[k][i] /\ k \in Elems(call[c].keys)

\* An XADD returns, and so does an XREAD, unless it sleeps without a limit and there is no
\* entry for it: a notifier, a cleanup or another reader never keeps it.
CallsReturn ==
  \A c \in Conns :
    pc[c] # "idle" ~> pc[c] = "idle" \/ (pc[c] = "parked" /\ ~call[c].timed /\ ~HasAny(c))

===============================================================================
