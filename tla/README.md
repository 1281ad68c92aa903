# A verification project for build-my-own-redis

TLA+ models of the server in `src/app` (Go), TLC configurations that check them on small
instances, and TLAPS proofs of what matters most for every instance. Line numbers refer to
`src/app`.

The server is one process. Every client connection has a goroutine (`handleConnection`) that
reads a command, runs its handler to the end and reads the next. The handlers share one `Store`
guarded by one `sync.RWMutex`, and one `ReplicationManager` guarded by another mutex. Most
handlers take the Store's mutex **several times**: what is correct about each critical section is
easy to test, what is correct about their interleavings is not. That is what these models are
about. Almost everywhere one action is one critical section, or one channel operation.

## Inventory

| Component | State | Operations | Interacts with | What is hard |
|---|---|---|---|---|
| Dispatch and connections (`conn.go`, `commands.go` 161-309, `server.go` 366-376) | one goroutine per connection; membership in the Store's maps | accept, read, `handleCommand`, five deferred calls at the end | everything | a connection ends in five separate critical sections |
| Strings and expiry (`storage.go` 132-196, 529-560) | `cache`, `expiry`, sleeping goroutines | SET, SET EX/PX, GET, INCR | transactions (dirty flags), RDB | two-section `SetWithTTL`, check-then-delete in `Get`, stale goroutines |
| Transactions (`commands.go` 1066-1169, `storage.go` 565-665) | `transactions`, `watchedKeys`, `dirtyClients` | MULTI, EXEC, DISCARD, WATCH, UNWATCH | dispatch (queueing), every write | EXEC in four sections; flags that outlive watches |
| Lists (`commands.go` 507-801, `storage.go` 199-261) | lists in `cache`, `waiters`, one channel per BLPOP | LPUSH, RPUSH, LPOP, RPOP, BLPOP, LRANGE, LLEN | log, replicas, streams (same `waiters`) | channel sends under the mutex, timeouts, lost wake-ups, read-modify-write in two sections |
| Streams (`storage.go` 667-874, `commands.go` 1200-1490) | entries in `cache`, `waiters` | XADD, XRANGE, XREAD, XREAD BLOCK | lists (same `waiters`) | channels left behind, one goroutine per notification |
| Sorted sets and geo (`storage.go` 280-447, `commands.go` 876-990, 1491-1651, `geo-coordinate-helper.go`) | score maps in `cache` | ZADD, ZRANGE, ZRANK, ZCARD, ZSCORE, ZREM, GEO* | log (ZADD only) | commands that fail half way, order of equal scores, index normalisation, bits at the edge of the grid, `ZCard` without the mutex |
| Pub/Sub (`storage.go` 449-527, `commands.go` 991-1045) | `pubsub`, `clientSubscriptions` | SUBSCRIBE, UNSUBSCRIBE, PUBLISH | dispatch (subscribed mode) | one goroutine per message and subscriber |
| Replication (`server.go` 34-148, 274-355, `commands.go` 366-453) | `masterOffset`, `replicas`, `replicaOffsets`; the offset of a replica | PSYNC, propagate, GETACK/ACK, WAIT, end of a connection | every logged write | offsets on two scales, late joiners, broken connections |
| Append-only file (`aof.go`, `commands.go` 115-129) | file, manifest | append, fsync, replay at start | every logged write | crash between store, append, fsync and reply, or in the middle of a command or of the manifest; replay without a connection |
| RDB loading (`rdb.go`, `main.go`) | none after start | load at start | expiry, replay of the log on top | files that end anywhere, encodings; instants without a goroutine |
| Authentication (`commands.go` 180-192, 312-353, 1670-1763) | `authenticatedClients`, the default user's passwords | AUTH, ACL | dispatch | two mutexes for one decision |
| RESP (`resp.go`) | none | parse a value, encode an array | every command, the log, the stream to a replica | the same bytes again after parsing and encoding; streams that end inside a value |
| Configuration, INFO, CONFIG, KEYS, TYPE, logging | none | read-only commands | | |

What makes them correct:

* transactions: a flag is set exactly when a watched key was written since, decides EXEC, and
  dies with its watches; a queue runs once and outside of a transaction;
* lists: a pushed value is in one place at any time; nobody waits beside a value; no send under
  the mutex blocks;
* expiry: a value goes when its own instant is reached, and not before, whether somebody asks or not;
* replication: a replica goes through the master's writes in order and without a gap; WAIT counts
  only replicas that have them;
* streams: the IDs of a stream increase; nobody sleeps beside an entry it asked for; a channel is
  queued only for who waits on it;
* append-only file: acknowledged commands survive; the Store is what the replay would give; the
  server comes up again;
* start: the log is read back as it was written, whatever bytes are in it; a restart
  loses no key and ends no time to live too soon; an RDB file loads whole, and a broken one never loads what was not saved;
* sessions: no command gets past the intercepts of `handleCommand`, not even inside EXEC; who is
  subscribed when a message is published gets it once;
* sorted sets and positions: replies add up to the members that are there; the log has the scores of
  the Store; ranges and ranks agree; a score gives its position back.

## Modules

| Module | What it is |
|---|---|
| `Transactions` | handlers of MULTI, EXEC, DISCARD, WATCH, UNWATCH, SET, SET PX, GET, INCR, end of a connection, expiry of watched keys |
| `OptimisticLock` | what WATCH promises one client: unwatched, clean, flagged; EXEC is decided by the flag |
| `BlockingLists` | pushes, pops and BLPOP on `Store.waiters` and its channels |
| `Streams` | XADD, its notifying goroutines, and XREAD BLOCK on `Store.waiters` |
| `Waiters` | pushes, BLPOP, XADD and XREAD BLOCK together on `Store.waiters`, on keys that change their type |
| `Slices` | pushes, pops and LRANGE on slices that share their backing arrays |
| `Expiry` | SET, `SetWithTTL`, its goroutine, GET's lazy deletion, INCR, RDB keys, and a clock |
| `Replication` | master, replicas, connections as queues, WAIT |
| `ReplicatedLog` | what asynchronous propagation promises: copies follow a log |
| `Persistence` | writers, the append-only file, crashes, replay |
| `Sessions` | the intercepts of `handleCommand`; AUTH, ACL SETUSER, SUBSCRIBE, UNSUBSCRIBE, PUBLISH and its goroutines, MULTI, EXEC, DISCARD; the end of a connection |
| `PubSub` | what publishing promises a client: one message for each member at that moment |
| `SortedSets` | ZADD, ZREM, GEOADD argument by argument, their log and replies; ZRANGE, ZRANK and GEOPOS as operators |
| `GeoHash` | the bits of a position: interleaving, float64, and the way back |
| `Resp`, `RDB` | the parsers, and the encoder of commands, as operators on bytes |
| `Startup` | RDB file, manifest and log on a disk, each of which may end anywhere, and what a start makes of them |
| `MC*` | constants of the instances |
| `*Proofs` | theorems and proofs about the module of that name; `StorageProofs` about `Persistence`, `Expiry` and `Replication`, `ServerProofs` about `Sessions` and `Startup` with `Resp` and `RDB` |

### Transactions

`cache`, `expiry`, `inTx`/`queue` (Store.transactions), `watchedKeys` and `dirtyClients` are the
maps of the Store; `pc` and `todo` say where a handler stands and which commands it has left (for
EXEC: the local queue). `Receive`, `QueueCommand`, `Multi`, `Watch` and `Discard` are a command
that arrives in `handleCommand`; `ExecTakeQueue`, `ExecIsDirty`, `ExecUnwatchCommit` or
`ExecUnwatchAbort` are the sections of `handleEXEC`; `RunSet`, `RunSetPX` with `SetExpiry`,
`RunIncr`, `RunGet` with `GetDelete` and `RunUnwatch` those of the queued or direct commands;
`CloseUnwatch` and `CloseTx` those of the deferred calls. `Lapse` and `ExpireSleeper` are the clock
and `SetWithTTL`'s goroutine. `Write` is what every storing section does: the value and `markDirty`.
The deletions by expiry do not mark anybody dirty, which `UnflaggedWatchIsFresh` allows for.

`seen` and `guard` are history variables: what a key held when it was first watched, and the keys
EXEC has vouched for and not yet started to write.

### BlockingLists

A BLPOP that finds nothing (`BlpopPark`) puts a channel of capacity one into `waiters` and sleeps.
A push takes the mutex (`PushLock`), hands its values over one by one (`HandOver`: the send happens
with the mutex held and could block), gives it back (`PushUnlock`) and stores the rest in a second
section (`PushStore`). `BlpopWake`, `BlpopTimeout` and `CleanUpExpiredKeyWaiter` end the sleep; a
channel stays queued between the last two. `PopGet` and `PopSet` are the two sections of LPOP and
RPOP. `mu` names the holder of the mutex between two actions; BLPOP whose log append fails never
gives it back. Each value is pushed once (`ValuesAssumption`), so it can be traced: `sent`, `taken`, `lost` and
`raced` (the lists that a pop has written although they had changed since it read them) are history
variables.

### Streams

`stream` is the part of `cache` that holds streams, an entry being its ID; `waiters` and the
channels (`full`: holds a value) are those of XREAD. `XAdd` is an XADD with an ID or with the
milliseconds of one, `XAddClock` and `XAddAuto` are the two steps of one with `*`: the look at the
clock and the section that refuses or appends. Both end in `Insert`, which calls `Notify`: a
goroutine for every channel in the queue (`sending` counts them), and an empty queue. `Send` is such
a goroutine. `Begin`, `Register` (once per key, one section each), `ReadAtOnce`, `ReadFails` or
`Park`, `Wake` or `Timeout`, `CleanUpExpiredKeyWaiter` (once per key) and `Reread` are
`handleXREAD`. An ID with a negative sequence number is printed and does not parse again
(`Parses`): XADD takes the last ID for 0-0 then, XREAD skips the entry, and fails if `$` stood for
it. `left` is history: the channels that `ReadAtOnce` left in the queues. Channel names are used
again when nobody has a reference to them any more (`Fresh`).

### Waiters

The two modules above composed on the one map that lists and streams share, with keys that can be
either. The sections that touch a queue or a channel are kept one by one, under the names they have
there; what each half does for itself (pops, refused IDs, a log that fails) is left out, an entry is its
ID and the clock gives increasing ones. `Told` is everybody in a queue, whoever that is; `BlpopWake`
replies what it was sent, also an ID; `XreadWake` takes whatever it was sent as a signal; `PushStore`
replaces what is not a list by now; `Bad` is the error of an XREAD that finds a list. `shared` (the
channels made by an XREAD of several keys), `taken` and `gone` (values that a BLPOP replied, or that were
in a channel that an XREAD read or nobody had any more) are history.

### Slices

A list as the slice it is: an array, an offset and a length. `RPush` appends in place when there is room
(`Extend`) or moves to a new array of any capacity (`Grow`); `LPush` always makes one. `Get` is the section
that gives LRANGE, LPOP or RPOP a slice; they read the array afterwards without the mutex, string by
string and each string in two words (`CopyPointer`, `CopyLength`), and `PopSet` stores a part of the old
slice: before that copying in LPOP, after it in RPOP (`SetsFirst`). A reader who has a word of one
string and a word of another gets `Torn`, whatever the program would make of that. `value` is the list
as `BlockingLists` has it, `raced` says that a pop has written back over a change, and `base`,
`since` and `stayed` what was in the list when a handler got it, at some time since, and all the time since.

### Expiry

Instants are kept as the time left, which `Tick` lowers; 0 is now and -1 anything in the past,
because `!time.Now().Before(t)` and `After` differ exactly there. `SetPX` (the value), `SetExpiry`
(the instant) and `Spawn` (the goroutine) are what SET with EX or PX does one after the other;
`GetRead`, `GetClock` and `GetDelete` what GET does. A goroutine looks again when it wakes
(`Wake`). `fromFile` are the keys whose instant came with the RDB file, for which no goroutine is
started.

### Replication

A connection is a queue in each direction (`link`, `acks`); a write to a connection that is cut
vanishes, because the code ignores the error (`server.go` 80). `Propagate` appends to every queue
in the one critical section of `propagate`. `Join` is `handlePSYNC`, `ReceiveWrite` and
`ReceiveGetack` are the loop of the replica, `ReceiveAck` is `handleREPLCONF`, `Cut` and `Remove`
are a break and the deferred `removeReplica` after it. WAIT copies offset and replicas
(`WaitBegin`), sends GETACK to one after the other (`WaitAsk`), and polls (`WaitEnough`,
`WaitTimeout`). `log`, `joined`, `pos` and the `at` of a message are history: they say which writes
a replica has, whatever the two offsets claim.

### Persistence

A command changes the Store (`Begin`), is appended (`Log`), synced under `always` (`Sync`) and
acknowledged (`Reply`); `AppendFails` is the error path of `persistWriteCommand`. `Crash` leaves
any length of the file between what is synced and what is written if the power can fail, all of it
if only the process dies. `Start`, `Replay` and `Serve` are `main`; `ReplayPanics` is the reply of
LPUSH and RPUSH on the nil connection of the replay. `raced` remembers the keys whose handlers
overlapped, or failed to log, since the start.

### Sessions

A command arrives in two steps: `Receive` takes `aclMu` and remembers whether a password is needed
(`authRequired` of `handleCommand`), `Dispatch` is the rest of the intercepts with what they lead to:
refused (`Refuse`), queued (`QueueCommand`), run at once (`Multi`, `EndTx`) or passed to a handler
(`Handle`). EXEC gives its queue back to `handleCommand` command by command (`RunQueued`), so that every
intercept is met again. `Auth` looks at the passwords a second time; `Subscribe` and `Unsubscribe` are
one section per channel on the Store's two maps `pubsub` and `subs`; `Publish` starts a goroutine per
subscriber, and `Send` is one of them. `Hangup`, `RemoveSubscriber` and `Close` are the deferred calls.
What only the connection's own goroutine touches is part of the action before it. `PubSub` is
implemented with `subs`, what the clients were told, as the membership, although PUBLISH reads the other
map. `late`, `proved`, `count` and `inbox` are history.

### SortedSets and GeoHash

`ZAdd` and `GeoAdd` are one turn of the loops of `handleZADD` and `handleGEOADD`, `Refuse` an argument
on which they stop; `Persist` is the append to the log and the reply of ZADD, `GeoReply` that of
GEOADD, which is not logged, and `ZRem` the one section of ZREM. Of the log only `log`, the sorted sets
that a replay would give, is kept. A score is a set of bits, or `NaN`, which `ParseFloat` accepts, so
that `sort.Slice` gets a comparison that is no order; `SortedZSetNodes` is then a set of results, one for
each order in which Go may read the map. A coordinate is counted in half cells. `told` and `untold`
add up what clients were told, `own` and `skew` say for which members the log may differ, and `cell`
remembers from which cell a score came: all history.

### Resp, RDB and Startup

Every reader of `resp.go` and `rdb.go` is an operator from bytes to an error or a value and the bytes
that are left. Where the code calls itself or loops, a recursive function does: `ParseElements` (an array in an
array), `ParseSections` and `Replayed` (the loops of `Parse` and of the replay) get less with each round, and
start with the number of bytes there are, which is as many rounds as there can be (`MoreFuel`, `ParseSectionsSame`
and `ReplayedSame` prove that a larger number changes nothing). `Values`, `Encoded` and `AsText` go by the arrays in
arrays of a value, of which `MaxDepth` is a bound; the parser has none. `Boot` loads the RDB file and looks for the manifest, `CreateManifest` and `WriteManifest`
are the two effects of `os.WriteFile`, `Replay` is `replayAOFCommands`. `Set` is a SET that arrives as
bytes, is parsed, stored, encoded and written, or of which only the first `n` bytes are written: at the
process's last moment if a `Crash` follows, or because the disk is full if none does, since the server
then goes on behind them. What an RDB file should give is not read off the parser: the end of `RDB` has the format, a
file as sections (`Sections`) with their bytes (`SectionBytes`) and what they bring (`SectionRead`), and `Worth` says
which of them a file that ends at some byte still has. An RDB file is any sequence of sections, of which the last
and no other is the end of the data, cut at any byte (`RdbFilesAssumption`); a request is the bytes of any one
array of three or more values (`RequestsAssumption`), as a client may send them. `logged` is history: the commands and how much of each was written.

The store is the two maps `cache` and `expiry`, as in the code, and `now` a clock in milliseconds that goes on
(`Tick`) while the server is up or down. `StoredWithTTL` makes an instant of a time to live when a SET
is executed, and again when the SET is replayed; `Moment` one of the seconds or milliseconds of the RDB
file, which stay the same. `Expire` is the goroutine of `SetWithTTL`, or a GET, that deletes a key at or after its
instant; no key has to be deleted, since nothing asks for those of the RDB file. Command and option
are compared in upper case (`ToUpper`), and the number of a time to live as it is, without trimming (`Atoi`).

## Runs

| Run | Instance | Shows |
|---|---|---|
| `Transactions_interleaved` | 2 connections, 1 key, 3 values, queues of 1 | flags are exact, nothing runs inside a transaction, `OptimisticLock` is implemented, handlers return |
| `Transactions_cas` | same | **violated**: a write between IsDirty and the first command goes unnoticed |
| `BlockingLists_mixed` | 3 connections, 2 lists, 4 values, 3 channels, all operations, failing log | queues name exactly the waiting handlers, values stay in one place through timeouts, pops, counts and log failures, but for lists that a pop wrote over a change |
| `Streams_readers` | 2 connections, 2 streams, 3 entries, int64 from -2 to 1, 2 channels | IDs increase until a sequence number overflows, no reader sleeps beside its entry, only `ReadAtOnce` leaves channels behind, calls return |
| `Waiters_mixed` | 3 connections, 2 keys, 3 values, 1 entry, 2 channels | values are not dropped or doubled by streams, only the channel of an XREAD of several keys is sent to twice, and only a push stuck on one keeps calls from returning |
| `Slices_readers` | 3 connections, 3 values, 4 arrays of up to 3 | lists are values until a pop writes back over a change, strings that stay are read right, pops reply what they take |
| `Expiry_shared` | 2 connections, 1 key, TTLs -1..2, 3 goroutines | every instant has a goroutine, keys go, and only at their instant or by a GET that saw it |
| `Replication_stream` | 2 replicas, 2 writes of 2 values, 2 WAITs for 2 replicas | replicas follow the log, the error of WAIT is bounded, WAIT returns |
| `Persistence_recovery` | 2 writers, 2 keys, 4 commands, 2 crashes, `always` | acknowledged commands survive, Store and file agree, the server comes up |
| `Sessions_clients` | 2 connections, 2 channels, a password that is set and one that never is | transactions and subscriptions exclude each other, EXEC runs nothing unauthenticated, latecomers gave a password, `PubSub` is implemented |
| `SortedSets_members` | 2 connections, 1 key, 3 members, 4 commands, failing log | replies add up, log and Store agree but for the known gaps, ranges meet, GEOPOS gives the cell back |
| `Startup_disk` | 3 SETs, with and without a TTL, 2 crashes, 1 tear at any byte, 2 times; an RDB file of every encoding cut at every byte, one with a compressed string | the log is read back, a restart loses no key and changes no value, only prolongs times to live and brings back only what expires again, RDB files load as saved, only a tear stops a start |

Each passing run has, in its module, a mutant of the code for each of its properties: an operator
such as `HandOver_KeepsValue` next to `HandOver` that TLC finds to break the property. The type
invariants `TypeOK` and `LinksCarryTheLog` are theorems and in no `.cfg`; they can be added to one while
a module is being changed.

**Bounds.** Races here are between two sections of one handler and one section of another; two
connections give every such pair, and the third of `BlockingLists_mixed` two waiters in one queue
and a push. One key is enough where maps are only ever indexed by the key of one command
(`Expiry`, `Transactions`); a second list lets timeouts and endless waits run side by side. Every
value is a different one, and one push carries two, so that a push can be half handed over. TTLs of
-1 to 2 ticks give a past, a present and two different future instants, so that SETs can cross. With
one key and three goroutine slots, a start never has to wait for a slot for ever: the bound delays
`Spawn` and does not starve it, because goroutines wake. Ints run from 0 to 1, so INCR wraps within
reach; the same goes for sequence numbers. Two channels for two connections are enough for one to
be in use and one left behind; two streams for a reader that is woken by one and still queued in the
other; the calls are one reader of news on both that gives up and one of everything on one that does
not. Three connections with three channels satisfy the invariants of `Streams` too, but take too long
for a routine run. In `BlockingLists_mixed` two lists let one be popped with
a count, written back over a push, and blocked on, while the other is untouched; connections and
channels are interchangeable, so the run uses their symmetry. In `Waiters` each
connection has its own commands: one pushes to both keys or adds an entry to one, one waits for a
value there, one reads news of both or everything of one; with two channels every pair of a waiter and
a channel left behind is met, and two pushes can send to one channel. In `Slices` two clients may hold
slices beside the list, which with a new array makes four; three values fill an array, empty it from
the end and fill it again in place. In `Sessions`
two channels suffice for a client to have left one and be in the other, and two connections for a
subscriber and a publisher, or for one that hangs up while it is sent to; `MaxPublish` and
`MaxQueue` are 1, since messages are independent of each other and a queue of one already meets every
intercept. In `SortedSets` two of the three members have equal scores in some states, a third
has NaN or fails to parse; the positions are inside the grid, one half cell off its upper edge, on it and
beyond it, where the 54th bit comes and goes. In `Startup` one file or command may break off, at each of
its bytes; beside a broken RDB file or a torn command there is one command less: a broken file and the log do not touch, and behind
a tear one command shows what an append continues. The two times are before and after the first
instants of expiry, of the SET with its second and of the RDB file; another key of that file has an instant that
no time reaches. The value of the other request, and its time to live, are ints, so that one key is altered by the log
and one is not. Two crashes give a
start that is itself interrupted. `MaxDepth` is 2, for a command with an array in it. For WAIT the sizes are the real ones (27 bytes for SET k v with one-letter words, 37 for
REPLCONF GETACK *): one write lies within the error of one GETACK. `MaxWrites`, `MaxWaits`,
`MaxCommands`, `MaxCrashes`, `MaxQueue`, `MaxEntries`, `MaxClock`, `MaxPublish`, `MaxCalls` and `MaxTears`
only cut histories short. Deadlock is not checked where
clients may stop sending, the log failure leaves the mutex locked or a push is stuck (lists and
streams), and where the bounded histories end (all but transactions and expiry).

**Fairness.** A handler that can run does: the Go scheduler (WF of `Handler` and its like, `Running`). A handler
that waits for the mutex gets it although others take it again and again: `sync.RWMutex` does not
starve a writer (SF of `Locking`). Time passes and goroutines wake (`Expiry`). A goroutine of
XADD sends when its channel is empty, and one of PUBLISH when it is scheduled (WF of `Send`). A replica reads its
connection, and the master that of the replica; nobody has to write, connect, call WAIT or break.
After a crash somebody starts the server, and the replay goes on. `BlockingLists`, `SortedSets`, `Slices` and `Startup` state
safety only and assume no fairness; that the calls of lists return is a property of `Waiters`. No client is
ever assumed to send anything.

## Proofs

The theorems hold for all connections, keys, values, lengths of queues and numbers of writes,
replicas and crashes; their assumptions are the named `ASSUME`s of the modules (ranges of the
constants, and that `None` is no value). Each follows the usual course: the initial states satisfy
an inductive invariant, one lemma per group of actions shows that a step keeps it, and a PTL step
combines them.

* `TransactionsProofs`. `TypeCorrect` first. `StepEffect` then classifies every step by what it does
  to flags, watches and values (nothing, a write with its marking, a forgetting, a new watch), and
  `FlagsBelongToWatchers` and `WritesAreNeverMissed` follow from the classes instead of from twenty
  actions. `RunsOutsideTx` needs the strengthening `LeftAllWatches`: a connection that is closing has
  no watches, since CloseUnwatch comes before CloseTx. `RefinesOptimisticLock` maps each class to a
  step of `OptimisticLock` or a stutter.
* `BlockingListsProofs`. `WaitersAreParked` is inductive with `OneOwner` (no two handlers have the
  same channel): when a handler leaves, its channel is in no queue, because it was in the queue of
  its key only once and the cleanup removed it. `PushNeverBlocks` follows: a send under the mutex
  always finds an empty channel. `ValuesInOnePlace` counts nothing until its last step: the places of a
  value but for the index (`At`) are one place, or none before it is pushed (`One`), and no sequence has
  it twice (`Once`). A step leaves a value where it is, moves it or brings it in (`Stays`, `Moves`,
  `Arrives`). The strengthening `HomeInv` says that lists and hands hold only values pushed to their key,
  so that a pop that overwrites a changed list concerns no value whose lists are not `raced`, and that
  only a channel somebody holds is full, so that a new one overwrites nothing.
* `ServerProofs`, about the server from outside: the sessions of its clients, and what a start makes of the disk.
  * `Sessions`. `ModesExclude` and `ExecAuthenticated` are inductive together with two facts about a
    handler: what it holds has passed the intercepts (a SUBSCRIBE in progress is outside a transaction),
    and what EXEC has left belongs to an authenticated connection. `NoEntryWithoutPassword` needs that
    passwords are never removed, so that a command that arrives late sees `need` set. `PublishesToMembers`
    shows that the two maps agree until the deferred `RemoveSubscriber`, and with it that each step is a
    step of `PubSub` or a stutter (the fairness of `PubSub` stays with TLC).
  * `Resp`. `RoundTrip`: `ParseRESP` reads back what `encodeRESPArray` wrote of a value, with its ints as strings
    and whatever is behind it; each proper prefix is an error, an unexpected EOF exactly inside the bytes of a
    string; and what was read is encoded as the same bytes. It goes by a least number of arrays in arrays for
    which it fails. Below it are the parts: a number in a line is that number (`DigitsOf`, `NumberRead`), a bulk
    string is taken by its length and so may hold any bytes (`StringRead`), the elements of an array are read one
    by one and the first torn one ends it (`ElementsReadFirst`, `ArrayTorn`).
  * The log. A replay reads the writes up to a torn one (`LogRead`), and at its end the error is that of the torn
    command: `LogIsReadBackAlways`. `BootInv` says that the log consists of the bytes of the writes, and,
    for a server that is up with a log without a torn command, that what a start would make now of the RDB file and
    the log (`Again`) prolongs the store, for every key of which no
    write was lost or altered since the last good one (`Prolonged`, `Settled`). A replay is deterministic but for its
    time: a later one gives the same keys and values, and instants that are no sooner (`ApplyAllLater`), so the clock
    keeps it (`ProlongedLater`); a SET does, because a replay of one command more is the replay, and the command
    (`ProlongedAfterSet`); and a key that `Expire` deletes has an instant in the replay too
    (`ProlongedAfterExpiry`). All instants are integers, for the RDB file by `LoadingTimed`: `RestartProlongs`.
    `OnlyTearsStopIt` needs that no log is beside a torn manifest, and that a log without a
    torn command ends with EOF.
  * `RDB`. A reader that succeeds does so whatever is behind what it takes (`Local`, and `SectionLocal` for all
    sections). So what is read of a section alone is read of it in a file (`SectionReads`), sections peel off a
    file one by one (`SectionsPeel`), and a part of a section is an error, since otherwise the whole would be read
    as less (`SectionPart`). `RdbIsAlwaysLoaded` puts this together with what a file that ends at a byte holds
    (`WorthIs`). The integers of 8, 16 and 32 bits get their sign back from the highest byte (`SignedFour`), and
    later sections count (`OverTwice`).
  * Recursive functions have their values by `RecursionOnNat` and `RecursionUpTo`: functions that agree with a
    recursion up to a number exist for every number and agree with one another. As an operator cannot be a
    parameter here, the steps of all of them are cases of one operator, told apart by a record (`Step`).
* `SortedSetsProofs`. `SpreadDoubles` follows the five stages of the spread, each of which puts every bit
  where it belongs (a fact about each of 64 bits at each stage); `DecodeInterleaved` adds the way back.
  `GeoposCorrect` combines them with `Scored` (a score with a cell was made from it) and the rounding of
  the scores of 54 bits. `LogAgrees` is inductive with `Parsed` (each member a ZADD has stored was stored
  by a last one of its arguments) and `Owns` (a member nobody else has touched since has that argument's
  score), so that a ZADD that joins the log gives it the scores in the Store. `RepliesAreRight` counts: the
  members of a key are as many as clients were told, and failed commands did not tell, and as there are pairs
  in `Unreported` (a running command and a number up to what it has added). Each step changes both sides by
  the same (`Counted`, with the finiteness of both sets).
  `GeoposRoundTrip`: the number of a word, divided by 2^n, is that of its bits from n on (`QuotientIsHighest`),
  so that the middle of a cell has the cell's bits, and is in range unless bit 26 is set. `RangesAgree`:
  `Before` is a strict total order on scores that are numbers, as the highest bit in which two words differ
  decides; an insertion finds a place and keeps the order (`InsertedSorted`), and two sequences in order with the
  same elements are equal (`SortedUnique`), so that `sort.Slice` has one result. Both rest on `RecursionExists`:
  a recurrence on 0..n has a solution, by the least number up to which it has none.
* `StreamsProofs`. `StreamsIncrease` needs only that an accepted ID that still parses is above the last
  (`AcceptedIsAbove`). The others rest on `QueueInv`: a handler's channel is in the queues of exactly
  the keys its two loops have done, or have still to do (`QueuedByLoops`, with `OneOwner`); until the
  cleanup every key it has registered has it queued or has told it (`Alert`); and nothing it asked
  for is in a stream whose queue still names it (`Nothing`). So a sleeper that misses an entry has
  been told (`NoWakeUpIsLost`). `WakeUpsBringNews` adds `News`: who has been told has an entry above
  one of its IDs, because an ID captured for `$` is one the stream had reached, and IDs increase.
* `WaitersProofs`. `SentToOnce`: a channel in a queue that is not of an XREAD of several keys is
  empty, queued once in all and awaits no other send, so that the send with the mutex held cannot block. It
  is inductive with `OneOwner` (no two handlers have the same channel) and `Registering` (a channel made for
  one key is in no queue, and nobody sends to it, before its XREAD has queued it). Queues only lose elements or get one at the end (`Shrinks`, `JoinsQueue`), which settles
  most actions at once. `ValuesInOneCopy` has the argument of `ValuesInOnePlace`, over lists and streams:
  `PlaceInv` says of every item that was not used as an ID that it is in one place, there once, and apart
  from streams and their goroutines.
* `SlicesProofs`. One inductive invariant for three theorems. A string pushed is written once, so an array
  has it in one place (`MemOK`); what has stayed in the list since a handler got it lies where it was
  (`StayOK`), since an append writes behind the list only, and a copy under way is of such a string or of the
  time (`CopyOK`): `ReplyStrings`. As long as no pop has written back over a change, the slice is the list
  (`ListsAreValues`), and what an LPOP has taken and not yet copied lies in front of the list and of every
  slice that may become the list again (`Taken`), where no push writes: `PopsAreExact`.
* `StorageProofs`, about three modules that share no variable and no constant; `Expiry` and `Replication` have
  names of their own for `Init`, `Next` and the like, so that one module can extend all.
  * `Persistence`. `AckedIsKept` is inductive with `InFileInv`: the command of a handler past its append is
    in the file and, past its fsync, in the synced part. `StoreIsReplayed` is about a recursive
    function (`Stores`: the Store after each number of commands). That such a function exists, and that an
    append leaves all its values but the new one (`StoresAppend`), is shown by the least number at which it
    would fail. `MatchInv` then says of every key how far the Store is ahead: nothing, or by
    the one command that is between its `Begin` and its `Log`; while a file is replayed the Store is
    `Stores` at the next command.
  * `Expiry`. `EveryTTLIsAttended` is inductive with the types. The argument is that the time left, and the
    pause of a goroutine, fall together (`LaterIsMonotonic`), and that an instant is replaced only by a SET
    that is about to start a goroutine for the new one. `OnlyTheExpiredGo` is an action property of the
    types alone.
  * `Replication`. `LinksCarryTheLog` is the heart: a queue is a path through the log from where the replica
    is to its end. The bounded error of WAIT needs `Ends` (a closed link is empty), `Offsets` (a replica's
    offset is the bytes of its writes and some GETACKs) and `Answers` (every answer, under way or recorded,
    was given before the GETACK it answers was counted). `Refinement` to `ReplicatedLog` uses the same
    invariant: the write at the head of a link is the next of the log.

Only model-checked: everything that says something happens (`HandlersReturn`, `CallsReturn`,
`ExpiredKeysGo`, `WaitsReturn`, `ReplicasCatchUp`, `ComesUpWithoutPushes`, the fairness in
`Publishing`), for which fairness is out of the prover's reach. Every other property of a passing run is a theorem.
The library's induction theorems have an operator as a parameter, which the provers cannot instantiate; where
something is proved of all lengths, depths or numbers, a least counterexample takes the place of induction.

## What the models show that no run states

* GET may delete a fresh value: it sees an expired instant, another client stores a value, and the
  deletion follows (`storage.go` 181-183).
* A logged RPUSH or LPUSH makes every replay panic, since the reply is written to the nil
  connection (`commands.go` 557, 610; `aof.go` 42); so does one that a replica applies.
* WAIT may count a replica without the last write, when the GETACKs of earlier WAITs have pushed its
  offset (`commands.go` 423, `server.go` 345); `WaitFallsShortByGetacks` bounds the error.
* Acknowledged commands behind a torn one are lost, or keep the server from starting (`aof.go` 31,
  181); a crash while the manifest is written (`aof.go` 55) keeps the server down until somebody removes it.
* A SET with a time to live is logged with the number it was given (`aof.go` 180), from which a replay makes a
  new instant (`storage.go` 152): each restart gives a key its whole time to live again, and brings back one that
  had expired, with a value that a client has seen gone. `RestartOnlyProlongs` says that nothing worse happens.
* A SET whose arguments are RESP ints stores an empty string and no time to live, and the text of the
  ints after a restart, since the log turns them into strings (`commands.go` 146, `aof.go` 213).
* An RDB file with one compressed string, or one that ends within a section, loads nothing, and the server
  starts without it (`rdb.go`).
* The length -2 of a bulk string panics (`resp.go` 59).
* Positions on the upper edge have the bit 2^26 and scores of 53 or 54 bits, where `README.md` 75 says
  52-bit integer; what GEOPOS replies for them is outside the range that GEOADD accepts.
* A push that is handed to a BLPOP is logged and propagated whole, and the BLPOP is not: the value is
  there again after a restart and on a replica (`commands.go` 557, 786).
* A connection in `clientSubscriptions` stays there when it has closed (`storage.go` 490), and a
  message may arrive between the replies of an EXEC that subscribes.
* PUBLISH with one argument passes the check for two and indexes the third (`commands.go` 1040).
* ZREM and GEOADD are neither logged nor propagated; a ZADD that fails at its second pair has stored the
  first (`commands.go` 876, 970, 1491).
* INCR of the largest int wraps to the smallest (`storage.go` 554).
* A value handed to a BLPOP whose timer has gone off is lost (`commands.go` 789).
* A BLPOP whose append fails returns with the Store's mutex locked (`commands.go` 771-773).
* A push can send to the channel of an XREAD BLOCK of two keys twice: while the XREAD still looks, after its
  time is up, or after it has replied at once and left the channel queued (`commands.go` 1435-1438). The
  second send blocks with the Store's mutex held (`commands.go` 542, 595), and the server stops for good.
* A push hands a value to an XREAD that waits on the key, which takes it for a signal: the value is
  lost, and the XREAD no longer queued. The rest of the push replaces a stream by a list (`storage.go`
  238), and the XREAD fails then. A BLPOP on a stream gets the ID of the next entry (`storage.go` 755).
* LRANGE may reply a string that was pushed after it got the list, or one made of two, where an RPOP
  and an RPUSH have written its place again (`commands.go` 645, `storage.go` 232); an LPOP that got the list
  before them keeps the new string, where with values it would bring back the old one (`commands.go` 700).
* A BLPOP that runs between the two sections of a push, the look for waiters and the storing of the rest
  (`commands.go` 600-604), finds neither the value nor a push that will see its channel, and sleeps
  beside the value until the next push.
* Two LPOPs that both read the list before either writes the rest get the same value
  (`commands.go` 686-700; `PopGet` and `PopSet`).
* An XADD with `*` can be refused as "equal or smaller": it looked at the clock before the mutex
  (`storage.go` 680), and an XADD that looked later was faster.
* After an overflow of the sequence number the last ID of a stream counts as 0-0
  (`storage.go` 707-711), and IDs below the ones in the stream are accepted.
* A goroutine that notifies a channel left behind in two queues can stay blocked for ever
  (`storage.go` 755).
* A plain SET between the two sections of a SET with TTL inherits that TTL (`storage.go` 146-154).
* A key of the RDB file with an expiry is removed by a GET only (`storage.go` 89).
* A replica that joins after the first write starts at offset 0 (`server.go` 317): until it has
  received as many bytes more, WAIT does not count it, and a WAIT without a limit never returns.
* Two writers of one key may be stored in one order and propagated or logged in the other
  (`commands.go` 477-484); `FileMatchesStore` therefore exempts keys with overlapping handlers.

## Not modelled

Configuration, INFO, CONFIG, KEYS, TYPE, ECHO and PING (nothing changes after start), logging, the
haversine distance of GEODIST and GEOSEARCH and the scaling of a coordinate (floating point), and the
layout of replies. Negative and infinite scores are left out, as are numbers larger than TLC's integers.
Within the modelled parts: unlocked reads of a Go map (ZCARD,
`storage.go` 383, and GEOSEARCH) are not seen, slices are values everywhere but in `Slices`, whose critical
sections write all their words at once; left out are a key named twice in one XREAD and XADD's
missing log and propagation (`commands.go` 1235); a replica does not replicate further or take writes of
its own, and its handshake sends no AUTH; a `conn.Write` never blocks. `Persistence` writes a command as a
whole and finds its file always: the bytes are in `Startup`, which in turn has one client and no
fsync. Its clock does not go on within a replay and is never set
back; times to live that overflow an int, and letters that are not ASCII in a command or an option, are left out.

## Plan

1. The composition of `Persistence` with `Replication` (store,
   propagate and log in three sections of one handler).
2. Connections of bounded capacity in `Replication`: `propagate` writes with `rm.mu` held.
3. ZCARD and GEOSEARCH as reads without the mutex, beside a ZADD that writes the same map.
