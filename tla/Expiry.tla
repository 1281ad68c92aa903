-------------------------------- MODULE Expiry --------------------------------
(***************************************************************************)
(* The time to live of string keys: SET, SET with EX or PX, GET and INCR,  *)
(* the goroutine that SetWithTTL leaves asleep, and the keys that come     *)
(* with an instant of expiry out of an RDB file.                           *)
(*                                                                         *)
(* One action is one critical section of the Store, one look at the clock, *)
(* or the start of a goroutine.  Instants are kept as the time left until  *)
(* then, which Tick lowers: 0 is now, -1 anything in the past (that is     *)
(* where time.Time's Before and After differ).  Of a value only its origin *)
(* matters here.  No name of this module is one of Persistence's: the      *)
(* proofs about both are in one module.                                    *)
(***************************************************************************)
EXTENDS Integers

CONSTANTS
  Conns,       \* client connections
  Names,       \* names of keys
  TTLs,        \* the times to live the clients ask for, in ticks
  FromRDB,     \* the keys an RDB file brings, each with an instant of expiry
  Goroutines,  \* bound on the goroutines asleep at one time (state space)
  Nothing

Origins == {"set", "setpx", "incr", "file"}

ASSUME TTLAssumption     == TTLs \subseteq Int
ASSUME FromRDBAssumption == FromRDB \subseteq Names
ASSUME NothingAssumption == Nothing \notin Int \union Origins \union [key : Names, left : Nat]

PCs == {"idle", "expiry", "spawn", "clock", "delete"}

VARIABLES
  cache,     \* Store.cache: where the value of a key comes from, or Nothing
  expiry,    \* Store.expiry: the time left, or Nothing
  asleep,    \* the goroutines of SetWithTTL: key and time left, or Nothing
  at,        \* where the handler of a connection stands
  key,       \* the key of its command
  left,      \* the ttl of SetWithTTL; the time left that Get has read
  fromFile   \* history: the keys whose instant of expiry is the file's

ttlVars == <<cache, expiry, asleep, at, key, left, fromFile>>

Clip(t)  == IF t < 0 THEN -1 ELSE t   \* an instant, as the time left until then

Pause(t) == IF t < 0 THEN 0 ELSE t    \* time.Sleep of a negative time returns at once

TTLInit ==
  /\ cache = [k \in Names |-> IF k \in FromRDB THEN "file" ELSE Nothing]
  /\ expiry \in [Names -> {Clip(t) : t \in TTLs} \union {Nothing}]
  /\ \A k \in Names : expiry[k] = Nothing <=> k \notin FromRDB
  /\ asleep = [g \in Goroutines |-> Nothing]
  /\ at = [c \in Conns |-> "idle"] /\ key = [c \in Conns |-> Nothing] /\ left = [c \in Conns |-> Nothing]
  /\ fromFile = FromRDB

-------------------------------------------------------------------------------

Move(c, place) == at' = [at EXCEPT ![c] = place]
Finish(c)      == /\ Move(c, "idle")
                  /\ key' = [key EXCEPT ![c] = Nothing] /\ left' = [left EXCEPT ![c] = Nothing]
Take(c, k, t)  == key' = [key EXCEPT ![c] = k] /\ left' = [left EXCEPT ![c] = t]

\* Store.Set: the value, and no instant of expiry.
Store(k, origin) ==
  /\ cache' = [cache EXCEPT ![k] = origin] /\ expiry' = [expiry EXCEPT ![k] = Nothing]
  /\ fromFile' = fromFile \ {k}

\* delete(cache, k); delete(expiry, k)
Drop(k) ==
  /\ cache' = [cache EXCEPT ![k] = Nothing] /\ expiry' = [expiry EXCEPT ![k] = Nothing]
  /\ fromFile' = fromFile \ {k}

Set(c) == \E k \in Names :
  /\ at[c] = "idle"
  /\ Store(k, "set")
  /\ UNCHANGED <<asleep, at, key, left>>

\* SetWithTTL: Set, ...
SetPX(c) == \E k \in Names, t \in TTLs :
  /\ at[c] = "idle"
  /\ Store(k, "setpx")
  /\ Take(c, k, t) /\ Move(c, "expiry")
  /\ UNCHANGED asleep

\* Mutant: the handler returns without starting the goroutine.
SetExpiry_NoSpawn(c) ==
  /\ at[c] = "expiry"
  /\ expiry' = [expiry EXCEPT ![key[c]] = Clip(left[c])] /\ fromFile' = fromFile \ {key[c]}
  /\ Finish(c)
  /\ UNCHANGED <<cache, asleep>>

\* ... the instant of expiry in a critical section of its own, ...
SetExpiry(c) ==
  /\ at[c] = "expiry"
  /\ expiry' = [expiry EXCEPT ![key[c]] = Clip(left[c])] /\ fromFile' = fromFile \ {key[c]}
  /\ Move(c, "spawn")
  /\ UNCHANGED <<cache, asleep, key, left>>

\* ... and then the goroutine, which sleeps for the time to live from now on.
Spawn(c) == \E g \in Goroutines :
  /\ at[c] = "spawn" /\ asleep[g] = Nothing
  /\ asleep' = [asleep EXCEPT ![g] = [key |-> key[c], left |-> Pause(left[c])]]
  /\ Finish(c)
  /\ UNCHANGED <<cache, expiry, fromFile>>

\* Get reads value and instant under the read lock.  Without a value or without
\* an instant it is done, and nothing has changed.
GetRead(c) == \E k \in Names :
  /\ at[c] = "idle" /\ cache[k] # Nothing /\ expiry[k] # Nothing
  /\ Take(c, k, expiry[k]) /\ Move(c, "clock")
  /\ UNCHANGED <<cache, expiry, asleep, fromFile>>

\* time.Now().After(expTime), without the lock.
GetClock(c) ==
  /\ at[c] = "clock"
  /\ IF left[c] < 0 THEN Move(c, "delete") /\ UNCHANGED <<key, left>> ELSE Finish(c)
  /\ UNCHANGED <<cache, expiry, asleep, fromFile>>

\* The deletion, in a second critical section that looks at nothing.
GetDelete(c) ==
  /\ at[c] = "delete"
  /\ Drop(key[c]) /\ Finish(c)
  /\ UNCHANGED asleep

\* Incr looks at the value only; without one it starts a counter.
Incr(c) == \E k \in Names :
  /\ at[c] = "idle" /\ cache[k] = Nothing
  /\ cache' = [cache EXCEPT ![k] = "incr"]
  /\ UNCHANGED <<expiry, asleep, at, key, left, fromFile>>

-------------------------------------------------------------------------------

Later(t) == IF t = Nothing THEN Nothing ELSE Clip(t - 1)

\* Time passes: for the instants, the sleepers, and the instants that Get holds.
Tick ==
  /\ expiry' = [k \in Names |-> Later(expiry[k])]
  /\ asleep' = [g \in Goroutines |-> IF asleep[g] = Nothing THEN Nothing
                                     ELSE [asleep[g] EXCEPT !.left = Pause(@ - 1)]]
  /\ left' = [c \in Conns |-> IF at[c] \in {"clock", "delete"} THEN Later(left[c]) ELSE left[c]]
  /\ UNCHANGED <<cache, at, key, fromFile>>

\* Mutant: After instead of "not Before": the very instant does not count.
Wake_After(g) ==
  /\ asleep[g] # Nothing /\ asleep[g].left = 0
  /\ asleep' = [asleep EXCEPT ![g] = Nothing]
  /\ LET k == asleep[g].key IN
       IF expiry[k] # Nothing /\ expiry[k] < 0 THEN Drop(k) ELSE UNCHANGED <<cache, expiry, fromFile>>
  /\ UNCHANGED <<at, key, left>>

\* Mutant: the goroutine does not look again before it deletes.
Wake_NoCheck(g) ==
  /\ asleep[g] # Nothing /\ asleep[g].left = 0
  /\ asleep' = [asleep EXCEPT ![g] = Nothing]
  /\ Drop(asleep[g].key)
  /\ UNCHANGED <<at, key, left>>

\* The goroutine wakes, now or later, looks at the instant and the clock again
\* under the lock, and deletes if the instant is not in the future.
Wake(g) ==
  /\ asleep[g] # Nothing /\ asleep[g].left = 0
  /\ asleep' = [asleep EXCEPT ![g] = Nothing]
  /\ LET k == asleep[g].key IN
       IF expiry[k] # Nothing /\ expiry[k] <= 0 THEN Drop(k) ELSE UNCHANGED <<cache, expiry, fromFile>>
  /\ UNCHANGED <<at, key, left>>

-------------------------------------------------------------------------------

Client(c)   == Set(c) \/ SetPX(c) \/ GetRead(c) \/ Incr(c)
SetOrGet(c) == SetExpiry(c) \/ Spawn(c) \/ GetClock(c) \/ GetDelete(c)

TTLNext ==
  \/ Tick
  \/ \E c \in Conns : Client(c) \/ SetOrGet(c)
  \/ \E g \in Goroutines : Wake(g)

\* Time passes, and the Go scheduler runs what can run.
TTLFairness == /\ WF_ttlVars(Tick)
               /\ \A c \in Conns : WF_ttlVars(SetOrGet(c))
               /\ \A g \in Goroutines : WF_ttlVars(Wake(g))

TTLSpec == TTLInit /\ [][TTLNext]_ttlVars /\ TTLFairness

-------------------------------------------------------------------------------
(* Properties.                                                             *)

Instants == {t \in Int : t >= -1}

TTLTypeOK ==
  /\ cache \in [Names -> Origins \union {Nothing}] /\ expiry \in [Names -> Instants \union {Nothing}]
  /\ asleep \in [Goroutines -> [key : Names, left : Nat] \union {Nothing}]
  /\ at \in [Conns -> PCs]
  /\ key \in [Conns -> Names \union {Nothing}] /\ left \in [Conns -> Int \union {Nothing}]
  /\ fromFile \in SUBSET Names
  /\ \A c \in Conns : at[c] # "idle" => key[c] \in Names /\ left[c] \in Int

\* Someone will come for k no sooner than its instant of expiry: a goroutine, or
\* the SET that is about to start one.
Attended(k) ==
  \/ \E g \in Goroutines : asleep[g] # Nothing /\ asleep[g].key = k /\ asleep[g].left >= expiry[k]
  \/ \E c \in Conns : at[c] = "spawn" /\ key[c] = k /\ Pause(left[c]) >= expiry[k]

\* Whatever SETs and GETs overlap, the instant of expiry that ends up stored for a
\* key is one that a goroutine will find reached when it wakes: no goroutine wakes
\* too early, for good, and leaves a key behind that only a GET would remove.
EveryTTLIsAttended == \A k \in Names \ fromFile : expiry[k] # Nothing => Attended(k)

\* The goroutines of earlier SETs double-check: under whatever overlap of SETs, a value
\* that is there disappears only when the instant of expiry stored for its key is
\* reached, or through a GET that had found the key expired before.
GoesWhenExpired ==
  [][\A k \in Names : cache[k] # Nothing /\ cache'[k] = Nothing =>
       \/ expiry[k] # Nothing /\ expiry[k] <= 0
       \/ \E c \in Conns : at[c] = "delete" /\ key[c] = k]_ttlVars

\* A key that SET gave a time to live does not keep it for ever: it is overwritten
\* or removed, also if no client ever asks for it again.
ExpiredKeysGo == \A k \in Names : expiry[k] # Nothing /\ k \notin fromFile ~> expiry[k] = Nothing

===============================================================================
