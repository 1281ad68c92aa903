----------------------------- MODULE Persistence ------------------------------
(***************************************************************************)
(* The append-only file: commands of several clients that store and then   *)
(* log, the server going down, and the replay of the file when it starts.  *)
(*                                                                         *)
(* A command changes the Store, is propagated (module Replication) and     *)
(* appended to the file, each in a section of its own.  The file is opened *)
(* for appending and a command is written to it as a whole; a write that   *)
(* breaks off in the middle is left out.  SET and INCR go to strings that  *)
(* are numbers, LPUSH and RPUSH to lists, of which only the length is kept *)
(* and which nobody waits for.                                             *)
(***************************************************************************)
EXTENDS Integers, Sequences

CONSTANTS
  Writers,      \* client connections that write
  Strings,      \* keys of strings
  Lists,        \* keys of lists
  Args,         \* the numbers they SET
  Loaded,       \* what the RDB file brings at every start: [Strings \union Lists -> Int or None]
  AlwaysSync,   \* appendfsync is "always"
  PowerFails,   \* going down may lose what has not been synced
  MaxCommands,  \* bound on the commands (state space)
  MaxCrashes,   \* bound on the crashes (state space)
  None

Keys == Strings \union Lists

ASSUME ArgsAssumption   == Args \subseteq Int
ASSUME LoadedAssumption == Loaded \in [Keys -> Int \union {None}]
ASSUME SyncAssumption   == AlwaysSync \in BOOLEAN /\ PowerFails \in BOOLEAN
ASSUME BoundAssumption  == MaxCommands \in Nat /\ MaxCrashes \in Nat

\* id: history, the number of the command.
Commands(Ids) ==
  [op : {"set"}, key : Strings, arg : Args, id : Ids] \union
  [op : {"incr"}, key : Strings, id : Ids] \union [op : {"push"}, key : Lists, id : Ids]

ASSUME NoneAssumption == None \notin Int \union Commands(0 .. MaxCommands)

VARIABLES
  status,   \* "loading" (replay), "up", "down"
  store,    \* Store.cache
  file,     \* the append-only file
  synced,   \* how much of it survives a power failure
  next,     \* replay: how many commands of the file have been read
  run,      \* [Writers -> the command a handler has stored, or None]
  pc,       \* where the handler stands
  issued,   \* history: number of commands so far
  acked,    \* history: the commands whose clients were told of success
  crashes,  \* history: number of crashes so far
  raced     \* history: keys with overlapping handlers or a failed append since the start

vars == <<status, store, file, synced, next, run, pc, issued, acked, crashes, raced>>

\* The effect of a command on the Store.
Apply(s, c) ==
  [s EXCEPT ![c.key] = IF c.op = "set" THEN c.arg ELSE IF @ = None THEN 1 ELSE @ + 1]

Init ==
  /\ status = "loading" /\ store = Loaded /\ file = <<>> /\ synced = 0 /\ next = 0
  /\ run = [w \in Writers |-> None] /\ pc = [w \in Writers |-> "idle"]
  /\ issued = 0 /\ acked = {} /\ crashes = 0 /\ raced = {}

-------------------------------------------------------------------------------

InFlight(k) == \E w \in Writers : run[w] # None /\ run[w].key = k

Return(w) == run' = [run EXCEPT ![w] = None] /\ pc' = [pc EXCEPT ![w] = "idle"]

\* The handler changes the Store.
Begin(w) == \E c \in Commands({issued}) :
  /\ status = "up" /\ run[w] = None /\ issued < MaxCommands
  /\ store' = Apply(store, c)
  /\ run' = [run EXCEPT ![w] = c] /\ pc' = [pc EXCEPT ![w] = "append"]
  /\ issued' = issued + 1
  /\ raced' = IF InFlight(c.key) THEN raced \union {c.key} ELSE raced
  /\ UNCHANGED <<status, file, synced, next, acked, crashes>>

\* appendRESPCommandToAOF writes the command, ...
Log(w) ==
  /\ pc[w] = "append"
  /\ file' = Append(file, run[w])
  /\ pc' = [pc EXCEPT ![w] = IF AlwaysSync THEN "sync" ELSE "reply"]
  /\ UNCHANGED <<status, store, synced, next, run, issued, acked, crashes, raced>>

\* Mutant: the fsync is forgotten.
Sync_Skipped(w) ==
  /\ pc[w] = "sync"
  /\ pc' = [pc EXCEPT ![w] = "reply"]
  /\ UNCHANGED <<status, store, file, synced, next, run, issued, acked, crashes, raced>>

\* ... syncs the file under "always", ...
Sync(w) ==
  /\ pc[w] = "sync"
  /\ synced' = Len(file)
  /\ pc' = [pc EXCEPT ![w] = "reply"]
  /\ UNCHANGED <<status, store, file, next, run, issued, acked, crashes, raced>>

\* ... or fails, before it has written or after: the client is told, the Store stays changed.
AppendFails(w) ==
  /\ pc[w] \in {"append", "sync"}
  /\ raced' = raced \union {run[w].key}
  /\ Return(w)
  /\ UNCHANGED <<status, store, file, synced, next, issued, acked, crashes>>

Reply(w) ==
  /\ pc[w] = "reply"
  /\ acked' = acked \union {run[w].id}
  /\ Return(w)
  /\ UNCHANGED <<status, store, file, synced, next, issued, crashes, raced>>

-------------------------------------------------------------------------------

\* The process dies; its handlers, its Store and, at worst, what was not synced are gone.
GoDown(n) ==
  /\ status' = "down"
  /\ file' = SubSeq(file, 1, n) /\ synced' = n
  /\ run' = [w \in Writers |-> None] /\ pc' = [w \in Writers |-> "idle"]

Crash ==
  /\ status # "down" /\ crashes < MaxCrashes
  /\ \E n \in synced .. Len(file) : (PowerFails \/ n = Len(file)) /\ GoDown(n)
  /\ crashes' = crashes + 1
  /\ UNCHANGED <<store, next, issued, acked, raced>>

\* Mutant: the new process starts with the Store as it was.
Start_KeepsStore ==
  /\ status = "down"
  /\ status' = "loading" /\ next' = 0 /\ raced' = {}
  /\ UNCHANGED <<store, file, synced, run, pc, issued, acked, crashes>>

\* main: load the RDB file, find the append-only file, ...
Start ==
  /\ status = "down"
  /\ status' = "loading" /\ store' = Loaded /\ next' = 0 /\ raced' = {}
  /\ UNCHANGED <<file, synced, run, pc, issued, acked, crashes>>

\* ... execute its commands without a connection, which logs nothing, ...
Replay ==
  /\ status = "loading" /\ next < Len(file) /\ file[next + 1].op # "push"
  /\ store' = Apply(store, file[next + 1])
  /\ next' = next + 1
  /\ UNCHANGED <<status, file, synced, run, pc, issued, acked, crashes, raced>>

\* ... but LPUSH and RPUSH reply on the connection without a look: the process panics.
ReplayPanics ==
  /\ status = "loading" /\ next < Len(file) /\ file[next + 1].op = "push"
  /\ GoDown(Len(file))
  /\ UNCHANGED <<store, next, issued, acked, crashes, raced>>

\* Mutant: the end of the file counts as a parse error.
Serve_FailsAtEnd ==
  /\ status = "loading" /\ next = Len(file)
  /\ status' = "down"
  /\ UNCHANGED <<store, file, synced, next, run, pc, issued, acked, crashes, raced>>

\* The end of the file: the server listens.
Serve ==
  /\ status = "loading" /\ next = Len(file)
  /\ status' = "up"
  /\ UNCHANGED <<store, file, synced, next, run, pc, issued, acked, crashes, raced>>

-------------------------------------------------------------------------------

Handler(w) == Log(w) \/ Sync(w) \/ AppendFails(w) \/ Reply(w)
Loading    == Replay \/ ReplayPanics \/ Serve

Next ==
  \/ \E w \in Writers : Begin(w) \/ Handler(w)
  \/ Crash \/ Start \/ Loading

\* Somebody starts the server when it is down, and the replay goes on.
Fairness == WF_vars(Start) /\ WF_vars(Loading)

Spec == Init /\ [][Next]_vars /\ Fairness

-------------------------------------------------------------------------------
(* Properties.                                                             *)

TypeOK ==
  /\ status \in {"loading", "up", "down"} /\ store \in [Keys -> Int \union {None}]
  /\ file \in Seq(Commands(Nat)) /\ synced \in 0 .. Len(file) /\ next \in Nat
  /\ run \in [Writers -> Commands(Nat) \union {None}]
  /\ pc \in [Writers -> {"idle", "append", "sync", "reply"}]
  /\ issued \in Nat /\ acked \in SUBSET Nat /\ crashes \in Nat /\ raced \in SUBSET Keys
  /\ \A w \in Writers : pc[w] = "idle" <=> run[w] = None
  /\ status = "loading" => next <= Len(file)

Kept == {file[i].id : i \in 1 .. IF PowerFails THEN synced ELSE Len(file)}

\* A command whose client was told of success is in the part of the file that the next
\* crash leaves, and no crash, replay or later write takes it out: always if only the
\* process dies, and under appendfsync "always" if the power fails.
AckedIsKept == AlwaysSync \/ ~PowerFails => acked \subseteq Kept

\* The Store that a replay of the commands f has made after each of them.
Stores(f) == LET after[n \in 0 .. Len(f)] == IF n = 0 THEN Loaded ELSE Apply(after[n - 1], f[n])
             IN  after

\* A running server holds for every key exactly what a replay of the file would give,
\* before and after crashes, unless handlers of this key overlap or one could not log.
FileMatchesStore ==
  status = "up" =>
    \A k \in Keys \ raced : InFlight(k) \/ store[k] = Stores(file)[Len(file)][k]

\* A server that went down comes up again, as long as no push is in its file.
ComesUpWithoutPushes ==
  status = "down" ~> status = "up" \/ \E i \in 1 .. Len(file) : file[i].op = "push"

===============================================================================
