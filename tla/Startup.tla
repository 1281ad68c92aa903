-------------------------------- MODULE Startup ---------------------------------
(***************************************************************************)
(* What a start makes of the bytes on the disk: the RDB file, the manifest *)
(* and the append-only file, each of which may end anywhere.               *)
(*                                                                         *)
(* Persistence has several clients, the fsync and commands that are        *)
(* written as a whole; here one client sends SETs one after the other, and *)
(* the write of a command or of the manifest may break off at any byte,    *)
(* because the process dies or because the disk is full: the server then   *)
(* reports an error and goes on appending behind what it has written.      *)
(* The clock goes on in every status: a time to live becomes an instant    *)
(* when its SET is executed, and again when the SET is replayed.           *)
(*                                                                         *)
(* Left out: options other than appendonly "yes", a disk that loses what   *)
(* was written, a clock that is set back or goes on within a replay, a     *)
(* time to live beyond int, letters that are not ASCII.                    *)
(***************************************************************************)
EXTENDS RDB

LOCAL INSTANCE FiniteSetsExt

CONSTANTS
  RdbFiles,   \* what the RDB file may be: n bytes of what was saved, [sections, n]
  Requests,   \* what the client sends: sequences of bytes
  MaxWrites,  \* bound on the commands, one less beside a file or a command that breaks off (state space)
  MaxCrashes, \* bound on the crashes (state space)
  MaxTears,   \* bound on the files and commands that break off (state space)
  Times       \* what the clock may show, in milliseconds

ASSUME DiskBoundAssumption == MaxWrites \in Nat /\ MaxCrashes \in Nat /\ MaxTears \in Nat

ASSUME RdbFilesAssumption ==
  \A f \in RdbFiles :
    /\ f.sections \in Seq(Sections) /\ f.sections # <<>> /\ f.n \in 0 .. Len(File(f.sections))
    /\ \A i \in DOMAIN f.sections : f.sections[i].op = 255 <=> i = Len(f.sections)

ASSUME TimesAssumption == Times \subseteq Int

VARIABLES
  rdb,       \* the RDB file
  manifest,  \* "absent", "torn" (created, but without its whole line) or "whole"
  aof,       \* the append-only file
  status,    \* "down", "manifest" (about to write it), "replay", "up", "exited" (os.Exit or a panic)
  store,     \* Store: cache, a value for every key, and expiry, an instant for some
  now,       \* the clock: the millisecond that has begun
  logged,    \* history: the commands, each with the number of its bytes that were written
  crashes    \* history: number of crashes so far

disk == <<rdb, manifest, aof>>
bootVars == <<disk, status, store, now, logged, crashes>>

-------------------------------------------------------------------------------
(* The commands.                                                           *)

\* asString.
asString(v) == IF v.kind = "string" THEN v.of ELSE <<>>

SET == <<83, 69, 84>>
EX  == <<69, 88>>
PX  == <<80, 88>>

\* strings.ToUpper.
ToUpper(s) == [i \in DOMAIN s |-> IF s[i] \in 97 .. 122 THEN s[i] - 32 ELSE s[i]]

\* What the client sends are SETs, each a whole one.
ASSUME RequestsAssumption ==
  \A r \in Requests : LET v == ParseRESP(r) IN
    /\ v.err = "nil" /\ v.rest = <<>>
    /\ v.val \in Values[MaxDepth] /\ v.val.kind = "array" /\ Len(v.val.of) >= 3
    /\ ToUpper(asString(v.val.of[1])) = SET

\* A time to live, in milliseconds, if there is one.
parseTTL(arr) ==
  LET opt == ToUpper(asString(arr[4]))
      ttl == Atoi(asString(arr[5]))
  IN  IF Len(arr) < 5 \/ opt \notin {EX, PX} \/ ttl.err # "nil" THEN Fail("none")
      ELSE Ok(IF opt = EX THEN 1000 * ttl.val ELSE ttl.val, <<>>)

Put(f, key, v) == [k \in DOMAIN f \union {key} |-> IF k = key THEN v ELSE f[k]]
Without(f, key) == [k \in DOMAIN f \ {key} |-> f[k]]

\* Store.Set.
Stored(s, key, value) == [cache |-> Put(s.cache, key, value), expiry |-> Without(s.expiry, key)]

\* SetWithTTL at an instant.
StoredWithTTL(s, key, value, ttl, at) ==
  [cache |-> Put(s.cache, key, value), expiry |-> Put(s.expiry, key, at + ttl)]

\* handleCommand at an instant: a SET stores a value; nothing else is sent.
Apply(s, arr, at) ==
  LET key   == asString(arr[2])
      value == asString(arr[3])
      ttl   == parseTTL(arr)
  IN  IF Len(arr) < 3 \/ ToUpper(asString(arr[1])) # SET THEN s
      ELSE IF ttl.err = "nil" THEN StoredWithTTL(s, key, value, ttl.val, at)
      ELSE Stored(s, key, value)

\* Commands, one after the other.
ApplyAll(s, cmds, at) ==
  LET after[i \in 0 .. Len(cmds)] == IF i = 0 THEN s ELSE Apply(after[i - 1], cmds[i], at)
  IN  after[Len(cmds)]

\* replayAOFCommands, with at most n bytes left: the commands, and the error they end with.
Replayed[n \in Nat] == [b \in Bytes |->
  LET v == ParseRESP(b)
      r == Replayed[n - 1][v.rest]
  IN  IF n = 0 \/ v.err # "nil" THEN [cmds |-> <<>>, err |-> v.err]
      ELSE [cmds |-> IF v.val.kind = "array" /\ v.val.of # <<>> THEN <<v.val.of>> \o r.cmds ELSE r.cmds,
            err  |-> r.err]]

replay(b) == Replayed[Len(b)][b]

\* What a value is once it has been in the file: an int has become a string.
ValueAsText(Elements, v) ==
  CASE v.kind = "int"   -> Str(Itoa(v.of))
    [] v.kind = "array" -> Arr([i \in DOMAIN v.of |-> Elements[v.of[i]]])
    [] OTHER            -> v

AsText[n \in Nat] == [v \in Values[n] |-> ValueAsText(AsText[n - 1], v)]

Text(arr) == AsText[MaxDepth][Arr(arr)].of

OnDisk(f) == SubSeq(File(f.sections), 1, f.n)

\* NewStore.
NewStore(r) ==
  [cache |-> r.data, expiry |-> [k \in DOMAIN r.expiry |-> Moment(r.expiry[k])]]

-------------------------------------------------------------------------------
(* The start.                                                              *)

BootInit ==
  /\ rdb \in RdbFiles /\ manifest = "absent" /\ aof = <<>>
  /\ status = "down" /\ store = NewStore(Nothing) /\ now \in Times
  /\ logged = <<>> /\ crashes = 0

\* readAOFFilePathFromManifest: without its whole line a manifest names no file.
NamesFile == manifest = "whole"

\* Mutant: the manifest is written anew at every start.
Boot_NewManifest ==
  /\ status \in {"down", "exited"}
  /\ store' = NewStore(LoadRDB(OnDisk(rdb)))
  /\ status' = IF manifest = "absent" \/ NamesFile THEN "manifest" ELSE "exited"
  /\ UNCHANGED <<disk, now, logged, crashes>>

\* main: the RDB file, ensureAOFState, which creates what is not there, and NewStore.
Boot ==
  /\ status \in {"down", "exited"}
  /\ store' = NewStore(LoadRDB(OnDisk(rdb)))
  /\ status' = IF manifest = "absent" THEN "manifest" ELSE IF NamesFile THEN "replay" ELSE "exited"
  /\ UNCHANGED <<disk, now, logged, crashes>>

\* os.WriteFile creates the manifest, ...
CreateManifest ==
  /\ status = "manifest" /\ manifest # "torn"
  /\ manifest' = "torn"
  /\ UNCHANGED <<rdb, aof, status, store, now, logged, crashes>>

\* ... and writes its line, or part of it.
WriteManifest ==
  /\ status = "manifest" /\ manifest = "torn"
  /\ \/ manifest' = "whole" /\ status' = "replay"
     \/ status' = "exited" /\ UNCHANGED manifest
  /\ UNCHANGED <<rdb, aof, store, now, logged, crashes>>

\* Mutant: the replay begins with an empty Store.
Replay_EmptyStore ==
  /\ status = "replay"
  /\ LET r == replay(aof) IN
       /\ store' = ApplyAll(NewStore(Nothing), r.cmds, now)
       /\ status' = IF r.err = "EOF" THEN "up" ELSE "exited"
  /\ UNCHANGED <<disk, now, logged, crashes>>

\* replayAOFCommands; "EOF" is the end, any other error that of the process.
Replay ==
  /\ status = "replay"
  /\ LET r == replay(aof) IN
       /\ store' = ApplyAll(store, r.cmds, now)
       /\ status' = IF r.err = "EOF" THEN "up" ELSE "exited"
  /\ UNCHANGED <<disk, now, logged, crashes>>

-------------------------------------------------------------------------------
(* The running server.                                                     *)

Whole(w) == w.bytes = Len(encodeRESPArray(w.cmd))

\* The writes that broke off in the middle.
Torn == {i \in DOMAIN logged : logged[i].bytes > 0 /\ ~Whole(logged[i])}

Broken == IF rdb.n < Len(File(rdb.sections)) THEN 1 ELSE 0

\* handleConnection reads a command, handleSET stores it, and appendRESPCommandToAOF writes it,
\* or the first n bytes of it.
Set == \E request \in Requests :
  LET arr  == ParseRESP(request).val.of
      text == encodeRESPArray(arr)
  IN  /\ status = "up" /\ NamesFile /\ Len(logged) + Broken + Cardinality(Torn) < MaxWrites
      /\ store' = Apply(store, arr, now)
      /\ \E n \in 0 .. Len(text) :
           /\ n \in 1 .. Len(text) - 1 => Broken + Cardinality(Torn) < MaxTears
           /\ aof' = aof \o SubSeq(text, 1, n)
           /\ logged' = Append(logged, [cmd |-> arr, bytes |-> n])
      /\ UNCHANGED <<rdb, manifest, status, now, crashes>>

\* The goroutine of SetWithTTL, or a GET, finds a key at or after its instant and deletes it.
Expire(k) ==
  /\ status = "up" /\ k \in DOMAIN store.expiry /\ store.expiry[k] <= now
  /\ store' = [cache |-> Without(store.cache, k), expiry |-> Without(store.expiry, k)]
  /\ UNCHANGED <<disk, status, now, logged, crashes>>

\* The process dies, at any of these points, and with it the memory.
Crash ==
  /\ status \in {"manifest", "replay", "up"} /\ crashes < MaxCrashes
  /\ status' = "down" /\ crashes' = crashes + 1 /\ store' = NewStore(Nothing)
  /\ UNCHANGED <<disk, now, logged>>

\* The clock goes on, whether the server is up or down.
Tick ==
  /\ now' \in {t \in Times : t > now}
  /\ UNCHANGED <<disk, status, store, logged, crashes>>

-------------------------------------------------------------------------------

BootNext ==
  \/ Boot \/ CreateManifest \/ WriteManifest \/ Replay
  \/ Set \/ (\E k \in DOMAIN store.expiry : Expire(k))
  \/ Crash \/ Tick

BootSpec == BootInit /\ [][BootNext]_bootVars

-------------------------------------------------------------------------------
(* Properties.                                                             *)

\* The commands that were written whole, as they are read.
Kept(writes) ==
  LET kept[i \in 0 .. Len(writes)] ==
        IF i = 0 THEN <<>>
        ELSE IF Whole(writes[i]) THEN Append(kept[i - 1], Text(writes[i].cmd)) ELSE kept[i - 1]
  IN  kept[Len(writes)]

\* Those in the file before the first that broke off.
Intact == Kept(SubSeq(logged, 1, Min(Torn \union {Len(logged) + 1}) - 1))

\* The numbers of bytes of a value that end inside the bytes of a string.
StringEnds(text, of) == Len(text) - Len(of) - 1 .. Len(text) - 3

ElementAt(n, v, j) ==
  Len(ArrayHeader(Len(v.of))) + Len(Concat([i \in 1 .. j - 1 |-> Encoded[n][v.of[i]]]))

EndsInString(n, Elements, v) ==
  CASE v.kind = "string" -> StringEnds(Bulk(v.of), v.of)
    [] v.kind = "int"    -> StringEnds(Bulk(Itoa(v.of)), Itoa(v.of))
    [] v.kind = "nil"    -> {}
    [] v.kind = "array"  ->
         UNION {{ElementAt(n - 1, v, j) + m : m \in Elements[v.of[j]]} : j \in DOMAIN v.of}

InString[n \in Nat] == [v \in Values[n] |-> EndsInString(n, InString[n - 1], v)]

InArgument(arr, n) == n \in InString[MaxDepth][Arr(arr)]

\* The log is read back, whatever bytes are in the arguments: without a torn command all of
\* it, as the same bytes, by which a replica counts what it was sent; with a torn one what
\* came before it; and one at the end is never executed, nor does it keep the server from
\* starting unless it ends inside an argument.
LogReadsBack ==
  LET r    == replay(aof)
      last == logged[Len(logged)]
  IN  /\ SubSeq(r.cmds, 1, Len(Intact)) = Intact
      /\ Torn = {} => /\ r = [cmds |-> Intact, err |-> "EOF"]
                      /\ Concat([i \in DOMAIN r.cmds |-> encodeRESPArray(r.cmds[i])]) = aof
      /\ Torn = {Len(logged)} =>
           r = [cmds |-> Intact,
                err  |-> IF InArgument(last.cmd, last.bytes) THEN "unexpected EOF" ELSE "EOF"]

\* A write that is read back as the command it was.
Faithful(w) == Whole(w) /\ \A j \in DOMAIN w.cmd : w.cmd[j].kind # "int"

\* The key of a command when it is given, and when it is read back.
Concerns(w, k) == k \in {asString(w.cmd[2]), asString(Text(w.cmd)[2])}

\* No write of k was lost or altered since the last one that was not.
Settled(writes, k) ==
  \A i \in DOMAIN writes : Concerns(writes[i], k) /\ ~Faithful(writes[i]) =>
    \E j \in DOMAIN writes : j > i /\ Concerns(writes[j], k) /\ Faithful(writes[j])

\* The store "again" has k as s has it, and until later; or s has it no more, and k is to expire.
Prolongs(again, s, k) ==
  IF k \in DOMAIN s.cache
  THEN /\ k \in DOMAIN again.cache /\ again.cache[k] = s.cache[k]
       /\ k \in DOMAIN again.expiry <=> k \in DOMAIN s.expiry
       /\ k \in DOMAIN s.expiry => again.expiry[k] >= s.expiry[k]
  ELSE k \in DOMAIN again.cache => k \in DOMAIN again.expiry

\* A restart, after any crash and at any time, loses no key of the running server and changes
\* no value; a key with a time to live keeps one, which the replay of SetWithTTL begins anew, so
\* it never ends sooner; and only keys that had expired come back, to expire again.  Keys are
\* exempt, each on its own, while their last append failed or had an int in an argument, which
\* the log makes a string; and all are once a command is torn.
RestartOnlyProlongs ==
  LET again == ApplyAll(NewStore(LoadRDB(OnDisk(rdb))), replay(aof).cmds, now) IN
    status = "up" /\ Torn = {} =>
      \A k \in DOMAIN store.cache \union DOMAIN again.cache :
        Settled(logged, k) => Prolongs(again, store, k)

\* A start loads what was saved, in every encoding of lengths and integers; of a file that ends
\* between two sections what came before, and of any other that is not whole, or that has one
\* compressed string, nothing.
RdbIsLoaded ==
  status \in {"manifest", "replay"} => store = NewStore(Worth(rdb.sections, rdb.n))

\* The server refuses to start only when a command in its log is torn, or when it could not
\* write the whole manifest in its very first start: no later crash, at whatever point, nor any
\* append that failed before it wrote, keeps it down.
OnlyATearStopsIt ==
  status = "exited" => Torn # {} \/ (manifest = "torn" /\ logged = <<>>)

===============================================================================
