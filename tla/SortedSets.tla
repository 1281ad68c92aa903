------------------------------ MODULE SortedSets -------------------------------
(***************************************************************************)
(* ZADD, ZREM and GEOADD on the sorted sets of the Store, and what ZRANGE, *)
(* ZRANK and GEOPOS make of them.                                          *)
(*                                                                         *)
(* ZADD and GEOADD parse and store one member after the other, each in a   *)
(* critical section of its own, and stop at the first argument that is     *)
(* wrong: what came before it is stored, and the client is told of an      *)
(* error.  Only ZADD is logged, as a whole, when all of it is stored.      *)
(*                                                                         *)
(* One action is one critical section or the append to the log, with what  *)
(* the handler does besides.  Of the log only what a replay of it gives is *)
(* kept.  A finite score is a word of bits (GeoHash); a name is its place  *)
(* in the lexicographic order.  Left out: negative and infinite scores,    *)
(* keys of another type, numbers of arguments that no handler accepts, and *)
(* distances.  ZCARD, ZSCORE, GEODIST and GEOSEARCH change nothing.        *)
(***************************************************************************)
EXTENDS GeoHash, Sequences

CONSTANTS
  Conns,      \* client connections
  Keys,       \* names of sorted sets
  Members,    \* names of members
  Calls,      \* the commands the clients send
  MaxCalls,   \* bound on the commands at the start of one (state space)
  NaN,        \* the score that ParseFloat makes of "nan"
  Bad,        \* a score that does not parse
  None,
  AofMayFail  \* can appendRESPCommandToAOF fail?

Scores == {NaN} \union SUBSET (0 .. 53)

ASSUME MembersAssumption == Members \subseteq Nat /\ IsFiniteSet(Members)
ASSUME CallsAssumption ==
  \A cl \in Calls :
    /\ cl.key \in Keys /\ cl.op \in {"ZADD", "GEOADD", "ZREM"} /\ cl.args \in Seq({cl.args[i] : i \in DOMAIN cl.args})
    /\ \A i \in DOMAIN cl.args :
         /\ cl.args[i].member \in Members
         /\ cl.op = "ZADD" => cl.args[i].score \in {Bad} \union Scores
         /\ cl.op = "GEOADD" => cl.args[i].longitude \in Int /\ cl.args[i].latitude \in Int
ASSUME BoundAssumption == MaxCalls \in Nat /\ AofMayFail \in BOOLEAN
ASSUME NoneAssumption  ==
  /\ None \notin Calls \union {NaN, Bad}
  /\ \A cl \in Calls : \A i \in DOMAIN cl.args :  \* None is no score that a call stores
       /\ cl.op = "ZADD" => cl.args[i].score # None
       /\ cl.op = "GEOADD" => Float(encode(cl.args[i].latitude, cl.args[i].longitude)) # None

VARIABLES
  zset,    \* Store.cache: the score of each member, or None; a key without members is absent
  log,     \* the zset that a replay of the log would give
  call,    \* the command a connection runs, or None
  next,    \* its loop variable: the next of its arguments
  added,   \* its addedCount
  calls,   \* the number of commands so far
  own,     \* history: the members it has stored and nobody else has touched since
  skew,    \* history: the members that the log may not agree upon, and why is known
  told,    \* history: the members that clients were told were added, less the removed ones
  untold,  \* history: the members that were added by commands that then failed
  cell     \* history: the grid numbers from which GEOADD made the score of a member, or None

store == <<zset, cell>>
proc  == <<call, next, added, calls>>
ghost == <<own, skew, told, untold>>
vars  == <<store, log, proc, ghost>>

Nobody == [m \in Members |-> None]

Init ==
  /\ zset = [k \in Keys |-> Nobody] /\ log = [k \in Keys |-> Nobody]
  /\ call = [c \in Conns |-> None] /\ next = [c \in Conns |-> 1] /\ added = [c \in Conns |-> 0]
  /\ calls = 0
  /\ own = [c \in Conns |-> {}] /\ skew = {}
  /\ told = [k \in Keys |-> 0] /\ untold = [k \in Keys |-> 0]
  /\ cell = [k \in Keys |-> Nobody]

K(c)    == call[c].key
Arg(c)  == call[c].args[next[c]]
More(c) == next[c] <= Len(call[c].args)

Runs(c, op) == call[c] # None /\ call[c].op = op

\* The members that c has stored so far.
Done(c)    == next[c] - 1
Written(c) == {call[c].args[i].member : i \in 1 .. Done(c)}

\* The score that the first n arguments leave a member with.
IsLast(args, n, m, i) == args[i].member = m /\ \A j \in i + 1 .. n : args[j].member # m
LastScore(args, n, m) == args[CHOOSE i \in 1 .. n : IsLast(args, n, m, i)].score

InSet(z) == {m \in Members : z[m] # None}

-------------------------------------------------------------------------------
(* The handlers.                                                           *)

Begin(c) == \E cl \in Calls :
  /\ call[c] = None /\ calls < MaxCalls
  /\ call' = [call EXCEPT ![c] = cl] /\ calls' = calls + 1
  /\ UNCHANGED <<store, log, next, added, ghost>>

\* The handler returns.
End(c) ==
  /\ call' = [call EXCEPT ![c] = None] /\ next' = [next EXCEPT ![c] = 1]
  /\ added' = [added EXCEPT ![c] = 0] /\ own' = [own EXCEPT ![c] = {}]
  /\ UNCHANGED calls

\* An error is the reply.
ReplyError(c) ==
  /\ untold' = [untold EXCEPT ![K(c)] = @ + added[c]] /\ UNCHANGED told
  /\ skew' = skew \union ({K(c)} \X Written(c))
  /\ End(c) /\ UNCHANGED <<store, log>>

\* Who else has stored this member is no longer the last to have done so.
Touch(c, ms) ==
  own' = [d \in Conns |-> IF d = c THEN own[c] \union ms
                          ELSE IF call[d] # None /\ K(d) = K(c) THEN own[d] \ ms ELSE own[d]]

\* Mutant: a member whose score changes is counted as added.
Put_CountsUpdates(c, m, score, grid) ==
  /\ zset' = [zset EXCEPT ![K(c)][m] = score] /\ cell' = [cell EXCEPT ![K(c)][m] = grid]
  /\ added' = [added EXCEPT ![c] = @ + 1]
  /\ next' = [next EXCEPT ![c] = @ + 1] /\ Touch(c, {m})
  /\ UNCHANGED <<log, call, calls, told, untold>>

\* Store.ZAdd.
Put(c, m, score, grid) ==
  /\ zset' = [zset EXCEPT ![K(c)][m] = score] /\ cell' = [cell EXCEPT ![K(c)][m] = grid]
  /\ added' = [added EXCEPT ![c] = IF zset[K(c)][m] = None THEN @ + 1 ELSE @]
  /\ next' = [next EXCEPT ![c] = @ + 1] /\ Touch(c, {m})
  /\ UNCHANGED <<log, call, calls, told, untold>>

\* One turn of the loop of ZADD.
ZAdd(c) ==
  /\ Runs(c, "ZADD") /\ More(c) /\ Arg(c).score # Bad
  /\ Put(c, Arg(c).member, Arg(c).score, None) /\ UNCHANGED skew

InRange(arg) == arg.longitude \in 0 .. 2 * Cells /\ arg.latitude \in 0 .. 2 * Cells

\* One turn of the loop of GEOADD.
GeoAdd(c) ==
  /\ Runs(c, "GEOADD") /\ More(c) /\ InRange(Arg(c))
  /\ Put(c, Arg(c).member, Float(encode(Arg(c).latitude, Arg(c).longitude)),
         [lat |-> Grid(Arg(c).latitude), lon |-> Grid(Arg(c).longitude)])
  /\ skew' = skew \union {<<K(c), Arg(c).member>>}

\* An argument that either of them refuses.
Refuse(c) ==
  /\ \/ Runs(c, "ZADD") /\ More(c) /\ Arg(c).score = Bad
     \/ Runs(c, "GEOADD") /\ More(c) /\ ~InRange(Arg(c))
  /\ ReplyError(c)

Tell(c, n) == told' = [told EXCEPT ![K(c)] = @ + n] /\ UNCHANGED untold

\* The log's zset once all pairs of the command are stored in it.
Replayed(c) ==
  [m \in Members |-> IF m \in Written(c) THEN LastScore(call[c].args, Done(c), m) ELSE log[K(c)][m]]

\* Mutant: a ZADD that only changes scores is not logged.
Log_OnlyAdditions(c) ==
  /\ log' = IF added[c] = 0 THEN log ELSE [log EXCEPT ![K(c)] = Replayed(c)]
  /\ skew' = (skew \ ({K(c)} \X own[c])) \union ({K(c)} \X (Written(c) \ own[c]))

\* The command joins the log.
Log(c) ==
  /\ log' = [log EXCEPT ![K(c)] = Replayed(c)]
  /\ skew' = (skew \ ({K(c)} \X own[c])) \union ({K(c)} \X (Written(c) \ own[c]))

\* The end of ZADD: the log, and the reply.
Persist(c) ==
  /\ Runs(c, "ZADD") /\ ~More(c)
  /\ \/ Log(c) /\ Tell(c, added[c]) /\ End(c) /\ UNCHANGED store
     \/ AofMayFail /\ ReplyError(c)

\* The end of GEOADD.
GeoReply(c) ==
  /\ Runs(c, "GEOADD") /\ ~More(c)
  /\ Tell(c, added[c]) /\ End(c) /\ UNCHANGED <<store, log, skew>>

\* ZREM: all its members in one critical section, and the reply.
ZRem(c) ==
  /\ Runs(c, "ZREM")
  /\ LET ms == {call[c].args[i].member : i \in DOMAIN call[c].args} IN
       /\ zset' = [zset EXCEPT ![K(c)] = [m \in Members |-> IF m \in ms THEN None ELSE @[m]]]
       /\ cell' = [cell EXCEPT ![K(c)] = [m \in Members |-> IF m \in ms THEN None ELSE @[m]]]
       /\ Tell(c, -Cardinality(ms \intersect InSet(zset[K(c)])))
       /\ own' = [d \in Conns |-> IF call[d] # None /\ K(d) = K(c) THEN own[d] \ ms ELSE own[d]]
       /\ skew' = skew \union ({K(c)} \X (ms \intersect InSet(zset[K(c)])))
  /\ call' = [call EXCEPT ![c] = None]
  /\ UNCHANGED <<log, next, added, calls>>

-------------------------------------------------------------------------------

Next == \E c \in Conns :
  \/ Begin(c) \/ ZAdd(c) \/ GeoAdd(c) \/ Refuse(c) \/ Persist(c) \/ GeoReply(c) \/ ZRem(c)

Spec == Init /\ [][Next]_vars

-------------------------------------------------------------------------------
(* What the read-only commands reply, from a zset z or from its nodes.      *)

\* Mutant: no order between equal scores.
Before_ScoreOnly(z, m, n) == NaN \notin {z[m], z[n]} /\ z[m] # z[n] /\ LessBits(z[m], z[n])

\* The comparison that sort.Slice is given: NaN is not less, not greater and not equal.
Before(z, m, n) ==
  /\ NaN \notin {z[m], z[n]}
  /\ IF z[m] = z[n] THEN m < n ELSE LessBits(z[m], z[n])

\* sort.Slice inserts each of (up to 12) nodes behind the last that it is not before.
Inserted(z, s, m) ==
  LET at == CHOOSE i \in 0 .. Len(s) : /\ i > 0 => ~Before(z, m, s[i])
                                       /\ \A j \in i + 1 .. Len(s) : Before(z, m, s[j])
  IN  SubSeq(s, 1, at) \o <<m>> \o SubSeq(s, at + 1, Len(s))

\* The sequences of all elements of a finite set.
Orders(S) == {p \in [1 .. Cardinality(S) -> S] : \A i, j \in DOMAIN p : p[i] = p[j] => i = j}

\* What is sorted after each of the nodes p.
Sorted(z, p) ==
  LET sorted[n \in 0 .. Len(p)] == IF n = 0 THEN <<>> ELSE Inserted(z, sorted[n - 1], p[n])
  IN  sorted

\* The nodes may come out of the map in any order.
SortedZSetNodes(z) == {Sorted(z, p)[Len(p)] : p \in Orders(InSet(z))}

ZRange(nodes, start, stop) ==
  LET length == Len(nodes)
      first  == IF start < 0 THEN length + start ELSE start
      last   == IF stop < 0 THEN length + stop ELSE stop
      from   == IF first < 0 THEN 0 ELSE first
      to     == IF last >= length THEN length - 1 ELSE last
  IN  IF from > to \/ from >= length THEN <<>> ELSE SubSeq(nodes, from + 1, to + 1)

ZRank(nodes, member) ==
  IF \E i \in DOMAIN nodes : nodes[i] = member
  THEN (CHOOSE i \in DOMAIN nodes : nodes[i] = member) - 1 ELSE -1

-------------------------------------------------------------------------------
(* Properties.                                                             *)

TypeOK ==
  /\ zset \in [Keys -> [Members -> {None} \union Scores]]
  /\ log \in [Keys -> [Members -> {None} \union Scores]]
  /\ call \in [Conns -> Calls \union {None}] /\ next \in [Conns -> Nat \ {0}]
  /\ added \in [Conns -> Nat] /\ calls \in Nat
  /\ own \in [Conns -> SUBSET Members] /\ skew \in SUBSET (Keys \X Members)
  /\ told \in [Keys -> Int] /\ untold \in [Keys -> Nat]
  /\ cell \in [Keys -> [Members -> {None} \union [lat : SUBSET (0 .. GridBits), lon : SUBSET (0 .. GridBits)]]]
  /\ \A c \in Conns : /\ call[c] # None => next[c] <= Len(call[c].args) + 1
                      /\ call[c] = None \/ Runs(c, "ZREM") => next[c] = 1 /\ added[c] = 0 /\ own[c] = {}

\* One for each member that a command still running has added to k.
Unreported(k) ==
  UNION {{c} \X (1 .. added[c]) : c \in {c \in Conns : call[c] # None /\ K(c) = k}}

\* What ZADD, GEOADD and ZREM tell their clients adds up to the members that are there, whoever
\* adds and removes the same ones at once; a command that fails half way tells nobody of what it
\* has added.
RepliesAddUp ==
  \A k \in Keys :
    Cardinality(InSet(zset[k])) = told[k] + untold[k] + Cardinality(Unreported(k))

\* The log gives every member the score it has, but for those last touched by ZREM or GEOADD,
\* which are not logged, by a ZADD that failed half way, or by two ZADDs at once that joined
\* the log in another order than they stored the member.
LogMatchesStore ==
  \A k \in Keys, m \in Members :
    \/ log[k][m] = zset[k][m]
    \/ <<k, m>> \in skew
    \/ \E c \in Conns : Runs(c, "ZADD") /\ K(c) = k /\ m \in Written(c)

\* Unless a score is NaN, ZRANGE and ZRANK do not depend on the order in which the map is read:
\* equal scores are in the order of the names, any two ranges that should meet do so without a
\* gap or a repetition, wherever they are cut and from whichever end that is counted, and the
\* rank of a member is the index at which ZRANGE finds it.
RangesMeet ==
  \A k \in Keys : NaN \notin {zset[k][m] : m \in Members} =>
    /\ Cardinality(SortedZSetNodes(zset[k])) = 1
    /\ \A nodes \in SortedZSetNodes(zset[k]) :
         /\ \A i \in (-Cardinality(Members) - 1 .. Cardinality(Members) + 1) \ {-1} :
              ZRange(nodes, 0, i) \o ZRange(nodes, i + 1, -1) = nodes
         /\ \A m \in Members : LET r == ZRank(nodes, m) IN
              IF m \in InSet(zset[k]) THEN ZRange(nodes, r, r) = <<m>> ELSE r = -1
         /\ \A i, j \in DOMAIN nodes : i < j =>
              LET a == zset[k][nodes[i]]  b == zset[k][nodes[j]] IN
                LessBits(a, b) \/ (a = b /\ nodes[i] < nodes[j])

\* The position from which GEOADD made a score can be read off it again, through the
\* interleaving, the float64 and whatever other commands do, but for the lowest bit of the
\* latitude at the very end of the longitudes, where a score has more than 53 bits.
GeoposTellsTheCell ==
  \A k \in Keys, m \in Members :
    LET at == cell[k][m] IN
      at # None =>
        decode(zset[k][m]) =
          [at EXCEPT !.lat = IF GridBits \in at.lon THEN @ \ {0} ELSE @]

\* What GEOPOS replies can be given to GEOADD again and makes the same score, unless the
\* position is on the upper edge of a range: there the middle of the cell is outside.
GeoposCanBeAdded ==
  \A k \in Keys, m \in Members :
    cell[k][m] # None =>
      LET at  == decode(zset[k][m])
          arg == convertGridNumbersToCoordinates(at.lat, at.lon)
      IN  IF GridBits \in at.lat \union at.lon
          THEN ~InRange(arg)
          ELSE InRange(arg) /\ Float(encode(arg.latitude, arg.longitude)) = zset[k][m]

===============================================================================
