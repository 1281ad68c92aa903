-------------------------------- MODULE Slices --------------------------------
(***************************************************************************)
(* A list of the Store as the Go slice it is: a part of a backing array.   *)
(*                                                                         *)
(* LRANGE, LPOP and RPOP get the slice under the mutex and read the array  *)
(* later without it, while RPush may append in place; LPOP and RPOP store  *)
(* a part of the slice they got.  BlockingLists and Waiters treat lists as *)
(* values: SlicesAreValues says when that is right.                        *)
(*                                                                         *)
(* A string is two words, which a reader copies one after the other, and a *)
(* critical section may come between them.  One action is one critical     *)
(* section or the copy of one word.  One key is enough, since two keys     *)
(* never share an array; waiters and the log are left out.                 *)
(***************************************************************************)
EXTENDS Integers, Sequences, FiniteSets

CONSTANTS
  Conns,   \* client connections
  Values,  \* elements; each is pushed at most once
  Arrays,  \* backing arrays; one that nothing refers to is collected and made anew
  MaxCap,  \* bound on the capacity of an array (state space)
  Torn,    \* a string made of two words of different ones
  None,
  Calls    \* the commands each client sends

ASSUME CallsAssumption ==
  \A c \in Conns : \A cl \in Calls[c] :
    \/ /\ cl.op \in {"LPUSH", "RPUSH"} /\ cl.vals \in Seq(Values) /\ cl.vals # <<>>
       /\ \A i, j \in DOMAIN cl.vals : cl.vals[i] = cl.vals[j] => i = j
    \/ cl.op = "LRANGE" /\ cl.start \in Int /\ cl.end \in Int
    \/ cl.op = "LPOP" /\ cl.cnt \in Nat \ {0}
    \/ cl.op \in {"RPOP", "BLPOP"}
ASSUME NoneAssumption == {None, Torn} \intersect Values = {} /\ MaxCap \in Nat

VARIABLES
  mem,     \* the arrays
  list,    \* Store.cache: the slice of the key: array, elements before it, length
  pc,      \* where the handler of a connection stands
  call,    \* the command it runs
  slice,   \* the slice it got
  part,    \* the part of that it replies
  word,    \* the first word of the string it copies
  out,     \* the strings it has copied
  value,   \* history: the list as a value, as BlockingLists has it
  given,   \* history: the values pushed so far
  raced,   \* history: a pop has written the list though it had changed since
  base,    \* history: the value of the list that the handler got
  since,   \* history: what has been in the list since then
  stayed   \* history: what has been in the list all the time since then

heap  == <<mem, list>>
proc  == <<pc, call, slice, part, word, out>>
ghost == <<value, given, raced, base, since, stayed>>
vars  == <<heap, proc, ghost>>

Elems(s) == {s[i] : i \in DOMAIN s}
Nil      == [arr |-> None, off |-> 0, len |-> 0]

\* s[lo:hi], the first element being 0.
Sub(s, lo, hi) == [s EXCEPT !.off = @ + lo, !.len = hi - lo]

\* What a slice holds now.
Contents(s) == IF s = Nil THEN <<>> ELSE [i \in 1 .. s.len |-> mem[s.arr][s.off + i]]

Init ==
  /\ mem = [a \in Arrays |-> <<>>] /\ list = Nil
  /\ pc = [c \in Conns |-> "idle"] /\ call = [c \in Conns |-> None]
  /\ slice = [c \in Conns |-> Nil] /\ part = [c \in Conns |-> Nil]
  /\ word = [c \in Conns |-> None] /\ out = [c \in Conns |-> <<>>]
  /\ value = <<>> /\ given = {} /\ raced = FALSE
  /\ base = [c \in Conns |-> <<>>] /\ since = [c \in Conns |-> {}] /\ stayed = [c \in Conns |-> {}]

-------------------------------------------------------------------------------

\* The list, which is what it is now, should have become v.
Becomes(v) ==
  /\ value' = v
  /\ since' = [c \in Conns |-> since[c] \union Elems(Contents(list)')]
  /\ stayed' = [c \in Conns |-> stayed[c] \intersect Elems(Contents(list)')]

Held(a) == a = list.arr \/ \E c \in Conns : slice[c].arr = a

\* make, or append beyond the capacity: a new array with the elements of s first; what
\* nobody holds any more is collected.
Allocate(s, cap) == \E a \in {b \in Arrays : ~Held(b)} :
  /\ mem' = [b \in Arrays |->
               IF b = a THEN [i \in 1 .. cap |-> IF i <= Len(s) THEN s[i] ELSE None]
               ELSE IF Held(b) THEN mem[b] ELSE <<>>]
  /\ list' = [arr |-> a, off |-> 0, len |-> Len(s)]

Backwards(s) == [i \in DOMAIN s |-> s[Len(s) + 1 - i]]

Give(c, op) == {cl \in Calls[c] : cl.op = op /\ Elems(cl.vals) \intersect given = {}}

\* Is there room behind the list in its array?
Fits(vs) ==
  list.off + list.len + Len(vs) <= IF list = Nil THEN 0 ELSE Len(mem[list.arr])

\* append in place: behind the end of the slice, in the array it is a part of.
Extend(vs) ==
  /\ Fits(vs)
  /\ mem' = [mem EXCEPT ![list.arr] = [i \in DOMAIN @ |->
               IF i \in list.off + list.len + 1 .. list.off + list.len + Len(vs)
               THEN vs[i - list.off - list.len] ELSE @[i]]]
  /\ list' = [list EXCEPT !.len = @ + Len(vs)]

\* append for want of room: the capacity of the new array is up to the runtime.
Grow(vs) ==
  /\ ~Fits(vs)
  /\ \E cap \in list.len + Len(vs) .. MaxCap : Allocate(Contents(list) \o vs, cap)

RPush(c) == \E cl \in Give(c, "RPUSH") :
  /\ pc[c] = "idle"
  /\ Extend(cl.vals) \/ Grow(cl.vals)
  /\ given' = given \union Elems(cl.vals)
  /\ UNCHANGED <<proc, raced, base>>
  /\ Becomes(value \o cl.vals)

\* Mutant: LPush makes room in the array and moves the elements up.
LPush_InPlace(c) == \E cl \in Give(c, "LPUSH") :
  /\ pc[c] = "idle"
  /\ LET s == Backwards(cl.vals) \o Contents(list) IN
       IF list # Nil /\ list.off + Len(s) <= Len(mem[list.arr])
       THEN /\ mem' = [mem EXCEPT ![list.arr] = [i \in DOMAIN @ |->
                         IF i \in list.off + 1 .. list.off + Len(s) THEN s[i - list.off] ELSE @[i]]]
            /\ list' = [list EXCEPT !.len = Len(s)]
       ELSE Allocate(s, Len(s))
  /\ given' = given \union Elems(cl.vals)
  /\ UNCHANGED <<proc, raced, base>>
  /\ Becomes(Backwards(cl.vals) \o value)

\* LPush always makes an array, of just the capacity it needs.
LPush(c) == \E cl \in Give(c, "LPUSH") :
  /\ pc[c] = "idle"
  /\ LET s == Backwards(cl.vals) \o Contents(list) IN Allocate(s, Len(s))
  /\ given' = given \union Elems(cl.vals)
  /\ UNCHANGED <<proc, raced, base>>
  /\ Becomes(Backwards(cl.vals) \o value)

\* BLPOP takes the first element under the mutex; the last one takes the key with it.
BlpopTake(c) ==
  /\ pc[c] = "idle" /\ list.len > 0 /\ \E cl \in Calls[c] : cl.op = "BLPOP"
  /\ list' = IF list.len = 1 THEN Nil ELSE Sub(list, 1, list.len)
  /\ UNCHANGED <<mem, proc, given, raced, base>>
  /\ Becomes(Tail(value))

-------------------------------------------------------------------------------
(* LRANGE, LPOP and RPOP.                                                  *)

\* The indexes that LRANGE makes of its arguments, from 0.
First(cl, n) == LET i == IF cl.start < 0 THEN n + cl.start ELSE cl.start IN IF i < 0 THEN 0 ELSE i
Last(cl, n)  == LET i == IF cl.end < 0 THEN n + cl.end ELSE cl.end IN IF i >= n THEN n - 1 ELSE i

Least(m, n) == IF m < n THEN m ELSE n

\* The part of the slice s that the command replies.
Wanted(cl, s) ==
  CASE cl.op = "LRANGE" -> Sub(s, First(cl, s.len), Last(cl, s.len) + 1)
    [] cl.op = "LPOP"   -> Sub(s, 0, Least(cl.cnt, s.len))
    [] cl.op = "RPOP"   -> Sub(s, s.len - 1, s.len)

\* The part that LPOP or RPOP leaves.
Rest(cl, s) == IF cl.op = "LPOP" THEN Sub(s, Least(cl.cnt, s.len), s.len) ELSE Sub(s, 0, s.len - 1)

Goto(c, at) == pc' = [pc EXCEPT ![c] = at]

\* Mutant: RPOP, too, replies list[len(list)-1] when it has stored the rest.
SetsFirst_Both(cl) == cl.op \in {"LPOP", "RPOP"}

\* LPOP stores the rest and copies then what it replies, RPOP copies first.
SetsFirst(cl) == cl.op = "LPOP"

\* Store.Get; without anything to reply they return at once.
Get(c) == \E cl \in Calls[c] :
  /\ pc[c] = "idle" /\ list.len > 0
  /\ cl.op \in {"LRANGE", "LPOP", "RPOP"} /\ Wanted(cl, list).len > 0
  /\ call' = [call EXCEPT ![c] = cl]
  /\ slice' = [slice EXCEPT ![c] = list] /\ part' = [part EXCEPT ![c] = Wanted(cl, list)]
  /\ Goto(c, IF SetsFirst(cl) THEN "set" ELSE "read")
  /\ base' = [base EXCEPT ![c] = Contents(list)]
  /\ since' = [since EXCEPT ![c] = Elems(Contents(list))]
  /\ stayed' = [stayed EXCEPT ![c] = Elems(Contents(list))]
  /\ UNCHANGED <<heap, word, out, value, given, raced>>

Slot(c) == mem[part[c].arr][part[c].off + Len(out[c]) + 1]

\* The first word of the next string.
CopyPointer(c) ==
  /\ pc[c] = "read" /\ word[c] = None
  /\ word' = [word EXCEPT ![c] = Slot(c)]
  /\ UNCHANGED <<heap, pc, call, slice, part, out, ghost>>

\* The second, and what follows when the last string has been copied.
CopyLength(c) ==
  /\ pc[c] = "read" /\ word[c] # None
  /\ out' = [out EXCEPT ![c] = Append(@, IF Slot(c) = word[c] THEN word[c] ELSE Torn)]
  /\ word' = [word EXCEPT ![c] = None]
  /\ Goto(c, IF Len(out[c]) + 1 < part[c].len THEN "read"
             ELSE IF call[c].op = "LRANGE" \/ SetsFirst(call[c]) THEN "reply" ELSE "set")
  /\ UNCHANGED <<heap, call, slice, part, ghost>>

\* The same as a value.
RestOf(cl, v) == IF cl.op = "LPOP" THEN SubSeq(v, Least(cl.cnt, Len(v)) + 1, Len(v))
                 ELSE SubSeq(v, 1, Len(v) - 1)

\* Store.Set with a part of the slice it got, whatever the list is by now.
PopSet(c) ==
  /\ pc[c] = "set"
  /\ list' = Rest(call[c], slice[c])
  /\ Goto(c, IF SetsFirst(call[c]) THEN "read" ELSE "reply")
  /\ UNCHANGED <<mem, call, slice, part, word, out, given, base>>
  /\ raced' = (raced \/ Contents(list) # base[c])
  /\ Becomes(RestOf(call[c], base[c]))

Leave(c) ==
  /\ pc[c] = "reply"
  /\ Goto(c, "idle") /\ call' = [call EXCEPT ![c] = None]
  /\ slice' = [slice EXCEPT ![c] = Nil] /\ part' = [part EXCEPT ![c] = Nil]
  /\ out' = [out EXCEPT ![c] = <<>>]
  /\ base' = [base EXCEPT ![c] = <<>>]
  /\ since' = [since EXCEPT ![c] = {}] /\ stayed' = [stayed EXCEPT ![c] = {}]
  /\ UNCHANGED <<list, word, value, given, raced>>

\* Mutant: a pop clears what it took out of the array, so that it can be collected.
Reply_ClearsSlots(c) ==
  /\ Leave(c)
  /\ mem' = IF call[c].op = "LRANGE" THEN mem ELSE
              [mem EXCEPT ![part[c].arr] = [i \in DOMAIN @ |->
                 IF i \in part[c].off + 1 .. part[c].off + part[c].len THEN None ELSE @[i]]]

Reply(c) == Leave(c) /\ UNCHANGED mem

-------------------------------------------------------------------------------

Next == \E c \in Conns :
  \/ RPush(c) \/ LPush(c) \/ BlpopTake(c)
  \/ Get(c) \/ CopyPointer(c) \/ CopyLength(c) \/ PopSet(c) \/ Reply(c)

Spec == Init /\ [][Next]_vars

-------------------------------------------------------------------------------
(* Properties.                                                             *)

\* LPush, RPush and the pops on shared arrays: until a pop writes the list although it
\* has changed, the list is what it would be if slices were values, whatever RPush has
\* written in place behind it and whoever still holds the array.
SlicesAreValues == ~raced => Contents(list) = value

\* The element that the jth string of a reply had when the handler got the list.
Original(c, j) == base[c][part[c].off - slice[c].off + j]

\* handleLRANGE, handleLPOP and handleRPOP read the array without the mutex: a string
\* they reply has been in the list since they got it, or is half of one and half of
\* another; and one that was in the list all the time is replied in its place.
RepliesAreOfTheTime ==
  \A c \in Conns : \A j \in DOMAIN out[c] :
    /\ out[c][j] \in since[c] \union {Torn}
    /\ Original(c, j) \in stayed[c] => out[c][j] = Original(c, j)

\* handleLPOP and handleRPOP reply just the values that their Set has taken out, though
\* they copy them outside the mutex, LPOP when others may already write the array.
PopsReplyWhatTheyTake ==
  \A c \in Conns : pc[c] = "reply" /\ call[c].op \in {"LPOP", "RPOP"} /\ ~raced =>
    out[c] = [j \in 1 .. part[c].len |-> Original(c, j)]

===============================================================================
