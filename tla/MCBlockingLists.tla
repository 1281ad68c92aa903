---------------------------- MODULE MCBlockingLists ---------------------------
(* Instances of BlockingLists for TLC. *)
EXTENDS BlockingLists, TLC

CONSTANTS c1, c2, c3, k1, k2, v1, v2, v3, v4, h1, h2, h3

PushTo(k, op, vs) == [op |-> op, key |-> k, vals |-> vs, cnt |-> 1, timed |-> FALSE]
Push(op, vs)      == PushTo(k1, op, vs)
Pop(op, n)        == [op |-> op, key |-> k1, vals |-> <<>>, cnt |-> n, timed |-> FALSE]
BlpopOf(k, t)     == [op |-> "BLPOP", key |-> k, vals |-> <<>>, cnt |-> 1, timed |-> t]
Blpop(t)          == BlpopOf(k1, t)

\* Pops that overlap with pushes, BLPOPs and each other, BLPOPs that give up, and a list
\* of its own for BLPOPs that do not.
MixedCalls == {Push("RPUSH", <<v1, v2>>), Push("LPUSH", <<v3>>), Pop("LPOP", 2), Pop("RPOP", 1),
               Blpop(TRUE), PushTo(k2, "RPUSH", <<v4>>), BlpopOf(k2, FALSE)}

ConnsAndChansAlike == Permutations(Conns) \union Permutations(Chans)
===============================================================================
