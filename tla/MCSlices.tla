------------------------------- MODULE MCSlices -------------------------------
(* Instances of Slices for TLC. *)
EXTENDS Slices, TLC

CONSTANTS c1, c2, c3, v1, v2, v3

Push(op, vals)  == [op |-> op, vals |-> vals]
LRange(from, to) == [op |-> "LRANGE", start |-> from, end |-> to]
LPop(n)         == [op |-> "LPOP", cnt |-> n]

\* One client pushes, one pops at either end, one reads the list and pops.
ReaderCalls ==
  c1 :> {Push("RPUSH", <<v1, v2>>), Push("RPUSH", <<v3>>), Push("LPUSH", <<v3>>)}
  @@ c2 :> {[op |-> "RPOP"], [op |-> "BLPOP"], LPop(2)}
  @@ c3 :> {LRange(-9, -1), LRange(-1, 9), LPop(1)}

ArraysAlike == Permutations(Arrays)
===============================================================================
