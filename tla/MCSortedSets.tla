----------------------------- MODULE MCSortedSets ------------------------------
(* An instance of SortedSets for TLC. *)
EXTENDS SortedSets

CONSTANT k

Zadd(pairs) == [op |-> "ZADD", key |-> k, args |-> [i \in DOMAIN pairs |->
                  [member |-> pairs[i][1], score |-> pairs[i][2]]]]
Zrem(ms)    == [op |-> "ZREM", key |-> k, args |-> [i \in DOMAIN ms |-> [member |-> ms[i]]]]
Geoadd(at)  == [op |-> "GEOADD", key |-> k, args |-> [i \in DOMAIN at |->
                  [member |-> at[i][1], latitude |-> at[i][2], longitude |-> at[i][3]]]]

Edge == 2 * Cells

\* Scores that are equal or not, one that does not parse and one that is no number; positions
\* inside the grid, on its edges and beyond, the last with bits of every stage.
SomeCalls ==
  {Zadd(<<<<1, {1}>>, <<2, {0}>>>>), Zadd(<<<<2, {1}>>, <<1, {1}>>>>), Zadd(<<<<1, {2}>>, <<3, Bad>>>>),
   Zadd(<<<<3, NaN>>>>), Zrem(<<1, 2>>),
   Geoadd(<<<<1, 2 * 12345679, Edge>>, <<3, Edge, Edge - 1>>>>),
   Geoadd(<<<<2, Edge - 1, 89478485>>, <<3, Edge + 1, 0>>>>)}

===============================================================================
