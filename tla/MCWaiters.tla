------------------------------- MODULE MCWaiters ------------------------------
(* Instances of Waiters for TLC. *)
EXTENDS Waiters, TLC

CONSTANTS c1, c2, c3, k1, k2, v1, v2, v3, e1

Of(op, keys, items, timed, news) ==
  [op |-> op, keys |-> keys, items |-> items, timed |-> timed, news |-> news]

\* One client pushes to both keys and adds an entry to one of them, one waits for a
\* while for a value of that, one for news of both or for anything on that.
MixedCalls ==
  c1 :> {Of("RPUSH", <<k1>>, <<v1, v2>>, FALSE, FALSE), Of("LPUSH", <<k2>>, <<v3>>, FALSE, FALSE),
         Of("XADD", <<k1>>, <<e1>>, FALSE, FALSE)}
  @@ c2 :> {Of("BLPOP", <<k1>>, <<>>, TRUE, FALSE)}
  @@ c3 :> {Of("XREAD", <<k1, k2>>, <<>>, TRUE, TRUE), Of("XREAD", <<k1>>, <<>>, FALSE, FALSE)}
===============================================================================
