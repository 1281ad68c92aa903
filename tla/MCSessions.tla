------------------------------- MODULE MCSessions ------------------------------
(* An instance of Sessions for TLC. *)
EXTENDS Sessions

CONSTANTS a, b, p1, p2

Cmd(op, on, word) == [op |-> op, chs |-> on, pass |-> word]

\* One password that is set and one that never is; two channels.
SomeCommands ==
  {Cmd("AUTH", <<>>, p1), Cmd("AUTH", <<>>, p2), Cmd("SETUSER", <<>>, p1),
   Cmd("SUBSCRIBE", <<a, b>>, p1), Cmd("UNSUBSCRIBE", <<b, a>>, p1), Cmd("PUBLISH", <<a>>, p1),
   Cmd("MULTI", <<>>, p1), Cmd("EXEC", <<>>, p1), Cmd("DISCARD", <<>>, p1)}

===============================================================================
