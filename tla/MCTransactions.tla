---------------------------- MODULE MCTransactions ----------------------------
(* Instances of Transactions for TLC. *)
EXTENDS Transactions, TLC

CONSTANTS c1, c2, k1, x

Cmd(op, k, v) == [op |-> op, key |-> k, val |-> v]

\* Every operation, the value of SET not a number, that of SETPX one.
AllCommands == {Cmd("SET", k1, x), Cmd("SETPX", k1, 0), Cmd("GET", k1, 0),
                Cmd("INCR", k1, 0), Cmd("UNWATCH", k1, 0)}
===============================================================================
