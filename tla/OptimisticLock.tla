---------------------------- MODULE OptimisticLock ----------------------------
(***************************************************************************)
(* What WATCH promises a client, whatever the server does inside: a life   *)
(* cycle per connection.  A client that watches something is "clean"; the  *)
(* modification of a watched key makes it "flagged"; a flagged client      *)
(* never becomes clean again without letting go of all its watched keys;   *)
(* a client that watches nothing is never flagged; and the verdict of      *)
(* EXEC is taken from the flag alone.                                      *)
(***************************************************************************)

CONSTANT Conns  \* the client connections

VARIABLES
  status,   \* [Conns -> {"unwatched", "clean", "flagged"}]
  verdict   \* [Conns -> {"none", "pending", "commit", "abort"}]: how far an
            \* EXEC has come, until it lets go of its watched keys

vars == <<status, verdict>>

Init ==
  /\ status  = [c \in Conns |-> "unwatched"]
  /\ verdict = [c \in Conns |-> "none"]

\* c asks for (more) keys to be watched; an earlier flag is kept.
Watch(c) ==
  /\ verdict[c] = "none"
  /\ status[c] = "unwatched"
  /\ status' = [status EXCEPT ![c] = "clean"]
  /\ UNCHANGED verdict

\* One modification flags, at once, every clean client of a set S.
Touch(S) ==
  /\ \A c \in S : status[c] = "clean"
  /\ status' = [c \in Conns |-> IF c \in S THEN "flagged" ELSE status[c]]
  /\ UNCHANGED verdict

\* EXEC begins: from here to its decision c holds on to what it watches.
Submit(c) ==
  /\ verdict[c] = "none"
  /\ verdict' = [verdict EXCEPT ![c] = "pending"]
  /\ UNCHANGED status

\* EXEC reads the flag.
Decide(c) ==
  /\ verdict[c] = "pending"
  /\ verdict' = [verdict EXCEPT ![c] = IF status[c] = "flagged" THEN "abort" ELSE "commit"]
  /\ UNCHANGED status

\* UNWATCH, DISCARD, the end of EXEC or of the connection: all is forgotten.
Release(c) ==
  /\ verdict[c] # "pending"
  /\ status'  = [status EXCEPT ![c] = "unwatched"]
  /\ verdict' = [verdict EXCEPT ![c] = "none"]

Next ==
  \/ \E c \in Conns : Watch(c) \/ Submit(c) \/ Decide(c) \/ Release(c)
  \/ \E S \in SUBSET Conns : Touch(S)

Spec == Init /\ [][Next]_vars

===============================================================================
