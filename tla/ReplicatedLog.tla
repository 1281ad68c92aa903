---------------------------- MODULE ReplicatedLog -----------------------------
(***************************************************************************)
(* What asynchronous propagation promises a replica: from the moment it    *)
(* joins, its copy goes through the writes of the master's log, one after  *)
(* the other, without a gap and without a change of order.  It may lag,    *)
(* and it may stop for good.                                               *)
(***************************************************************************)
EXTENDS Naturals, Sequences

CONSTANTS Replicas, Values, None

VARIABLES
  log,       \* the writes of the master, in the order of propagation
  executed,  \* [Replicas -> Nat \union {None}]: how far a replica is in the log,
             \* None before it joins
  copy       \* [Replicas -> Values \union {None}]: what a replica has stored

vars == <<log, executed, copy>>

Init ==
  /\ log = <<>>
  /\ executed = [r \in Replicas |-> None]
  /\ copy = [r \in Replicas |-> None]

Extend(v) ==
  /\ log' = Append(log, v)
  /\ UNCHANGED <<executed, copy>>

\* The empty snapshot: the replica starts at the end of the log, with nothing.
Join(r) ==
  /\ executed[r] = None
  /\ executed' = [executed EXCEPT ![r] = Len(log)]
  /\ UNCHANGED <<log, copy>>

Apply(r) ==
  /\ executed[r] # None /\ executed[r] < Len(log)
  /\ executed' = [executed EXCEPT ![r] = @ + 1]
  /\ copy' = [copy EXCEPT ![r] = log[executed[r] + 1]]
  /\ UNCHANGED log

Next ==
  \/ \E v \in Values : Extend(v)
  \/ \E r \in Replicas : Join(r) \/ Apply(r)

Spec == Init /\ [][Next]_vars

===============================================================================
