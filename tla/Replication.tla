----------------------------- MODULE Replication ------------------------------
(***************************************************************************)
(* A master and its replicas: PSYNC, the propagation of writes, GETACK and *)
(* its answer, WAIT, and the end of a replica's connection.                *)
(*                                                                         *)
(* A connection is a queue in each direction.  conn.Write appends to it as *)
(* a whole; what is written to a connection that is cut vanishes, and the  *)
(* error is ignored.  A replica does not connect again, so a replica and   *)
(* its connection are one.  All writes are of one key and one size, the    *)
(* encoding of SET k v; a write is appended to every queue in the one      *)
(* critical section of propagate.  Of a WAIT that asks for no replica, or  *)
(* comes before the first write, the state keeps no trace.                 *)
(***************************************************************************)
EXTENDS Integers, FiniteSets, Sequences

CONSTANTS
  Replicas,   \* the replicas that may connect
  Values,     \* the values that clients write
  Waiters,    \* client connections that WAIT
  Needs,      \* the numbers of replicas they ask for
  WriteSize,  \* bytes of an encoded write
  AckSize,    \* bytes of an encoded REPLCONF GETACK *
  MaxWrites,  \* bound on the writes (state space)
  MaxWaits,   \* bound on the calls of WAIT (state space)
  Nil

ASSUME NeedsAssumption == Needs \subseteq Nat \ {0}
ASSUME SizeAssumption  == WriteSize \in Nat \ {0} /\ AckSize \in Nat \ {0}
ASSUME MaxAssumption   == MaxWrites \in Nat /\ MaxWaits \in Nat
ASSUME NilAssumption   == Nil \notin Values \union Nat

VARIABLES
  \* The master.
  masterOffset,  \* ReplicationManager.masterOffset: bytes propagated
  replicas,      \* ReplicationManager.replicas
  recorded,      \* ReplicationManager.replicaOffsets: an offset, or Nil
  log,           \* history: the writes, in the order of propagation
  \* Each connection, and the replica at its end.
  state,         \* "new", "up", "cut" (the master has not noticed), "gone"
  link,          \* from master to replica: writes and GETACKs
  acks,          \* from replica to master: offsets
  offset,        \* replicaOffset: bytes processed
  copy,          \* what the replica has stored
  joined,        \* history: length of the log at addReplica
  pos,           \* history: place in the log of the last write processed
  \* Each call of WAIT.
  wait,          \* the locals of handleWAIT, or Nil
  waits          \* number of calls so far

master  == <<masterOffset, replicas, recorded, log>>
remote  == <<state, link, acks, offset, copy, joined, pos>>
replVars    == <<master, remote, wait, waits>>

\* at: history, the place in the log of a write, and of the last write before a GETACK.
Messages == [kind : {"write"}, val : Values, at : Nat] \union [kind : {"getack"}, at : Nat]

ReplInit ==
  /\ masterOffset = 0 /\ replicas = {} /\ recorded = [r \in Replicas |-> Nil] /\ log = <<>>
  /\ state = [r \in Replicas |-> "new"]
  /\ link = [r \in Replicas |-> <<>>] /\ acks = [r \in Replicas |-> <<>>]
  /\ offset = [r \in Replicas |-> 0] /\ copy = [r \in Replicas |-> Nil]
  /\ joined = [r \in Replicas |-> 0] /\ pos = [r \in Replicas |-> 0]
  /\ wait = [x \in Waiters |-> Nil] /\ waits = 0

-------------------------------------------------------------------------------

\* conn.Write(m) on the connections of S, whatever becomes of it.
Send(S, m) ==
  link' = [r \in Replicas |-> IF r \in S /\ state[r] = "up" THEN Append(link[r], m) ELSE link[r]]

\* Mutant: the loop over the replicas returns at the first connection that fails.
Propagate_StopsAtError(v) ==
  /\ Len(log) < MaxWrites
  /\ masterOffset' = masterOffset + WriteSize
  /\ log' = Append(log, v)
  /\ LET S == IF \E r \in replicas : state[r] # "up" THEN {} ELSE replicas IN
       Send(S, [kind |-> "write", val |-> v, at |-> Len(log) + 1])
  /\ UNCHANGED <<replicas, recorded, state, acks, offset, copy, joined, pos, wait, waits>>

\* propagate: a client's write, counted once and sent to all.
Propagate(v) ==
  /\ Len(log) < MaxWrites
  /\ masterOffset' = masterOffset + WriteSize
  /\ log' = Append(log, v)
  /\ Send(replicas, [kind |-> "write", val |-> v, at |-> Len(log) + 1])
  /\ UNCHANGED <<replicas, recorded, state, acks, offset, copy, joined, pos, wait, waits>>

\* Mutant: the replica gets its snapshot, but is not registered.
Join_Forgets(r) ==
  /\ state[r] = "new"
  /\ state' = [state EXCEPT ![r] = "up"]
  /\ joined' = [joined EXCEPT ![r] = Len(log)] /\ pos' = [pos EXCEPT ![r] = Len(log)]
  /\ UNCHANGED <<master, link, acks, offset, copy, wait, waits>>

\* PSYNC: an empty snapshot, then addReplica.  A write in between is not sent.
Join(r) ==
  /\ state[r] = "new"
  /\ state' = [state EXCEPT ![r] = "up"]
  /\ replicas' = replicas \union {r}
  /\ joined' = [joined EXCEPT ![r] = Len(log)] /\ pos' = [pos EXCEPT ![r] = Len(log)]
  /\ UNCHANGED <<masterOffset, recorded, log, link, acks, offset, copy, wait, waits>>

\* The replica executes a write silently, and counts its bytes.
ReceiveWrite(r) ==
  /\ state[r] = "up" /\ link[r] # <<>> /\ Head(link[r]).kind = "write"
  /\ link' = [link EXCEPT ![r] = Tail(@)]
  /\ copy' = [copy EXCEPT ![r] = Head(link[r]).val]
  /\ pos' = [pos EXCEPT ![r] = Head(link[r]).at]
  /\ offset' = [offset EXCEPT ![r] = @ + WriteSize]
  /\ UNCHANGED <<master, state, acks, joined, wait, waits>>

\* Mutant: the answer counts the GETACK itself.
ReceiveGetack_CountsFirst(r) ==
  /\ state[r] = "up" /\ link[r] # <<>> /\ Head(link[r]).kind = "getack"
  /\ link' = [link EXCEPT ![r] = Tail(@)]
  /\ acks' = [acks EXCEPT ![r] = Append(@, offset[r] + AckSize)]
  /\ offset' = [offset EXCEPT ![r] = @ + AckSize]
  /\ UNCHANGED <<master, state, copy, joined, pos, wait, waits>>

\* GETACK: the answer is the offset before it; its own bytes count from then on.
ReceiveGetack(r) ==
  /\ state[r] = "up" /\ link[r] # <<>> /\ Head(link[r]).kind = "getack"
  /\ link' = [link EXCEPT ![r] = Tail(@)]
  /\ acks' = [acks EXCEPT ![r] = Append(@, offset[r])]
  /\ offset' = [offset EXCEPT ![r] = @ + AckSize]
  /\ UNCHANGED <<master, state, copy, joined, pos, wait, waits>>

\* REPLCONF ACK at the master: the offset of this connection.
ReceiveAck(r) ==
  /\ state[r] \in {"up", "cut"} /\ acks[r] # <<>>
  /\ recorded' = [recorded EXCEPT ![r] = Head(acks[r])]
  /\ acks' = [acks EXCEPT ![r] = Tail(@)]
  /\ UNCHANGED <<masterOffset, replicas, log, state, link, offset, copy, joined, pos, wait, waits>>

\* The replica stops or the connection breaks: what it has not read is lost.
Cut(r) ==
  /\ state[r] = "up"
  /\ state' = [state EXCEPT ![r] = "cut"]
  /\ link' = [link EXCEPT ![r] = <<>>]
  /\ UNCHANGED <<master, acks, offset, copy, joined, pos, wait, waits>>

\* The session of the replica ends, and answers it has not read are lost: removeReplica.
Remove(r) ==
  /\ state[r] = "cut"
  /\ state' = [state EXCEPT ![r] = "gone"]
  /\ replicas' = replicas \ {r}
  /\ recorded' = [recorded EXCEPT ![r] = Nil] /\ acks' = [acks EXCEPT ![r] = <<>>]
  /\ UNCHANGED <<masterOffset, log, link, offset, copy, joined, pos, wait, waits>>

-------------------------------------------------------------------------------

\* WAIT reads offset and replicas at one instant.
\* mark: history, the length of the log then.
WaitBegin(x) == \E n \in Needs, limited \in BOOLEAN :
  /\ wait[x] = Nil /\ waits < MaxWaits
  /\ masterOffset # 0
  /\ wait' = [wait EXCEPT ![x] = [need |-> n, limited |-> limited, target |-> masterOffset,
                                  active |-> replicas, ask |-> replicas, mark |-> Len(log)]]
  /\ waits' = waits + 1
  /\ UNCHANGED <<master, remote>>

\* Mutant: the loop over the active replicas sends nothing.
WaitAsk_Nothing(x) ==
  /\ wait[x] # Nil /\ wait[x].ask # {}
  /\ wait' = [wait EXCEPT ![x].ask = {}]
  /\ UNCHANGED <<master, remote, waits>>

\* It asks the replicas one by one, without the lock.
WaitAsk(x) ==
  /\ wait[x] # Nil
  /\ \E r \in wait[x].ask :
       /\ Send({r}, [kind |-> "getack", at |-> Len(log)])
       /\ wait' = [wait EXCEPT ![x].ask = @ \ {r}]
  /\ UNCHANGED <<master, state, acks, offset, copy, joined, pos, waits>>

Counted(x) == {r \in wait[x].active : recorded[r] # Nil /\ recorded[r] >= wait[x].target}

Polls(x) == wait[x] # Nil /\ wait[x].ask = {}

\* A look at the recorded offsets finds enough of them, ...
WaitEnough(x) ==
  /\ Polls(x) /\ Cardinality(Counted(x)) >= wait[x].need
  /\ wait' = [wait EXCEPT ![x] = Nil]
  /\ UNCHANGED <<master, remote, waits>>

\* ... or too few of them when the time, if limited, is up.
WaitTimeout(x) ==
  /\ Polls(x) /\ Cardinality(Counted(x)) < wait[x].need /\ wait[x].limited
  /\ wait' = [wait EXCEPT ![x] = Nil]
  /\ UNCHANGED <<master, remote, waits>>

-------------------------------------------------------------------------------

Replica(r)  == ReceiveWrite(r) \/ ReceiveGetack(r)
Session(r)  == ReceiveAck(r) \/ Remove(r)
WaitHandler(x)  == WaitAsk(x) \/ WaitEnough(x) \/ WaitTimeout(x)

ReplNext ==
  \/ \E v \in Values : Propagate(v)
  \/ \E r \in Replicas : Join(r) \/ Replica(r) \/ Session(r) \/ Cut(r)
  \/ \E x \in Waiters : WaitBegin(x) \/ WaitHandler(x)

\* A replica reads what arrives, a session reads its connection, a handler runs.
\* Nobody has to write, connect or call WAIT, and no connection has to break.
ReplFairness ==
  /\ \A r \in Replicas : WF_replVars(Replica(r)) /\ WF_replVars(Session(r))
  /\ \A x \in Waiters : WF_replVars(WaitHandler(x))

ReplSpec == ReplInit /\ [][ReplNext]_replVars /\ ReplFairness

-------------------------------------------------------------------------------
(* Properties.                                                             *)

Waits == [need : Nat, limited : BOOLEAN, target : Nat, active : SUBSET Replicas,
          ask : SUBSET Replicas, mark : Nat]

ReplTypeOK ==
  /\ masterOffset \in Nat /\ replicas \in SUBSET Replicas /\ log \in Seq(Values)
  /\ recorded \in [Replicas -> Nat \union {Nil}]
  /\ state \in [Replicas -> {"new", "up", "cut", "gone"}]
  /\ link \in [Replicas -> Seq(Messages)] /\ acks \in [Replicas -> Seq(Nat)]
  /\ offset \in [Replicas -> Nat] /\ copy \in [Replicas -> Values \union {Nil}]
  /\ joined \in [Replicas -> Nat] /\ pos \in [Replicas -> Nat]
  /\ wait \in [Waiters -> Waits \union {Nil}] /\ waits \in Nat
  /\ replicas = {r \in Replicas : state[r] \in {"up", "cut"}}

Step(m) == IF m.kind = "write" THEN 1 ELSE 0

\* The queue q leads from place p of the log l to its end, write by write.
Carries(q, p, l) ==
  /\ IF q = <<>> THEN p = Len(l) ELSE q[1].at = p + Step(q[1]) /\ q[Len(q)].at = Len(l)
  /\ \A i \in 1 .. Len(q) - 1 : q[i + 1].at = q[i].at + Step(q[i + 1])
  /\ \A i \in 1 .. Len(q) :
       /\ q[i].at <= Len(l)
       /\ q[i].kind = "write" => q[i].at > 0 /\ q[i].val = l[q[i].at]

\* What a connected replica has processed, followed by what is under way to it, is the
\* master's log from the place where it joined, whatever the replicas next to it do:
\* no write is skipped, repeated or out of order.
LinksCarryTheLog == \A r \in Replicas : state[r] = "up" => Carries(link[r], pos[r], log)

\* The replicas implement ReplicatedLog: each copy follows the master's log write by
\* write from where the replica joined, whatever breaks.
Executed == [r \in Replicas |-> IF state[r] = "new" THEN Nil ELSE pos[r]]
Abstract == INSTANCE ReplicatedLog WITH executed <- Executed, None <- Nil
ReplicasFollowTheLog == Abstract!Spec

WriteBytes(r) == WriteSize * (pos[r] - joined[r])  \* of the bytes r has processed, ...
AckBytes(r)   == offset[r] - WriteBytes(r)         \* ... those that masterOffset never counts

\* A replica that WAIT counts may lack writes that were there when WAIT began, but only
\* for as many bytes as the GETACKs take up that it had processed before the one whose
\* answer counts: the first GETACK a replica answers speaks the truth.
WaitFallsShortByGetacks ==
  \A x \in Waiters : wait[x] # Nil =>
    \A r \in Counted(x) :
      /\ AckBytes(r) >= AckSize
      /\ WriteBytes(r) + (AckBytes(r) - AckSize) >= WriteSize * wait[x].mark

\* WAIT returns when it has a limit, and also without one if it asks for no more
\* replicas than there are, all of them there since the first write and still there.
WaitsReturn ==
  \A x \in Waiters : wait[x] # Nil ~>
    \/ wait[x] = Nil
    \/ /\ ~wait[x].limited
       /\ \/ Cardinality(wait[x].active) < wait[x].need
          \/ \E r \in wait[x].active : state[r] # "up" \/ joined[r] > 0

\* As long as it is connected, a replica catches up with the master again and again.
ReplicasCatchUp == \A r \in Replicas : state[r] = "up" ~> state[r] # "up" \/ pos[r] = Len(log)

===============================================================================
