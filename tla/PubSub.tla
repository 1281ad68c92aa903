--------------------------------- MODULE PubSub --------------------------------
(***************************************************************************)
(* What publishing promises a client, without connections, handlers and    *)
(* maps: a message goes once to everybody who is a member of its channel   *)
(* at the moment it is published, later and in no particular order, and    *)
(* reaches who has not left the server by then.                            *)
(***************************************************************************)
EXTENDS Naturals

CONSTANTS Clients, Channels

VARIABLES
  member,   \* [Channels -> the clients that would get a message published now]
  pending,  \* the messages under way: a client and the number of a message
  got,      \* the messages that arrived
  count,    \* the number of messages published
  gone      \* the clients that have left the server

vars == <<member, pending, got, count, gone>>

Init ==
  /\ member = [ch \in Channels |-> {}] /\ pending = {} /\ got = {} /\ count = 0 /\ gone = {}

Join(c, ch) ==
  /\ c \notin gone
  /\ member' = [member EXCEPT ![ch] = @ \union {c}] /\ UNCHANGED <<pending, got, count, gone>>

Part(c, chs) ==
  /\ member' = [ch \in Channels |-> IF ch \in chs THEN member[ch] \ {c} ELSE member[ch]]
  /\ UNCHANGED <<pending, got, count, gone>>

Publish(ch) ==
  /\ count' = count + 1
  /\ pending' = pending \union (member[ch] \X {count'})
  /\ UNCHANGED <<member, got, gone>>

\* A message reaches its client, or finds that it has left.
Arrive(c, m) ==
  /\ <<c, m>> \in pending /\ pending' = pending \ {<<c, m>>}
  /\ got' = IF c \in gone THEN got ELSE got \union {<<c, m>>}
  /\ UNCHANGED <<member, count, gone>>

Leave(c) ==
  /\ c \notin gone /\ gone' = gone \union {c}
  /\ member' = [ch \in Channels |-> member[ch] \ {c}]
  /\ UNCHANGED <<pending, got, count>>

ArriveAny(c) == \E p \in pending : p[1] = c /\ Arrive(c, p[2])

Next ==
  \/ \E c \in Clients, ch \in Channels : Join(c, ch)
  \/ \E c \in Clients, chs \in SUBSET Channels : Part(c, chs)
  \/ \E ch \in Channels : Publish(ch)
  \/ \E c \in Clients : ArriveAny(c)
  \/ \E c \in Clients : Leave(c)

\* While messages for a client are under way, some arrive.
Spec == Init /\ [][Next]_vars /\ \A c \in Clients : WF_vars(ArriveAny(c))

===============================================================================
