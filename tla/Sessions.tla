-------------------------------- MODULE Sessions -------------------------------
(***************************************************************************)
(* What handleCommand decides before it runs a command: is the client      *)
(* authenticated, is it subscribed, is it in a transaction?  With AUTH,    *)
(* ACL SETUSER, SUBSCRIBE, UNSUBSCRIBE and PUBLISH, the commands that make *)
(* and use that state, and the end of a connection that clears it.         *)
(*                                                                         *)
(* Whether a connection is authenticated, its subscriptions and its        *)
(* transaction are entries of the Store's maps that only its own goroutine *)
(* touches: what a handler does with these alone is part of the action     *)
(* before it.  The passwords (under aclMu) and the subscribers of a        *)
(* channel (under Store.mu) are shared, and every look at them is an       *)
(* action.  PUBLISH starts a goroutine for each subscriber.                *)
(* Left out: commands without effect on this state (OTHER stands for       *)
(* them), WATCH, so that no EXEC is aborted (Transactions has it), the     *)
(* texts of messages, and replies.  A command has the arguments it needs.  *)
(***************************************************************************)
EXTENDS Naturals, Sequences

CONSTANTS
  Conns,        \* connections, each accepted once
  Channels,     \* names of channels
  Passwords,    \* words given to AUTH and ACL SETUSER
  RequirePass,  \* config.requirepass, or None for ""
  Commands,     \* the commands that the clients send
  MaxPublish,   \* bound on the messages at the start of a PUBLISH (state space)
  MaxQueue,     \* bound on the queue of a transaction (state space)
  None

Ops == {"AUTH", "SETUSER", "SUBSCRIBE", "UNSUBSCRIBE", "PUBLISH", "MULTI", "EXEC", "DISCARD", "OTHER"}

ASSUME CommandsAssumption    == Commands \subseteq [op : Ops, chs : Seq(Channels), pass : Passwords]
ASSUME PublishesAssumption   ==
  \A cmd \in Commands : cmd.op \in {"SUBSCRIBE", "UNSUBSCRIBE", "PUBLISH"} => cmd.chs # <<>>
ASSUME RequirePassAssumption == RequirePass \in Passwords \union {None}
ASSUME BoundAssumption       == MaxPublish \in Nat /\ MaxQueue \in Nat
ASSUME NoneAssumption        == None \notin Commands \union Passwords

VARIABLES
  passwords,  \* defaultUserPasswords
  auth,       \* Store.authenticatedClients
  pubsub,     \* Store.pubsub
  subs,       \* Store.clientSubscriptions
  inTx,       \* Store.transactions: the connections in one, ...
  queue,      \* ... and what they have queued
  pc,         \* where the goroutine of a connection stands
  run,        \* the command in its hands, or None
  need,       \* its authRequired
  chs,        \* the channels its loop has still to do
  todo,       \* what EXEC has still to run
  sending,    \* the goroutines of PUBLISH: a connection and the number of a message
  count,      \* history: number of messages so far
  inbox,      \* history: the messages that reached a client
  late,       \* history: the connections accepted when a password was required
  proved      \* history: the connections that gave a valid one

tx      == <<inTx, queue>>
maps    == <<pubsub, subs>>
handler == <<pc, run, need, chs, todo>>
news    == <<sending, count, inbox>>
ghost   == <<late, proved>>
vars    == <<passwords, auth, maps, tx, handler, news, ghost>>

AuthRequired == RequirePass # None \/ passwords # {}

Open(c) == pc[c] \notin {"new", "closed"}

Init ==
  /\ passwords = {} /\ auth = {}
  /\ pubsub = [ch \in Channels |-> {}] /\ subs = [c \in Conns |-> {}]
  /\ inTx = {} /\ queue = [c \in Conns |-> <<>>]
  /\ pc = [c \in Conns |-> "new"] /\ run = [c \in Conns |-> None]
  /\ need = [c \in Conns |-> FALSE]
  /\ chs = [c \in Conns |-> <<>>] /\ todo = [c \in Conns |-> <<>>]
  /\ sending = {} /\ count = 0 /\ inbox = {} /\ late = {} /\ proved = {}

Goto(c, at) == pc' = [pc EXCEPT ![c] = at]

-------------------------------------------------------------------------------
(* handleCommand.                                                          *)

Accept(c) ==
  /\ pc[c] = "new" /\ Goto(c, "idle")
  /\ late' = IF AuthRequired THEN late \union {c} ELSE late
  /\ UNCHANGED <<passwords, auth, maps, tx, run, need, chs, todo, news, proved>>

\* handleCommand looks at the passwords, and gives aclMu back.
Begin(c, cmd) ==
  /\ Goto(c, "dispatch")
  /\ run' = [run EXCEPT ![c] = cmd] /\ need' = [need EXCEPT ![c] = AuthRequired]
  /\ UNCHANGED <<passwords, auth, maps, tx, chs, news, ghost>>

\* A command arrives.
Receive(c) == \E cmd \in Commands :
  /\ pc[c] = "idle"
  /\ cmd.op = "PUBLISH" => count < MaxPublish
  /\ c \in inTx => Len(queue[c]) < MaxQueue \/ cmd.op \in {"MULTI", "EXEC", "DISCARD"}
  /\ Begin(c, cmd) /\ UNCHANGED todo

\* EXEC passes the next of its queue to handleCommand.
RunQueued(c) ==
  /\ pc[c] = "exec"
  /\ Begin(c, Head(todo[c])) /\ todo' = [todo EXCEPT ![c] = Tail(@)]

\* The command is over, refused, queued or run, and EXEC has rest left.
Return(c, rest) ==
  /\ Goto(c, IF rest = <<>> THEN "idle" ELSE "exec") /\ todo' = [todo EXCEPT ![c] = rest]
  /\ run' = [run EXCEPT ![c] = None] /\ need' = [need EXCEPT ![c] = FALSE]
  /\ chs' = [chs EXCEPT ![c] = <<>>]

\* Mutant: MULTI needs no password.
Refused_LetsMultiPass(c, op) ==
  \/ need[c] /\ c \notin auth /\ op \notin {"AUTH", "MULTI"}
  \/ subs[c] # {} /\ op \notin {"SUBSCRIBE", "UNSUBSCRIBE"}

\* Mutant: a subscribed connection may send anything.
Refused_NeverWhenSubscribed(c, op) == need[c] /\ c \notin auth /\ op # "AUTH"

\* "NOAUTH", or "only (P|S)SUBSCRIBE / (P|S)UNSUBSCRIBE / ... are allowed in this context".
Refused(c, op) ==
  \/ need[c] /\ c \notin auth /\ op # "AUTH"
  \/ subs[c] # {} /\ op \notin {"SUBSCRIBE", "UNSUBSCRIBE"}

Queued(c, op) == c \in inTx /\ op \notin {"EXEC", "DISCARD", "MULTI"}

Refuse(c) == Refused(c, run[c].op) /\ Return(c, todo[c]) /\ UNCHANGED tx

QueueCommand(c) ==
  /\ ~Refused(c, run[c].op) /\ Queued(c, run[c].op)
  /\ queue' = [queue EXCEPT ![c] = Append(@, run[c])] /\ UNCHANGED inTx
  /\ Return(c, todo[c])

\* MULTI; a nested one is an error.
Multi(c) ==
  /\ run[c].op = "MULTI"
  /\ inTx' = inTx \union {c} /\ UNCHANGED queue
  /\ Return(c, todo[c])

\* EXEC and DISCARD end a transaction; without one they are errors.  EXEC runs what is queued.
EndTx(c) ==
  /\ run[c].op \in {"EXEC", "DISCARD"}
  /\ inTx' = inTx \ {c} /\ queue' = [queue EXCEPT ![c] = <<>>]
  /\ Return(c, IF run[c].op = "EXEC" /\ c \in inTx THEN queue[c] ELSE todo[c])

\* The others have sections of their own, or nothing to do with this state.
Handle(c) ==
  /\ IF run[c].op = "OTHER" THEN Return(c, todo[c])
     ELSE /\ run[c].op \in {"AUTH", "SETUSER", "SUBSCRIBE", "UNSUBSCRIBE", "PUBLISH"}
          /\ Goto(c, run[c].op) /\ chs' = [chs EXCEPT ![c] = run[c].chs]
          /\ UNCHANGED <<run, need, todo>>
  /\ UNCHANGED tx

\* The rest of handleCommand: authenticate who needs no password, and refuse, queue or run.
Dispatch(c) ==
  /\ pc[c] = "dispatch"
  /\ auth' = IF need[c] THEN auth ELSE auth \union {c}
  /\ \/ Refuse(c) \/ QueueCommand(c)
     \/ /\ ~Refused(c, run[c].op) /\ ~Queued(c, run[c].op)
        /\ Multi(c) \/ EndTx(c) \/ Handle(c)
  /\ UNCHANGED <<passwords, maps, news, ghost>>

-------------------------------------------------------------------------------
(* The handlers.                                                          *)

Valid(p) == p = RequirePass \/ p \in passwords

\* Mutant: the word is compared only with requirepass, if there is one.
Auth_Lenient(c) ==
  /\ pc[c] = "AUTH"
  /\ IF AuthRequired /\ (RequirePass = None \/ Valid(run[c].pass))
     THEN auth' = auth \union {c} /\ proved' = IF Valid(run[c].pass) THEN proved \union {c} ELSE proved
     ELSE UNCHANGED <<auth, proved>>
  /\ Return(c, todo[c])
  /\ UNCHANGED <<passwords, maps, tx, news, late>>

\* handleAUTH looks at the passwords again; an error changes nothing.
Auth(c) ==
  /\ pc[c] = "AUTH"
  /\ IF AuthRequired /\ Valid(run[c].pass)
     THEN auth' = auth \union {c} /\ proved' = proved \union {c}
     ELSE UNCHANGED <<auth, proved>>
  /\ Return(c, todo[c])
  /\ UNCHANGED <<passwords, maps, tx, news, late>>

\* ACL SETUSER default >password: passwords are only ever added.
SetUser(c) ==
  /\ pc[c] = "SETUSER"
  /\ passwords' = passwords \union {run[c].pass}
  /\ Return(c, todo[c])
  /\ UNCHANGED <<auth, maps, tx, news, ghost>>

\* The loop over the channels of a command goes on, or ends.
NextChannel(c) ==
  IF Len(chs[c]) = 1 THEN Return(c, todo[c])
                     ELSE chs' = [chs EXCEPT ![c] = Tail(@)] /\ UNCHANGED <<pc, run, need, todo>>

Subscribe(c) ==
  /\ pc[c] = "SUBSCRIBE"
  /\ pubsub' = [pubsub EXCEPT ![Head(chs[c])] = @ \union {c}]
  /\ subs' = [subs EXCEPT ![c] = @ \union {Head(chs[c])}]
  /\ NextChannel(c)
  /\ UNCHANGED <<passwords, auth, tx, news, ghost>>

\* Mutant: the last channel of a client leaves only one of the two maps.
Unsubscribe_Forgets(c) ==
  /\ pc[c] = "UNSUBSCRIBE"
  /\ pubsub' = IF subs[c] = {Head(chs[c])} THEN pubsub ELSE [pubsub EXCEPT ![Head(chs[c])] = @ \ {c}]
  /\ subs' = [subs EXCEPT ![c] = @ \ {Head(chs[c])}]
  /\ NextChannel(c)
  /\ UNCHANGED <<passwords, auth, tx, news, ghost>>

Unsubscribe(c) ==
  /\ pc[c] = "UNSUBSCRIBE"
  /\ pubsub' = [pubsub EXCEPT ![Head(chs[c])] = @ \ {c}]
  /\ subs' = [subs EXCEPT ![c] = @ \ {Head(chs[c])}]
  /\ NextChannel(c)
  /\ UNCHANGED <<passwords, auth, tx, news, ghost>>

\* PublishMessageOnChannel: one goroutine for each subscriber.
Publish(c) ==
  /\ pc[c] = "PUBLISH"
  /\ count' = count + 1
  /\ sending' = sending \union (pubsub[Head(chs[c])] \X {count'})
  /\ Return(c, todo[c])
  /\ UNCHANGED <<passwords, auth, maps, tx, inbox, ghost>>

\* Such a goroutine writes to the connection, in vain when it is closed.
Send(c) == \E p \in sending :
  /\ p[1] = c /\ sending' = sending \ {p}
  /\ inbox' = IF Open(c) THEN inbox \union {p} ELSE inbox
  /\ UNCHANGED <<passwords, auth, maps, tx, handler, count, ghost>>

-------------------------------------------------------------------------------
(* The end of a connection: the deferred calls of handleConnection.        *)

\* removeReplica, RemoveAuth, Unwatch and ClearTx.
Hangup(c) ==
  /\ pc[c] = "idle" /\ Goto(c, "closing")
  /\ auth' = auth \ {c}
  /\ inTx' = inTx \ {c} /\ queue' = [queue EXCEPT ![c] = <<>>]
  /\ UNCHANGED <<passwords, maps, run, need, chs, todo, news, ghost>>

\* RemoveSubscriber clears one of the two maps; clientSubscriptions keeps the connection.
RemoveSubscriber(c) ==
  /\ pc[c] = "closing" /\ Goto(c, "removed")
  /\ pubsub' = [ch \in Channels |-> pubsub[ch] \ {c}]
  /\ UNCHANGED <<passwords, auth, subs, tx, run, need, chs, todo, news, ghost>>

\* conn.Close.
Close(c) ==
  /\ pc[c] = "removed" /\ Goto(c, "closed")
  /\ UNCHANGED <<passwords, auth, maps, tx, run, need, chs, todo, news, ghost>>

-------------------------------------------------------------------------------

Handler(c) == \/ RunQueued(c) \/ Dispatch(c) \/ Auth(c) \/ SetUser(c)
              \/ Subscribe(c) \/ Unsubscribe(c) \/ Publish(c)
              \/ RemoveSubscriber(c) \/ Close(c)

Next == \E c \in Conns : Accept(c) \/ Receive(c) \/ Hangup(c) \/ Handler(c) \/ Send(c)

\* The Go scheduler runs the goroutines that can run.
Fairness == \A c \in Conns : WF_vars(Handler(c)) /\ WF_vars(Send(c))

Spec == Init /\ [][Next]_vars /\ Fairness

-------------------------------------------------------------------------------
(* Properties.                                                             *)

PCs == {"new", "idle", "dispatch", "exec", "AUTH", "SETUSER", "SUBSCRIBE", "UNSUBSCRIBE",
        "PUBLISH", "closing", "removed", "closed"}

Ending == {"closing", "removed", "closed"}

TypeOK ==
  /\ passwords \in SUBSET Passwords /\ auth \in SUBSET Conns
  /\ pubsub \in [Channels -> SUBSET Conns] /\ subs \in [Conns -> SUBSET Channels]
  /\ inTx \in SUBSET Conns /\ queue \in [Conns -> Seq(Commands)]
  /\ pc \in [Conns -> PCs] /\ run \in [Conns -> Commands \union {None}]
  /\ need \in [Conns -> BOOLEAN] /\ chs \in [Conns -> Seq(Channels)]
  /\ todo \in [Conns -> Seq(Commands)]
  /\ sending \in SUBSET (Conns \X Nat) /\ count \in Nat /\ inbox \in SUBSET (Conns \X Nat)
  /\ late \in SUBSET Conns /\ proved \in SUBSET Conns
  /\ \A c \in Conns :
       /\ run[c] # None <=> pc[c] \notin {"new", "idle", "exec"} \union Ending
       /\ pc[c] \in {"SUBSCRIBE", "UNSUBSCRIBE", "PUBLISH"} => chs[c] # <<>> /\ pc[c] = run[c].op
       /\ todo[c] # <<>> => pc[c] \notin {"new", "idle"} \union Ending
       /\ pc[c] = "exec" => todo[c] # <<>>
       /\ queue[c] # <<>> => c \in inTx

\* The intercepts of handleCommand keep the two modes apart, also when SUBSCRIBE was queued by
\* MULTI and runs in EXEC: a connection in a transaction has no subscription, so that EXEC and
\* DISCARD are never refused to it and its queue is never stuck.
NeverSubscribedInTx == \A c \in inTx : subs[c] = {}

\* No command of a transaction is refused for want of a password when EXEC runs it, even if the
\* first password was set between MULTI and EXEC; nor is a subscriber locked out of UNSUBSCRIBE.
ExecIsAuthenticated ==
  \A c \in Conns : /\ c \in inTx \/ todo[c] # <<>> => c \in auth
                   /\ subs[c] # {} /\ pc[c] \notin Ending => c \in auth

\* "Reject all commands except AUTH if a password is required" (handleCommand): a connection
\* that was accepted when one was required is authenticated only after it gave a valid one,
\* although the look at the passwords and the entry it makes are under different mutexes.
LatecomersGavePassword == late \intersect auth \subseteq proved

\* Who gets a message is what the subscribers were told (clientSubscriptions), although PUBLISH
\* looks at the other map: once, whoever subscribes, unsubscribes or closes meanwhile, and
\* every message arrives at who stays.
PS == INSTANCE PubSub WITH
  Clients <- Conns,
  member  <- [ch \in Channels |-> {c \in Conns : ch \in subs[c] /\ pc[c] \notin {"removed", "closed"}}],
  pending <- sending, got <- inbox,
  gone    <- {c \in Conns : pc[c] = "closed"}

Publishing == PS!Spec

===============================================================================
