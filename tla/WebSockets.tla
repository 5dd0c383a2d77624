---------------------------- MODULE WebSockets ----------------------------
(***************************************************************************)
(* The streams: ws/manager.py (registries, broadcasts, Pub/Sub             *)
(* subscribers), the handlers of ws/public.py and ws/private.py, and the   *)
(* channels of redis_client/pubsub.py.                                     *)
(*                                                                         *)
(* A step is what runs between two awaits of the event loop.  The manager  *)
(* holds its asyncio lock over no await, so a registry changes in one      *)
(* step.  The events of a symbol (of a user) are numbered in the order     *)
(* they are published; all the channels of a symbol (of a user) are read   *)
(* over one connection, which keeps that order, and are one channel here.  *)
(* An event of a symbol carries its whole book, so that event n is also    *)
(* version n of the book.  Pings change nothing and are left out.          *)
(*                                                                         *)
(* The repository holds the backend twice; the copy under frontend/        *)
(* differs in the loop of the public handler, which profile.edition        *)
(* chooses.                                                                *)
(***************************************************************************)
EXTENDS Integers, Sequences, FiniteSets, Functions

CONSTANTS
    Symbols, Users,
    Sockets,        \* bound: connections over a run of the server
    NoOne,
    Profiles,       \* bounds, of which a behaviour has one: the channels clients
                    \* ask for, the sockets they open, the events of a channel,
                    \* the failures of connections to Redis, and the edition
    MaxEvents, MaxFaults    \* the bounds of any profile

ASSUME WebSocketsAssumption ==
    /\ Symbols \cap Users = {} /\ NoOne \notin Symbols \cup Users
    /\ Sockets \cap Symbols = {}
    /\ MaxEvents \in Nat /\ MaxFaults \in Nat
    /\ Profiles \subseteq [open : SUBSET (Symbols \cup Users), sockets : SUBSET Sockets,
                           events : 0 .. MaxEvents, faults : 0 .. MaxFaults,
                           edition : {"current", "older"}]

Channels == Symbols \cup Users

\* Who holds a Pub/Sub connection: the manager for a symbol, a handler's
\* socket for itself.
Listeners == Symbols \cup Sockets

VARIABLES
    profile,
    serving,    \* the application has not shut down
    running,    \* WebSocketManager._running
    revoked,    \* users whose API key is revoked
    client,     \* the far end of a socket: "absent", "open" or "closed"
    broken,     \* a send has failed: the framework takes the socket for closed
    hand,       \* the handler of a socket
    conns,      \* _public_connections and _private_connections
    task,       \* _public_subscriber, _private_subscriber, listen_pubsub
    sub,        \* a Pub/Sub connection: "off", "on" or "lost"
    inbox,      \* events on their way over it
    sent,       \* events published, by channel
    got,        \* what a client has received
    since,      \* history: events published before the subscription
    faults

bus == <<sub, inbox, sent, since>>
vars == <<profile, serving, running, revoked, client, broken, hand, conns,
          task, bus, got, faults>>

NoHandler == [pc |-> "none", chan |-> NoOne, signer |-> NoOne, book |-> 0]

NoTask == [pc |-> "none", msg |-> 0, left |-> {}, dead |-> {}]

Chan(o) == IF o \in Symbols THEN o ELSE hand[o].chan

Goto(s, pc) == hand' = [hand EXCEPT ![s].pc = pc]

\* The framework closes the socket of a handler that returns or raises.
Ends(s) ==
    /\ Goto(s, "ended")
    /\ client' = [client EXCEPT ![s] = "closed"]

-----------------------------------------------------------------------------
(* Sockets (Starlette, uvicorn).                                           *)

\* send_json returns: the client has the event, or has gone unnoticed.
Sends(s, c, e) ==
    /\ ~broken[s]
    /\ got' = IF client[s] = "open" THEN [got EXCEPT ![s] = Append(@, [chan |-> c, n |-> e])] ELSE got
    /\ UNCHANGED broken

\* send_json raises, and every later call on the socket does.
SendRaises(s) ==
    /\ client[s] = "closed"
    /\ broken' = [broken EXCEPT ![s] = TRUE]
    /\ UNCHANGED got

\* A client leaves at any time.
ClientCloses(s) ==
    /\ client[s] = "open"
    /\ client' = [client EXCEPT ![s] = "closed"]
    /\ UNCHANGED <<profile, serving, running, revoked, broken, hand, conns, task, bus, got, faults>>

-----------------------------------------------------------------------------
(* Redis Pub/Sub (redis_client/pubsub.py).                                 *)

\* PUBLISH: one copy for every connection subscribed at that moment.
publish(c) ==
    /\ serving /\ c \in profile.open /\ sent[c] < profile.events
    /\ sent' = [sent EXCEPT ![c] = @ + 1]
    /\ inbox' = [o \in Listeners |-> IF sub[o] = "on" /\ Chan(o) = c
                                     THEN Append(inbox[o], sent[c] + 1) ELSE inbox[o]]
    /\ UNCHANGED <<profile, serving, running, revoked, client, broken, hand, conns, task, sub,
                   since, got, faults>>

\* subscribe(): a connection of its own.
subscribe(o) ==
    /\ sub' = [sub EXCEPT ![o] = "on"]
    /\ since' = [since EXCEPT ![o] = sent[Chan(o)]]
    /\ UNCHANGED <<inbox, sent>>

unsubscribe(o) ==
    /\ sub' = [sub EXCEPT ![o] = "off"]
    /\ inbox' = [inbox EXCEPT ![o] = <<>>]
    /\ UNCHANGED <<sent, since>>

Consume(o) ==
    /\ inbox' = [inbox EXCEPT ![o] = Tail(@)]
    /\ UNCHANGED <<sub, sent, since>>

\* The connection drops, and what was on its way with it.
ConnectionLost(o) ==
    /\ faults < profile.faults /\ Chan(o) \in profile.open /\ sub[o] = "on"
    /\ faults' = faults + 1
    /\ sub' = [sub EXCEPT ![o] = "lost"]
    /\ inbox' = [inbox EXCEPT ![o] = <<>>]
    /\ UNCHANGED <<profile, serving, running, revoked, client, broken, hand, conns, task, sent,
                   since, got>>

-----------------------------------------------------------------------------
(* The manager's registries.                                               *)

connect(s, c) == conns' = [conns EXCEPT ![c] = @ \cup {s}]

\* Mutant: the whole entry of the channel goes.
DisconnectAll(gone, c) == conns' = [conns EXCEPT ![c] = {}]

disconnect(gone, c) == conns' = [conns EXCEPT ![c] = @ \ gone]

-----------------------------------------------------------------------------
(* The manager's subscribers: _public_subscriber of a symbol and           *)
(* _private_subscriber of a socket's user.                                 *)

ManagerTask(o) == o \in Symbols \/ Chan(o) \in Users

\* The loop goes round: out if the manager is not running, else subscribe,
\* or fail and come back after two seconds.
SubscriberStarts(o) ==
    /\ task[o].pc = "subscribe" /\ ManagerTask(o)
    /\ \/ /\ ~running
          /\ task' = [task EXCEPT ![o].pc = "done"]
          /\ UNCHANGED <<bus, faults>>
       \/ /\ running
          /\ subscribe(o)
          /\ task' = [task EXCEPT ![o].pc = "listen"]
          /\ UNCHANGED faults
       \/ /\ running /\ faults < profile.faults
          /\ faults' = faults + 1
          /\ UNCHANGED <<task, bus>>
    /\ UNCHANGED <<profile, serving, running, revoked, client, broken, hand, conns, got>>

\* A message comes: broadcast_public or broadcast_private copies the registry.
SubscriberReceives(o) ==
    /\ task[o].pc = "listen" /\ ManagerTask(o) /\ inbox[o] # <<>>
    /\ task' = [task EXCEPT ![o] = [pc |-> "send", msg |-> Head(inbox[o]),
                                    left |-> conns[Chan(o)], dead |-> {}]]
    /\ Consume(o)
    /\ UNCHANGED <<profile, serving, running, revoked, client, broken, hand, conns, got, faults>>

\* One send of the broadcast.
SubscriberSends(o) ==
    /\ task[o].pc = "send"
    /\ \E s \in task[o].left :
          \/ /\ Sends(s, Chan(o), task[o].msg)
             /\ task' = [task EXCEPT ![o].left = @ \ {s}]
          \/ /\ SendRaises(s)
             /\ task' = [task EXCEPT ![o].left = @ \ {s}, ![o].dead = @ \cup {s}]
    /\ UNCHANGED <<profile, serving, running, revoked, client, hand, conns, bus, faults>>

\* The sockets that failed are disconnected.
SubscriberCleans(o) ==
    /\ task[o].pc = "send" /\ task[o].left = {}
    /\ disconnect(task[o].dead, Chan(o))
    /\ task' = [task EXCEPT ![o] = [NoTask EXCEPT !.pc = "listen"]]
    /\ UNCHANGED <<profile, serving, running, revoked, client, broken, hand, bus, got, faults>>

\* Mutant: the task ends with its connection.
SubscriberGivesUp(o) ==
    /\ task[o].pc = "listen" /\ ManagerTask(o) /\ sub[o] = "lost"
    /\ task' = [task EXCEPT ![o].pc = "done"]
    /\ unsubscribe(o)
    /\ UNCHANGED <<profile, serving, running, revoked, client, broken, hand, conns, got, faults>>

\* The connection is gone: unsubscribe and go round after two seconds.
SubscriberRetries(o) ==
    /\ task[o].pc = "listen" /\ ManagerTask(o) /\ sub[o] = "lost"
    /\ task' = [task EXCEPT ![o].pc = "subscribe"]
    /\ unsubscribe(o)
    /\ UNCHANGED <<profile, serving, running, revoked, client, broken, hand, conns, got, faults>>

\* Mutant: the task is not canceled.
CancelNothing(ts) == task

\* task.cancel().
Cancel(ts) == [o \in Listeners |-> IF o \in ts /\ task[o].pc # "done"
                                   THEN [NoTask EXCEPT !.pc = "canceled"] ELSE task[o]]

\* A canceled subscriber leaves through its finally clause.
SubscriberCanceled(o) ==
    /\ task[o].pc = "canceled"
    /\ task' = [task EXCEPT ![o].pc = "done"]
    /\ unsubscribe(o)
    /\ UNCHANGED <<profile, serving, running, revoked, client, broken, hand, conns, got, faults>>

\* Shutdown, once the server has seen its handlers end.
stop_subscribers ==
    /\ serving /\ \A s \in Sockets : hand[s].pc \in {"none", "ended"}
    /\ serving' = FALSE /\ running' = FALSE
    /\ task' = Cancel({o \in Symbols : task[o].pc # "none"})
    /\ UNCHANGED <<profile, revoked, client, broken, hand, conns, bus, got, faults>>

-----------------------------------------------------------------------------
(* The public handler.                                                     *)

connect_public(s, c) ==
    /\ s \in profile.sockets /\ c \in profile.open
    /\ serving /\ client[s] = "absent"
    /\ client' = [client EXCEPT ![s] = "open"]
    /\ hand' = [hand EXCEPT ![s] = [NoHandler EXCEPT !.pc = "snapshot", !.chan = c]]
    /\ connect(s, c)
    /\ UNCHANGED <<profile, serving, running, revoked, broken, task, bus, got, faults>>

\* The book is read, or Redis fails and no snapshot is sent.
SnapshotReads(s) ==
    /\ hand[s].pc = "snapshot"
    /\ \/ /\ hand' = [hand EXCEPT ![s].pc = "snapshotsend", ![s].book = sent[hand[s].chan]]
          /\ UNCHANGED faults
       \/ /\ faults < profile.faults /\ faults' = faults + 1
          /\ Goto(s, "subscribe")
    /\ UNCHANGED <<profile, serving, running, revoked, client, broken, conns, task, bus, got>>

SnapshotSends(s) ==
    /\ hand[s].pc = "snapshotsend"
    /\ Sends(s, hand[s].chan, hand[s].book) \/ SendRaises(s)
    /\ Goto(s, "subscribe")
    /\ UNCHANGED <<profile, serving, running, revoked, client, conns, task, bus, faults>>

\* The client's own subscription, without which the handler carries on.
PublicSubscribes(s) ==
    /\ hand[s].pc = "subscribe"
    /\ \/ subscribe(s) /\ UNCHANGED faults
       \/ /\ faults < profile.faults /\ faults' = faults + 1
          /\ UNCHANGED bus
    /\ Goto(s, IF profile.edition = "current" THEN "poll" ELSE "receive")
    /\ task' = IF profile.edition = "older" /\ sub'[s] = "on"
               THEN [task EXCEPT ![s].pc = "listen"] ELSE task
    /\ UNCHANGED <<profile, serving, running, revoked, client, broken, conns, got>>

\* get_message: forward an event, or reconnect after an error, or time out.
\* A send that raises is ignored.
PublicPolls(s) ==
    /\ hand[s].pc = "poll"
    /\ \/ inbox[s] # <<>> /\ (Sends(s, hand[s].chan, Head(inbox[s])) \/ SendRaises(s)) /\ Consume(s)
       \/ sub[s] = "lost" /\ subscribe(s) /\ UNCHANGED <<got, broken>>
       \/ inbox[s] = <<>> /\ sub[s] # "lost" /\ UNCHANGED <<got, broken, bus>>
    /\ Goto(s, "receive")
    /\ UNCHANGED <<profile, serving, running, revoked, client, conns, task, faults>>

\* receive_json: the client has left, or nothing comes, or the call raises
\* because a send has failed before, which is ignored.
PublicReceives(s) ==
    /\ hand[s].pc = "receive" /\ profile.edition = "current" /\ hand[s].chan \in Symbols
    /\ Goto(s, IF client[s] = "closed" /\ ~broken[s] THEN "leave" ELSE "poll")
    /\ UNCHANGED <<profile, serving, running, revoked, client, broken, conns, task, bus, got, faults>>

\* The older loop, one half: listen_pubsub, until its connection drops.
listen_pubsub(s) ==
    /\ task[s].pc = "listen" /\ ~ManagerTask(s)
    /\ \/ /\ inbox[s] # <<>>
          /\ Sends(s, hand[s].chan, Head(inbox[s])) \/ SendRaises(s)
          /\ Consume(s)
          /\ UNCHANGED task
       \/ /\ sub[s] = "lost"
          /\ task' = [task EXCEPT ![s].pc = "done"]
          /\ UNCHANGED <<got, broken, bus>>
    /\ UNCHANGED <<profile, serving, running, revoked, client, hand, conns, faults>>

\* The other half: listen_client, until the client leaves or a message is
\* not JSON.
listen_client(s) ==
    /\ hand[s].pc = "receive" /\ profile.edition = "older" /\ hand[s].chan \in Symbols
    /\ Goto(s, "gather")
    /\ UNCHANGED <<profile, serving, running, revoked, client, broken, conns, task, bus, got, faults>>

\* gather() waits for both.
Gathered(s) ==
    /\ hand[s].pc = "gather" /\ task[s].pc # "listen"
    /\ Goto(s, "leave")
    /\ UNCHANGED <<profile, serving, running, revoked, client, broken, conns, task, bus, got, faults>>

\* Mutant: the connection to Redis is kept.
PublicLeavesSubscribed(s) ==
    /\ hand[s].pc = "leave"
    /\ Goto(s, "disconnect")
    /\ UNCHANGED <<profile, serving, running, revoked, client, broken, conns, task, bus, got, faults>>

\* The finally clause: unsubscribe, then disconnect_public.
PublicLeaves(s) ==
    /\ hand[s].pc = "leave"
    /\ unsubscribe(s)
    /\ Goto(s, "disconnect")
    /\ UNCHANGED <<profile, serving, running, revoked, client, broken, conns, task, got, faults>>

disconnect_public(s) ==
    /\ hand[s].pc = "disconnect"
    /\ disconnect({s}, hand[s].chan)
    /\ Ends(s)
    /\ UNCHANGED <<profile, serving, running, revoked, broken, task, bus, got, faults>>

-----------------------------------------------------------------------------
(* The private handler.                                                    *)

\* Mutant: the signature is not looked at.
KeyKnown(user, signer, fresh) == user \notin revoked

\* What both ways of authenticating check: a live key, a signature by the
\* key's secret, and its time stamp.
verify_ws_signature(user, signer, fresh) == user \notin revoked /\ signer = user /\ fresh

\* A client connects, signing for a user's key with a secret it has: in the
\* headers of the upgrade, or later.
PrivateConnects(s, signer) ==
    /\ s \in profile.sockets /\ profile.open \cap Users # {}
    /\ serving /\ client[s] = "absent"
    /\ client' = [client EXCEPT ![s] = "open"]
    /\ hand' = [hand EXCEPT ![s] = [NoHandler EXCEPT !.pc = "auth", !.signer = signer]]
    /\ UNCHANGED <<profile, serving, running, revoked, broken, conns, task, bus, got, faults>>

\* _try_header_auth, or _wait_for_auth_message.
Authenticated(s, user, fresh) ==
    /\ hand[s].pc = "auth" /\ verify_ws_signature(user, hand[s].signer, fresh)
    /\ hand' = [hand EXCEPT ![s].pc = "register", ![s].chan = user]
    /\ UNCHANGED <<profile, serving, running, revoked, client, broken, conns, task, bus, got, faults>>

\* A key that does not verify, a message that is not an auth message, five
\* seconds without one, or a client that has left.
AuthFails(s) ==
    /\ hand[s].pc = "auth"
    /\ Ends(s)
    /\ UNCHANGED <<profile, serving, running, revoked, broken, conns, task, bus, got, faults>>

connect_private(s) ==
    /\ hand[s].pc = "register"
    /\ connect(s, hand[s].chan)
    /\ Goto(s, "greet")
    /\ UNCHANGED <<profile, serving, running, revoked, client, broken, task, bus, got, faults>>

\* auth_ok is sent and the subscriber task started.  A send that raises here
\* ends the handler outside its try statement, with the socket registered.
Greets(s) ==
    /\ hand[s].pc = "greet"
    /\ \/ /\ ~broken[s]
          /\ Goto(s, "receive")
          /\ task' = [task EXCEPT ![s].pc = "subscribe"]
          /\ UNCHANGED <<client, broken, got>>
       \/ /\ SendRaises(s)
          /\ Ends(s)
          /\ UNCHANGED task
    /\ UNCHANGED <<profile, serving, running, revoked, conns, bus, faults>>

\* The client leaves, or a message is not JSON: the finally clause.
disconnect_private(s) ==
    /\ hand[s].pc = "receive" /\ hand[s].chan \in Users
    /\ disconnect({s}, hand[s].chan)
    /\ task' = Cancel({s})
    /\ Goto(s, "await")
    /\ UNCHANGED <<profile, serving, running, revoked, client, broken, bus, got, faults>>

PrivateEnds(s) ==
    /\ hand[s].pc = "await" /\ task[s].pc = "done"
    /\ Ends(s)
    /\ UNCHANGED <<profile, serving, running, revoked, broken, conns, task, bus, got, faults>>

\* An administrator revokes a key; open streams go on.
Revoke(u) ==
    /\ serving /\ u \in profile.open \ revoked
    /\ revoked' = revoked \cup {u}
    /\ UNCHANGED <<profile, serving, running, client, broken, hand, conns, task, bus, got, faults>>

-----------------------------------------------------------------------------
\* The lifespan has run: subscribers for the pairs active at startup, and no
\* running manager at all when there are none.
start_subscribers(active) ==
    /\ running = (active # {})
    /\ task = [o \in Listeners |-> IF o \in active THEN [NoTask EXCEPT !.pc = "subscribe"]
                                   ELSE NoTask]

Init ==
    /\ profile \in Profiles
    /\ serving = TRUE
    /\ \E active \in SUBSET Symbols : start_subscribers(active)
    /\ revoked = {} /\ faults = 0
    /\ client = [s \in Sockets |-> "absent"]
    /\ broken = [s \in Sockets |-> FALSE]
    /\ hand = [s \in Sockets |-> NoHandler]
    /\ conns = [c \in Channels |-> {}]
    /\ sub = [o \in Listeners |-> "off"]
    /\ inbox = [o \in Listeners |-> <<>>]
    /\ sent = [c \in Channels |-> 0]
    /\ got = [s \in Sockets |-> <<>>]
    /\ since = [o \in Listeners |-> 0]

SubscriberStep(o) ==
    \/ SubscriberStarts(o) \/ SubscriberReceives(o) \/ SubscriberSends(o)
    \/ SubscriberCleans(o) \/ SubscriberRetries(o) \/ SubscriberCanceled(o)

PublicStep(s) ==
    \/ SnapshotReads(s) \/ SnapshotSends(s) \/ PublicSubscribes(s)
    \/ PublicPolls(s) \/ PublicReceives(s)
    \/ Gathered(s) \/ PublicLeaves(s) \/ disconnect_public(s)

PrivateStep(s) ==
    \/ \E u \in Users, fresh \in BOOLEAN : Authenticated(s, u, fresh)
    \/ AuthFails(s) \/ connect_private(s) \/ Greets(s) \/ PrivateEnds(s)

\* The receive loops that only a client's move ends.
Woken(s) == client[s] = "closed" /\ (disconnect_private(s) \/ listen_client(s))

Next ==
    \/ \E s \in Sockets : \/ ClientCloses(s)
                          \/ \E c \in Symbols : connect_public(s, c)
                          \/ \E u \in Users : PrivateConnects(s, u)
                          \/ PublicStep(s) \/ PrivateStep(s)
                          \/ disconnect_private(s) \/ listen_client(s)
                          \/ listen_pubsub(s)
    \/ \E c \in Channels : publish(c)
    \/ \E o \in Listeners : ConnectionLost(o) \/ SubscriberStep(o)
    \/ \E u \in Users : Revoke(u)
    \/ stop_subscribers

Spec == Init /\ [][Next]_vars

\* The event loop runs every handler and every background task that can go
\* on; a five-second timeout ends the wait for authentication.
FairSpec ==
    /\ Spec
    /\ \A s \in Sockets : WF_vars(PublicStep(s) \/ PrivateStep(s) \/ Woken(s))
    /\ \A s \in Sockets : WF_vars(SubscriberStep(s) \/ listen_pubsub(s))
    /\ \A o \in Symbols : WF_vars(SubscriberStep(o))

-----------------------------------------------------------------------------
(* Properties.                                                             *)

PublicPCs == {"snapshot", "snapshotsend", "subscribe", "poll", "gather", "leave", "disconnect"}
PrivatePCs == {"register", "greet", "await"}

Handler == [pc : PublicPCs \cup PrivatePCs \cup {"none", "auth", "receive", "ended"},
            chan : Channels \cup {NoOne}, signer : Users \cup {NoOne}, book : 0 .. MaxEvents]

Task == [pc : {"none", "subscribe", "listen", "send", "canceled", "done"},
         msg : 0 .. MaxEvents, left : SUBSET Sockets, dead : SUBSET Sockets]

\* Every variable has the shape the code gives it.
TypeOK ==
    /\ profile \in Profiles
    /\ serving \in BOOLEAN /\ running \in BOOLEAN
    /\ revoked \subseteq Users /\ faults \in 0 .. MaxFaults
    /\ client \in [Sockets -> {"absent", "open", "closed"}]
    /\ broken \in [Sockets -> BOOLEAN]
    /\ hand \in [Sockets -> Handler]
    /\ conns \in [Channels -> SUBSET Sockets]
    /\ task \in [Listeners -> Task]
    /\ sub \in [Listeners -> {"off", "on", "lost"}]
    /\ inbox \in [Listeners -> Seq(0 .. MaxEvents)]
    /\ sent \in [Channels -> 0 .. MaxEvents]
    /\ got \in [Sockets -> Seq([chan : Channels, n : 0 .. MaxEvents])]
    /\ since \in [Listeners -> 0 .. MaxEvents]

\* A socket receives only events of the channel it asked for, and events of a
\* user only where the client signed with that user's secret, whatever keys
\* clients name and however broadcasts, disconnects and revocations interleave
\* (ws/private.py, broadcast_private).
OnlyOwnersHear ==
    \A s \in Sockets : \A i \in DOMAIN got[s] :
        /\ got[s][i].chan = hand[s].chan
        /\ got[s][i].chan \in Users => hand[s].signer = got[s][i].chan

\* An event is in the client's hands, or on its way over its own listener.
Accounted(s, n) ==
    \/ [chan |-> hand[s].chan, n |-> n] \in Range(got[s])
    \/ n \in Range(inbox[s])
    \/ task[s].pc = "send" /\ task[s].msg = n /\ s \in task[s].left

\* Being subscribed means missing nothing: every event published since is
\* received or on its way, although it is sent to the sockets that were
\* registered when it arrived, and other sockets of the user come and go
\* (connect_private before subscribe_private_channel, broadcast_private).
NothingMissed ==
    \A s \in Sockets :
        client[s] = "open" /\ sub[s] = "on" /\ hand[s].pc \in {"poll", "receive", "gather"}
        => \A n \in since[s] + 1 .. sent[hand[s].chan] : Accounted(s, n)

\* Known leak: auth_ok could not be sent, and the socket stays registered
\* until the next broadcast to its user.
Ghost(s) == hand[s].chan \in Users /\ task[s].pc = "none" /\ broken[s]

\* A handler that has ended leaves nothing behind: no Pub/Sub connection, no
\* running subscriber task, and no registration but the known leak of
\* private.py:92.  All state keeps its type.
EndedReleases ==
    /\ TypeOK
    /\ \A s \in Sockets : hand[s].pc = "ended" =>
        /\ sub[s] = "off" /\ inbox[s] = <<>>
        /\ task[s].pc \in {"none", "done"}
        /\ \A c \in Channels : s \in conns[c] => Ghost(s)

\* The handler of a client that has left ends, but for two cases of the public
\* handler: the current loop once a send has failed before the handler saw
\* the client leave, and the older one while its listener waits for Redis.
ClientGoneReleased ==
    \A s \in Sockets :
        (client[s] = "closed" /\ (profile.edition = "current" \/ hand[s].chan \notin Symbols))
        ~> (hand[s].pc = "ended" \/ (hand[s].chan \in Symbols /\ broken[s]))

\* A private stream that loses its Redis connection, or has none yet, gets one:
\* _private_subscriber tries again until the client leaves or the manager stops.
SubscribersComeBack ==
    \A s \in Sockets :
        (hand[s].pc = "receive" /\ hand[s].chan \in Users /\ running /\ sub[s] # "on")
        ~> (sub[s] = "on" \/ hand[s].pc # "receive" \/ ~running)

=============================================================================
