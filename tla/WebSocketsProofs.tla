------------------------- MODULE WebSocketsProofs -------------------------
(***************************************************************************)
(* Theorems about WebSockets for every set of symbols, users and sockets:  *)
(* types, who hears what, what a handler leaves behind, and that being     *)
(* subscribed means missing nothing.                                       *)
(***************************************************************************)
EXTENDS WebSockets, TLAPS

HandlerPCs == PublicPCs \cup PrivatePCs \cup {"none", "auth", "receive", "ended"}
TaskPCs == {"none", "subscribe", "listen", "send", "canceled", "done"}

\* Where a handler is tells what it has asked for and who it works for.
Home(s) ==
    /\ client[s] = "absent" => hand[s].pc = "none"
    /\ hand[s].pc \in {"none", "auth"} => hand[s].chan = NoOne
    /\ hand[s].pc \in PublicPCs => hand[s].chan \in Symbols
    /\ hand[s].pc \in PrivatePCs => hand[s].chan \in Users
    /\ hand[s].pc = "receive" => hand[s].chan \in Channels
    /\ hand[s].chan \in Users => hand[s].signer = hand[s].chan
    /\ task[s].pc # "none" => hand[s].chan \in Channels

Homes == \A s \in Sockets : Home(s)

\* Registries and broadcasts under way hold sockets of their own channel, and
\* clients have events of their own channel.
Members == \A s \in Sockets, c \in Channels : s \in conns[c] => hand[s].chan = c

Recipients == \A s \in Sockets, o \in Listeners :
    s \in task[o].left => hand[s].chan \in Channels /\ hand[s].chan = Chan(o)

Heard == \A s \in Sockets : \A i \in DOMAIN got[s] : got[s][i].chan = hand[s].chan

Routes == Members /\ Recipients /\ Heard

\* Nothing is on its way to a listener that is not subscribed.
Drained == \A o \in Listeners : sub[o] = "off" => inbox[o] = <<>>

\* The subscriber task and the connection to Redis that a handler has at each of
\* its steps.
Holding(s) ==
    /\ hand[s].pc \in {"none", "auth", "register", "greet", "snapshot", "snapshotsend", "subscribe"}
          => task[s].pc = "none" /\ sub[s] = "off"
    /\ hand[s].chan \in Symbols => task[s].pc \in {"none", "listen", "done"}
    /\ hand[s].pc \in {"leave", "disconnect", "ended"} => task[s].pc \in {"none", "done"}
    /\ hand[s].pc \in {"disconnect", "ended"} => sub[s] = "off"
    /\ hand[s].pc = "poll" => task[s].pc = "none"
    /\ hand[s].pc = "receive" /\ hand[s].chan \in Symbols /\ profile.edition = "current"
          => task[s].pc = "none"
    /\ hand[s].chan \in Users /\ task[s].pc \in {"none", "subscribe", "done"} => sub[s] = "off"
    /\ hand[s].pc = "await" => task[s].pc \in {"canceled", "done"}

Holdings == \A s \in Sockets : Holding(s)

\* Whose handler is about to end, or has ended, is out of the registries.
Leftovers ==
    \A s \in Sockets, c \in Channels : s \in conns[c] =>
          /\ hand[s].pc # "await"
          /\ hand[s].pc = "ended" => Ghost(s)

\* What the handlers and tasks of the model are and hold.
Ind == TypeOK /\ Homes /\ Routes /\ Drained /\ Holdings /\ Leftovers

-----------------------------------------------------------------------------
(* What the steps of the model do to one socket, listener or client.       *)

LEMMA Moved ==
    ASSUME TypeOK, NEW s \in Sockets, NEW pc \in HandlerPCs, Goto(s, pc)
    PROVE  /\ hand' \in [Sockets -> Handler]
           /\ \A x \in Sockets : /\ hand'[x].chan = hand[x].chan /\ hand'[x].signer = hand[x].signer
                                 /\ hand'[x].pc = IF x = s THEN pc ELSE hand[x].pc
<1>1. PICK g, h : g = hand[s] /\ h = [g EXCEPT !.pc = pc]
  OBVIOUS
<1>2. hand \in [Sockets -> Handler] /\ g \in Handler
  BY <1>1 DEF TypeOK, Handler
<1>3. hand' = [hand EXCEPT ![s] = h]
  BY <1>1 DEF Goto
<1>4. h \in Handler /\ h.chan = g.chan /\ h.signer = g.signer /\ h.pc = pc
  BY ONLY pc \in HandlerPCs, <1>1, <1>2 DEF Handler, HandlerPCs
<1> QED
  BY <1>1, <1>2, <1>3, <1>4

LEMMA NewPublic ==
    ASSUME NEW pc \in PublicPCs, NEW c \in Channels
    PROVE  LET h == [NoHandler EXCEPT !.pc = pc, !.chan = c]
           IN  h \in Handler /\ h.pc = pc /\ h.chan = c
<1>1. 0 \in 0 .. MaxEvents
  BY WebSocketsAssumption
<1> QED
  BY <1>1 DEF NoHandler, Handler, Channels

LEMMA NewPrivate ==
    ASSUME NEW u \in Users
    PROVE  LET h == [NoHandler EXCEPT !.pc = "auth", !.signer = u]
           IN  h \in Handler /\ h.pc = "auth" /\ h.chan = NoOne
<1>1. 0 \in 0 .. MaxEvents
  BY WebSocketsAssumption
<1> QED
  BY <1>1 DEF NoHandler, Handler

LEMMA BookRead ==
    ASSUME NEW g \in Handler, NEW b \in 0 .. MaxEvents
    PROVE  LET h == [g EXCEPT !.pc = "snapshotsend", !.book = b]
           IN  h \in Handler /\ h.pc = "snapshotsend" /\ h.chan = g.chan /\ h.signer = g.signer
BY DEF Handler, PublicPCs

LEMMA HandlerSet ==
    ASSUME TypeOK, NEW s \in Sockets, NEW h \in Handler, hand' = [hand EXCEPT ![s] = h]
    PROVE  /\ hand' \in [Sockets -> Handler] /\ hand'[s] = h
           /\ \A x \in Sockets : x # s => hand'[x] = hand[x]
BY DEF TypeOK

LEMMA TaskMoved ==
    ASSUME TypeOK, NEW o \in Listeners, NEW pc \in TaskPCs, task' = [task EXCEPT ![o].pc = pc]
    PROVE  /\ task' \in [Listeners -> Task]
           /\ \A x \in Listeners : /\ task'[x].left = task[x].left
                                   /\ task'[x].pc = IF x = o THEN pc ELSE task[x].pc
<1>1. task \in [Listeners -> Task]
  BY DEF TypeOK
<1>2. PICK t, n : t = task[o] /\ n = [task[o] EXCEPT !.pc = pc]
  OBVIOUS
<1>3. t \in Task /\ n = [t EXCEPT !.pc = pc] /\ task' = [task EXCEPT ![o] = n]
  BY <1>1, <1>2
<1>4. n \in Task /\ n.pc = pc /\ n.left = t.left
  BY ONLY <1>3, pc \in TaskPCs DEF Task, TaskPCs
<1> QED
  BY ONLY <1>1, <1>2, <1>3, <1>4, o \in Listeners

\* Task o moved on to pc.
MovedTo(o, pc) ==
    LET t == [task EXCEPT ![o].pc = pc]
    IN  /\ t \in [Listeners -> Task] /\ t[o].pc = pc
        /\ \A x \in Listeners : t[x].left = task[x].left /\ (x # o => t[x].pc = task[x].pc)

LEMMA TaskPut ==
    ASSUME TypeOK, NEW o \in Listeners, NEW pc \in TaskPCs
    PROVE  MovedTo(o, pc)
<1>1. task \in [Listeners -> Task]
  BY DEF TypeOK
<1>2. PICK t, n, u : t = task[o] /\ n = [task[o] EXCEPT !.pc = pc] /\ u = [task EXCEPT ![o].pc = pc]
  OBVIOUS
<1>3. t \in Task /\ n = [t EXCEPT !.pc = pc] /\ u = [task EXCEPT ![o] = n]
  BY <1>1, <1>2
<1>4. n \in Task /\ n.pc = pc /\ n.left = t.left
  BY ONLY <1>3, pc \in TaskPCs DEF Task, TaskPCs
<1>5. u \in [Listeners -> Task] /\ u[o] = n /\ \A x \in Listeners : x # o => u[x] = task[x]
  BY ONLY <1>1, <1>3, <1>4, o \in Listeners
<1>6. /\ u \in [Listeners -> Task] /\ u[o].pc = pc
      /\ \A x \in Listeners : u[x].left = task[x].left /\ (x # o => u[x].pc = task[x].pc)
  BY ONLY <1>2, <1>4, <1>5
<1> QED
  BY ONLY <1>2, <1>6 DEF MovedTo

LEMMA TaskSet ==
    ASSUME TypeOK, NEW o \in Listeners, NEW t \in Task, task' = [task EXCEPT ![o] = t]
    PROVE  /\ task' \in [Listeners -> Task]
           /\ \A x \in Listeners : task'[x] = IF x = o THEN t ELSE task[x]
BY DEF TypeOK

LEMMA OneLess ==
    ASSUME NEW t \in Task, NEW s \in Sockets
    PROVE  LET r == [t EXCEPT !.left = @ \ {s}]
           IN  r \in Task /\ r.pc = t.pc /\ r.msg = t.msg /\ r.left = t.left \ {s} /\ r.dead = t.dead
BY DEF Task

LEMMA OneLessDead ==
    ASSUME NEW t \in Task, NEW s \in Sockets
    PROVE  LET r == [t EXCEPT !.left = @ \ {s}, !.dead = @ \cup {s}]
           IN  r \in Task /\ r.pc = t.pc /\ r.msg = t.msg /\ r.left = t.left \ {s} /\ r.dead = t.dead \cup {s}
BY DEF Task

\* A send of a broadcast leaves the task where it is, with one socket less to do.
LEMMA TaskShrinks ==
    ASSUME TypeOK, NEW o \in Listeners, NEW s \in Sockets,
           task' \in {[task EXCEPT ![o].left = @ \ {s}],
                     [task EXCEPT ![o].left = @ \ {s}, ![o].dead = @ \cup {s}]}
    PROVE  /\ task' \in [Listeners -> Task]
           /\ \A x \in Listeners : x # o => task'[x] = task[x]
           /\ task'[o].pc = task[o].pc /\ task'[o].msg = task[o].msg
           /\ task'[o].left = task[o].left \ {s}
<1>1. PICK r \in Task : /\ r.pc = task[o].pc /\ r.msg = task[o].msg /\ r.left = task[o].left \ {s}
                        /\ task' = [task EXCEPT ![o] = r]
  <2>1. task[o] \in Task
    BY DEF TypeOK
  <2>2. CASE task' = [task EXCEPT ![o].left = @ \ {s}]
    <3> DEFINE r == [task[o] EXCEPT !.left = @ \ {s}]
    <3>1. task' = [task EXCEPT ![o] = r]
      BY <2>2
    <3>2. r \in Task /\ r.pc = task[o].pc /\ r.msg = task[o].msg /\ r.left = task[o].left \ {s}
      BY <2>1, OneLess
    <3> HIDE DEF r
    <3> QED
      BY <3>1, <3>2
  <2>3. CASE task' = [task EXCEPT ![o].left = @ \ {s}, ![o].dead = @ \cup {s}]
    <3> DEFINE r == [task[o] EXCEPT !.left = @ \ {s}, !.dead = @ \cup {s}]
    <3>1. task' = [task EXCEPT ![o] = r]
      BY <2>1, <2>3 DEF TypeOK
    <3>2. r \in Task /\ r.pc = task[o].pc /\ r.msg = task[o].msg /\ r.left = task[o].left \ {s}
      BY <2>1, OneLessDead
    <3> HIDE DEF r
    <3> QED
      BY <3>1, <3>2
  <2> QED
    BY <2>2, <2>3
<1> QED
  BY <1>1 DEF TypeOK

LEMMA IdleTask ==
    ASSUME NEW pc \in TaskPCs
    PROVE  /\ [NoTask EXCEPT !.pc = pc] \in Task
           /\ [NoTask EXCEPT !.pc = pc].pc = pc
           /\ [NoTask EXCEPT !.pc = pc].left = {} /\ [NoTask EXCEPT !.pc = pc].dead = {}
BY WebSocketsAssumption DEF NoTask, Task, TaskPCs

LEMMA Canceled ==
    ASSUME TypeOK, NEW ts \in SUBSET Listeners, task' = Cancel(ts)
    PROVE  /\ task' \in [Listeners -> Task]
           /\ \A x \in Listeners :
                 \/ x \in ts /\ task[x].pc # "done" /\ task'[x] = [NoTask EXCEPT !.pc = "canceled"]
                 \/ (x \in ts => task[x].pc = "done") /\ task'[x] = task[x]
BY IdleTask DEF TypeOK, Cancel, TaskPCs

LEMMA Appended ==
    ASSUME NEW q \in Seq(0 .. MaxEvents), NEW e \in 0 .. MaxEvents
    PROVE  Append(q, e) \in Seq(0 .. MaxEvents)
<1> DEFINE E == 0 .. MaxEvents
<1> HIDE DEF E
<1>1. ASSUME NEW r \in Seq(E), NEW n \in E
      PROVE  Append(r, n) \in Seq(E)
  BY <1>1
<1> QED
  BY <1>1 DEF E

LEMMA Ended ==
    ASSUME TypeOK, NEW s \in Sockets, Ends(s)
    PROVE  /\ hand' \in [Sockets -> Handler]
           /\ client' \in [Sockets -> {"absent", "open", "closed"}]
           /\ \A x \in Sockets : /\ hand'[x].chan = hand[x].chan /\ hand'[x].signer = hand[x].signer
                                 /\ hand'[x].pc = IF x = s THEN "ended" ELSE hand[x].pc
                                 /\ client'[x] = IF x = s THEN "closed" ELSE client[x]
BY Moved DEF TypeOK, Ends, HandlerPCs

LEMMA Sent ==
    ASSUME TypeOK, NEW s \in Sockets, NEW c \in Channels, NEW e \in 0 .. MaxEvents,
           Sends(s, c, e) \/ SendRaises(s)
    PROVE  /\ got' \in [Sockets -> Seq([chan : Channels, n : 0 .. MaxEvents])]
           /\ broken' \in [Sockets -> BOOLEAN]
           /\ \A x \in Sockets : broken[x] => broken'[x]
           /\ \A x \in Sockets : \A i \in DOMAIN got'[x] :
                 \/ i \in DOMAIN got[x] /\ got'[x][i] = got[x][i]
                 \/ x = s /\ got'[x][i].chan = c
<1>1. CASE SendRaises(s)
  BY <1>1 DEF TypeOK, SendRaises
<1>2. CASE Sends(s, c, e)
  <2> DEFINE event == [chan |-> c, n |-> e]
  <2>1. event \in [chan : Channels, n : 0 .. MaxEvents] /\ event.chan = c
    OBVIOUS
  <2> HIDE DEF event
  <2>2. broken' = broken /\ got' \in {got, [got EXCEPT ![s] = Append(@, event)]}
    BY <1>2 DEF Sends, event
  <2>3. CASE got' = got
    BY <2>2, <2>3 DEF TypeOK
  <2>4. CASE got' = [got EXCEPT ![s] = Append(@, event)]
    <3>1. got'[s] = Append(got[s], event) /\ \A x \in Sockets : x # s => got'[x] = got[x]
      BY <2>4 DEF TypeOK
    <3>2. \A i \in DOMAIN got'[s] : \/ i \in DOMAIN got[s] /\ got'[s][i] = got[s][i]
                                    \/ got'[s][i] = event
      BY <3>1 DEF TypeOK
    <3>3. got' \in [Sockets -> Seq([chan : Channels, n : 0 .. MaxEvents])]
      <4> DEFINE Event == [chan : Channels, n : 0 .. MaxEvents]
      <4>1. got \in [Sockets -> Seq(Event)] /\ event \in Event
        BY <2>1 DEF TypeOK
      <4> HIDE DEF Event
      <4>2. Append(got[s], event) \in Seq(Event)
        BY <4>1
      <4>3. got' \in [Sockets -> Seq(Event)]
        BY <2>4, <4>1, <4>2
      <4> QED
        BY <4>3 DEF Event
    <3> QED
      BY <2>1, <2>2, <3>1, <3>2, <3>3 DEF TypeOK
  <2> QED
    BY <2>2, <2>3, <2>4
<1> QED
  BY <1>1, <1>2

LEMMA SentOwn ==
    ASSUME TypeOK, NEW s \in Sockets, hand[s].chan \in Channels, NEW e \in 0 .. MaxEvents,
           Sends(s, hand[s].chan, e) \/ SendRaises(s)
    PROVE  /\ got' \in [Sockets -> Seq([chan : Channels, n : 0 .. MaxEvents])]
           /\ broken' \in [Sockets -> BOOLEAN] /\ \A x \in Sockets : broken[x] => broken'[x]
           /\ \A x \in Sockets : \A i \in DOMAIN got'[x] :
                 \/ i \in DOMAIN got[x] /\ got'[x][i] = got[x][i]
                 \/ got'[x][i].chan = hand[x].chan
<1> DEFINE c == hand[s].chan
<1> HIDE DEF c
<1>1. c \in Channels /\ (Sends(s, c, e) \/ SendRaises(s))
  BY DEF c
<1>2. /\ got' \in [Sockets -> Seq([chan : Channels, n : 0 .. MaxEvents])]
      /\ broken' \in [Sockets -> BOOLEAN] /\ \A x \in Sockets : broken[x] => broken'[x]
      /\ \A x \in Sockets : \A i \in DOMAIN got'[x] :
            \/ i \in DOMAIN got[x] /\ got'[x][i] = got[x][i]
            \/ x = s /\ got'[x][i].chan = c
  BY <1>1, Sent
<1> QED
  BY <1>2 DEF c

LEMMA Subscribed ==
    ASSUME TypeOK, NEW o \in Listeners, Chan(o) \in Channels, subscribe(o)
    PROVE  /\ sub' \in [Listeners -> {"off", "on", "lost"}] /\ inbox' = inbox
           /\ sent' = sent /\ since' \in [Listeners -> 0 .. MaxEvents]
           /\ \A x \in Listeners : sub'[x] = IF x = o THEN "on" ELSE sub[x]
BY DEF TypeOK, subscribe

LEMMA Unsubscribed ==
    ASSUME TypeOK, NEW o \in Listeners, unsubscribe(o)
    PROVE  /\ sub' \in [Listeners -> {"off", "on", "lost"}]
           /\ inbox' \in [Listeners -> Seq(0 .. MaxEvents)]
           /\ sent' = sent /\ since' = since
           /\ \A x \in Listeners : /\ sub'[x] = IF x = o THEN "off" ELSE sub[x]
                                   /\ inbox'[x] = IF x = o THEN <<>> ELSE inbox[x]
BY DEF TypeOK, unsubscribe

LEMMA Consumed ==
    ASSUME TypeOK, NEW o \in Listeners, inbox[o] # <<>>, Consume(o)
    PROVE  /\ inbox' \in [Listeners -> Seq(0 .. MaxEvents)]
           /\ sub' = sub /\ sent' = sent /\ since' = since
           /\ Head(inbox[o]) \in 0 .. MaxEvents
           /\ \A x \in Listeners : x # o => inbox'[x] = inbox[x]
<1>1. inbox[o] \in Seq(0 .. MaxEvents)
  BY DEF TypeOK
<1> DEFINE E == 0 .. MaxEvents
<1> HIDE DEF E
<1>2. ASSUME NEW q \in Seq(E), q # <<>>
      PROVE  Tail(q) \in Seq(E) /\ Head(q) \in E
  BY <1>2
<1>3. Tail(inbox[o]) \in Seq(0 .. MaxEvents) /\ Head(inbox[o]) \in 0 .. MaxEvents
  BY <1>1, <1>2 DEF E
<1> QED
  BY <1>3 DEF TypeOK, Consume

LEMMA NotSymbol == ASSUME NEW s \in Sockets
                   PROVE  s \in Listeners /\ s \notin Symbols
BY WebSocketsAssumption DEF Listeners

LEMMA ChanOf == /\ \A s \in Sockets : Chan(s) = hand[s].chan /\ Chan(s)' = hand'[s].chan
                /\ \A o \in Symbols : Chan(o) = o /\ Chan(o)' = o
                /\ \A o \in Listeners : o \in Symbols \/ o \in Sockets
BY WebSocketsAssumption DEF Listeners, Chan

LEMMA ChanKept == ASSUME \A x \in Sockets : hand'[x].chan = hand[x].chan
                  PROVE  \A o \in Listeners : Chan(o)' = Chan(o)
BY WebSocketsAssumption DEF Listeners, Chan

LEMMA ChannelsApart == NoOne \notin Channels /\ Symbols \cap Users = {} /\ Symbols \subseteq Channels
                       /\ Users \subseteq Channels
BY WebSocketsAssumption DEF Channels

LEMMA Edition == TypeOK => profile.edition \in {"current", "older"}
BY WebSocketsAssumption DEF TypeOK

\* Nothing knows of a socket whose handler has not got its channel.
Unheard(s) ==
    /\ hand[s].chan = NoOne /\ task[s].pc = "none" /\ sub[s] = "off"
    /\ \A c \in Channels : s \notin conns[c]
    /\ \A o \in Listeners : s \notin task[o].left
    /\ task[s].left = {} /\ DOMAIN got[s] = {}

LEMMA Fresh ==
    ASSUME Ind, NEW s \in Sockets, hand[s].pc \in {"none", "auth"}
    PROVE  Unheard(s)
<1>1. TypeOK /\ Homes /\ Routes /\ Holdings
  BY DEF Ind
<1>2. hand[s].chan = NoOne /\ NoOne \notin Channels /\ s \in Listeners /\ Chan(s) = hand[s].chan
  BY <1>1, ChanOf, ChannelsApart DEF Homes, Home, Listeners
<1>3. task[s].pc = "none" /\ sub[s] = "off"
  BY <1>1 DEF Holdings, Holding
<1>4. /\ \A c \in Channels : s \notin conns[c]
      /\ \A o \in Listeners : s \notin task[o].left
  BY <1>1, <1>2 DEF Routes, Members, Recipients, Heard
<1>5. task[s].left = {}
  <2>1. task[s].left \subseteq Sockets
    BY <1>1, <1>2 DEF TypeOK, Task
  <2> QED
    BY <1>1, <1>2, <2>1 DEF Routes, Members, Recipients, Heard
<1>6. DOMAIN got[s] = {}
  <2>1. ASSUME NEW i \in DOMAIN got[s]
        PROVE  FALSE
    <3> DEFINE Event == [chan : Channels, n : 0 .. MaxEvents]
    <3>1. got[s] \in Seq(Event)
      BY <1>1 DEF TypeOK
    <3> HIDE DEF Event
    <3>2. got[s][i] \in Event
      BY <2>1, <3>1
    <3>3. got[s][i].chan \in Channels
      BY <3>2 DEF Event
    <3> QED
      BY <1>1, <1>2, <3>3 DEF Routes, Members, Recipients, Heard
  <2> QED
    BY <2>1
<1> QED
  BY <1>2, <1>3, <1>4, <1>5, <1>6 DEF Unheard

-----------------------------------------------------------------------------
(* Each action keeps the invariant.                                        *)

LEMMA ClientClosesKeeps ==
    ASSUME Ind, NEW s \in Sockets, ClientCloses(s)
    PROVE  Ind'
<1> USE NotSymbol, ChannelsApart
<1>0. TypeOK /\ Homes /\ Routes /\ Drained /\ Holdings /\ Leftovers
  BY DEF Ind
<1>1. TypeOK'
  BY <1>0 DEF TypeOK, ClientCloses, bus
<1>2. Homes'
  BY <1>0 DEF Homes, Home, ClientCloses, PublicPCs, PrivatePCs
<1>3. Routes'
  BY <1>0, ChanKept DEF Routes, Members, Recipients, Heard, ClientCloses
<1>4. Drained'
  BY <1>0 DEF Drained, ClientCloses, bus
<1>5. Holdings'
  BY <1>0 DEF Holdings, Holding, ClientCloses, bus, PublicPCs, PrivatePCs
<1>6. Leftovers'
  BY <1>0 DEF Leftovers, Ghost, ClientCloses
<1> QED
  BY <1>1, <1>2, <1>3, <1>4, <1>5, <1>6 DEF Ind

LEMMA GatheredKeeps ==
    ASSUME Ind, NEW s \in Sockets, Gathered(s)
    PROVE  Ind'
<1> USE NotSymbol, ChannelsApart
<1>0. TypeOK /\ Homes /\ Routes /\ Drained /\ Holdings /\ Leftovers
  BY DEF Ind
<1>1. /\ hand' \in [Sockets -> Handler]
      /\ \A x \in Sockets : /\ hand'[x].chan = hand[x].chan /\ hand'[x].signer = hand[x].signer
                            /\ hand'[x].pc = IF x = s THEN "leave" ELSE hand[x].pc
  BY <1>0, Moved DEF Gathered, HandlerPCs, PublicPCs, PrivatePCs
<1>2. TypeOK'
  BY <1>0, <1>1 DEF TypeOK, Gathered, bus
<1>3. Homes'
  BY <1>0, <1>1 DEF Homes, Home, Gathered, PublicPCs, PrivatePCs
<1>4. Routes'
  BY <1>0, <1>1, ChanKept DEF Routes, Members, Recipients, Heard, Gathered
<1>5. Drained'
  BY <1>0 DEF Drained, Gathered, bus
<1>6. Holdings'
  BY <1>0, <1>1 DEF Holdings, Holding, Gathered, bus, PublicPCs, PrivatePCs, Homes, Home
<1>7. Leftovers'
  BY <1>0, <1>1 DEF Leftovers, Ghost, Gathered
<1> QED
  BY <1>2, <1>3, <1>4, <1>5, <1>6, <1>7 DEF Ind

LEMMA Listen_clientKeeps ==
    ASSUME Ind, NEW s \in Sockets, listen_client(s)
    PROVE  Ind'
<1> USE NotSymbol, ChannelsApart
<1>0. TypeOK /\ Homes /\ Routes /\ Drained /\ Holdings /\ Leftovers
  BY DEF Ind
<1>1. /\ hand' \in [Sockets -> Handler]
      /\ \A x \in Sockets : /\ hand'[x].chan = hand[x].chan /\ hand'[x].signer = hand[x].signer
                            /\ hand'[x].pc = IF x = s THEN "gather" ELSE hand[x].pc
  BY <1>0, Moved DEF listen_client, HandlerPCs, PublicPCs, PrivatePCs
<1>2. TypeOK'
  BY <1>0, <1>1 DEF TypeOK, listen_client, bus
<1>3. Homes'
  BY <1>0, <1>1 DEF Homes, Home, listen_client, PublicPCs, PrivatePCs
<1>4. Routes'
  BY <1>0, <1>1, ChanKept DEF Routes, Members, Recipients, Heard, listen_client
<1>5. Drained'
  BY <1>0 DEF Drained, listen_client, bus
<1>6. Holdings'
  BY <1>0, <1>1 DEF Holdings, Holding, listen_client, bus, PublicPCs, PrivatePCs
<1>7. Leftovers'
  BY <1>0, <1>1 DEF Leftovers, Ghost, listen_client
<1> QED
  BY <1>2, <1>3, <1>4, <1>5, <1>6, <1>7 DEF Ind

LEMMA PublicLeavesKeeps ==
    ASSUME Ind, NEW s \in Sockets, PublicLeaves(s)
    PROVE  Ind'
<1> USE NotSymbol, ChannelsApart
<1>0. TypeOK /\ Homes /\ Routes /\ Drained /\ Holdings /\ Leftovers
  BY DEF Ind
<1>1. /\ hand' \in [Sockets -> Handler]
      /\ \A x \in Sockets : /\ hand'[x].chan = hand[x].chan /\ hand'[x].signer = hand[x].signer
                            /\ hand'[x].pc = IF x = s THEN "disconnect" ELSE hand[x].pc
  BY <1>0, Moved DEF PublicLeaves, HandlerPCs, PublicPCs, PrivatePCs
<1>2. /\ sub' \in [Listeners -> {"off", "on", "lost"}]
      /\ inbox' \in [Listeners -> Seq(0 .. MaxEvents)]
      /\ sent' = sent /\ since' = since
      /\ \A x \in Listeners : /\ sub'[x] = IF x = s THEN "off" ELSE sub[x]
                              /\ inbox'[x] = IF x = s THEN <<>> ELSE inbox[x]
  BY <1>0, Unsubscribed DEF PublicLeaves
<1>3. TypeOK'
  BY <1>0, <1>1, <1>2 DEF TypeOK, PublicLeaves, bus
<1>4. Homes'
  BY <1>0, <1>1 DEF Homes, Home, PublicLeaves, PublicPCs, PrivatePCs
<1>5. Routes'
  BY <1>0, <1>1, ChanKept DEF Routes, Members, Recipients, Heard, PublicLeaves
<1>6. Drained'
  BY <1>0, <1>2 DEF Drained, PublicLeaves, bus
<1>7. Holdings'
  <2> SUFFICES ASSUME NEW x \in Sockets
               PROVE  Holding(x)'
    BY DEF Holdings
  <2>0. Holding(x)
    BY <1>0 DEF Holdings
  <2>1. CASE x = s
    BY <1>0, <1>1, <1>2, <2>0, <2>1 DEF Holding, PublicLeaves, bus, PublicPCs, PrivatePCs, Homes, Home
  <2>2. CASE x # s
    BY <1>0, <1>1, <1>2, <2>0, <2>2 DEF Holding, PublicLeaves, bus
  <2> QED
    BY <2>1, <2>2
<1>8. Leftovers'
  BY <1>0, <1>1 DEF Leftovers, Ghost, PublicLeaves
<1> QED
  BY <1>3, <1>4, <1>5, <1>6, <1>7, <1>8 DEF Ind

LEMMA Disconnect_publicKeeps ==
    ASSUME Ind, NEW s \in Sockets, disconnect_public(s)
    PROVE  Ind'
<1> USE NotSymbol, ChannelsApart
<1>0. TypeOK /\ Homes /\ Routes /\ Drained /\ Holdings /\ Leftovers
  BY DEF Ind
<1>1. /\ hand' \in [Sockets -> Handler]
      /\ client' \in [Sockets -> {"absent", "open", "closed"}]
      /\ \A x \in Sockets : /\ hand'[x].chan = hand[x].chan /\ hand'[x].signer = hand[x].signer
                            /\ hand'[x].pc = IF x = s THEN "ended" ELSE hand[x].pc
                            /\ client'[x] = IF x = s THEN "closed" ELSE client[x]
  BY <1>0, Ended DEF disconnect_public
<1>2. /\ conns' \in [Channels -> SUBSET Sockets] /\ hand[s].chan \in Channels
      /\ \A x \in Channels : conns'[x] = IF x = hand[s].chan THEN conns[x] \ {s} ELSE conns[x]
  BY <1>0 DEF disconnect_public, disconnect, TypeOK, Homes, Home, PublicPCs, PrivatePCs
<1>3. TypeOK'
  BY <1>0, <1>1, <1>2 DEF TypeOK, disconnect_public, bus
<1>4. Homes'
  BY <1>0, <1>1 DEF Homes, Home, disconnect_public, PublicPCs, PrivatePCs
<1>5. Routes'
  BY <1>0, <1>1, <1>2, ChanKept DEF Routes, Members, Recipients, Heard, disconnect_public
<1>6. Drained'
  BY <1>0 DEF Drained, disconnect_public, bus
<1>7. Holdings'
  BY <1>0, <1>1 DEF Holdings, Holding, disconnect_public, bus, PublicPCs, PrivatePCs
<1>8. Leftovers'
  BY <1>0, <1>1, <1>2 DEF Leftovers, Ghost, disconnect_public, Routes, Members
<1> QED
  BY <1>3, <1>4, <1>5, <1>6, <1>7, <1>8 DEF Ind

LEMMA AuthFailsKeeps ==
    ASSUME Ind, NEW s \in Sockets, AuthFails(s)
    PROVE  Ind'
<1> USE NotSymbol, ChannelsApart
<1>0. TypeOK /\ Homes /\ Routes /\ Drained /\ Holdings /\ Leftovers
  BY DEF Ind
<1>1. /\ hand' \in [Sockets -> Handler]
      /\ client' \in [Sockets -> {"absent", "open", "closed"}]
      /\ \A x \in Sockets : /\ hand'[x].chan = hand[x].chan /\ hand'[x].signer = hand[x].signer
                            /\ hand'[x].pc = IF x = s THEN "ended" ELSE hand[x].pc
                            /\ client'[x] = IF x = s THEN "closed" ELSE client[x]
  BY <1>0, Ended DEF AuthFails
<1>2. TypeOK'
  BY <1>0, <1>1 DEF TypeOK, AuthFails, bus
<1>3. Homes'
  BY <1>0, <1>1 DEF Homes, Home, AuthFails, PublicPCs, PrivatePCs
<1>4. Routes'
  BY <1>0, <1>1, ChanKept DEF Routes, Members, Recipients, Heard, AuthFails
<1>5. Drained'
  BY <1>0 DEF Drained, AuthFails, bus
<1>6. Holdings'
  BY <1>0, <1>1 DEF Holdings, Holding, AuthFails, bus, PublicPCs, PrivatePCs
<1>7. Leftovers'
  BY <1>0, <1>1 DEF Leftovers, Ghost, AuthFails, Homes, Home, Routes, Members
<1> QED
  BY <1>2, <1>3, <1>4, <1>5, <1>6, <1>7 DEF Ind

LEMMA PrivateEndsKeeps ==
    ASSUME Ind, NEW s \in Sockets, PrivateEnds(s)
    PROVE  Ind'
<1> USE NotSymbol, ChannelsApart
<1>0. TypeOK /\ Homes /\ Routes /\ Drained /\ Holdings /\ Leftovers
  BY DEF Ind
<1>1. /\ hand' \in [Sockets -> Handler]
      /\ client' \in [Sockets -> {"absent", "open", "closed"}]
      /\ \A x \in Sockets : /\ hand'[x].chan = hand[x].chan /\ hand'[x].signer = hand[x].signer
                            /\ hand'[x].pc = IF x = s THEN "ended" ELSE hand[x].pc
                            /\ client'[x] = IF x = s THEN "closed" ELSE client[x]
  BY <1>0, Ended DEF PrivateEnds
<1>2. TypeOK'
  BY <1>0, <1>1 DEF TypeOK, PrivateEnds, bus
<1>3. Homes'
  BY <1>0, <1>1 DEF Homes, Home, PrivateEnds, PublicPCs, PrivatePCs
<1>4. Routes'
  BY <1>0, <1>1, ChanKept DEF Routes, Members, Recipients, Heard, PrivateEnds
<1>5. Drained'
  BY <1>0 DEF Drained, PrivateEnds, bus
<1>6. Holdings'
  BY <1>0, <1>1 DEF Holdings, Holding, PrivateEnds, bus, PublicPCs, PrivatePCs, Homes, Home
<1>7. Leftovers'
  BY <1>0, <1>1 DEF Leftovers, Ghost, PrivateEnds
<1> QED
  BY <1>2, <1>3, <1>4, <1>5, <1>6, <1>7 DEF Ind

LEMMA Connect_privateKeeps ==
    ASSUME Ind, NEW s \in Sockets, connect_private(s)
    PROVE  Ind'
<1> USE NotSymbol, ChannelsApart
<1>0. TypeOK /\ Homes /\ Routes /\ Drained /\ Holdings /\ Leftovers
  BY DEF Ind
<1>1. /\ hand' \in [Sockets -> Handler]
      /\ \A x \in Sockets : /\ hand'[x].chan = hand[x].chan /\ hand'[x].signer = hand[x].signer
                            /\ hand'[x].pc = IF x = s THEN "greet" ELSE hand[x].pc
  BY <1>0, Moved DEF connect_private, HandlerPCs, PublicPCs, PrivatePCs
<1>2. /\ conns' \in [Channels -> SUBSET Sockets] /\ hand[s].chan \in Channels
      /\ \A x \in Channels : conns'[x] = IF x = hand[s].chan THEN conns[x] \cup {s} ELSE conns[x]
  BY <1>0 DEF connect_private, connect, TypeOK, Homes, Home, PublicPCs, PrivatePCs
<1>3. TypeOK'
  BY <1>0, <1>1, <1>2 DEF TypeOK, connect_private, bus
<1>4. Homes'
  BY <1>0, <1>1 DEF Homes, Home, connect_private, PublicPCs, PrivatePCs
<1>5. Routes'
  BY <1>0, <1>1, <1>2, ChanKept DEF Routes, Members, Recipients, Heard, connect_private
<1>6. Drained'
  BY <1>0 DEF Drained, connect_private, bus
<1>7. Holdings'
  BY <1>0, <1>1 DEF Holdings, Holding, connect_private, bus, PublicPCs, PrivatePCs
<1>8. Leftovers'
  BY <1>0, <1>1, <1>2 DEF Leftovers, Ghost, connect_private
<1> QED
  BY <1>3, <1>4, <1>5, <1>6, <1>7, <1>8 DEF Ind

LEMMA SubscriberRetriesKeeps ==
    ASSUME Ind, NEW o \in Listeners, SubscriberRetries(o)
    PROVE  Ind'
<1> USE NotSymbol, ChannelsApart
<1>0. TypeOK /\ Homes /\ Routes /\ Drained /\ Holdings /\ Leftovers
  BY DEF Ind
<1>1. /\ task' \in [Listeners -> Task]
      /\ \A x \in Listeners : /\ task'[x].left = task[x].left
                              /\ task'[x].pc = IF x = o THEN "subscribe" ELSE task[x].pc
  BY <1>0, TaskMoved DEF SubscriberRetries, TaskPCs
<1>2. /\ sub' \in [Listeners -> {"off", "on", "lost"}]
      /\ inbox' \in [Listeners -> Seq(0 .. MaxEvents)]
      /\ sent' = sent /\ since' = since
      /\ \A x \in Listeners : /\ sub'[x] = IF x = o THEN "off" ELSE sub[x]
                              /\ inbox'[x] = IF x = o THEN <<>> ELSE inbox[x]
  BY <1>0, Unsubscribed DEF SubscriberRetries
<1>3. TypeOK'
  BY <1>0, <1>1, <1>2 DEF TypeOK, SubscriberRetries, bus
<1>4. Homes'
  BY <1>0, <1>1 DEF Homes, Home, SubscriberRetries, PublicPCs, PrivatePCs
<1>5. Routes'
  BY <1>0, <1>1, ChanKept DEF Routes, Members, Recipients, Heard, SubscriberRetries
<1>6. Drained'
  BY <1>0, <1>2 DEF Drained, SubscriberRetries, bus
<1>7. Holdings'
  <2> SUFFICES ASSUME NEW x \in Sockets
               PROVE  Holding(x)'
    BY DEF Holdings
  <2>0. Holding(x)
    BY <1>0 DEF Holdings
  <2>1. CASE x = o
    BY <1>0, <1>1, <1>2, <2>0, <2>1, ChanOf DEF Holding, SubscriberRetries, bus, PublicPCs, PrivatePCs, ManagerTask
  <2>2. CASE x # o
    BY <1>0, <1>1, <1>2, <2>0, <2>2 DEF Holding, SubscriberRetries, bus
  <2> QED
    BY <2>1, <2>2
<1>8. Leftovers'
  BY <1>0, <1>1 DEF Leftovers, Ghost, SubscriberRetries
<1> QED
  BY <1>3, <1>4, <1>5, <1>6, <1>7, <1>8 DEF Ind

LEMMA SubscriberCanceledKeeps ==
    ASSUME Ind, NEW o \in Listeners, SubscriberCanceled(o)
    PROVE  Ind'
<1> USE NotSymbol, ChannelsApart
<1>0. TypeOK /\ Homes /\ Routes /\ Drained /\ Holdings /\ Leftovers
  BY DEF Ind
<1>1. /\ task' \in [Listeners -> Task]
      /\ \A x \in Listeners : /\ task'[x].left = task[x].left
                              /\ task'[x].pc = IF x = o THEN "done" ELSE task[x].pc
  BY <1>0, TaskMoved DEF SubscriberCanceled, TaskPCs
<1>2. /\ sub' \in [Listeners -> {"off", "on", "lost"}]
      /\ inbox' \in [Listeners -> Seq(0 .. MaxEvents)]
      /\ sent' = sent /\ since' = since
      /\ \A x \in Listeners : /\ sub'[x] = IF x = o THEN "off" ELSE sub[x]
                              /\ inbox'[x] = IF x = o THEN <<>> ELSE inbox[x]
  BY <1>0, Unsubscribed DEF SubscriberCanceled
<1>3. TypeOK'
  BY <1>0, <1>1, <1>2 DEF TypeOK, SubscriberCanceled, bus
<1>4. Homes'
  BY <1>0, <1>1 DEF Homes, Home, SubscriberCanceled, PublicPCs, PrivatePCs
<1>5. Routes'
  BY <1>0, <1>1, ChanKept DEF Routes, Members, Recipients, Heard, SubscriberCanceled
<1>6. Drained'
  BY <1>0, <1>2 DEF Drained, SubscriberCanceled, bus
<1>7. Holdings'
  BY <1>0, <1>1, <1>2 DEF Holdings, Holding, SubscriberCanceled, bus, PublicPCs, PrivatePCs
<1>8. Leftovers'
  BY <1>0, <1>1 DEF Leftovers, Ghost, SubscriberCanceled
<1> QED
  BY <1>3, <1>4, <1>5, <1>6, <1>7, <1>8 DEF Ind

LEMMA RevokeKeeps ==
    ASSUME Ind, NEW u \in Users, Revoke(u)
    PROVE  Ind'
<1> USE NotSymbol, ChannelsApart
<1>0. TypeOK /\ Homes /\ Routes /\ Drained /\ Holdings /\ Leftovers
  BY DEF Ind
<1>1. TypeOK'
  BY <1>0 DEF TypeOK, Revoke, bus
<1>2. Homes'
  BY <1>0 DEF Homes, Home, Revoke, PublicPCs, PrivatePCs
<1>3. Routes'
  BY <1>0, ChanKept DEF Routes, Members, Recipients, Heard, Revoke
<1>4. Drained'
  BY <1>0 DEF Drained, Revoke, bus
<1>5. Holdings'
  BY <1>0 DEF Holdings, Holding, Revoke, bus, PublicPCs, PrivatePCs
<1>6. Leftovers'
  BY <1>0 DEF Leftovers, Ghost, Revoke
<1> QED
  BY <1>1, <1>2, <1>3, <1>4, <1>5, <1>6 DEF Ind

LEMMA PublishKeeps ==
    ASSUME Ind, NEW c \in Channels, publish(c)
    PROVE  Ind'
<1> USE NotSymbol, ChannelsApart
<1>0. TypeOK /\ Homes /\ Routes /\ Drained /\ Holdings /\ Leftovers
  BY DEF Ind
<1>1. sent' \in [Channels -> 0 .. MaxEvents] /\ sent[c] + 1 \in 0 .. MaxEvents
  BY <1>0, WebSocketsAssumption DEF publish, TypeOK
<1>2. /\ inbox' \in [Listeners -> Seq(0 .. MaxEvents)]
      /\ \A x \in Listeners : sub[x] # "on" => inbox'[x] = inbox[x]
  BY <1>0, <1>1, Appended DEF publish, TypeOK
<1>3. TypeOK'
  BY <1>0, <1>1, <1>2 DEF TypeOK, publish, bus
<1>4. Homes'
  BY <1>0 DEF Homes, Home, publish, PublicPCs, PrivatePCs
<1>5. Routes'
  BY <1>0, ChanKept DEF Routes, Members, Recipients, Heard, publish
<1>6. Drained'
  BY <1>0, <1>1, <1>2 DEF Drained, publish, bus
<1>7. Holdings'
  BY <1>0, <1>1, <1>2 DEF Holdings, Holding, publish, bus, PublicPCs, PrivatePCs
<1>8. Leftovers'
  BY <1>0 DEF Leftovers, Ghost, publish
<1> QED
  BY <1>3, <1>4, <1>5, <1>6, <1>7, <1>8 DEF Ind

LEMMA ConnectionLostKeeps ==
    ASSUME Ind, NEW o \in Listeners, ConnectionLost(o)
    PROVE  Ind'
<1> USE NotSymbol, ChannelsApart
<1>0. TypeOK /\ Homes /\ Routes /\ Drained /\ Holdings /\ Leftovers
  BY DEF Ind
<1>1. /\ sub' \in [Listeners -> {"off", "on", "lost"}] /\ inbox' \in [Listeners -> Seq(0 .. MaxEvents)]
      /\ \A x \in Listeners : /\ sub'[x] = IF x = o THEN "lost" ELSE sub[x]
                              /\ inbox'[x] = IF x = o THEN <<>> ELSE inbox[x]
      /\ sub[o] = "on"
  BY <1>0 DEF ConnectionLost, TypeOK
<1>2. faults' \in 0 .. MaxFaults
  BY <1>0, WebSocketsAssumption DEF ConnectionLost, TypeOK
<1>3. TypeOK'
  BY <1>0, <1>1, <1>2 DEF TypeOK, ConnectionLost, bus
<1>4. Homes'
  BY <1>0 DEF Homes, Home, ConnectionLost, PublicPCs, PrivatePCs
<1>5. Routes'
  BY <1>0, ChanKept DEF Routes, Members, Recipients, Heard, ConnectionLost
<1>6. Drained'
  BY <1>0, <1>1 DEF Drained, ConnectionLost, bus
<1>7. Holdings'
  BY <1>0, <1>1 DEF Holdings, Holding, ConnectionLost, bus, PublicPCs, PrivatePCs
<1>8. Leftovers'
  BY <1>0 DEF Leftovers, Ghost, ConnectionLost
<1> QED
  BY <1>3, <1>4, <1>5, <1>6, <1>7, <1>8 DEF Ind

LEMMA SubscriberStartsKeeps ==
    ASSUME Ind, NEW o \in Listeners, SubscriberStarts(o)
    PROVE  Ind'
<1> USE NotSymbol, ChannelsApart
<1>0. TypeOK /\ Homes /\ Routes /\ Drained /\ Holdings /\ Leftovers
  BY DEF Ind
<1>1. Chan(o) \in Channels /\ faults' \in 0 .. MaxFaults /\ task[o].pc = "subscribe"
  BY <1>0, WebSocketsAssumption DEF SubscriberStarts, ManagerTask, Chan, TypeOK, subscribe, bus
<1>2. /\ task' \in [Listeners -> Task]
      /\ \A x \in Listeners : /\ task'[x].left = task[x].left
                              /\ x # o => task'[x].pc = task[x].pc
      /\ task'[o].pc \in {"subscribe", "listen", "done"} /\ task[o].pc = "subscribe"
  <2>1. CASE UNCHANGED task
    BY <1>0, <2>1 DEF SubscriberStarts, TypeOK
  <2>2. \A pc \in TaskPCs : MovedTo(o, pc)
    BY <1>0, TaskPut
  <2>3. task' \in {task, [task EXCEPT ![o].pc = "listen"], [task EXCEPT ![o].pc = "done"]}
    BY DEF SubscriberStarts
  <2> QED
    <3>1. CASE task' = [task EXCEPT ![o].pc = "listen"]
      BY <1>1, <2>2, <3>1 DEF TaskPCs, MovedTo
    <3>2. CASE task' = [task EXCEPT ![o].pc = "done"]
      BY <1>1, <2>2, <3>2 DEF TaskPCs, MovedTo
    <3> QED
      BY <2>1, <2>3, <3>1, <3>2
<1>3. /\ sub' \in [Listeners -> {"off", "on", "lost"}] /\ inbox' = inbox
      /\ sent' = sent /\ since' \in [Listeners -> 0 .. MaxEvents]
      /\ \A x \in Listeners : x # o => sub'[x] = sub[x]
      /\ task'[o].pc # "listen" => sub'[o] = sub[o]
      /\ sub'[o] = "off" => sub[o] = "off"
  <2>1. CASE bus' = bus
    BY <1>0, <2>1 DEF bus, TypeOK
  <2>2. CASE subscribe(o) /\ task' = [task EXCEPT ![o].pc = "listen"]
    <3>1. task'[o].pc = "listen"
      BY <1>0, <2>2 DEF TypeOK, Task
    <3> QED
      BY <1>0, <1>1, <2>2, <3>1, Subscribed
  <2> QED
    BY <2>1, <2>2 DEF SubscriberStarts, bus
<1>4. TypeOK'
  BY <1>0, <1>2, <1>3, <1>1 DEF TypeOK, SubscriberStarts, bus
<1>5. Homes'
  BY <1>0, <1>2 DEF Homes, Home, SubscriberStarts, PublicPCs, PrivatePCs
<1>6. Routes'
  BY <1>0, <1>2, ChanKept DEF Routes, Members, Recipients, Heard, SubscriberStarts
<1>7. Drained'
  BY <1>0, <1>3 DEF Drained, SubscriberStarts, bus
<1>8. Holdings'
  BY <1>0, <1>2, <1>3 DEF Holdings, Holding, SubscriberStarts, bus, PublicPCs, PrivatePCs
<1>9. Leftovers'
  BY <1>0, <1>2 DEF Leftovers, Ghost, SubscriberStarts
<1> QED
  BY <1>4, <1>5, <1>6, <1>7, <1>8, <1>9 DEF Ind

LEMMA SubscriberReceivesKeeps ==
    ASSUME Ind, NEW o \in Listeners, SubscriberReceives(o)
    PROVE  Ind'
<1> USE NotSymbol, ChannelsApart
<1>0. TypeOK /\ Homes /\ Routes /\ Drained /\ Holdings /\ Leftovers
  BY DEF Ind
<1>1. /\ inbox' \in [Listeners -> Seq(0 .. MaxEvents)] /\ Head(inbox[o]) \in 0 .. MaxEvents
      /\ sub' = sub /\ sent' = sent /\ since' = since
      /\ \A x \in Listeners : x # o => inbox'[x] = inbox[x]
  BY <1>0, Consumed DEF SubscriberReceives
<1>2. /\ Chan(o) \in Channels /\ task' \in [Listeners -> Task]
      /\ \A x \in Listeners : x # o => task'[x] = task[x]
      /\ task'[o].pc = "send" /\ task'[o].left = conns[Chan(o)] /\ task[o].pc = "listen"
      /\ o \in Symbols \/ hand[o].chan \in Users
  BY <1>0, <1>1 DEF SubscriberReceives, ManagerTask, Chan, TypeOK, Task
<1>3. TypeOK'
  BY <1>0, <1>1, <1>2 DEF TypeOK, SubscriberReceives, bus
<1>4. Homes'
  BY <1>0, <1>2 DEF Homes, Home, SubscriberReceives, PublicPCs, PrivatePCs
<1>5. Routes'
  BY <1>0, <1>2, ChanKept DEF Routes, Members, Recipients, Heard, SubscriberReceives
<1>6. Drained'
  BY <1>0, <1>1 DEF Drained, SubscriberReceives, bus
<1>7. Holdings'
  BY <1>0, <1>1, <1>2 DEF Holdings, Holding, SubscriberReceives, bus, PublicPCs, PrivatePCs
<1>8. Leftovers'
  BY <1>0, <1>2 DEF Leftovers, Ghost, SubscriberReceives
<1> QED
  BY <1>3, <1>4, <1>5, <1>6, <1>7, <1>8 DEF Ind

LEMMA SubscriberCleansKeeps ==
    ASSUME Ind, NEW o \in Listeners, SubscriberCleans(o)
    PROVE  Ind'
<1> USE NotSymbol, ChannelsApart
<1>0. TypeOK /\ Homes /\ Routes /\ Drained /\ Holdings /\ Leftovers
  BY DEF Ind
<1>1. /\ task' \in [Listeners -> Task]
      /\ \A x \in Listeners : x # o => task'[x] = task[x]
      /\ task[o].pc = "send" /\ task'[o].pc = "listen" /\ task'[o].left = {}
  BY <1>0, TaskSet, IdleTask DEF SubscriberCleans, TaskPCs
<1>2. conns' \in [Channels -> SUBSET Sockets] /\ \A x \in Channels : conns'[x] \subseteq conns[x]
  BY <1>0 DEF SubscriberCleans, disconnect, TypeOK
<1>3. TypeOK'
  BY <1>0, <1>1, <1>2 DEF TypeOK, SubscriberCleans, bus
<1>4. Homes'
  BY <1>0, <1>1 DEF Homes, Home, SubscriberCleans, PublicPCs, PrivatePCs
<1>5. Routes'
  BY <1>0, <1>1, <1>2, ChanKept DEF Routes, Members, Recipients, Heard, SubscriberCleans
<1>6. Drained'
  BY <1>0 DEF Drained, SubscriberCleans, bus
<1>7. Holdings'
  BY <1>0, <1>1 DEF Holdings, Holding, SubscriberCleans, bus, PublicPCs, PrivatePCs
<1>8. Leftovers'
  BY <1>0, <1>1, <1>2 DEF Leftovers, Ghost, SubscriberCleans
<1> QED
  BY <1>3, <1>4, <1>5, <1>6, <1>7, <1>8 DEF Ind

LEMMA Stop_subscribersKeeps ==
    ASSUME Ind, stop_subscribers
    PROVE  Ind'
<1> USE NotSymbol, ChannelsApart
<1>0. TypeOK /\ Homes /\ Routes /\ Drained /\ Holdings /\ Leftovers
  BY DEF Ind
<1>1. /\ task' \in [Listeners -> Task]
      /\ \A x \in Listeners : /\ task'[x].left \subseteq task[x].left
                              /\ x \notin Symbols => task'[x] = task[x]
  <2>1. {o \in Symbols : task[o].pc # "none"} \in SUBSET Listeners
    BY DEF Listeners
  <2>2. /\ task' \in [Listeners -> Task]
        /\ \A x \in Listeners : \/ x \in Symbols /\ task'[x] = [NoTask EXCEPT !.pc = "canceled"]
                                \/ task'[x] = task[x]
    BY <1>0, <2>1, Canceled DEF stop_subscribers
  <2> QED
    BY <2>2, IdleTask DEF TaskPCs
<1>2. TypeOK'
  BY <1>0, <1>1 DEF TypeOK, stop_subscribers, bus
<1>3. Homes'
  BY <1>0, <1>1 DEF Homes, Home, stop_subscribers, PublicPCs, PrivatePCs
<1>4. Routes'
  BY <1>0, <1>1, ChanKept DEF Routes, Members, Recipients, Heard, stop_subscribers
<1>5. Drained'
  BY <1>0 DEF Drained, stop_subscribers, bus
<1>6. Holdings'
  BY <1>0, <1>1 DEF Holdings, Holding, stop_subscribers, bus, PublicPCs, PrivatePCs
<1>7. Leftovers'
  BY <1>0, <1>1 DEF Leftovers, Ghost, stop_subscribers
<1> QED
  BY <1>2, <1>3, <1>4, <1>5, <1>6, <1>7 DEF Ind

LEMMA SubscriberSendsKeeps ==
    ASSUME Ind, NEW o \in Listeners, SubscriberSends(o)
    PROVE  Ind'
<1> USE NotSymbol, ChannelsApart
<1>0. TypeOK /\ Homes /\ Routes /\ Drained /\ Holdings /\ Leftovers
  BY DEF Ind
<1>1. PICK s \in task[o].left :
           /\ Sends(s, Chan(o), task[o].msg) \/ SendRaises(s)
           /\ \/ task' = [task EXCEPT ![o].left = @ \ {s}]
              \/ task' = [task EXCEPT ![o].left = @ \ {s}, ![o].dead = @ \cup {s}]
  BY DEF SubscriberSends
<1>2. s \in Sockets /\ Chan(o) \in Channels /\ hand[s].chan = Chan(o) /\ task[o].msg \in 0 .. MaxEvents
  <2>1. s \in Sockets /\ task[o].msg \in 0 .. MaxEvents
    BY <1>0, <1>1 DEF TypeOK, Task
  <2> QED
    BY <1>0, <1>1, <2>1 DEF Routes, Recipients
<1>3. /\ got' \in [Sockets -> Seq([chan : Channels, n : 0 .. MaxEvents])]
      /\ broken' \in [Sockets -> BOOLEAN] /\ \A x \in Sockets : broken[x] => broken'[x]
      /\ \A x \in Sockets : \A i \in DOMAIN got'[x] :
            \/ i \in DOMAIN got[x] /\ got'[x][i] = got[x][i]
            \/ got'[x][i].chan = hand[x].chan
  <2>1. /\ got' \in [Sockets -> Seq([chan : Channels, n : 0 .. MaxEvents])]
        /\ broken' \in [Sockets -> BOOLEAN] /\ \A x \in Sockets : broken[x] => broken'[x]
        /\ \A x \in Sockets : \A i \in DOMAIN got'[x] :
              \/ i \in DOMAIN got[x] /\ got'[x][i] = got[x][i]
              \/ x = s /\ got'[x][i].chan = Chan(o)
    BY <1>0, <1>1, <1>2, Sent
  <2> QED
    BY <1>2, <2>1
<1>4. /\ task' \in [Listeners -> Task]
      /\ \A x \in Listeners : task'[x].pc = task[x].pc /\ task'[x].left \subseteq task[x].left
  <2>1. task' \in {[task EXCEPT ![o].left = @ \ {s}],
                   [task EXCEPT ![o].left = @ \ {s}, ![o].dead = @ \cup {s}]}
    BY <1>1
  <2> QED
    BY <1>0, <1>2, <2>1, TaskShrinks
<1>5. TypeOK'
  BY <1>0, <1>3, <1>4 DEF TypeOK, SubscriberSends, bus
<1>6. Homes'
  BY <1>0, <1>4 DEF Homes, Home, SubscriberSends, PublicPCs, PrivatePCs
<1>7. Routes'
  <2>1. hand' = hand /\ conns' = conns
    BY DEF SubscriberSends
  <2>2. Members /\ Recipients /\ Heard
    BY <1>0 DEF Routes
  <2>3. \A x \in Listeners : Chan(x)' = Chan(x)
    BY ONLY <2>1, ChanKept
  <2>4. Members' /\ Recipients'
    BY ONLY <1>4, <2>1, <2>2, <2>3 DEF Members, Recipients
  <2>5. Heard'
    BY ONLY <1>3, <2>1, <2>2 DEF Heard
  <2> QED
    BY ONLY <2>4, <2>5 DEF Routes
<1>8. Drained'
  BY <1>0 DEF Drained, SubscriberSends, bus
<1>9. Holdings'
  BY <1>0, <1>4 DEF Holdings, Holding, SubscriberSends, bus, PublicPCs, PrivatePCs
<1>10. Leftovers'
  BY <1>0, <1>3, <1>4 DEF Leftovers, Ghost, SubscriberSends
<1> QED
  BY <1>5, <1>6, <1>7, <1>8, <1>9, <1>10 DEF Ind

LEMMA Connect_publicKeeps ==
    ASSUME Ind, NEW s \in Sockets, NEW c \in Symbols, connect_public(s, c)
    PROVE  Ind'
<1> USE NotSymbol, ChannelsApart
<1>0. TypeOK /\ Homes /\ Routes /\ Drained /\ Holdings /\ Leftovers
  BY DEF Ind
<1>1. hand[s].pc \in {"none", "auth"}
  BY <1>0 DEF connect_public, Homes, Home
<1>2. Unheard(s)
  BY <1>1, Fresh
<1>3. /\ hand' \in [Sockets -> Handler] /\ hand'[s].pc = "snapshot" /\ hand'[s].chan = c
      /\ \A x \in Sockets : x # s => hand'[x] = hand[x]
  <2> DEFINE h == [NoHandler EXCEPT !.pc = "snapshot", !.chan = c]
  <2>1. h \in Handler /\ h.pc = "snapshot" /\ h.chan = c
    BY NewPublic DEF PublicPCs
  <2> HIDE DEF h
  <2>2. hand' = [hand EXCEPT ![s] = h]
    BY DEF connect_public, h
  <2> QED
    BY <1>0, <2>1, <2>2 DEF TypeOK
<1>4. \A x \in Listeners : x # s => Chan(x)' = Chan(x)
  BY <1>3 DEF Chan, Listeners
<1>5. /\ conns' \in [Channels -> SUBSET Sockets]
      /\ \A x \in Channels : conns'[x] = IF x = c THEN conns[x] \cup {s} ELSE conns[x]
  BY <1>0 DEF connect_public, connect, TypeOK
<1>6. TypeOK'
  BY <1>0, <1>1, <1>2, <1>3, <1>4, <1>5 DEF TypeOK, connect_public, bus
<1>7. Homes'
  <2> SUFFICES ASSUME NEW x \in Sockets
               PROVE  Home(x)'
    BY DEF Homes
  <2>0. Home(x)
    BY <1>0 DEF Homes
  <2>1. CASE x = s
    BY <1>0, <1>1, <1>2, <1>3, <1>4, <2>0, <2>1 DEF Home, connect_public, PublicPCs, PrivatePCs, Unheard, TypeOK
  <2>2. CASE x # s
    BY <1>0, <1>1, <1>2, <1>3, <1>4, <2>0, <2>2 DEF Home, connect_public
  <2> QED
    BY <2>1, <2>2
<1>8. Routes'
  BY <1>0, <1>1, <1>2, <1>3, <1>4, <1>5, ChanOf DEF Routes, Members, Recipients, Heard, connect_public, Unheard
<1>9. Drained'
  BY <1>0, <1>2 DEF Drained, connect_public, bus
<1>10. Holdings'
  <2> SUFFICES ASSUME NEW x \in Sockets
               PROVE  Holding(x)'
    BY DEF Holdings
  <2>0. Holding(x)
    BY <1>0 DEF Holdings
  <2>1. CASE x = s
    BY <1>0, <1>1, <1>2, <1>3, <1>4, <2>0, <2>1 DEF Holding, connect_public, bus, PublicPCs, PrivatePCs, Unheard
  <2>2. CASE x # s
    BY <1>0, <1>1, <1>2, <1>3, <1>4, <2>0, <2>2 DEF Holding, connect_public, bus
  <2> QED
    BY <2>1, <2>2
<1>11. Leftovers'
  BY <1>0, <1>1, <1>2, <1>3, <1>4, <1>5 DEF Leftovers, Ghost, connect_public, Unheard
<1> QED
  BY <1>6, <1>7, <1>8, <1>9, <1>10, <1>11 DEF Ind

LEMMA AuthenticatedKeeps ==
    ASSUME Ind, NEW s \in Sockets, NEW u \in Users, NEW f \in BOOLEAN, Authenticated(s, u, f)
    PROVE  Ind'
<1> USE NotSymbol, ChannelsApart
<1>0. TypeOK /\ Homes /\ Routes /\ Drained /\ Holdings /\ Leftovers
  BY DEF Ind
<1>1. hand[s].pc \in {"none", "auth"}
  BY DEF Authenticated
<1>2. Unheard(s)
  BY <1>1, Fresh
<1>3. /\ hand' \in [Sockets -> Handler] /\ hand'[s].pc = "register" /\ hand'[s].chan = u
      /\ hand'[s].signer = u
      /\ \A x \in Sockets : x # s => hand'[x] = hand[x]
  <2> DEFINE h == [hand[s] EXCEPT !.pc = "register", !.chan = u]
  <2>1. h \in Handler /\ h.pc = "register" /\ h.chan = u /\ h.signer = u
    <3>1. hand[s] \in Handler /\ hand[s].signer = u
      BY <1>0 DEF Authenticated, verify_ws_signature, TypeOK
    <3>2. u \in Channels
      BY DEF Channels
    <3> QED
      BY ONLY <3>1, <3>2 DEF Handler, PrivatePCs
  <2>2. hand' = [hand EXCEPT ![s] = h]
    BY <1>0 DEF Authenticated, TypeOK
  <2> HIDE DEF h
  <2> QED
    BY <1>0, <2>1, <2>2 DEF TypeOK
<1>4. \A x \in Listeners : x # s => Chan(x)' = Chan(x)
  BY <1>3 DEF Chan, Listeners
<1>5. TypeOK'
  BY <1>0, <1>1, <1>2, <1>3, <1>4 DEF TypeOK, Authenticated, bus
<1>6. Homes'
  <2> SUFFICES ASSUME NEW x \in Sockets
               PROVE  Home(x)'
    BY DEF Homes
  <2>0. Home(x)
    BY <1>0 DEF Homes
  <2>1. CASE x = s
    BY <1>0, <1>1, <1>2, <1>3, <1>4, <2>0, <2>1 DEF Home, Authenticated, PublicPCs, PrivatePCs, Unheard
  <2>2. CASE x # s
    BY <1>0, <1>1, <1>2, <1>3, <1>4, <2>0, <2>2 DEF Home, Authenticated
  <2> QED
    BY <2>1, <2>2
<1>7. Routes'
  BY <1>0, <1>1, <1>2, <1>3, <1>4, ChanOf DEF Routes, Members, Recipients, Heard, Authenticated, Unheard
<1>8. Drained'
  BY <1>0, <1>2 DEF Drained, Authenticated, bus
<1>9. Holdings'
  <2> SUFFICES ASSUME NEW x \in Sockets
               PROVE  Holding(x)'
    BY DEF Holdings
  <2>0. Holding(x)
    BY <1>0 DEF Holdings
  <2>1. CASE x = s
    BY <1>0, <1>1, <1>2, <1>3, <1>4, <2>0, <2>1 DEF Holding, Authenticated, bus, PublicPCs, PrivatePCs, Unheard
  <2>2. CASE x # s
    BY <1>0, <1>1, <1>2, <1>3, <1>4, <2>0, <2>2 DEF Holding, Authenticated, bus
  <2> QED
    BY <2>1, <2>2
<1>10. Leftovers'
  BY <1>0, <1>1, <1>2, <1>3, <1>4 DEF Leftovers, Ghost, Authenticated, Unheard
<1> QED
  BY <1>5, <1>6, <1>7, <1>8, <1>9, <1>10 DEF Ind

LEMMA PrivateConnectsKeeps ==
    ASSUME Ind, NEW s \in Sockets, NEW u \in Users, PrivateConnects(s, u)
    PROVE  Ind'
<1> USE NotSymbol, ChannelsApart
<1>0. TypeOK /\ Homes /\ Routes /\ Drained /\ Holdings /\ Leftovers
  BY DEF Ind
<1>1. hand[s].pc \in {"none", "auth"}
  BY <1>0 DEF PrivateConnects, Homes, Home
<1>2. Unheard(s)
  BY <1>1, Fresh
<1>3. /\ hand' \in [Sockets -> Handler] /\ hand'[s].pc = "auth" /\ hand'[s].chan = NoOne
      /\ \A x \in Sockets : x # s => hand'[x] = hand[x]
  <2> DEFINE h == [NoHandler EXCEPT !.pc = "auth", !.signer = u]
  <2>1. h \in Handler /\ h.pc = "auth" /\ h.chan = NoOne
    BY NewPrivate
  <2> HIDE DEF h
  <2>2. hand' = [hand EXCEPT ![s] = h]
    BY DEF PrivateConnects, h
  <2> QED
    BY <1>0, <2>1, <2>2 DEF TypeOK
<1>4. \A x \in Sockets : hand'[x].chan = hand[x].chan
  BY <1>2, <1>3 DEF Unheard
<1>5. TypeOK'
  BY <1>0, <1>1, <1>2, <1>3, <1>4 DEF TypeOK, PrivateConnects, bus
<1>6. Homes'
  <2> SUFFICES ASSUME NEW x \in Sockets
               PROVE  Home(x)'
    BY DEF Homes
  <2>0. Home(x)
    BY <1>0 DEF Homes
  <2>1. CASE x = s
    BY <1>0, <1>1, <1>2, <1>3, <1>4, <2>0, <2>1 DEF Home, PrivateConnects, PublicPCs, PrivatePCs, Unheard, TypeOK
  <2>2. CASE x # s
    BY <1>0, <1>1, <1>2, <1>3, <1>4, <2>0, <2>2 DEF Home, PrivateConnects
  <2> QED
    BY <2>1, <2>2
<1>7. Routes'
  BY <1>0, <1>1, <1>2, <1>3, <1>4, ChanKept DEF Routes, Members, Recipients, Heard, PrivateConnects
<1>8. Drained'
  BY <1>0, <1>2 DEF Drained, PrivateConnects, bus
<1>9. Holdings'
  <2> SUFFICES ASSUME NEW x \in Sockets
               PROVE  Holding(x)'
    BY DEF Holdings
  <2>0. Holding(x)
    BY <1>0 DEF Holdings
  <2>1. CASE x = s
    BY <1>0, <1>1, <1>2, <1>3, <1>4, <2>0, <2>1 DEF Holding, PrivateConnects, bus, PublicPCs, PrivatePCs, Unheard
  <2>2. CASE x # s
    BY <1>0, <1>1, <1>2, <1>3, <1>4, <2>0, <2>2 DEF Holding, PrivateConnects, bus
  <2> QED
    BY <2>1, <2>2
<1>10. Leftovers'
  BY <1>0, <1>1, <1>2, <1>3, <1>4 DEF Leftovers, Ghost, PrivateConnects, Unheard
<1> QED
  BY <1>5, <1>6, <1>7, <1>8, <1>9, <1>10 DEF Ind

LEMMA SnapshotReadsKeeps ==
    ASSUME Ind, NEW s \in Sockets, SnapshotReads(s)
    PROVE  Ind'
<1> USE NotSymbol, ChannelsApart
<1>0. TypeOK /\ Homes /\ Routes /\ Drained /\ Holdings /\ Leftovers
  BY DEF Ind
<1>1. faults' \in 0 .. MaxFaults
  BY <1>0, WebSocketsAssumption DEF SnapshotReads, TypeOK
<1>2. /\ hand' \in [Sockets -> Handler]
      /\ \A x \in Sockets : /\ hand'[x].chan = hand[x].chan /\ hand'[x].signer = hand[x].signer
                            /\ x # s => hand'[x].pc = hand[x].pc
      /\ hand[s].pc = "snapshot" /\ hand'[s].pc \in {"snapshotsend", "subscribe"}
  <2>1. sent[hand[s].chan] \in 0 .. MaxEvents
    BY <1>0 DEF SnapshotReads, Homes, Home, TypeOK, PublicPCs
  <2>2. CASE Goto(s, "subscribe")
    BY <1>0, <2>2, Moved DEF SnapshotReads, HandlerPCs, PublicPCs
  <2>3. CASE hand' = [hand EXCEPT ![s].pc = "snapshotsend", ![s].book = sent[hand[s].chan]]
    <3> DEFINE h == [hand[s] EXCEPT !.pc = "snapshotsend", !.book = sent[hand[s].chan]]
    <3>0. hand[s] \in Handler
      BY <1>0 DEF TypeOK
    <3>1. /\ h \in Handler /\ h.pc = "snapshotsend"
          /\ h.chan = hand[s].chan /\ h.signer = hand[s].signer
      BY <2>1, <3>0, BookRead
    <3>2. hand' = [hand EXCEPT ![s] = h]
      BY <1>0, <2>3 DEF TypeOK
    <3> HIDE DEF h
    <3> QED
      BY <1>0, <3>1, <3>2 DEF SnapshotReads, TypeOK
  <2> QED
    BY <2>2, <2>3 DEF SnapshotReads
<1>3. TypeOK'
  BY <1>0, <1>2, <1>1 DEF TypeOK, SnapshotReads, bus
<1>4. Homes'
  BY <1>0, <1>2 DEF Homes, Home, SnapshotReads, PublicPCs, PrivatePCs
<1>5. Routes'
  BY <1>0, <1>2, ChanKept DEF Routes, Members, Recipients, Heard, SnapshotReads
<1>6. Drained'
  BY <1>0 DEF Drained, SnapshotReads, bus
<1>7. Holdings'
  <2> SUFFICES ASSUME NEW x \in Sockets
               PROVE  Holding(x)'
    BY DEF Holdings
  <2>0. Holding(x)
    BY <1>0 DEF Holdings
  <2>1. CASE x = s
    BY <1>0, <1>2, <2>0, <2>1 DEF Holding, SnapshotReads, bus, PublicPCs, PrivatePCs
  <2>2. CASE x # s
    BY <1>0, <1>2, <2>0, <2>2 DEF Holding, SnapshotReads, bus
  <2> QED
    BY <2>1, <2>2
<1>8. Leftovers'
  BY <1>0, <1>2 DEF Leftovers, Ghost, SnapshotReads
<1> QED
  BY <1>3, <1>4, <1>5, <1>6, <1>7, <1>8 DEF Ind

LEMMA SnapshotSendsKeeps ==
    ASSUME Ind, NEW s \in Sockets, SnapshotSends(s)
    PROVE  Ind'
<1> USE NotSymbol, ChannelsApart
<1>0. TypeOK /\ Homes /\ Routes /\ Drained /\ Holdings /\ Leftovers
  BY DEF Ind
<1>1. hand[s].chan \in Channels
  BY <1>0 DEF SnapshotSends, Homes, Home, PublicPCs
<1>2. /\ got' \in [Sockets -> Seq([chan : Channels, n : 0 .. MaxEvents])]
      /\ broken' \in [Sockets -> BOOLEAN] /\ \A x \in Sockets : broken[x] => broken'[x]
      /\ \A x \in Sockets : \A i \in DOMAIN got'[x] :
            \/ i \in DOMAIN got[x] /\ got'[x][i] = got[x][i]
            \/ got'[x][i].chan = hand[x].chan
  <2>1. hand[s].book \in 0 .. MaxEvents
    BY <1>0 DEF TypeOK, Handler
  <2>2. Sends(s, hand[s].chan, hand[s].book) \/ SendRaises(s)
    BY DEF SnapshotSends
  <2> QED
    BY <1>0, <1>1, <2>1, <2>2, SentOwn
<1>3. /\ hand' \in [Sockets -> Handler]
      /\ \A x \in Sockets : /\ hand'[x].chan = hand[x].chan /\ hand'[x].signer = hand[x].signer
                            /\ hand'[x].pc = IF x = s THEN "subscribe" ELSE hand[x].pc
  BY <1>0, Moved DEF SnapshotSends, HandlerPCs, PublicPCs, PrivatePCs
<1>4. TypeOK'
  BY <1>0, <1>2, <1>3 DEF TypeOK, SnapshotSends, bus
<1>5. Homes'
  BY <1>0, <1>3 DEF Homes, Home, SnapshotSends, PublicPCs, PrivatePCs
<1>6. Routes'
  <2>1. Members'
    BY <1>0, <1>3 DEF Routes, Members, SnapshotSends
  <2>2. Recipients'
    BY <1>0, <1>3, ChanKept DEF Routes, Recipients, SnapshotSends
  <2>3. Heard'
    BY <1>0, <1>2, <1>3 DEF Routes, Heard, SnapshotSends
  <2> QED
    BY <2>1, <2>2, <2>3 DEF Routes
<1>7. Drained'
  BY <1>0 DEF Drained, SnapshotSends, bus
<1>8. Holdings'
  <2> SUFFICES ASSUME NEW x \in Sockets
               PROVE  Holding(x)'
    BY DEF Holdings
  <2>0. Holding(x)
    BY <1>0 DEF Holdings
  <2>1. CASE x = s
    BY <1>0, <1>3, <2>0, <2>1 DEF Holding, SnapshotSends, bus, PublicPCs, PrivatePCs
  <2>2. CASE x # s
    BY <1>0, <1>3, <2>0, <2>2 DEF Holding, SnapshotSends, bus
  <2> QED
    BY <2>1, <2>2
<1>9. Leftovers'
  BY <1>0, <1>2, <1>3 DEF Leftovers, Ghost, SnapshotSends
<1> QED
  BY <1>4, <1>5, <1>6, <1>7, <1>8, <1>9 DEF Ind

LEMMA PublicReceivesKeeps ==
    ASSUME Ind, NEW s \in Sockets, PublicReceives(s)
    PROVE  Ind'
<1> USE NotSymbol, ChannelsApart
<1>0. TypeOK /\ Homes /\ Routes /\ Drained /\ Holdings /\ Leftovers
  BY DEF Ind
<1>1. /\ hand' \in [Sockets -> Handler]
      /\ \A x \in Sockets : /\ hand'[x].chan = hand[x].chan /\ hand'[x].signer = hand[x].signer
                            /\ x # s => hand'[x].pc = hand[x].pc
      /\ hand'[s].pc \in {"leave", "poll"}
  <2>1. \E pc \in {"leave", "poll"} : Goto(s, pc)
    BY DEF PublicReceives
  <2> QED
    BY <1>0, <2>1, Moved DEF HandlerPCs, PublicPCs
<1>2. TypeOK'
  BY <1>0, <1>1 DEF TypeOK, PublicReceives, bus
<1>3. Homes'
  BY <1>0, <1>1 DEF Homes, Home, PublicReceives, PublicPCs, PrivatePCs
<1>4. Routes'
  BY <1>0, <1>1, ChanKept DEF Routes, Members, Recipients, Heard, PublicReceives
<1>5. Drained'
  BY <1>0 DEF Drained, PublicReceives, bus
<1>6. Holdings'
  <2> SUFFICES ASSUME NEW x \in Sockets
               PROVE  Holding(x)'
    BY DEF Holdings
  <2>0. Holding(x)
    BY <1>0 DEF Holdings
  <2>1. CASE x = s
    BY <1>0, <1>1, <2>0, <2>1 DEF Holding, PublicReceives, bus, PublicPCs, PrivatePCs
  <2>2. CASE x # s
    BY <1>0, <1>1, <2>0, <2>2 DEF Holding, PublicReceives, bus
  <2> QED
    BY <2>1, <2>2
<1>7. Leftovers'
  BY <1>0, <1>1 DEF Leftovers, Ghost, PublicReceives
<1> QED
  BY <1>2, <1>3, <1>4, <1>5, <1>6, <1>7 DEF Ind

LEMMA PublicPollsKeeps ==
    ASSUME Ind, NEW s \in Sockets, PublicPolls(s)
    PROVE  Ind'
<1> USE NotSymbol, ChannelsApart
<1>0. TypeOK /\ Homes /\ Routes /\ Drained /\ Holdings /\ Leftovers
  BY DEF Ind
<1>1. hand[s].chan \in Channels /\ Chan(s) = hand[s].chan
  BY <1>0, ChanOf DEF PublicPolls, Homes, Home, PublicPCs
<1>2. /\ hand' \in [Sockets -> Handler]
      /\ \A x \in Sockets : /\ hand'[x].chan = hand[x].chan /\ hand'[x].signer = hand[x].signer
                            /\ hand'[x].pc = IF x = s THEN "receive" ELSE hand[x].pc
  BY <1>0, Moved DEF PublicPolls, HandlerPCs, PublicPCs, PrivatePCs
<1>3. /\ sub' \in [Listeners -> {"off", "on", "lost"}] /\ inbox' \in [Listeners -> Seq(0 .. MaxEvents)]
      /\ sent' = sent /\ since' \in [Listeners -> 0 .. MaxEvents]
      /\ \A x \in Listeners : x # s => sub'[x] = sub[x] /\ inbox'[x] = inbox[x]
      /\ sub'[s] = "off" => sub[s] = "off" /\ inbox'[s] = inbox[s]
  <2>1. CASE inbox[s] # <<>> /\ Consume(s)
    <3>1. s \in Listeners
      BY DEF Listeners
    <3>2. /\ inbox' \in [Listeners -> Seq(0 .. MaxEvents)] /\ sub' = sub /\ sent' = sent /\ since' = since
          /\ \A x \in Listeners : x # s => inbox'[x] = inbox[x]
      BY ONLY <1>0, <2>1, <3>1, Consumed
    <3>3. sub[s] # "off"
      BY ONLY <1>0, <2>1, <3>1 DEF Drained
    <3>4. sub \in [Listeners -> {"off", "on", "lost"}] /\ since \in [Listeners -> 0 .. MaxEvents]
      BY <1>0 DEF TypeOK
    <3> QED
      BY ONLY <3>2, <3>3, <3>4
  <2>2. CASE subscribe(s)
    BY <1>0, <1>1, <2>2, Subscribed DEF TypeOK
  <2>3. CASE bus' = bus
    BY <1>0, <2>3 DEF bus, TypeOK
  <2> QED
    BY <2>1, <2>2, <2>3 DEF PublicPolls, bus
<1>4. /\ got' \in [Sockets -> Seq([chan : Channels, n : 0 .. MaxEvents])]
      /\ broken' \in [Sockets -> BOOLEAN] /\ \A x \in Sockets : broken[x] => broken'[x]
      /\ \A x \in Sockets : \A i \in DOMAIN got'[x] :
            \/ i \in DOMAIN got[x] /\ got'[x][i] = got[x][i]
            \/ got'[x][i].chan = hand[x].chan
  <2>1. CASE inbox[s] # <<>> /\ (Sends(s, hand[s].chan, Head(inbox[s])) \/ SendRaises(s)) /\ Consume(s)
    <3>1. Head(inbox[s]) \in 0 .. MaxEvents
      BY <1>0, <2>1, Consumed
    <3> QED
      BY <1>0, <1>1, <2>1, <3>1, SentOwn
  <2>2. CASE UNCHANGED <<got, broken>>
    BY <1>0, <2>2 DEF TypeOK
  <2> QED
    BY <2>1, <2>2 DEF PublicPolls
<1>5. TypeOK'
  BY <1>0, <1>2, <1>3, <1>4 DEF TypeOK, PublicPolls, bus
<1>6. Homes'
  BY <1>0, <1>2 DEF Homes, Home, PublicPolls, PublicPCs, PrivatePCs
<1>7. Routes'
  <2>1. Members'
    BY <1>0, <1>2 DEF Routes, Members, PublicPolls
  <2>2. Recipients'
    BY <1>0, <1>2, ChanKept DEF Routes, Recipients, PublicPolls
  <2>3. Heard'
    BY <1>0, <1>2, <1>4 DEF Routes, Heard, PublicPolls
  <2> QED
    BY <2>1, <2>2, <2>3 DEF Routes
<1>8. Drained'
  BY <1>0, <1>3 DEF Drained, PublicPolls, bus
<1>9. Holdings'
  <2> SUFFICES ASSUME NEW x \in Sockets
               PROVE  Holding(x)'
    BY DEF Holdings
  <2>0. Holding(x)
    BY <1>0 DEF Holdings
  <2>1. CASE x = s
    BY <1>0, <1>2, <1>3, <2>0, <2>1 DEF Holding, PublicPolls, bus, PublicPCs, PrivatePCs, Homes, Home
  <2>2. CASE x # s
    BY <1>0, <1>2, <1>3, <2>0, <2>2 DEF Holding, PublicPolls, bus
  <2> QED
    BY <2>1, <2>2
<1>10. Leftovers'
  BY <1>0, <1>2, <1>4 DEF Leftovers, Ghost, PublicPolls
<1> QED
  BY <1>5, <1>6, <1>7, <1>8, <1>9, <1>10 DEF Ind

LEMMA Listen_pubsubKeeps ==
    ASSUME Ind, NEW s \in Sockets, listen_pubsub(s)
    PROVE  Ind'
<1> USE NotSymbol, ChannelsApart
<1>0. TypeOK /\ Homes /\ Routes /\ Drained /\ Holdings /\ Leftovers
  BY DEF Ind
<1>1. /\ hand[s].chan \in Symbols /\ Chan(s) = hand[s].chan /\ hand[s].chan \in Channels
      /\ task[s].pc = "listen" /\ hand' = hand
  BY <1>0, ChanOf DEF listen_pubsub, Homes, Home, ManagerTask, Channels
<1>2. /\ sub' \in [Listeners -> {"off", "on", "lost"}] /\ inbox' \in [Listeners -> Seq(0 .. MaxEvents)]
      /\ sent' = sent /\ since' = since /\ sub' = sub
      /\ \A x \in Listeners : x # s => inbox'[x] = inbox[x]
      /\ sub[s] = "off" => inbox'[s] = inbox[s]
  <2>1. CASE inbox[s] # <<>> /\ Consume(s)
    BY <1>0, <2>1, Consumed DEF Drained, TypeOK
  <2>2. CASE bus' = bus
    BY <1>0, <2>2 DEF bus, TypeOK
  <2> QED
    BY <2>1, <2>2 DEF listen_pubsub, bus
<1>3. /\ got' \in [Sockets -> Seq([chan : Channels, n : 0 .. MaxEvents])]
      /\ broken' \in [Sockets -> BOOLEAN] /\ \A x \in Sockets : broken[x] => broken'[x]
      /\ \A x \in Sockets : \A i \in DOMAIN got'[x] :
            \/ i \in DOMAIN got[x] /\ got'[x][i] = got[x][i]
            \/ got'[x][i].chan = hand[x].chan
  <2>1. CASE inbox[s] # <<>> /\ (Sends(s, hand[s].chan, Head(inbox[s])) \/ SendRaises(s)) /\ Consume(s)
    <3>1. Head(inbox[s]) \in 0 .. MaxEvents
      BY <1>0, <2>1, Consumed
    <3> QED
      BY <1>0, <1>1, <2>1, <3>1, SentOwn
  <2>2. CASE UNCHANGED <<got, broken>>
    BY <1>0, <2>2 DEF TypeOK
  <2> QED
    BY <2>1, <2>2 DEF listen_pubsub
<1>4. /\ task' \in [Listeners -> Task]
      /\ \A x \in Listeners : task'[x].left = task[x].left /\ (x # s => task'[x].pc = task[x].pc)
      /\ task'[s].pc \in {"listen", "done"}
  <2>1. MovedTo(s, "done")
    BY <1>0, TaskPut DEF TaskPCs
  <2>2. CASE task' = task
    BY <1>0, <1>1, <2>2 DEF TypeOK
  <2>3. CASE task' = [task EXCEPT ![s].pc = "done"]
    BY <2>1, <2>3 DEF MovedTo
  <2> QED
    BY <2>2, <2>3 DEF listen_pubsub
<1>5. TypeOK'
  BY <1>0, <1>1, <1>2, <1>3, <1>4 DEF TypeOK, listen_pubsub, bus
<1>6. Homes'
  BY <1>0, <1>1, <1>4 DEF Homes, Home, listen_pubsub, PublicPCs, PrivatePCs
<1>7. Routes'
  <2>1. Members'
    BY <1>0, <1>1 DEF Routes, Members, listen_pubsub
  <2>2. Recipients'
    BY <1>0, <1>1, <1>4, ChanKept DEF Routes, Recipients, listen_pubsub
  <2>3. Heard'
    BY <1>0, <1>1, <1>3 DEF Routes, Heard
  <2> QED
    BY <2>1, <2>2, <2>3 DEF Routes
<1>8. Drained'
  BY <1>0, <1>2 DEF Drained, listen_pubsub, bus
<1>9. Holdings'
  <2> SUFFICES ASSUME NEW x \in Sockets
               PROVE  Holding(x)'
    BY DEF Holdings
  <2>0. Holding(x)
    BY <1>0 DEF Holdings
  <2>1. CASE x = s
    BY <1>0, <1>1, <1>2, <1>4, <2>0, <2>1 DEF Holding, listen_pubsub, bus, PublicPCs, PrivatePCs
  <2>2. CASE x # s
    BY <1>0, <1>1, <1>2, <1>4, <2>0, <2>2 DEF Holding, listen_pubsub, bus
  <2> QED
    BY <2>1, <2>2
<1>10. Leftovers'
  BY <1>0, <1>1, <1>3, <1>4 DEF Leftovers, Ghost, listen_pubsub
<1> QED
  BY <1>5, <1>6, <1>7, <1>8, <1>9, <1>10 DEF Ind

LEMMA PublicSubscribesKeeps ==
    ASSUME Ind, NEW s \in Sockets, PublicSubscribes(s)
    PROVE  Ind'
<1> USE NotSymbol, ChannelsApart
<1>0. TypeOK /\ Homes /\ Routes /\ Drained /\ Holdings /\ Leftovers
  BY DEF Ind
<1>1. hand[s].chan \in Symbols /\ Chan(s) = hand[s].chan /\ hand[s].chan \in Channels /\ hand[s].pc = "subscribe"
  BY <1>0, ChanOf DEF PublicSubscribes, Homes, Home, PublicPCs
<1>2. faults' \in 0 .. MaxFaults
  BY <1>0, WebSocketsAssumption DEF PublicSubscribes, TypeOK
<1>3. /\ hand' \in [Sockets -> Handler]
      /\ \A x \in Sockets : /\ hand'[x].chan = hand[x].chan /\ hand'[x].signer = hand[x].signer
                            /\ x # s => hand'[x].pc = hand[x].pc
      /\ hand'[s].pc \in {"poll", "receive"} /\ (profile.edition = "older" => hand'[s].pc = "receive")
  <2>1. \E pc \in {"poll", "receive"} : Goto(s, pc) /\ (profile.edition = "older" => pc = "receive")
    BY DEF PublicSubscribes
  <2> QED
    BY <1>0, <2>1, Moved DEF HandlerPCs, PublicPCs
<1>4. /\ sub' \in [Listeners -> {"off", "on", "lost"}] /\ inbox' = inbox
      /\ sent' = sent /\ since' \in [Listeners -> 0 .. MaxEvents]
      /\ \A x \in Listeners : x # s => sub'[x] = sub[x]
      /\ sub'[s] = "off" => sub[s] = "off"
  <2>1. CASE subscribe(s)
    BY <1>0, <1>1, <2>1, Subscribed
  <2>2. CASE bus' = bus
    BY <1>0, <2>2 DEF bus, TypeOK
  <2> QED
    BY <2>1, <2>2 DEF PublicSubscribes, bus
<1>5. /\ task' \in [Listeners -> Task]
      /\ \A x \in Listeners : task'[x].left = task[x].left /\ (x # s => task'[x].pc = task[x].pc)
      /\ task'[s].pc \in {"none", "listen"}
      /\ profile.edition = "current" => task'[s].pc = "none"
  <2>1. MovedTo(s, "listen")
    BY <1>0, TaskPut DEF TaskPCs
  <2>2. CASE task' = task
    BY <1>0, <1>1, <2>2 DEF TypeOK, Holdings, Holding
  <2>3. CASE profile.edition = "older" /\ task' = [task EXCEPT ![s].pc = "listen"]
    BY <2>1, <2>3 DEF MovedTo
  <2> QED
    BY <2>2, <2>3 DEF PublicSubscribes
<1>6. TypeOK'
  BY <1>0, <1>1, <1>3, <1>4, <1>5, <1>2 DEF TypeOK, PublicSubscribes, bus
<1>7. Homes'
  BY <1>0, <1>1, <1>3, <1>5 DEF Homes, Home, PublicSubscribes, PublicPCs, PrivatePCs
<1>8. Routes'
  BY <1>0, <1>1, <1>3, <1>5, ChanKept DEF Routes, Members, Recipients, Heard, PublicSubscribes
<1>9. Drained'
  BY <1>0, <1>4 DEF Drained, PublicSubscribes, bus
<1>10. Holdings'
  <2> SUFFICES ASSUME NEW x \in Sockets
               PROVE  Holding(x)'
    BY DEF Holdings
  <2>0. Holding(x)
    BY <1>0 DEF Holdings
  <2>1. CASE x = s
    BY <1>0, <1>1, <1>3, <1>4, <1>5, <2>0, <2>1, Edition DEF Holding, PublicSubscribes, bus, PublicPCs, PrivatePCs, PublicPCs
  <2>2. CASE x # s
    BY <1>0, <1>1, <1>3, <1>4, <1>5, <2>0, <2>2 DEF Holding, PublicSubscribes, bus
  <2> QED
    BY <2>1, <2>2
<1>11. Leftovers'
  BY <1>0, <1>1, <1>3, <1>5 DEF Leftovers, Ghost, PublicSubscribes
<1> QED
  BY <1>6, <1>7, <1>8, <1>9, <1>10, <1>11 DEF Ind

LEMMA GreetsKeeps ==
    ASSUME Ind, NEW s \in Sockets, Greets(s)
    PROVE  Ind'
<1> USE NotSymbol, ChannelsApart
<1>0. TypeOK /\ Homes /\ Routes /\ Drained /\ Holdings /\ Leftovers
  BY DEF Ind
<1>1. hand[s].pc = "greet" /\ hand[s].chan \in Users
  BY <1>0 DEF Greets, Homes, Home, PrivatePCs
<1>2. task[s].pc = "none" /\ sub[s] = "off"
  BY <1>0, <1>1 DEF Holdings, Holding
<1>3. \/ /\ hand'[s].pc = "receive" /\ task'[s].pc = "subscribe" /\ UNCHANGED <<client, broken, got>>
         /\ Goto(s, "receive") /\ task' = [task EXCEPT ![s].pc = "subscribe"]
      \/ /\ hand'[s].pc = "ended" /\ UNCHANGED <<task, got>> /\ SendRaises(s) /\ Ends(s)
  <2>1. MovedTo(s, "subscribe")
    BY <1>0, TaskPut DEF TaskPCs
  <2>2. CASE Goto(s, "receive") /\ task' = [task EXCEPT ![s].pc = "subscribe"] /\ UNCHANGED <<client, broken, got>>
    <3>1. hand'[s].pc = "receive"
      BY <1>0, <2>2, Moved DEF HandlerPCs
    <3> QED
      BY <2>1, <2>2, <3>1 DEF MovedTo
  <2>3. CASE SendRaises(s) /\ Ends(s) /\ UNCHANGED task
    BY <1>0, <2>3, Ended DEF SendRaises
  <2> QED
    BY <2>2, <2>3 DEF Greets
<1>4. /\ hand' \in [Sockets -> Handler]
      /\ \A x \in Sockets : /\ hand'[x].chan = hand[x].chan /\ hand'[x].signer = hand[x].signer
                            /\ x # s => hand'[x].pc = hand[x].pc /\ client'[x] = client[x]
      /\ client' \in [Sockets -> {"absent", "open", "closed"}]
      /\ client'[s] # "absent"
      /\ hand'[s].pc \in {"receive", "ended"}
  <2>1. client[s] # "absent"
    BY <1>0, <1>1 DEF Homes, Home
  <2>2. CASE Goto(s, "receive") /\ client' = client
    <3>1. "receive" \in HandlerPCs
      BY DEF HandlerPCs
    <3>2. /\ hand' \in [Sockets -> Handler]
          /\ \A x \in Sockets : /\ hand'[x].chan = hand[x].chan /\ hand'[x].signer = hand[x].signer
                                /\ hand'[x].pc = IF x = s THEN "receive" ELSE hand[x].pc
      BY ONLY <1>0, <2>2, <3>1, s \in Sockets, Moved
    <3>3. client \in [Sockets -> {"absent", "open", "closed"}]
      BY <1>0 DEF TypeOK
    <3> QED
      BY ONLY <2>1, <2>2, <3>2, <3>3, s \in Sockets
  <2>3. CASE Ends(s)
    BY <1>0, <2>3, Ended
  <2> QED
    BY <1>3, <2>2, <2>3
<1>5. /\ task' \in [Listeners -> Task]
      /\ \A x \in Listeners : task'[x].left = task[x].left /\ (x # s => task'[x].pc = task[x].pc)
      /\ task'[s].pc = IF hand'[s].pc = "receive" THEN "subscribe" ELSE "none"
  <2>1. MovedTo(s, "subscribe")
    BY <1>0, TaskPut DEF TaskPCs
  <2>2. CASE task' = [task EXCEPT ![s].pc = "subscribe"] /\ hand'[s].pc = "receive"
    BY <2>1, <2>2 DEF MovedTo
  <2>3. CASE task' = task /\ hand'[s].pc = "ended"
    BY <1>0, <1>2, <2>3 DEF TypeOK
  <2> QED
    BY <1>3, <2>2, <2>3
<1>6. /\ broken' \in [Sockets -> BOOLEAN] /\ got' = got
      /\ \A x \in Sockets : broken[x] => broken'[x]
      /\ hand'[s].pc = "ended" => broken'[s]
  <2>1. CASE UNCHANGED <<broken, got>> /\ hand'[s].pc = "receive"
    BY <1>0, <2>1 DEF TypeOK
  <2>2. CASE SendRaises(s)
    BY <1>0, <2>2 DEF TypeOK, SendRaises
  <2> QED
    BY <1>3, <2>1, <2>2
<1>7. TypeOK'
  BY <1>0, <1>1, <1>2, <1>4, <1>5, <1>6 DEF TypeOK, Greets, bus
<1>8. Homes'
  BY <1>0, <1>1, <1>2, <1>4, <1>5 DEF Homes, Home, Greets, PublicPCs, PrivatePCs
<1>9. Routes'
  BY <1>0, <1>1, <1>2, <1>4, <1>5, <1>6, ChanKept DEF Routes, Members, Recipients, Heard, Greets
<1>10. Drained'
  BY <1>0, <1>2 DEF Drained, Greets, bus
<1>11. Holdings'
  <2> SUFFICES ASSUME NEW x \in Sockets
               PROVE  Holding(x)'
    BY DEF Holdings
  <2>0. Holding(x)
    BY <1>0 DEF Holdings
  <2>1. CASE x = s
    BY <1>0, <1>1, <1>2, <1>4, <1>5, <2>0, <2>1 DEF Holding, Greets, bus, PublicPCs, PrivatePCs
  <2>2. CASE x # s
    BY <1>0, <1>1, <1>2, <1>4, <1>5, <2>0, <2>2 DEF Holding, Greets, bus
  <2> QED
    BY <2>1, <2>2
<1>12. Leftovers'
  BY <1>0, <1>1, <1>2, <1>4, <1>5, <1>6 DEF Leftovers, Ghost, Greets
<1> QED
  BY <1>7, <1>8, <1>9, <1>10, <1>11, <1>12 DEF Ind

LEMMA Disconnect_privateKeeps ==
    ASSUME Ind, NEW s \in Sockets, disconnect_private(s)
    PROVE  Ind'
<1> USE NotSymbol, ChannelsApart
<1>0. TypeOK /\ Homes /\ Routes /\ Drained /\ Holdings /\ Leftovers
  BY DEF Ind
<1>1. /\ hand' \in [Sockets -> Handler]
      /\ \A x \in Sockets : /\ hand'[x].chan = hand[x].chan /\ hand'[x].signer = hand[x].signer
                            /\ hand'[x].pc = IF x = s THEN "await" ELSE hand[x].pc
  BY <1>0, Moved DEF disconnect_private, HandlerPCs, PublicPCs, PrivatePCs
<1>2. /\ conns' \in [Channels -> SUBSET Sockets] /\ hand[s].chan \in Channels
      /\ \A x \in Channels : conns'[x] = IF x = hand[s].chan THEN conns[x] \ {s} ELSE conns[x]
  BY <1>0 DEF disconnect_private, disconnect, TypeOK, Homes, Home, PublicPCs, PrivatePCs
<1>3. /\ task' \in [Listeners -> Task]
      /\ \A x \in Listeners : x # s => task'[x] = task[x]
      /\ \A x \in Listeners : task'[x].left \subseteq task[x].left
      /\ task'[s].pc \in {"canceled", "done"}
      /\ task'[s].pc = "done" => task[s].pc = "done"
  <2>0. task' = Cancel({s}) /\ {s} \in SUBSET Listeners
    BY DEF disconnect_private
  <2>1. /\ task' \in [Listeners -> Task]
        /\ \A x \in Listeners :
              \/ x = s /\ task'[x] = [NoTask EXCEPT !.pc = "canceled"]
              \/ (x = s => task[x].pc = "done") /\ task'[x] = task[x]
    BY <1>0, <2>0, Canceled
  <2> QED
    BY <2>1, IdleTask DEF TaskPCs
<1>4. TypeOK'
  BY <1>0, <1>1, <1>2, <1>3 DEF TypeOK, disconnect_private, bus
<1>5. Homes'
  <2> SUFFICES ASSUME NEW x \in Sockets
               PROVE  Home(x)'
    BY DEF Homes
  <2>0. Home(x)
    BY <1>0 DEF Homes
  <2>1. CASE x = s
    BY <1>0, <1>1, <1>3, <2>0, <2>1 DEF Home, disconnect_private, PublicPCs, PrivatePCs, Holdings, Holding
  <2>2. CASE x # s
    BY <1>0, <1>1, <1>3, <2>0, <2>2 DEF Home, disconnect_private
  <2> QED
    BY <2>1, <2>2
<1>6. Routes'
  <2>1. Members'
    BY <1>0, <1>1, <1>2 DEF Routes, Members, disconnect_private
  <2>2. Recipients'
    BY <1>0, <1>1, <1>3, ChanKept DEF Routes, Recipients, disconnect_private
  <2>3. Heard'
    BY <1>0, <1>1 DEF Routes, Heard, disconnect_private
  <2> QED
    BY <2>1, <2>2, <2>3 DEF Routes
<1>7. Drained'
  BY <1>0 DEF Drained, disconnect_private, bus
<1>8. Holdings'
  <2> SUFFICES ASSUME NEW x \in Sockets
               PROVE  Holding(x)'
    BY DEF Holdings
  <2>0. Holding(x)
    BY <1>0 DEF Holdings
  <2>1. CASE x = s
    BY <1>0, <1>1, <1>3, <2>0, <2>1 DEF Holding, disconnect_private, bus, PublicPCs, PrivatePCs, Homes, Home
  <2>2. CASE x # s
    BY <1>0, <1>1, <1>3, <2>0, <2>2 DEF Holding, disconnect_private, bus
  <2> QED
    BY <2>1, <2>2
<1>9. Leftovers'
  <2> SUFFICES ASSUME NEW x \in Sockets, NEW c \in Channels, x \in conns'[c]
               PROVE  hand'[x].pc # "await" /\ (hand'[x].pc = "ended" => Ghost(x)')
    BY DEF Leftovers
  <2>1. x # s /\ x \in conns[c]
    BY <1>0, <1>2 DEF Routes, Members
  <2> QED
    BY <1>0, <1>1, <1>3, <2>1 DEF Leftovers, Ghost, disconnect_private
<1> QED
  BY <1>4, <1>5, <1>6, <1>7, <1>8, <1>9 DEF Ind

LEMMA InitKeeps == Init => Ind
<1> SUFFICES ASSUME Init
             PROVE  Ind
  OBVIOUS
<1> USE NotSymbol, ChannelsApart
<1>1. /\ \A s \in Sockets : /\ hand[s] = NoHandler /\ client[s] = "absent" /\ DOMAIN got[s] = {}
                            /\ broken[s] = FALSE
      /\ \A o \in Listeners : sub[o] = "off" /\ inbox[o] = <<>>
      /\ \A c \in Channels : conns[c] = {}
  BY DEF Init
<1>2. NoHandler \in Handler /\ NoHandler.pc = "none" /\ NoHandler.chan = NoOne
  <2>1. 0 \in 0 .. MaxEvents
    BY WebSocketsAssumption
  <2> QED
    BY <2>1 DEF NoHandler, Handler
<1>3. /\ task \in [Listeners -> Task] /\ running \in BOOLEAN
      /\ \A o \in Listeners : task[o].left = {} /\ (o \notin Symbols => task[o].pc = "none")
  <2>1. PICK active \in SUBSET Symbols : start_subscribers(active)
    BY DEF Init
  <2>2. NoTask \in Task /\ NoTask.pc = "none" /\ NoTask.left = {}
    <3>1. 0 \in 0 .. MaxEvents
      BY WebSocketsAssumption
    <3> QED
      BY <3>1 DEF NoTask, Task
  <2>3. /\ [NoTask EXCEPT !.pc = "subscribe"] \in Task
        /\ [NoTask EXCEPT !.pc = "subscribe"].left = {}
    BY IdleTask DEF TaskPCs
  <2> QED
    BY <2>1, <2>2, <2>3 DEF start_subscribers
<1>4. TypeOK
  <2>1. 0 \in 0 .. MaxEvents /\ 0 \in 0 .. MaxFaults
    BY WebSocketsAssumption
  <2>2. inbox \in [Listeners -> Seq(0 .. MaxEvents)]
    BY DEF Init
  <2>3. got \in [Sockets -> Seq([chan : Channels, n : 0 .. MaxEvents])]
    BY DEF Init
  <2>4. hand \in [Sockets -> Handler]
    BY <1>2 DEF Init
  <2> QED
    BY <1>3, <2>1, <2>2, <2>3, <2>4 DEF Init, TypeOK
<1>5. Homes
  BY <1>1, <1>2, <1>3 DEF Homes, Home, PublicPCs, PrivatePCs
<1>6. Routes
  BY <1>1, <1>3 DEF Routes, Members, Recipients, Heard
<1>7. Drained
  BY <1>1 DEF Drained
<1>8. Holdings
  BY <1>1, <1>2, <1>3 DEF Holdings, Holding
<1>9. Leftovers
  BY <1>1 DEF Leftovers
<1> QED
  BY <1>4, <1>5, <1>6, <1>7, <1>8, <1>9 DEF Ind

LEMMA NextKeeps == Ind /\ [Next]_vars => Ind'
<1> SUFFICES ASSUME Ind, [Next]_vars
             PROVE  Ind'
  OBVIOUS
<1>1. CASE UNCHANGED vars
  <2>1. TypeOK' /\ Homes' /\ Drained' /\ Holdings' /\ Leftovers'
    BY <1>1 DEF vars, bus, Ind, TypeOK, Homes, Home, Drained, Holdings, Holding, Leftovers, Ghost
  <2>2. Routes'
    BY <1>1, ChanKept DEF vars, Ind, Routes, Members, Recipients, Heard
  <2> QED
    BY <2>1, <2>2 DEF Ind
<1>2. ASSUME NEW s \in Sockets,
             \/ ClientCloses(s)
             \/ \E c \in Symbols : connect_public(s, c)
             \/ \E u \in Users : PrivateConnects(s, u)
             \/ PublicStep(s) \/ PrivateStep(s)
             \/ disconnect_private(s) \/ listen_client(s)
             \/ listen_pubsub(s)
      PROVE  Ind'
  <2>1. CASE PublicStep(s)
    BY <2>1, SnapshotReadsKeeps, SnapshotSendsKeeps, PublicSubscribesKeeps, PublicPollsKeeps,
       PublicReceivesKeeps, GatheredKeeps, PublicLeavesKeeps, Disconnect_publicKeeps DEF PublicStep
  <2>2. CASE PrivateStep(s)
    BY <2>2, AuthenticatedKeeps, AuthFailsKeeps, Connect_privateKeeps, GreetsKeeps,
       PrivateEndsKeeps DEF PrivateStep
  <2> QED
    BY <1>2, <2>1, <2>2, ClientClosesKeeps, Connect_publicKeeps, PrivateConnectsKeeps,
       Disconnect_privateKeeps, Listen_clientKeeps, Listen_pubsubKeeps
<1>3. ASSUME NEW o \in Listeners, ConnectionLost(o) \/ SubscriberStep(o)
      PROVE  Ind'
  BY <1>3, ConnectionLostKeeps, SubscriberStartsKeeps, SubscriberReceivesKeeps, SubscriberSendsKeeps,
     SubscriberCleansKeeps, SubscriberRetriesKeeps, SubscriberCanceledKeeps DEF SubscriberStep
<1>4. ASSUME NEW c \in Channels, publish(c)
      PROVE  Ind'
  BY <1>4, PublishKeeps
<1>5. ASSUME NEW u \in Users, Revoke(u)
      PROVE  Ind'
  BY <1>5, RevokeKeeps
<1> QED
  BY <1>1, <1>2, <1>3, <1>4, <1>5, Stop_subscribersKeeps DEF Next

\* What the handlers, tasks, registries and connections hold at each step stays
\* consistent, whatever interleaves (ws/manager.py, ws/public.py, ws/private.py).
THEOREM StreamsConsistent == Spec => []Ind
BY InitKeeps, NextKeeps, PTL DEF Spec

\* Who hears what, for any number of symbols, users, sockets and events: a
\* client receives only events of the channel its handler serves, and a user's
\* only with that user's signature (broadcast_private, verify_ws_signature).
THEOREM OwnersOnly == Spec => []OnlyOwnersHear
<1>1. Ind => OnlyOwnersHear
  <2> SUFFICES ASSUME Ind, NEW s \in Sockets, NEW i \in DOMAIN got[s]
               PROVE  /\ got[s][i].chan = hand[s].chan
                      /\ got[s][i].chan \in Users => hand[s].signer = got[s][i].chan
    BY DEF OnlyOwnersHear
  <2>1. got[s][i].chan = hand[s].chan
    BY DEF Ind, Routes, Heard
  <2>2. hand[s].chan \in Users => hand[s].signer = hand[s].chan
    BY DEF Ind, Homes, Home
  <2> QED
    BY <2>1, <2>2
<1> QED
  BY <1>1, StreamsConsistent, PTL

\* A handler that has ended holds no connection to Redis, no running task and no
\* registration but the one of private.py:92, in any system.
THEOREM Releases == Spec => []EndedReleases
<1>1. Ind => EndedReleases
  <2> SUFFICES ASSUME Ind
               PROVE  EndedReleases
    OBVIOUS
  <2>1. TypeOK /\ Drained /\ Holdings /\ Leftovers
    BY DEF Ind
  <2>2. ASSUME NEW s \in Sockets, hand[s].pc = "ended"
        PROVE  /\ sub[s] = "off" /\ inbox[s] = <<>> /\ task[s].pc \in {"none", "done"}
               /\ \A c \in Channels : s \in conns[c] => Ghost(s)
    <3>1. Holding(s) /\ s \in Listeners
      BY <2>1, NotSymbol DEF Holdings
    <3>2. sub[s] = "off" /\ task[s].pc \in {"none", "done"}
      BY <2>2, <3>1 DEF Holding
    <3>3. inbox[s] = <<>>
      BY <2>1, <3>1, <3>2 DEF Drained
    <3> QED
      BY <2>1, <2>2, <3>2, <3>3 DEF Leftovers
  <2> QED
    BY <2>1, <2>2 DEF EndedReleases
<1> QED
  BY <1>1, StreamsConsistent, PTL

-----------------------------------------------------------------------------
(* Being subscribed means missing nothing.                                  *)

Live == {"poll", "receive", "gather"}

\* What NothingMissed says of one socket.
Covered(s) ==
    client[s] = "open" /\ sub[s] = "on" /\ hand[s].pc \in Live
    => \A n \in since[s] + 1 .. sent[hand[s].chan] : Accounted(s, n)

\* A private handler that receives is registered, so that a broadcast to its
\* user reaches it.
Present(s) ==
    hand[s].pc \in {"greet", "receive"} /\ hand[s].chan \in Users /\ client[s] = "open"
    => s \in conns[hand[s].chan]

\* A socket whose client is there is not taken for dead.
Alive == \A s \in Sockets : broken[s] => client[s] = "closed"
Buried == \A s \in Sockets, o \in Listeners : s \in task[o].dead => client[s] = "closed"

Delivery ==
    /\ Alive /\ Buried
    /\ \A s \in Sockets : Present(s) /\ Covered(s)

-----------------------------------------------------------------------------
(* A step that is another socket's leaves a socket as it was.              *)

Apart(x) ==
    /\ hand'[x].pc = hand[x].pc /\ hand'[x].chan = hand[x].chan
    /\ client'[x] = client[x] /\ broken'[x] = broken[x] /\ got'[x] = got[x]
    /\ sub'[x] = sub[x] /\ since'[x] = since[x] /\ inbox'[x] = inbox[x]
    /\ sent' = sent
    /\ task'[x] = task[x]
    /\ \A c \in Channels : x \in conns[c] => x \in conns'[c]

LEMMA ApartCovered ==
    ASSUME NEW x \in Sockets, Covered(x), Apart(x)
    PROVE  Covered(x)'
BY DEF Covered, Apart, Accounted

LEMMA ApartPresent ==
    ASSUME NEW x \in Sockets, Present(x), Apart(x)
    PROVE  Present(x)'
BY ChannelsApart DEF Present, Apart

\* What is left to see of a step of listener o.
Own(o) ==
    /\ Covered(o)' /\ Present(o)'
    /\ client[o] = "closed" => client'[o] = "closed"
    /\ broken'[o] => client'[o] = "closed"

LEMMA Elsewhere ==
    ASSUME Delivery, NEW o \in Listeners,
           \A x \in Sockets : x # o => Apart(x),
           o \in Sockets => Own(o),
           \A l \in Listeners : task'[l].dead \subseteq task[l].dead
    PROVE  Delivery'
<1>1. \A x \in Sockets : Covered(x)' /\ Present(x)'
  BY ApartCovered, ApartPresent DEF Delivery, Own
<1>2. \A x \in Sockets : client[x] = "closed" => client'[x] = "closed"
  BY DEF Own, Apart
<1>3. Alive'
  BY <1>2 DEF Delivery, Alive, Own, Apart
<1>4. Buried'
  BY <1>2 DEF Delivery, Buried
<1> QED
  BY <1>1, <1>3, <1>4 DEF Delivery

-----------------------------------------------------------------------------
(* Sequences of events.                                                    *)

LEMMA RangeAppend ==
    ASSUME NEW S, NEW q \in Seq(S), NEW e \in S
    PROVE  Range(Append(q, e)) = Range(q) \cup {e}
<1>1. DOMAIN Append(q, e) = 1 .. Len(q) + 1 /\ DOMAIN q = 1 .. Len(q) /\ Len(q) \in Nat
  OBVIOUS
<1>2. \A i \in 1 .. Len(q) : Append(q, e)[i] = q[i]
  OBVIOUS
<1>3. Append(q, e)[Len(q) + 1] = e
  OBVIOUS
<1> QED
  BY <1>1, <1>2, <1>3 DEF Range

LEMMA RangeTail ==
    ASSUME NEW S, NEW q \in Seq(S), q # <<>>
    PROVE  Range(q) \subseteq {Head(q)} \cup Range(Tail(q))
<1> SUFFICES ASSUME NEW i \in DOMAIN q, q[i] # Head(q)
             PROVE  q[i] \in Range(Tail(q))
  BY DEF Range
<1>1. i \in 2 .. Len(q) /\ Len(q) \in Nat
  OBVIOUS
<1>2. i - 1 \in DOMAIN Tail(q) /\ Tail(q)[i - 1] = q[i]
  BY <1>1
<1> QED
  BY <1>2 DEF Range

LEMMA Sending ==
    ASSUME TypeOK, NEW s \in Sockets, NEW c \in Channels, NEW e \in 0 .. MaxEvents,
           Sends(s, c, e) \/ SendRaises(s)
    PROVE  /\ \A x \in Sockets : x # s => got'[x] = got[x] /\ broken'[x] = broken[x]
           /\ Range(got[s]) \subseteq Range(got'[s])
           /\ client[s] = "open" => [chan |-> c, n |-> e] \in Range(got'[s])
           /\ broken'[s] => client[s] = "closed"
<1> DEFINE Event == [chan : Channels, n : 0 .. MaxEvents]
           event == [chan |-> c, n |-> e]
<1>1. event \in Event /\ got \in [Sockets -> Seq(Event)]
  BY DEF TypeOK
<1>2. CASE SendRaises(s)
  BY <1>2 DEF SendRaises, TypeOK
<1>3. CASE Sends(s, c, e)
  <2>1. ~broken[s] /\ broken' = broken
    BY <1>3 DEF Sends
  <2>2. CASE client[s] = "open"
    <3>1. got' = [got EXCEPT ![s] = Append(@, event)]
      BY <1>3, <2>2 DEF Sends
    <3> HIDE DEF Event, event
    <3>2. got[s] \in Seq(Event) /\ got'[s] = Append(got[s], event)
      BY <1>1, <3>1
    <3>3. Range(got'[s]) = Range(got[s]) \cup {event}
      BY <1>1, <3>2, RangeAppend
    <3>4. \A x \in Sockets : x # s => got'[x] = got[x]
      BY <1>1, <3>1
    <3> QED
      BY <2>1, <3>3, <3>4 DEF event
  <2>3. CASE client[s] # "open"
    BY <1>3, <2>1, <2>3 DEF Sends
  <2> QED
    BY <2>2, <2>3
<1> QED
  BY <1>2, <1>3

\* Moving task o on to pc changes no other task, and no task's dead sockets.
Alone(o, pc) ==
    LET t == [task EXCEPT ![o].pc = pc]
    IN  /\ \A x \in Listeners : x # o => t[x] = task[x]
        /\ \A x \in Listeners : t[x].dead = task[x].dead
        /\ t[o].pc = pc

LEMMA TaskAlone ==
    ASSUME TypeOK, NEW o \in Listeners, NEW pc \in TaskPCs
    PROVE  Alone(o, pc)
BY DEF TypeOK, Task, Alone

\* The event at the head of a connection goes to its client.
LEMMA Forwarded ==
    ASSUME TypeOK, NEW s \in Sockets, hand[s].chan \in Channels, Covered(s),
           inbox[s] # <<>>, Consume(s),
           Sends(s, hand[s].chan, Head(inbox[s])) \/ SendRaises(s),
           client' = client, hand'[s].chan = hand[s].chan,
           hand'[s].pc \in Live => hand[s].pc \in Live,
           task[s].pc # "send"
    PROVE  Covered(s)'
<1>1. s \in Listeners /\ inbox[s] \in Seq(0 .. MaxEvents)
  BY NotSymbol DEF TypeOK
<1>2. sub' = sub /\ sent' = sent /\ since' = since /\ Head(inbox[s]) \in 0 .. MaxEvents
  BY <1>1, Consumed
<1>3. inbox'[s] = Tail(inbox[s])
  BY <1>1 DEF Consume, TypeOK
<1>4. Range(inbox[s]) \subseteq {Head(inbox[s])} \cup Range(inbox'[s])
  BY <1>1, <1>3, RangeTail
<1> DEFINE e == Head(inbox[s])
           c == hand[s].chan
<1>5. e \in 0 .. MaxEvents /\ c \in Channels /\ (Sends(s, c, e) \/ SendRaises(s))
  BY <1>2
<1>6. Range(got[s]) \subseteq Range(got'[s]) /\ (client[s] = "open" => [chan |-> c, n |-> e] \in Range(got'[s]))
  <2> HIDE DEF e, c
  <2> QED
    BY <1>5, Sending
<1> SUFFICES ASSUME client'[s] = "open", sub'[s] = "on", hand'[s].pc \in Live,
                    NEW n \in since'[s] + 1 .. sent'[hand'[s].chan]
             PROVE  Accounted(s, n)'
  BY DEF Covered
<1>7. Accounted(s, n)
  BY <1>2 DEF Covered
<1>8. [chan |-> c, n |-> n] \in Range(got[s]) \/ n \in Range(inbox[s])
  BY <1>7 DEF Accounted
<1>9. [chan |-> c, n |-> n] \in Range(got'[s]) \/ n \in Range(inbox'[s])
  BY <1>4, <1>6, <1>8
<1> QED
  BY <1>9 DEF Accounted

\* A subscription made now has missed nothing.
LEMMA NewlySubscribed ==
    ASSUME TypeOK, NEW s \in Sockets, hand[s].chan \in Channels, hand'[s].chan = hand[s].chan, subscribe(s)
    PROVE  Covered(s)'
<1>1. s \in Listeners /\ Chan(s) = hand[s].chan
  BY NotSymbol, ChanOf
<1>2. since'[s] = sent[hand[s].chan] /\ sent' = sent /\ sent[hand[s].chan] \in 0 .. MaxEvents
  BY <1>1 DEF subscribe, TypeOK
<1>3. sent[hand[s].chan] \in Int
  BY <1>2
<1>4. since'[s] + 1 .. sent'[hand'[s].chan] = {}
  BY <1>2, <1>3
<1> QED
  BY <1>4 DEF Covered

-----------------------------------------------------------------------------
(* Each action loses nothing.                                              *)

LEMMA ClientClosesDelivers ==
    ASSUME Ind, Delivery, NEW s \in Sockets, ClientCloses(s)
    PROVE  Delivery'
<1> USE NotSymbol, ChannelsApart
<1>0. /\ TypeOK /\ Homes /\ Routes /\ Drained /\ Holdings
      /\ Alive /\ Buried /\ \A x \in Sockets : Present(x) /\ Covered(x)
  BY DEF Ind, Delivery
<1>1. \A x \in Sockets : client'[x] = IF x = s THEN "closed" ELSE client[x]
  BY <1>0 DEF ClientCloses, TypeOK
<1>2. \A x \in Sockets : x # s => Apart(x)
  BY <1>0, <1>1 DEF Apart, ClientCloses, bus
<1>3. Covered(s)'
  BY <1>0, <1>1 DEF Covered, Live
<1>4. Present(s)'
  BY <1>0, <1>1 DEF Present
<1>5. (client[s] = "closed" => client'[s] = "closed") /\ (broken'[s] => client'[s] = "closed")
  BY <1>0, <1>1 DEF Alive
<1>6. \A l \in Listeners : task'[l].dead \subseteq task[l].dead
  BY DEF ClientCloses
<1>7. Own(s)
  BY <1>3, <1>4, <1>5 DEF Own
<1> QED
  BY <1>2, <1>6, <1>7, Elsewhere

LEMMA GatheredDelivers ==
    ASSUME Ind, Delivery, NEW s \in Sockets, Gathered(s)
    PROVE  Delivery'
<1> USE NotSymbol, ChannelsApart
<1>0. /\ TypeOK /\ Homes /\ Routes /\ Drained /\ Holdings
      /\ Alive /\ Buried /\ \A x \in Sockets : Present(x) /\ Covered(x)
  BY DEF Ind, Delivery
<1>1. \A x \in Sockets : /\ hand'[x].chan = hand[x].chan
                         /\ hand'[x].pc = IF x = s THEN "leave" ELSE hand[x].pc
  BY <1>0, Moved DEF Gathered, HandlerPCs, PublicPCs, PrivatePCs
<1>2. \A x \in Sockets : x # s => Apart(x)
  BY <1>0, <1>1 DEF Apart, Gathered, bus
<1>3. Covered(s)'
  BY <1>0, <1>1 DEF Covered, Live
<1>4. Present(s)'
  BY <1>0, <1>1 DEF Present
<1>5. (client[s] = "closed" => client'[s] = "closed") /\ (broken'[s] => client'[s] = "closed")
  BY <1>0, <1>1 DEF Alive, Gathered
<1>6. \A l \in Listeners : task'[l].dead \subseteq task[l].dead
  BY DEF Gathered
<1>7. Own(s)
  BY <1>3, <1>4, <1>5 DEF Own
<1> QED
  BY <1>2, <1>6, <1>7, Elsewhere

LEMMA Listen_clientDelivers ==
    ASSUME Ind, Delivery, NEW s \in Sockets, listen_client(s)
    PROVE  Delivery'
<1> USE NotSymbol, ChannelsApart
<1>0. /\ TypeOK /\ Homes /\ Routes /\ Drained /\ Holdings
      /\ Alive /\ Buried /\ \A x \in Sockets : Present(x) /\ Covered(x)
  BY DEF Ind, Delivery
<1>1. \A x \in Sockets : /\ hand'[x].chan = hand[x].chan
                         /\ hand'[x].pc = IF x = s THEN "gather" ELSE hand[x].pc
  BY <1>0, Moved DEF listen_client, HandlerPCs, PublicPCs, PrivatePCs
<1>2. \A x \in Sockets : x # s => Apart(x)
  BY <1>0, <1>1 DEF Apart, listen_client, bus
<1>3. Covered(s)'
  BY <1>0, <1>1 DEF Covered, Live, Accounted, listen_client, bus
<1>4. Present(s)'
  BY <1>0, <1>1 DEF Present
<1>5. (client[s] = "closed" => client'[s] = "closed") /\ (broken'[s] => client'[s] = "closed")
  BY <1>0, <1>1 DEF Alive, listen_client
<1>6. \A l \in Listeners : task'[l].dead \subseteq task[l].dead
  BY DEF listen_client
<1>7. Own(s)
  BY <1>3, <1>4, <1>5 DEF Own
<1> QED
  BY <1>2, <1>6, <1>7, Elsewhere

LEMMA PublicReceivesDelivers ==
    ASSUME Ind, Delivery, NEW s \in Sockets, PublicReceives(s)
    PROVE  Delivery'
<1> USE NotSymbol, ChannelsApart
<1>0. /\ TypeOK /\ Homes /\ Routes /\ Drained /\ Holdings
      /\ Alive /\ Buried /\ \A x \in Sockets : Present(x) /\ Covered(x)
  BY DEF Ind, Delivery
<1>1. /\ hand'[s].pc \in {"leave", "poll"} /\ hand[s].chan \in Symbols
      /\ \A x \in Sockets : hand'[x].chan = hand[x].chan /\ (x # s => hand'[x].pc = hand[x].pc)
  <2>1. \E pc \in {"leave", "poll"} : Goto(s, pc)
    BY DEF PublicReceives
  <2> QED
    BY <1>0, <2>1, Moved DEF PublicReceives, HandlerPCs, PublicPCs
<1>2. \A x \in Sockets : x # s => Apart(x)
  BY <1>0, <1>1 DEF Apart, PublicReceives, bus
<1>3. Covered(s)'
  BY <1>0, <1>1 DEF Covered, Live, Accounted, PublicReceives, bus
<1>4. Present(s)'
  BY <1>0, <1>1 DEF Present
<1>5. (client[s] = "closed" => client'[s] = "closed") /\ (broken'[s] => client'[s] = "closed")
  BY <1>0, <1>1 DEF Alive, PublicReceives
<1>6. \A l \in Listeners : task'[l].dead \subseteq task[l].dead
  BY DEF PublicReceives
<1>7. Own(s)
  BY <1>3, <1>4, <1>5 DEF Own
<1> QED
  BY <1>2, <1>6, <1>7, Elsewhere

LEMMA AuthFailsDelivers ==
    ASSUME Ind, Delivery, NEW s \in Sockets, AuthFails(s)
    PROVE  Delivery'
<1> USE NotSymbol, ChannelsApart
<1>0. /\ TypeOK /\ Homes /\ Routes /\ Drained /\ Holdings
      /\ Alive /\ Buried /\ \A x \in Sockets : Present(x) /\ Covered(x)
  BY DEF Ind, Delivery
<1>1. \A x \in Sockets : /\ hand'[x].chan = hand[x].chan
                         /\ hand'[x].pc = IF x = s THEN "ended" ELSE hand[x].pc
                         /\ client'[x] = IF x = s THEN "closed" ELSE client[x]
  BY <1>0, Ended DEF AuthFails
<1>2. \A x \in Sockets : x # s => Apart(x)
  BY <1>0, <1>1 DEF Apart, AuthFails, bus
<1>3. Covered(s)'
  BY <1>0, <1>1 DEF Covered, Live
<1>4. Present(s)'
  BY <1>0, <1>1 DEF Present
<1>5. (client[s] = "closed" => client'[s] = "closed") /\ (broken'[s] => client'[s] = "closed")
  BY <1>0, <1>1 DEF Alive, AuthFails
<1>6. \A l \in Listeners : task'[l].dead \subseteq task[l].dead
  BY DEF AuthFails
<1>7. Own(s)
  BY <1>3, <1>4, <1>5 DEF Own
<1> QED
  BY <1>2, <1>6, <1>7, Elsewhere

LEMMA PrivateEndsDelivers ==
    ASSUME Ind, Delivery, NEW s \in Sockets, PrivateEnds(s)
    PROVE  Delivery'
<1> USE NotSymbol, ChannelsApart
<1>0. /\ TypeOK /\ Homes /\ Routes /\ Drained /\ Holdings
      /\ Alive /\ Buried /\ \A x \in Sockets : Present(x) /\ Covered(x)
  BY DEF Ind, Delivery
<1>1. \A x \in Sockets : /\ hand'[x].chan = hand[x].chan
                         /\ hand'[x].pc = IF x = s THEN "ended" ELSE hand[x].pc
                         /\ client'[x] = IF x = s THEN "closed" ELSE client[x]
  BY <1>0, Ended DEF PrivateEnds
<1>2. \A x \in Sockets : x # s => Apart(x)
  BY <1>0, <1>1 DEF Apart, PrivateEnds, bus
<1>3. Covered(s)'
  BY <1>0, <1>1 DEF Covered, Live
<1>4. Present(s)'
  BY <1>0, <1>1 DEF Present
<1>5. (client[s] = "closed" => client'[s] = "closed") /\ (broken'[s] => client'[s] = "closed")
  BY <1>0, <1>1 DEF Alive, PrivateEnds
<1>6. \A l \in Listeners : task'[l].dead \subseteq task[l].dead
  BY DEF PrivateEnds
<1>7. Own(s)
  BY <1>3, <1>4, <1>5 DEF Own
<1> QED
  BY <1>2, <1>6, <1>7, Elsewhere

LEMMA Disconnect_publicDelivers ==
    ASSUME Ind, Delivery, NEW s \in Sockets, disconnect_public(s)
    PROVE  Delivery'
<1> USE NotSymbol, ChannelsApart
<1>0. /\ TypeOK /\ Homes /\ Routes /\ Drained /\ Holdings
      /\ Alive /\ Buried /\ \A x \in Sockets : Present(x) /\ Covered(x)
  BY DEF Ind, Delivery
<1>1. \A x \in Sockets : /\ hand'[x].chan = hand[x].chan
                         /\ hand'[x].pc = IF x = s THEN "ended" ELSE hand[x].pc
                         /\ client'[x] = IF x = s THEN "closed" ELSE client[x]
  BY <1>0, Ended DEF disconnect_public
<1>2. \A x \in Channels : conns'[x] = IF x = hand[s].chan THEN conns[x] \ {s} ELSE conns[x]
  BY <1>0 DEF disconnect_public, disconnect, TypeOK, Homes, Home, PublicPCs, PrivatePCs
<1>3. \A x \in Sockets : x # s => Apart(x)
  BY <1>0, <1>1, <1>2 DEF Apart, disconnect_public, bus
<1>4. Covered(s)'
  BY <1>0, <1>1, <1>2 DEF Covered, Live
<1>5. Present(s)'
  BY <1>0, <1>1, <1>2 DEF Present
<1>6. (client[s] = "closed" => client'[s] = "closed") /\ (broken'[s] => client'[s] = "closed")
  BY <1>0, <1>1, <1>2 DEF Alive, disconnect_public
<1>7. \A l \in Listeners : task'[l].dead \subseteq task[l].dead
  BY DEF disconnect_public
<1>8. Own(s)
  BY <1>4, <1>5, <1>6 DEF Own
<1> QED
  BY <1>3, <1>7, <1>8, Elsewhere

LEMMA Connect_privateDelivers ==
    ASSUME Ind, Delivery, NEW s \in Sockets, connect_private(s)
    PROVE  Delivery'
<1> USE NotSymbol, ChannelsApart
<1>0. /\ TypeOK /\ Homes /\ Routes /\ Drained /\ Holdings
      /\ Alive /\ Buried /\ \A x \in Sockets : Present(x) /\ Covered(x)
  BY DEF Ind, Delivery
<1>1. \A x \in Sockets : /\ hand'[x].chan = hand[x].chan
                         /\ hand'[x].pc = IF x = s THEN "greet" ELSE hand[x].pc
  BY <1>0, Moved DEF connect_private, HandlerPCs, PublicPCs, PrivatePCs
<1>2. hand[s].chan \in Channels /\ \A x \in Channels : conns'[x] = IF x = hand[s].chan THEN conns[x] \cup {s} ELSE conns[x]
  BY <1>0 DEF connect_private, connect, TypeOK, Homes, Home, PrivatePCs
<1>3. \A x \in Sockets : x # s => Apart(x)
  BY <1>0, <1>1, <1>2 DEF Apart, connect_private, bus
<1>4. Covered(s)'
  BY <1>0, <1>1, <1>2 DEF Covered, Live
<1>5. Present(s)'
  BY <1>0, <1>1, <1>2 DEF Present
<1>6. (client[s] = "closed" => client'[s] = "closed") /\ (broken'[s] => client'[s] = "closed")
  BY <1>0, <1>1, <1>2 DEF Alive, connect_private
<1>7. \A l \in Listeners : task'[l].dead \subseteq task[l].dead
  BY DEF connect_private
<1>8. Own(s)
  BY <1>4, <1>5, <1>6 DEF Own
<1> QED
  BY <1>3, <1>7, <1>8, Elsewhere

LEMMA Connect_publicDelivers ==
    ASSUME Ind, Delivery, NEW s \in Sockets, NEW c \in Symbols, connect_public(s, c)
    PROVE  Delivery'
<1> USE NotSymbol, ChannelsApart
<1>0. /\ TypeOK /\ Homes /\ Routes /\ Drained /\ Holdings
      /\ Alive /\ Buried /\ \A x \in Sockets : Present(x) /\ Covered(x)
  BY DEF Ind, Delivery
<1>1. hand'[s].pc = "snapshot" /\ \A x \in Sockets : x # s => hand'[x] = hand[x]
  <2> DEFINE h == [NoHandler EXCEPT !.pc = "snapshot", !.chan = c]
  <2>1. h \in Handler /\ h.pc = "snapshot"
    <3>1. "snapshot" \in PublicPCs /\ c \in Channels
      BY DEF PublicPCs, Channels
    <3> QED
      BY ONLY <3>1, NewPublic
  <2> HIDE DEF h
  <2>2. hand' = [hand EXCEPT ![s] = h]
    BY DEF connect_public, h
  <2> QED
    BY <1>0, <2>1, <2>2 DEF TypeOK
<1>2. client[s] = "absent" /\ ~broken'[s] /\ \A x \in Sockets : x # s => client'[x] = client[x]
  BY <1>0 DEF connect_public, TypeOK, Alive
<1>3. \A x \in Channels : conns[x] \subseteq conns'[x]
  BY <1>0 DEF connect_public, connect, TypeOK
<1>4. \A x \in Sockets : x # s => Apart(x)
  BY <1>0, <1>1, <1>2, <1>3 DEF Apart, connect_public, bus
<1>5. Covered(s)'
  BY <1>0, <1>1, <1>2, <1>3 DEF Covered, Live
<1>6. Present(s)'
  BY <1>0, <1>1, <1>2, <1>3 DEF Present
<1>7. (client[s] = "closed" => client'[s] = "closed") /\ (broken'[s] => client'[s] = "closed")
  BY <1>2
<1>8. \A l \in Listeners : task'[l].dead \subseteq task[l].dead
  BY DEF connect_public
<1>9. Own(s)
  BY <1>5, <1>6, <1>7 DEF Own
<1> QED
  BY <1>4, <1>8, <1>9, Elsewhere

LEMMA PrivateConnectsDelivers ==
    ASSUME Ind, Delivery, NEW s \in Sockets, NEW u \in Users, PrivateConnects(s, u)
    PROVE  Delivery'
<1> USE NotSymbol, ChannelsApart
<1>0. /\ TypeOK /\ Homes /\ Routes /\ Drained /\ Holdings
      /\ Alive /\ Buried /\ \A x \in Sockets : Present(x) /\ Covered(x)
  BY DEF Ind, Delivery
<1>1. hand'[s].pc = "auth" /\ \A x \in Sockets : x # s => hand'[x] = hand[x]
  <2> DEFINE h == [NoHandler EXCEPT !.pc = "auth", !.signer = u]
  <2>1. h \in Handler /\ h.pc = "auth"
    BY NewPrivate
  <2> HIDE DEF h
  <2>2. hand' = [hand EXCEPT ![s] = h]
    BY DEF PrivateConnects, h
  <2> QED
    BY <1>0, <2>1, <2>2 DEF TypeOK
<1>2. client[s] = "absent" /\ ~broken'[s] /\ \A x \in Sockets : x # s => client'[x] = client[x]
  BY <1>0 DEF PrivateConnects, TypeOK, Alive
<1>3. \A x \in Sockets : x # s => Apart(x)
  BY <1>0, <1>1, <1>2 DEF Apart, PrivateConnects, bus
<1>4. Covered(s)'
  BY <1>0, <1>1, <1>2 DEF Covered, Live
<1>5. Present(s)'
  BY <1>0, <1>1, <1>2 DEF Present
<1>6. (client[s] = "closed" => client'[s] = "closed") /\ (broken'[s] => client'[s] = "closed")
  BY <1>2
<1>7. \A l \in Listeners : task'[l].dead \subseteq task[l].dead
  BY DEF PrivateConnects
<1>8. Own(s)
  BY <1>4, <1>5, <1>6 DEF Own
<1> QED
  BY <1>3, <1>7, <1>8, Elsewhere

LEMMA AuthenticatedDelivers ==
    ASSUME Ind, Delivery, NEW s \in Sockets, NEW u \in Users, NEW f \in BOOLEAN, Authenticated(s, u, f)
    PROVE  Delivery'
<1> USE NotSymbol, ChannelsApart
<1>0. /\ TypeOK /\ Homes /\ Routes /\ Drained /\ Holdings
      /\ Alive /\ Buried /\ \A x \in Sockets : Present(x) /\ Covered(x)
  BY DEF Ind, Delivery
<1>1. hand'[s].pc = "register" /\ \A x \in Sockets : x # s => hand'[x] = hand[x]
  BY <1>0 DEF Authenticated, TypeOK, Handler
<1>2. \A x \in Sockets : x # s => Apart(x)
  BY <1>0, <1>1 DEF Apart, Authenticated, bus
<1>3. Covered(s)'
  BY <1>0, <1>1 DEF Covered, Live
<1>4. Present(s)'
  BY <1>0, <1>1 DEF Present
<1>5. (client[s] = "closed" => client'[s] = "closed") /\ (broken'[s] => client'[s] = "closed")
  BY <1>0, <1>1 DEF Alive, Authenticated
<1>6. \A l \in Listeners : task'[l].dead \subseteq task[l].dead
  BY DEF Authenticated
<1>7. Own(s)
  BY <1>3, <1>4, <1>5 DEF Own
<1> QED
  BY <1>2, <1>6, <1>7, Elsewhere

LEMMA SnapshotReadsDelivers ==
    ASSUME Ind, Delivery, NEW s \in Sockets, SnapshotReads(s)
    PROVE  Delivery'
<1> USE NotSymbol, ChannelsApart
<1>0. /\ TypeOK /\ Homes /\ Routes /\ Drained /\ Holdings
      /\ Alive /\ Buried /\ \A x \in Sockets : Present(x) /\ Covered(x)
  BY DEF Ind, Delivery
<1>1. hand'[s].pc \in {"snapshotsend", "subscribe"} /\ \A x \in Sockets : x # s => hand'[x] = hand[x]
  <2>1. CASE Goto(s, "subscribe")
    BY <1>0, <2>1 DEF Goto, TypeOK, Handler
  <2>2. CASE hand' = [hand EXCEPT ![s].pc = "snapshotsend", ![s].book = sent[hand[s].chan]]
    BY <1>0, <2>2 DEF TypeOK, Handler
  <2> QED
    BY <2>1, <2>2 DEF SnapshotReads
<1>2. \A x \in Sockets : x # s => Apart(x)
  BY <1>0, <1>1 DEF Apart, SnapshotReads, bus
<1>3. Covered(s)'
  BY <1>0, <1>1 DEF Covered, Live
<1>4. Present(s)'
  BY <1>0, <1>1 DEF Present
<1>5. (client[s] = "closed" => client'[s] = "closed") /\ (broken'[s] => client'[s] = "closed")
  BY <1>0, <1>1 DEF Alive, SnapshotReads
<1>6. \A l \in Listeners : task'[l].dead \subseteq task[l].dead
  BY DEF SnapshotReads
<1>7. Own(s)
  BY <1>3, <1>4, <1>5 DEF Own
<1> QED
  BY <1>2, <1>6, <1>7, Elsewhere

LEMMA SnapshotSendsDelivers ==
    ASSUME Ind, Delivery, NEW s \in Sockets, SnapshotSends(s)
    PROVE  Delivery'
<1> USE NotSymbol, ChannelsApart
<1>0. /\ TypeOK /\ Homes /\ Routes /\ Drained /\ Holdings
      /\ Alive /\ Buried /\ \A x \in Sockets : Present(x) /\ Covered(x)
  BY DEF Ind, Delivery
<1>1. hand[s].chan \in Symbols /\ hand[s].chan \in Channels
  BY <1>0 DEF SnapshotSends, Homes, Home, PublicPCs, ManagerTask, Chan, Channels, Holdings, Holding
<1>2. \A x \in Sockets : /\ hand'[x].chan = hand[x].chan
                         /\ hand'[x].pc = IF x = s THEN "subscribe" ELSE hand[x].pc
  BY <1>0, Moved DEF SnapshotSends, HandlerPCs, PublicPCs, PrivatePCs
<1>3. /\ \A x \in Sockets : x # s => got'[x] = got[x] /\ broken'[x] = broken[x]
      /\ broken'[s] => client[s] = "closed"
  <2>1. hand[s].book \in 0 .. MaxEvents /\ (Sends(s, hand[s].chan, hand[s].book) \/ SendRaises(s))
    BY <1>0 DEF SnapshotSends, TypeOK, Handler
  <2> DEFINE b == hand[s].book
             c == hand[s].chan
  <2>2. b \in 0 .. MaxEvents /\ c \in Channels /\ (Sends(s, c, b) \/ SendRaises(s))
    BY <1>1, <2>1
  <2> HIDE DEF b, c
  <2> QED
    BY <1>0, <2>2, Sending
<1>4. \A x \in Sockets : x # s => Apart(x)
  BY <1>0, <1>1, <1>2, <1>3 DEF Apart, SnapshotSends, bus
<1>5. Covered(s)'
  BY <1>0, <1>1, <1>2, <1>3 DEF Covered, Live
<1>6. Present(s)'
  BY <1>0, <1>1, <1>2, <1>3 DEF Present
<1>7. (client[s] = "closed" => client'[s] = "closed") /\ (broken'[s] => client'[s] = "closed")
  BY <1>0, <1>1, <1>2, <1>3 DEF Alive, SnapshotSends
<1>8. \A l \in Listeners : task'[l].dead \subseteq task[l].dead
  BY DEF SnapshotSends
<1>9. Own(s)
  BY <1>5, <1>6, <1>7 DEF Own
<1> QED
  BY <1>4, <1>8, <1>9, Elsewhere

LEMMA PublicSubscribesDelivers ==
    ASSUME Ind, Delivery, NEW s \in Sockets, PublicSubscribes(s)
    PROVE  Delivery'
<1> USE NotSymbol, ChannelsApart
<1>0. /\ TypeOK /\ Homes /\ Routes /\ Drained /\ Holdings
      /\ Alive /\ Buried /\ \A x \in Sockets : Present(x) /\ Covered(x)
  BY DEF Ind, Delivery
<1>1. hand[s].chan \in Symbols /\ hand[s].chan \in Channels
  BY <1>0 DEF PublicSubscribes, Homes, Home, PublicPCs, ManagerTask, Chan, Channels, Holdings, Holding
<1>2. /\ hand'[s].pc \in {"poll", "receive"}
      /\ \A x \in Sockets : hand'[x].chan = hand[x].chan /\ (x # s => hand'[x].pc = hand[x].pc)
  <2>1. \E pc \in {"poll", "receive"} : Goto(s, pc)
    BY DEF PublicSubscribes
  <2> QED
    BY <1>0, <2>1, Moved DEF HandlerPCs, PublicPCs
<1>3. /\ inbox' = inbox /\ sent' = sent
      /\ \A x \in Sockets : x # s => sub'[x] = sub[x] /\ since'[x] = since[x]
  BY <1>0 DEF PublicSubscribes, subscribe, bus, TypeOK
<1>4. /\ \A x \in Sockets : x # s => task'[x] = task[x]
      /\ \A l \in Listeners : task'[l].dead \subseteq task[l].dead
  <2>1. task' \in {task, [task EXCEPT ![s].pc = "listen"]}
    BY DEF PublicSubscribes
  <2>2. Alone(s, "listen")
    BY <1>0, TaskAlone DEF TaskPCs
  <2> QED
    BY <2>1, <2>2 DEF Alone
<1>5. \A x \in Sockets : x # s => Apart(x)
  BY <1>2, <1>3, <1>4 DEF Apart, PublicSubscribes
<1>6. Covered(s)'
  <2>1. CASE subscribe(s)
    BY <1>0, <1>1, <1>2, <2>1, NewlySubscribed
  <2>2. CASE sub' = sub
    BY <1>0, <2>2 DEF PublicSubscribes, Holdings, Holding, Covered
  <2> QED
    BY <2>1, <2>2 DEF PublicSubscribes, bus
<1>7. Present(s)'
  BY <1>0, <1>1, <1>2, <1>3, <1>4 DEF Present
<1>8. (client[s] = "closed" => client'[s] = "closed") /\ (broken'[s] => client'[s] = "closed")
  BY <1>0, <1>1, <1>2, <1>3, <1>4 DEF Alive, PublicSubscribes
<1>9. \A l \in Listeners : task'[l].dead \subseteq task[l].dead
  BY <1>4
<1>10. Own(s)
  BY <1>6, <1>7, <1>8 DEF Own
<1> QED
  BY <1>5, <1>9, <1>10, Elsewhere

LEMMA PublicPollsDelivers ==
    ASSUME Ind, Delivery, NEW s \in Sockets, PublicPolls(s)
    PROVE  Delivery'
<1> USE NotSymbol, ChannelsApart
<1>0. /\ TypeOK /\ Homes /\ Routes /\ Drained /\ Holdings
      /\ Alive /\ Buried /\ \A x \in Sockets : Present(x) /\ Covered(x)
  BY DEF Ind, Delivery
<1>1. hand[s].chan \in Symbols /\ hand[s].chan \in Channels /\ task[s].pc = "none" /\ hand[s].pc = "poll"
  BY <1>0 DEF PublicPolls, Homes, Home, PublicPCs, ManagerTask, Chan, Channels, Holdings, Holding
<1>2. \A x \in Sockets : /\ hand'[x].chan = hand[x].chan
                         /\ hand'[x].pc = IF x = s THEN "receive" ELSE hand[x].pc
  BY <1>0, Moved DEF PublicPolls, HandlerPCs, PublicPCs, PrivatePCs
<1>3. /\ \A x \in Sockets : x # s => got'[x] = got[x] /\ broken'[x] = broken[x]
      /\ broken'[s] => client[s] = "closed"
  <2>1. CASE UNCHANGED <<got, broken>>
    BY <1>0, <2>1 DEF Alive
  <2>2. CASE inbox[s] # <<>> /\ Consume(s) /\ (Sends(s, hand[s].chan, Head(inbox[s])) \/ SendRaises(s))
    <3> DEFINE b == Head(inbox[s])
               c == hand[s].chan
    <3>1. b \in 0 .. MaxEvents /\ c \in Channels /\ (Sends(s, c, b) \/ SendRaises(s))
      BY <1>0, <1>1, <2>2, Consumed
    <3> HIDE DEF b, c
    <3> QED
      BY <1>0, <3>1, Sending
  <2> QED
    BY <2>1, <2>2 DEF PublicPolls
<1>4. /\ sent' = sent
      /\ \A x \in Sockets : x # s => sub'[x] = sub[x] /\ since'[x] = since[x] /\ inbox'[x] = inbox[x]
  BY <1>0 DEF PublicPolls, subscribe, Consume, bus, TypeOK
<1>5. \A x \in Sockets : x # s => Apart(x)
  BY <1>2, <1>3, <1>4 DEF Apart, PublicPolls
<1>6. Covered(s)'
  <2>1. CASE subscribe(s)
    BY <1>0, <1>1, <1>2, <2>1, NewlySubscribed
  <2>2. CASE UNCHANGED <<got, broken, bus>>
    BY <1>0, <1>1, <1>2, <2>2 DEF PublicPolls, bus, Covered, Accounted, Live
  <2>3. CASE inbox[s] # <<>> /\ Consume(s) /\ (Sends(s, hand[s].chan, Head(inbox[s])) \/ SendRaises(s))
    BY <1>0, <1>1, <1>2, <2>3, Forwarded DEF PublicPolls, Live
  <2> QED
    BY <2>1, <2>2, <2>3 DEF PublicPolls
<1>7. Present(s)'
  BY <1>0, <1>1, <1>2, <1>3, <1>4 DEF Present
<1>8. (client[s] = "closed" => client'[s] = "closed") /\ (broken'[s] => client'[s] = "closed")
  BY <1>3 DEF PublicPolls
<1>9. \A l \in Listeners : task'[l].dead \subseteq task[l].dead
  BY DEF PublicPolls
<1>10. Own(s)
  BY <1>6, <1>7, <1>8 DEF Own
<1> QED
  BY <1>5, <1>9, <1>10, Elsewhere

LEMMA Listen_pubsubDelivers ==
    ASSUME Ind, Delivery, NEW s \in Sockets, listen_pubsub(s)
    PROVE  Delivery'
<1> USE NotSymbol, ChannelsApart
<1>0. /\ TypeOK /\ Homes /\ Routes /\ Drained /\ Holdings
      /\ Alive /\ Buried /\ \A x \in Sockets : Present(x) /\ Covered(x)
  BY DEF Ind, Delivery
<1>1. hand[s].chan \in Symbols /\ hand[s].chan \in Channels /\ task[s].pc = "listen" /\ hand' = hand /\ client' = client
  BY <1>0 DEF listen_pubsub, Homes, Home, PublicPCs, ManagerTask, Chan, Channels, Holdings, Holding
<1>2. /\ \A x \in Sockets : x # s => got'[x] = got[x] /\ broken'[x] = broken[x]
      /\ broken'[s] => client[s] = "closed"
  <2>1. CASE UNCHANGED <<got, broken>>
    BY <1>0, <2>1 DEF Alive
  <2>2. CASE inbox[s] # <<>> /\ Consume(s) /\ (Sends(s, hand[s].chan, Head(inbox[s])) \/ SendRaises(s))
    <3> DEFINE b == Head(inbox[s])
               c == hand[s].chan
    <3>1. b \in 0 .. MaxEvents /\ c \in Channels /\ (Sends(s, c, b) \/ SendRaises(s))
      BY <1>0, <1>1, <2>2, Consumed
    <3> HIDE DEF b, c
    <3> QED
      BY <1>0, <3>1, Sending
  <2> QED
    BY <2>1, <2>2 DEF listen_pubsub
<1>3. /\ sent' = sent
      /\ \A x \in Sockets : x # s => sub'[x] = sub[x] /\ since'[x] = since[x] /\ inbox'[x] = inbox[x]
  BY <1>0 DEF listen_pubsub, Consume, bus, TypeOK
<1>4. /\ \A x \in Sockets : x # s => task'[x] = task[x]
      /\ \A l \in Listeners : task'[l].dead \subseteq task[l].dead
  <2>1. task' \in {task, [task EXCEPT ![s].pc = "done"]}
    BY DEF listen_pubsub
  <2>2. Alone(s, "done")
    BY <1>0, TaskAlone DEF TaskPCs
  <2> QED
    BY <2>1, <2>2 DEF Alone
<1>5. \A x \in Sockets : x # s => Apart(x)
  BY <1>1, <1>2, <1>3, <1>4 DEF Apart, listen_pubsub
<1>6. Covered(s)'
  <2>1. CASE sub[s] = "lost" /\ UNCHANGED bus
    BY <2>1 DEF bus, Covered
  <2>2. CASE inbox[s] # <<>> /\ Consume(s) /\ (Sends(s, hand[s].chan, Head(inbox[s])) \/ SendRaises(s))
    BY <1>0, <1>1, <2>2, Forwarded
  <2> QED
    BY <2>1, <2>2 DEF listen_pubsub
<1>7. Present(s)'
  BY <1>0, <1>1, <1>2, <1>3, <1>4 DEF Present
<1>8. (client[s] = "closed" => client'[s] = "closed") /\ (broken'[s] => client'[s] = "closed")
  BY <1>1, <1>2
<1>9. \A l \in Listeners : task'[l].dead \subseteq task[l].dead
  BY <1>4
<1>10. Own(s)
  BY <1>6, <1>7, <1>8 DEF Own
<1> QED
  BY <1>5, <1>9, <1>10, Elsewhere

LEMMA PublicLeavesDelivers ==
    ASSUME Ind, Delivery, NEW s \in Sockets, PublicLeaves(s)
    PROVE  Delivery'
<1> USE NotSymbol, ChannelsApart
<1>0. /\ TypeOK /\ Homes /\ Routes /\ Drained /\ Holdings
      /\ Alive /\ Buried /\ \A x \in Sockets : Present(x) /\ Covered(x)
  BY DEF Ind, Delivery
<1>1. \A x \in Sockets : /\ hand'[x].chan = hand[x].chan
                         /\ hand'[x].pc = IF x = s THEN "disconnect" ELSE hand[x].pc
  BY <1>0, Moved DEF PublicLeaves, HandlerPCs, PublicPCs, PrivatePCs
<1>2. /\ sent' = sent /\ since' = since /\ sub'[s] = "off"
      /\ \A x \in Sockets : x # s => sub'[x] = sub[x] /\ inbox'[x] = inbox[x]
  BY <1>0, Unsubscribed DEF PublicLeaves
<1>3. \A x \in Sockets : x # s => Apart(x)
  BY <1>0, <1>1, <1>2 DEF Apart, PublicLeaves, bus
<1>4. Covered(s)'
  BY <1>0, <1>1, <1>2 DEF Covered, Live
<1>5. Present(s)'
  BY <1>0, <1>1, <1>2 DEF Present
<1>6. (client[s] = "closed" => client'[s] = "closed") /\ (broken'[s] => client'[s] = "closed")
  BY <1>0, <1>1, <1>2 DEF Alive, PublicLeaves
<1>7. \A l \in Listeners : task'[l].dead \subseteq task[l].dead
  BY DEF PublicLeaves
<1>8. Own(s)
  BY <1>4, <1>5, <1>6 DEF Own
<1> QED
  BY <1>3, <1>7, <1>8, Elsewhere

LEMMA Disconnect_privateDelivers ==
    ASSUME Ind, Delivery, NEW s \in Sockets, disconnect_private(s)
    PROVE  Delivery'
<1> USE NotSymbol, ChannelsApart
<1>0. /\ TypeOK /\ Homes /\ Routes /\ Drained /\ Holdings
      /\ Alive /\ Buried /\ \A x \in Sockets : Present(x) /\ Covered(x)
  BY DEF Ind, Delivery
<1>1. \A x \in Sockets : /\ hand'[x].chan = hand[x].chan
                         /\ hand'[x].pc = IF x = s THEN "await" ELSE hand[x].pc
  BY <1>0, Moved DEF disconnect_private, HandlerPCs, PublicPCs, PrivatePCs
<1>2. \A x \in Channels : conns'[x] = IF x = hand[s].chan THEN conns[x] \ {s} ELSE conns[x]
  BY <1>0 DEF disconnect_private, disconnect, TypeOK, Homes, Home, PublicPCs, PrivatePCs
<1>3. /\ \A x \in Sockets : x # s => task'[x] = task[x]
      /\ \A l \in Listeners : task'[l].dead \subseteq task[l].dead
  <2>1. /\ task' = Cancel({s}) /\ {s} \in SUBSET Listeners
        /\ [NoTask EXCEPT !.pc = "canceled"].dead = {}
    BY IdleTask DEF disconnect_private, TaskPCs
  <2>2. \A x \in Listeners : \/ x = s /\ task'[x] = [NoTask EXCEPT !.pc = "canceled"]
                            \/ task'[x] = task[x]
    BY <2>1 DEF Cancel
  <2> QED
    BY <2>1, <2>2
<1>4. \A x \in Sockets : x # s => Apart(x)
  BY <1>0, <1>1, <1>2, <1>3 DEF Apart, disconnect_private, bus
<1>5. Covered(s)'
  BY <1>0, <1>1, <1>2, <1>3 DEF Covered, Live
<1>6. Present(s)'
  BY <1>0, <1>1, <1>2, <1>3 DEF Present
<1>7. (client[s] = "closed" => client'[s] = "closed") /\ (broken'[s] => client'[s] = "closed")
  BY <1>0, <1>1, <1>2, <1>3 DEF Alive, disconnect_private
<1>8. \A l \in Listeners : task'[l].dead \subseteq task[l].dead
  BY <1>3
<1>9. Own(s)
  BY <1>5, <1>6, <1>7 DEF Own
<1> QED
  BY <1>4, <1>8, <1>9, Elsewhere

LEMMA GreetsDelivers ==
    ASSUME Ind, Delivery, NEW s \in Sockets, Greets(s)
    PROVE  Delivery'
<1> USE NotSymbol, ChannelsApart
<1>0. /\ TypeOK /\ Homes /\ Routes /\ Drained /\ Holdings
      /\ Alive /\ Buried /\ \A x \in Sockets : Present(x) /\ Covered(x)
  BY DEF Ind, Delivery
<1>1. hand[s].pc = "greet" /\ hand[s].chan \in Users /\ sub[s] = "off"
  BY <1>0 DEF Greets, Homes, Home, PrivatePCs, Holdings, Holding
<1>2. /\ hand'[s].pc \in {"receive", "ended"} /\ (client'[s] = "open" => client[s] = "open")
      /\ client[s] = "closed" => client'[s] = "closed"
      /\ \A x \in Sockets : /\ hand'[x].chan = hand[x].chan
                            /\ x # s => hand'[x].pc = hand[x].pc /\ client'[x] = client[x]
  <2>1. CASE Goto(s, "receive") /\ client' = client
    BY <1>0, <2>1, Moved DEF HandlerPCs
  <2>2. CASE Ends(s)
    BY <1>0, <2>2, Ended
  <2> QED
    BY <2>1, <2>2 DEF Greets
<1>3. /\ \A x \in Sockets : x # s => task'[x] = task[x]
      /\ \A l \in Listeners : task'[l].dead \subseteq task[l].dead
  <2>1. task' \in {task, [task EXCEPT ![s].pc = "subscribe"]}
    BY DEF Greets
  <2>2. Alone(s, "subscribe")
    BY <1>0, TaskAlone DEF TaskPCs
  <2> QED
    BY <2>1, <2>2 DEF Alone
<1>4. /\ got' = got /\ \A x \in Sockets : x # s => broken'[x] = broken[x]
      /\ broken'[s] => client[s] = "closed"
  BY <1>0 DEF Greets, SendRaises, Alive, TypeOK
<1>5. \A x \in Sockets : x # s => Apart(x)
  BY <1>2, <1>3, <1>4 DEF Apart, Greets, bus
<1>6. Covered(s)'
  BY <1>1 DEF Covered, Greets, bus
<1>7. Present(s)'
  BY <1>0, <1>1, <1>2, <1>3, <1>4 DEF Present, Greets
<1>8. (client[s] = "closed" => client'[s] = "closed") /\ (broken'[s] => client'[s] = "closed")
  BY <1>2, <1>4
<1>9. \A l \in Listeners : task'[l].dead \subseteq task[l].dead
  BY <1>3
<1>10. Own(s)
  BY <1>6, <1>7, <1>8 DEF Own
<1> QED
  BY <1>5, <1>9, <1>10, Elsewhere

LEMMA SubscriberRetriesDelivers ==
    ASSUME Ind, Delivery, NEW o \in Listeners, SubscriberRetries(o)
    PROVE  Delivery'
<1> USE NotSymbol, ChannelsApart
<1>0. /\ TypeOK /\ Homes /\ Routes /\ Drained /\ Holdings
      /\ Alive /\ Buried /\ \A x \in Sockets : Present(x) /\ Covered(x)
  BY DEF Ind, Delivery
<1>1. /\ sent' = sent /\ since' = since /\ sub'[o] = "off"
      /\ \A x \in Sockets : x # o => sub'[x] = sub[x] /\ inbox'[x] = inbox[x]
  BY <1>0, Unsubscribed DEF SubscriberRetries
<1>2. /\ \A x \in Sockets : x # o => task'[x] = task[x]
      /\ \A l \in Listeners : task'[l].dead \subseteq task[l].dead
  <2>1. Alone(o, "subscribe") /\ task' = [task EXCEPT ![o].pc = "subscribe"]
    BY <1>0, TaskAlone DEF SubscriberRetries, TaskPCs
  <2> QED
    BY <2>1 DEF Alone
<1>3. \A x \in Sockets : x # o => Apart(x)
  BY <1>1, <1>2 DEF Apart, SubscriberRetries
<1>4. o \in Sockets => Covered(o)'
  BY <1>1 DEF Covered
<1>5. o \in Sockets => Present(o)'
  BY <1>0 DEF Present, SubscriberRetries
<1>6. o \in Sockets => (client[o] = "closed" => client'[o] = "closed") /\ (broken'[o] => client'[o] = "closed")
  BY <1>0 DEF Alive, SubscriberRetries
<1>7. \A l \in Listeners : task'[l].dead \subseteq task[l].dead
  BY <1>2
<1>8. o \in Sockets => Own(o)
  BY <1>4, <1>5, <1>6 DEF Own
<1> QED
  BY <1>3, <1>7, <1>8, Elsewhere

LEMMA SubscriberCanceledDelivers ==
    ASSUME Ind, Delivery, NEW o \in Listeners, SubscriberCanceled(o)
    PROVE  Delivery'
<1> USE NotSymbol, ChannelsApart
<1>0. /\ TypeOK /\ Homes /\ Routes /\ Drained /\ Holdings
      /\ Alive /\ Buried /\ \A x \in Sockets : Present(x) /\ Covered(x)
  BY DEF Ind, Delivery
<1>1. /\ sent' = sent /\ since' = since /\ sub'[o] = "off"
      /\ \A x \in Sockets : x # o => sub'[x] = sub[x] /\ inbox'[x] = inbox[x]
  BY <1>0, Unsubscribed DEF SubscriberCanceled
<1>2. /\ \A x \in Sockets : x # o => task'[x] = task[x]
      /\ \A l \in Listeners : task'[l].dead \subseteq task[l].dead
  <2>1. Alone(o, "done") /\ task' = [task EXCEPT ![o].pc = "done"]
    BY <1>0, TaskAlone DEF SubscriberCanceled, TaskPCs
  <2> QED
    BY <2>1 DEF Alone
<1>3. \A x \in Sockets : x # o => Apart(x)
  BY <1>1, <1>2 DEF Apart, SubscriberCanceled
<1>4. o \in Sockets => Covered(o)'
  BY <1>1 DEF Covered
<1>5. o \in Sockets => Present(o)'
  BY <1>0 DEF Present, SubscriberCanceled
<1>6. o \in Sockets => (client[o] = "closed" => client'[o] = "closed") /\ (broken'[o] => client'[o] = "closed")
  BY <1>0 DEF Alive, SubscriberCanceled
<1>7. \A l \in Listeners : task'[l].dead \subseteq task[l].dead
  BY <1>2
<1>8. o \in Sockets => Own(o)
  BY <1>4, <1>5, <1>6 DEF Own
<1> QED
  BY <1>3, <1>7, <1>8, Elsewhere

LEMMA ConnectionLostDelivers ==
    ASSUME Ind, Delivery, NEW o \in Listeners, ConnectionLost(o)
    PROVE  Delivery'
<1> USE NotSymbol, ChannelsApart
<1>0. /\ TypeOK /\ Homes /\ Routes /\ Drained /\ Holdings
      /\ Alive /\ Buried /\ \A x \in Sockets : Present(x) /\ Covered(x)
  BY DEF Ind, Delivery
<1>1. /\ sub'[o] = "lost"
      /\ \A x \in Sockets : x # o => sub'[x] = sub[x] /\ inbox'[x] = inbox[x]
  BY <1>0 DEF ConnectionLost, TypeOK
<1>2. \A x \in Sockets : x # o => Apart(x)
  BY <1>1 DEF Apart, ConnectionLost
<1>3. o \in Sockets => Covered(o)'
  BY <1>1 DEF Covered
<1>4. o \in Sockets => Present(o)'
  BY <1>0 DEF Present, ConnectionLost
<1>5. o \in Sockets => (client[o] = "closed" => client'[o] = "closed") /\ (broken'[o] => client'[o] = "closed")
  BY <1>0 DEF Alive, ConnectionLost
<1>6. \A l \in Listeners : task'[l].dead \subseteq task[l].dead
  BY DEF ConnectionLost
<1>7. o \in Sockets => Own(o)
  BY <1>3, <1>4, <1>5 DEF Own
<1> QED
  BY <1>2, <1>6, <1>7, Elsewhere

LEMMA SubscriberStartsDelivers ==
    ASSUME Ind, Delivery, NEW o \in Listeners, SubscriberStarts(o)
    PROVE  Delivery'
<1> USE NotSymbol, ChannelsApart
<1>0. /\ TypeOK /\ Homes /\ Routes /\ Drained /\ Holdings
      /\ Alive /\ Buried /\ \A x \in Sockets : Present(x) /\ Covered(x)
  BY DEF Ind, Delivery
<1>1. o \in Sockets => hand[o].chan \in Users /\ hand[o].chan \in Channels /\ sub[o] = "off"
  BY <1>0 DEF SubscriberStarts, ManagerTask, Chan, Holdings, Holding
<1>2. /\ inbox' = inbox /\ sent' = sent
      /\ \A x \in Sockets : x # o => sub'[x] = sub[x] /\ since'[x] = since[x]
  BY <1>0 DEF SubscriberStarts, subscribe, bus, TypeOK
<1>3. /\ \A x \in Sockets : x # o => task'[x] = task[x]
      /\ \A l \in Listeners : task'[l].dead \subseteq task[l].dead
  <2>1. task' \in {task, [task EXCEPT ![o].pc = "listen"], [task EXCEPT ![o].pc = "done"]}
    BY DEF SubscriberStarts
  <2>2. Alone(o, "listen") /\ Alone(o, "done")
    BY <1>0, TaskAlone DEF TaskPCs
  <2> QED
    BY <2>1, <2>2 DEF Alone
<1>4. \A x \in Sockets : x # o => Apart(x)
  BY <1>2, <1>3 DEF Apart, SubscriberStarts
<1>5. o \in Sockets => Covered(o)'
  <2>1. CASE subscribe(o)
    BY <1>0, <1>1, <2>1, NewlySubscribed DEF SubscriberStarts
  <2>2. CASE sub' = sub
    BY <1>1, <2>2 DEF Covered
  <2> QED
    BY <2>1, <2>2 DEF SubscriberStarts, bus
<1>6. o \in Sockets => Present(o)'
  BY <1>0 DEF Present, SubscriberStarts
<1>7. o \in Sockets => (client[o] = "closed" => client'[o] = "closed") /\ (broken'[o] => client'[o] = "closed")
  BY <1>0 DEF Alive, SubscriberStarts
<1>8. \A l \in Listeners : task'[l].dead \subseteq task[l].dead
  BY <1>3
<1>9. o \in Sockets => Own(o)
  BY <1>5, <1>6, <1>7 DEF Own
<1> QED
  BY <1>4, <1>8, <1>9, Elsewhere

LEMMA SubscriberReceivesDelivers ==
    ASSUME Ind, Delivery, NEW o \in Listeners, SubscriberReceives(o)
    PROVE  Delivery'
<1> USE NotSymbol, ChannelsApart
<1>0. /\ TypeOK /\ Homes /\ Routes /\ Drained /\ Holdings
      /\ Alive /\ Buried /\ \A x \in Sockets : Present(x) /\ Covered(x)
  BY DEF Ind, Delivery
<1>1. /\ \A x \in Listeners : x # o => task'[x] = task[x]
      /\ task'[o].dead = {} /\ task'[o].pc = "send" /\ task'[o].msg = Head(inbox[o])
      /\ task'[o].left = conns[Chan(o)] /\ task[o].pc = "listen"
  BY <1>0 DEF SubscriberReceives, TypeOK, Task
<1>2. /\ sub' = sub /\ since' = since /\ sent' = sent
      /\ \A x \in Listeners : x # o => inbox'[x] = inbox[x]
      /\ inbox'[o] = Tail(inbox[o]) /\ inbox[o] \in Seq(0 .. MaxEvents) /\ inbox[o] # <<>>
  BY <1>0 DEF SubscriberReceives, Consume, TypeOK
<1>3. Range(inbox[o]) \subseteq {Head(inbox[o])} \cup Range(inbox'[o])
  BY <1>2, RangeTail
<1>4. UNCHANGED <<hand, client, conns, got, broken>>
  BY DEF SubscriberReceives
<1>5. \A x \in Sockets : x # o => Apart(x)
  BY <1>1, <1>2, <1>4 DEF Apart
<1>6. o \in Sockets => Covered(o)'
  <2> SUFFICES ASSUME o \in Sockets, client[o] = "open", sub[o] = "on", hand[o].pc \in Live,
                      NEW n \in since[o] + 1 .. sent[hand[o].chan]
               PROVE  Accounted(o, n)'
    BY <1>2, <1>4 DEF Covered
  <2>1. Chan(o) = hand[o].chan /\ hand[o].chan \in Users
    BY ChanOf DEF SubscriberReceives, ManagerTask
  <2>2. hand[o].pc = "receive"
    BY <1>0, <2>1 DEF Homes, Home, Live, PublicPCs
  <2>3. o \in task'[o].left
    BY <1>0, <1>1, <2>1, <2>2 DEF Present
  <2>4. Accounted(o, n)
    BY <1>0 DEF Covered
  <2>5. [chan |-> hand[o].chan, n |-> n] \in Range(got[o]) \/ n \in Range(inbox[o])
    BY <1>1, <2>4 DEF Accounted
  <2>6. CASE n = Head(inbox[o])
    BY <1>1, <2>3, <2>6 DEF Accounted
  <2>7. CASE n # Head(inbox[o])
    BY <1>3, <1>4, <2>5, <2>7 DEF Accounted
  <2> QED
    BY <2>6, <2>7
<1>7. o \in Sockets => Present(o)'
  BY <1>0, <1>4 DEF Present
<1>8. o \in Sockets => (client[o] = "closed" => client'[o] = "closed") /\ (broken'[o] => client'[o] = "closed")
  BY <1>0, <1>4 DEF Alive
<1>9. \A l \in Listeners : task'[l].dead \subseteq task[l].dead
  BY <1>1
<1>10. o \in Sockets => Own(o)
  BY <1>6, <1>7, <1>8 DEF Own
<1> QED
  BY <1>5, <1>9, <1>10, Elsewhere

LEMMA PublishDelivers ==
    ASSUME Ind, Delivery, NEW c \in Channels, publish(c)
    PROVE  Delivery'
<1> USE NotSymbol, ChannelsApart
<1>0. TypeOK /\ Alive /\ Buried /\ \A x \in Sockets : Present(x) /\ Covered(x)
  BY DEF Ind, Delivery
<1>1. UNCHANGED <<client, broken, hand, conns, task, sub, since, got>>
  BY DEF publish
<1>2. Alive' /\ Buried' /\ \A x \in Sockets : Present(x)'
  BY <1>0, <1>1 DEF Alive, Buried, Present
<1>3. ASSUME NEW x \in Sockets
      PROVE  Covered(x)'
  <2> SUFFICES ASSUME client[x] = "open", sub[x] = "on", hand[x].pc \in Live,
                      NEW n \in since[x] + 1 .. sent'[hand[x].chan]
               PROVE  Accounted(x, n)'
    BY <1>1 DEF Covered
  <2>1. hand[x].chan \in Channels
    BY DEF Ind, Homes, Home, Live, PublicPCs
  <2>2. Chan(x) = hand[x].chan
    BY ChanOf
  <2>3. since[x] \in Int /\ sent[hand[x].chan] \in Int
    BY <1>0, <2>1 DEF TypeOK
  <2>4. CASE hand[x].chan # c
    <3>1. sent'[hand[x].chan] = sent[hand[x].chan] /\ inbox'[x] = inbox[x]
      BY <1>0, <2>1, <2>2, <2>4 DEF publish, TypeOK
    <3> QED
      BY <1>0, <1>1, <3>1 DEF Covered, Accounted
  <2>5. CASE hand[x].chan = c
    <3>1. sent'[c] = sent[c] + 1 /\ inbox'[x] = Append(inbox[x], sent[c] + 1)
      BY <1>0, <2>2, <2>5 DEF publish, TypeOK
    <3>2. inbox[x] \in Seq(0 .. MaxEvents) /\ sent[c] + 1 \in 0 .. MaxEvents
      BY <1>0, WebSocketsAssumption DEF publish, TypeOK
    <3>3. Range(inbox'[x]) = Range(inbox[x]) \cup {sent[c] + 1}
      <4> DEFINE E == 0 .. MaxEvents
                 e == sent[c] + 1
      <4>1. inbox[x] \in Seq(E) /\ e \in E /\ inbox'[x] = Append(inbox[x], e)
        BY <3>1, <3>2
      <4> HIDE DEF E, e
      <4>2. Range(inbox'[x]) = Range(inbox[x]) \cup {e}
        BY <4>1, RangeAppend
      <4> QED
        BY <4>2 DEF e
    <3>4. n = sent[c] + 1 \/ n \in since[x] + 1 .. sent[hand[x].chan]
      BY <2>3, <2>5, <3>1
    <3>5. n = sent[c] + 1 \/ Accounted(x, n)
      BY <1>0, <3>4 DEF Covered
    <3> QED
      BY <1>1, <3>3, <3>5 DEF Accounted
  <2> QED
    BY <2>4, <2>5
<1> QED
  BY <1>2, <1>3 DEF Delivery

LEMMA SubscriberSendsDelivers ==
    ASSUME Ind, Delivery, NEW o \in Listeners, SubscriberSends(o)
    PROVE  Delivery'
<1> USE NotSymbol, ChannelsApart
<1>0. TypeOK /\ Routes /\ Alive /\ Buried /\ \A x \in Sockets : Present(x) /\ Covered(x)
  BY DEF Ind, Delivery
<1>1. UNCHANGED <<client, hand, conns, sub, since, sent, inbox>>
  BY DEF SubscriberSends, bus
<1>2. PICK s \in task[o].left :
           \/ /\ Sends(s, Chan(o), task[o].msg)
              /\ task' = [task EXCEPT ![o].left = @ \ {s}]
           \/ /\ SendRaises(s)
              /\ task' = [task EXCEPT ![o].left = @ \ {s}, ![o].dead = @ \cup {s}]
  BY DEF SubscriberSends
<1>3. s \in Sockets /\ task[o].msg \in 0 .. MaxEvents /\ task[o] \in Task
  BY <1>0, <1>2 DEF TypeOK, Task
<1>4. Chan(o) \in Channels /\ hand[s].chan = Chan(o)
  BY <1>0, <1>2, <1>3 DEF Routes, Recipients
<1>5. /\ \A x \in Sockets : x # s => got'[x] = got[x] /\ broken'[x] = broken[x]
      /\ Range(got[s]) \subseteq Range(got'[s])
      /\ client[s] = "open" => [chan |-> Chan(o), n |-> task[o].msg] \in Range(got'[s])
      /\ broken'[s] => client[s] = "closed"
  <2> DEFINE c == Chan(o)
             e == task[o].msg
  <2>1. c \in Channels /\ e \in 0 .. MaxEvents /\ (Sends(s, c, e) \/ SendRaises(s))
    BY <1>2, <1>3, <1>4
  <2> HIDE DEF c, e
  <2>2. /\ \A x \in Sockets : x # s => got'[x] = got[x] /\ broken'[x] = broken[x]
        /\ Range(got[s]) \subseteq Range(got'[s])
        /\ client[s] = "open" => [chan |-> c, n |-> e] \in Range(got'[s])
        /\ broken'[s] => client[s] = "closed"
    BY <1>0, <1>3, <2>1, Sending
  <2> QED
    BY <2>2 DEF c, e
<1>6. /\ \A x \in Listeners : x # o => task'[x] = task[x]
      /\ task'[o].pc = task[o].pc /\ task'[o].msg = task[o].msg
      /\ task'[o].left = task[o].left \ {s}
  <2>1. task' \in {[task EXCEPT ![o].left = @ \ {s}],
                   [task EXCEPT ![o].left = @ \ {s}, ![o].dead = @ \cup {s}]}
    BY <1>2
  <2> QED
    BY <1>0, <1>3, <2>1, TaskShrinks
<1>7. Buried'
  <2>1. \A x \in Sockets : x \in task'[o].dead => x \in task[o].dead \/ (x = s /\ client[s] = "closed")
    <3>1. CASE task' = [task EXCEPT ![o].left = @ \ {s}]
      <4>1. task'[o] = [task[o] EXCEPT !.left = @ \ {s}]
        BY <1>0, <3>1 DEF TypeOK
      <4> QED
        BY <1>3, <4>1, OneLess
    <3>2. CASE SendRaises(s) /\ task' = [task EXCEPT ![o].left = @ \ {s}, ![o].dead = @ \cup {s}]
      <4>1. task'[o] = [task[o] EXCEPT !.left = @ \ {s}, !.dead = @ \cup {s}]
        BY <1>0, <3>2 DEF TypeOK
      <4>2. task'[o].dead = task[o].dead \cup {s}
        <5>1. PICK t, n : t = task[o] /\ n = task'[o]
          OBVIOUS
        <5>2. t \in Task /\ n = [t EXCEPT !.left = @ \ {s}, !.dead = @ \cup {s}]
          BY ONLY <1>3, <4>1, <5>1
        <5>3. n.dead = t.dead \cup {s}
          BY ONLY <5>2 DEF Task
        <5> QED
          BY ONLY <5>1, <5>3
      <4> QED
        BY <3>2, <4>2 DEF SendRaises
    <3> QED
      BY <1>2, <3>1, <3>2
  <2> QED
    BY <1>0, <1>1, <1>6, <2>1 DEF Buried
<1>8. Alive' /\ \A x \in Sockets : Present(x)'
  BY <1>0, <1>1, <1>3, <1>5 DEF Alive, Present
<1>9. ASSUME NEW x \in Sockets
      PROVE  Covered(x)'
  <2> SUFFICES ASSUME client[x] = "open", sub[x] = "on", hand[x].pc \in Live,
                      NEW n \in since[x] + 1 .. sent[hand[x].chan]
               PROVE  Accounted(x, n)'
    BY <1>1 DEF Covered
  <2>1. Accounted(x, n)
    BY <1>0 DEF Covered
  <2>2. Range(got[x]) \subseteq Range(got'[x])
    BY <1>5
  <2>3. CASE [chan |-> hand[x].chan, n |-> n] \in Range(got[x]) \/ n \in Range(inbox[x])
    BY <1>1, <2>2, <2>3 DEF Accounted
  <2>4. CASE task[x].pc = "send" /\ task[x].msg = n /\ x \in task[x].left
    <3>1. CASE x # o \/ x # s
      BY <1>6, <2>4, <3>1 DEF Accounted
    <3>2. CASE x = o /\ x = s
      BY <1>1, <1>4, <1>5, <2>4, <3>2 DEF Accounted
    <3> QED
      BY <3>1, <3>2
  <2> QED
    BY <2>1, <2>3, <2>4 DEF Accounted
<1> QED
  BY <1>7, <1>8, <1>9 DEF Delivery

LEMMA SubscriberCleansDelivers ==
    ASSUME Ind, Delivery, NEW o \in Listeners, SubscriberCleans(o)
    PROVE  Delivery'
<1> USE NotSymbol, ChannelsApart
<1>0. TypeOK /\ Alive /\ Buried /\ \A x \in Sockets : Present(x) /\ Covered(x)
  BY DEF Ind, Delivery
<1>1. UNCHANGED <<client, broken, hand, sub, since, sent, inbox, got>>
  BY DEF SubscriberCleans, bus
<1>2. /\ \A x \in Listeners : x # o => task'[x] = task[x]
      /\ task'[o].dead = {} /\ task[o].left = {}
  BY <1>0, TaskSet, IdleTask DEF SubscriberCleans, TaskPCs
<1>3. \A x \in Sockets : client[x] # "closed" => \A c \in Channels : x \in conns[c] => x \in conns'[c]
  <2>1. \A x \in Sockets : x \in task[o].dead => client[x] = "closed"
    BY <1>0 DEF Buried
  <2>2. conns' = [conns EXCEPT ![Chan(o)] = @ \ task[o].dead]
    BY DEF SubscriberCleans, disconnect
  <2> QED
    BY <1>0, <2>1, <2>2 DEF TypeOK
<1>4. Alive' /\ Buried'
  BY <1>0, <1>1, <1>2 DEF Alive, Buried
<1>5. \A x \in Sockets : Present(x)'
  BY <1>0, <1>1, <1>3 DEF Present
<1>6. \A x \in Sockets : Covered(x)'
  BY <1>0, <1>1, <1>2 DEF Covered, Accounted
<1> QED
  BY <1>4, <1>5, <1>6 DEF Delivery

LEMMA Stop_subscribersDelivers ==
    ASSUME Ind, Delivery, stop_subscribers
    PROVE  Delivery'
<1> USE NotSymbol, ChannelsApart
<1>0. TypeOK /\ Alive /\ Buried /\ \A x \in Sockets : Present(x) /\ Covered(x)
  BY DEF Ind, Delivery
<1>1. UNCHANGED <<client, broken, hand, conns, sub, since, sent, inbox, got>>
  BY DEF stop_subscribers, bus
<1>2. \A x \in Listeners : task'[x].dead \subseteq task[x].dead /\ (x \notin Symbols => task'[x] = task[x])
  <2>1. [NoTask EXCEPT !.pc = "canceled"].dead = {}
    BY IdleTask DEF TaskPCs
  <2> QED
    BY <2>1 DEF stop_subscribers, Cancel
<1> QED
  BY <1>0, <1>1, <1>2 DEF Delivery, Alive, Buried, Present, Covered, Accounted

LEMMA IdleDelivers ==
    ASSUME Delivery, UNCHANGED <<client, broken, hand, conns, task, sub, since, sent, inbox, got>>
    PROVE  Delivery'
BY DEF Delivery, Alive, Buried, Present, Covered, Accounted

LEMMA InitDelivers == Init => Delivery
<1> SUFFICES ASSUME Init
             PROVE  Delivery
  OBVIOUS
<1>1. \A s \in Sockets : client[s] = "absent" /\ ~broken[s]
  BY DEF Init
<1>2. \A o \in Listeners : task[o].dead = {}
  <2>1. NoTask.dead = {} /\ [NoTask EXCEPT !.pc = "subscribe"].dead = {}
    BY IdleTask DEF NoTask, TaskPCs
  <2> QED
    BY <2>1 DEF Init, start_subscribers
<1> QED
  BY <1>1, <1>2 DEF Delivery, Alive, Buried, Present, Covered

LEMMA NextDelivers == Ind /\ Delivery /\ [Next]_vars => Delivery'
<1> SUFFICES ASSUME Ind, Delivery, [Next]_vars
             PROVE  Delivery'
  OBVIOUS
<1>1. CASE UNCHANGED vars
  BY <1>1, IdleDelivers DEF vars, bus
<1>2. ASSUME NEW s \in Sockets,
             \/ ClientCloses(s)
             \/ \E c \in Symbols : connect_public(s, c)
             \/ \E u \in Users : PrivateConnects(s, u)
             \/ PublicStep(s) \/ PrivateStep(s)
             \/ disconnect_private(s) \/ listen_client(s)
             \/ listen_pubsub(s)
      PROVE  Delivery'
  <2>1. CASE PublicStep(s)
    BY <2>1, SnapshotReadsDelivers, SnapshotSendsDelivers, PublicSubscribesDelivers,
       PublicPollsDelivers, PublicReceivesDelivers, GatheredDelivers, PublicLeavesDelivers,
       Disconnect_publicDelivers DEF PublicStep
  <2>2. CASE PrivateStep(s)
    BY <2>2, AuthenticatedDelivers, AuthFailsDelivers, Connect_privateDelivers, GreetsDelivers,
       PrivateEndsDelivers DEF PrivateStep
  <2> QED
    BY <1>2, <2>1, <2>2, ClientClosesDelivers, Connect_publicDelivers, PrivateConnectsDelivers,
       Disconnect_privateDelivers, Listen_clientDelivers, Listen_pubsubDelivers
<1>3. ASSUME NEW o \in Listeners, ConnectionLost(o) \/ SubscriberStep(o)
      PROVE  Delivery'
  BY <1>3, ConnectionLostDelivers, SubscriberStartsDelivers, SubscriberReceivesDelivers,
     SubscriberSendsDelivers, SubscriberCleansDelivers, SubscriberRetriesDelivers,
     SubscriberCanceledDelivers DEF SubscriberStep
<1>4. ASSUME NEW c \in Channels, publish(c)
      PROVE  Delivery'
  BY <1>4, PublishDelivers
<1>5. ASSUME NEW u \in Users, Revoke(u)
      PROVE  Delivery'
  BY <1>5, IdleDelivers DEF Revoke, bus
<1> QED
  BY <1>1, <1>2, <1>3, <1>4, <1>5, Stop_subscribersDelivers DEF Next

\* Being subscribed means missing nothing, for any number of sockets, users and
\* events: every event published since the subscription has been received or is
\* on its way (subscribe_private_channel after connect_private, and
\* broadcast_private to the sockets registered when the event arrives).
THEOREM SubscribedMissNothing == Spec => []NothingMissed
<1>1. Delivery => NothingMissed
  BY DEF Delivery, NothingMissed, Covered, Live
<1> QED
  BY <1>1, StreamsConsistent, InitDelivers, NextDelivers, PTL DEF Spec

=============================================================================
