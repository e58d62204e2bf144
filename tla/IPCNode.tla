------------------------------- MODULE IPCNode -------------------------------
(***************************************************************************)
(* The nodes (lib/IPCNode.cc): each keeps a table of its neighbours, fed   *)
(* by the callbacks of its TopologyManager, and sends what it publishes as *)
(* datagrams to the subscribers in the table.                              *)
(*                                                                         *)
(* Three threads act for a node: the application ("app"), MainLoop         *)
(* ("reader"), which reads datagrams and runs the handlers, and the thread *)
(* of the UDSClient, which runs the callbacks.  They share mNodeById and   *)
(* mSubscriptions under mMtx, and Publish holds mMtx while it sends.       *)
(*                                                                         *)
(* The topology stands here as one log of the group's events, which every  *)
(* node applies in its order and at its pace: this is what Topology shows  *)
(* of a hub that stays.  Nobody unsubscribes, because the call does not    *)
(* return (TopologyManager), and OnAnnounce and OnRetract do nothing.      *)
(***************************************************************************)
EXTENDS Naturals, Sequences, FiniteSets

CONSTANTS
    Nodes,
    Topics,
    QueueLength,    \* datagrams a socket queues before sendto blocks
    Wants,          \* Wants[n]: topics that the application at n subscribes to
    Says,           \* Says[n]: topics that it publishes
    Replies,        \* Replies[n]: topic -> topic its handler publishes
    MaxPublished,   \* MaxPublished[n]: how often the application at n publishes
    Mortal,         \* nodes whose process may be killed
    Destroyed,      \* nodes that their application may destroy
    Dirty           \* nodes whose stack may hold anything when they start

ASSUME IPCAssumption ==
    /\ QueueLength \in Nat \ {0} /\ MaxPublished \in [Nodes -> Nat]
    /\ Wants \in [Nodes -> SUBSET Topics] /\ Says \in [Nodes -> SUBSET Topics]
    /\ \A n \in Nodes, t \in Topics : t \in DOMAIN Replies[n] => Replies[n][t] \in Topics
    /\ Mortal \cup Destroyed \cup Dirty \subseteq Nodes

VARIABLES
    status,         \* "off", "up" or "dead"
    padded,         \* the name n's socket is bound to ends in zeros
    log,            \* events [op, node, topic] of the group
    applied,        \* how many of them n's TopologyManager has applied
    mNodeById,      \* node -> [path, subs], the table of n
    mSubscriptions, \* topics with a handler at n
    mMtx,           \* the thread that holds n's lock, or "free"
    task,           \* what each thread of n is doing
    published,      \* how often n has begun to publish
    said,           \* how often its application did
    inbox,          \* datagrams queued at n's socket
    delivered,      \* datagrams n's handlers were called with
    refused         \* nodes a sendto of n failed for

tableVars == <<mNodeById, mSubscriptions>>
vars == <<status, padded, log, applied, tableVars, mMtx, task, published, said,
          inbox, delivered, refused>>

Threads  == {"app", "reader"}
Events   == [op : {"JOIN", "LEAVE", "SUBSCRIBE"}, node : Nodes, topic : Topics \cup {""}]
Messages == [from : Nodes, topic : Topics, serial : Nat]
Idle     == [at |-> "idle"]

Init ==
    /\ status = [n \in Nodes |-> "off"]
    /\ padded = [n \in Nodes |-> TRUE]
    /\ log = <<>>
    /\ applied = [n \in Nodes |-> 0]
    /\ mNodeById = [n \in Nodes |-> <<>>]
    /\ mSubscriptions = [n \in Nodes |-> {}]
    /\ mMtx = [n \in Nodes |-> "free"]
    /\ task = [n \in Nodes |-> [th \in Threads |-> Idle]]
    /\ published = [n \in Nodes |-> 0] /\ said = [n \in Nodes |-> 0]
    /\ inbox = [n \in Nodes |-> <<>>]
    /\ delivered = [n \in Nodes |-> <<>>]
    /\ refused = [n \in Nodes |-> {}]

Event(op, node, topic) == [op |-> op, node |-> node, topic |-> topic]

Free(n)        == status[n] = "up" /\ mMtx[n] = "free"
Doing(n, th)   == task[n][th].at
Goto(n, th, t) == task' = [task EXCEPT ![n][th] = t]

\* Somebody is bound to the address that the others have of n.
Bound(n) == status[n] = "up" /\ Doing(n, "app") # "manager" /\ padded[n]

\* A thread that has done its work; MainLoop polls again and sees the shutdown event.
Rest(n, th) ==
    IF th = "reader" /\ Doing(n, "app") = "join" THEN [at |-> "ended"] ELSE Idle

-----------------------------------------------------------------------------
(* Creation and death.                                                     *)

(* The socket's name is bound with all of sun_path, whose bytes after the  *)
(* path are not initialised; senders fill them with zeros.                 *)
Create(n) ==
    /\ status[n] = "off"
    /\ status' = [status EXCEPT ![n] = "up"]
    /\ \E zeros \in IF n \in Dirty THEN BOOLEAN ELSE {TRUE} :
          padded' = [padded EXCEPT ![n] = zeros]
    /\ log' = Append(log, Event("JOIN", n, ""))
    /\ UNCHANGED <<applied, tableVars, mMtx, task, published, said, inbox, delivered, refused>>

Kill(n) ==
    /\ n \in Mortal
    /\ status[n] = "up"
    /\ status' = [status EXCEPT ![n] = "dead"]
    /\ mMtx' = [mMtx EXCEPT ![n] = "free"]
    /\ task' = [task EXCEPT ![n] = [th \in Threads |-> Idle]]
    /\ inbox' = [inbox EXCEPT ![n] = <<>>]
    /\ UNCHANGED <<padded, log, applied, tableVars, published, said, delivered, refused>>

\* The hub learns of the death.
Leave(n) ==
    /\ status[n] = "dead"
    /\ Event("LEAVE", n, "") \notin {log[i] : i \in DOMAIN log}
    /\ log' = Append(log, Event("LEAVE", n, ""))
    /\ UNCHANGED <<status, padded, applied, tableVars, mMtx, task, published, said,
                   inbox, delivered, refused>>

-----------------------------------------------------------------------------
(* The callbacks.                                                          *)

Put(table, node, entry) ==
    [m \in DOMAIN table \cup {node} |-> IF m = node THEN entry ELSE table[m]]

Subscribers(table, node) == IF node \in DOMAIN table THEN table[node].subs ELSE {}

OnJoin(table, node) ==
    Put(table, node, [path |-> TRUE, subs |-> Subscribers(table, node)])

\* Deviation: the node's subscriptions are forgotten, the node is not.
OnLeaveKept(table, node) ==
    IF node \in DOMAIN table THEN [table EXCEPT ![node].subs = {}] ELSE table

OnLeave(table, node) == [m \in DOMAIN table \ {node} |-> table[m]]

OnSubscribe(table, node, topic) ==
    Put(table, node, [path |-> node \in DOMAIN table /\ table[node].path,
                      subs |-> Subscribers(table, node) \cup {topic}])

\* The nodes in the view of a TopologyManager that has applied k events.
Joined(k) ==
    {log[i].node : i \in {j \in 1..k : log[j].op = "JOIN" /\
        \A l \in (j + 1)..k : log[l] # Event("LEAVE", log[j].node, "")}}

\* TopologyManager passes on the events that change its view.
Callback(n) ==
    LET event == log[applied[n] + 1]
        table == mNodeById[n]
        known == event.node \in Joined(applied[n])
    IN  CASE event.op = "JOIN" /\ ~known     -> OnJoin(table, event.node)
          [] event.op = "LEAVE" /\ known     -> OnLeave(table, event.node)
          [] event.op = "SUBSCRIBE" /\ known -> OnSubscribe(table, event.node, event.topic)
          [] OTHER -> table

Apply(n) ==
    /\ Free(n)
    /\ applied[n] < Len(log)
    /\ mNodeById' = [mNodeById EXCEPT ![n] = Callback(n)]
    /\ applied' = [applied EXCEPT ![n] = @ + 1]
    /\ UNCHANGED <<status, padded, log, mSubscriptions, mMtx, task, published, said,
                   inbox, delivered, refused>>

-----------------------------------------------------------------------------
(* Subscribe and Publish.                                                  *)

\* Subscribe tells the group before it registers the handler.
Subscribe(n, topic) ==
    /\ status[n] = "up"
    /\ Doing(n, "app") = "idle"
    /\ Event("SUBSCRIBE", n, topic) \notin {log[i] : i \in DOMAIN log}
    /\ log' = Append(log, Event("SUBSCRIBE", n, topic))
    /\ Goto(n, "app", [at |-> "register", topic |-> topic])
    /\ UNCHANGED <<status, padded, applied, tableVars, mMtx, published, said, inbox,
                   delivered, refused>>

Register(n) ==
    /\ Free(n)
    /\ Doing(n, "app") = "register"
    /\ mSubscriptions' = [mSubscriptions EXCEPT ![n] = @ \cup {task[n]["app"].topic}]
    /\ Goto(n, "app", Idle)
    /\ UNCHANGED <<status, padded, log, applied, mNodeById, mMtx, published, said, inbox,
                   delivered, refused>>

Publishing(n, topic, to) ==
    [at |-> "publish", left |-> to,
     msg |-> [from |-> n, topic |-> topic, serial |-> published[n] + 1]]

Receivers(n, topic) ==
    {m \in DOMAIN mNodeById[n] : mNodeById[n][m].path /\ topic \in mNodeById[n][m].subs}

\* Deviation: the lock covers the table and not the sending.
PublishUnlocked(n, th, topic) ==
    /\ Free(n)
    /\ published' = [published EXCEPT ![n] = @ + 1]
    /\ Goto(n, th, Publishing(n, topic, Receivers(n, topic)))
    /\ UNCHANGED <<status, padded, log, applied, tableVars, mMtx, inbox, delivered, refused>>

\* Deviation: the subscriptions of the neighbours are not looked at.
PublishToAll(n, th, topic) ==
    /\ Free(n)
    /\ published' = [published EXCEPT ![n] = @ + 1]
    /\ mMtx' = [mMtx EXCEPT ![n] = th]
    /\ Goto(n, th, Publishing(n, topic, DOMAIN mNodeById[n]))
    /\ UNCHANGED <<status, padded, log, applied, tableVars, inbox, delivered, refused>>

\* Publish takes the lock and picks the neighbours to send to.
Publish(n, th, topic) ==
    /\ Free(n)
    /\ published' = [published EXCEPT ![n] = @ + 1]
    /\ mMtx' = [mMtx EXCEPT ![n] = th]
    /\ Goto(n, th, Publishing(n, topic, Receivers(n, topic)))
    /\ UNCHANGED <<status, padded, log, applied, tableVars, inbox, delivered, refused>>

\* sendto blocks while the receiver's queue is full, and fails if nobody is
\* bound to the address.
Sendto(n, th, m) ==
    /\ Doing(n, th) = "publish"
    /\ m \in task[n][th].left
    /\ \/ /\ Bound(m)
          /\ Len(inbox[m]) < QueueLength
          /\ inbox' = [inbox EXCEPT ![m] = Append(@, task[n][th].msg)]
          /\ UNCHANGED refused
       \/ /\ ~Bound(m)
          /\ refused' = [refused EXCEPT ![n] = @ \cup {m}]
          /\ UNCHANGED inbox
    /\ task' = [task EXCEPT ![n][th].left = @ \ {m}]
    /\ UNCHANGED <<status, padded, log, applied, tableVars, mMtx, published, said, delivered>>

\* Deviation: a Publish from a handler forgets to unlock.
PublishEndsLocked(n, th) ==
    /\ Doing(n, th) = "publish"
    /\ task[n][th].left = {}
    /\ IF th = "app" THEN mMtx' = [mMtx EXCEPT ![n] = "free"] ELSE UNCHANGED mMtx
    /\ Goto(n, th, Rest(n, th))
    /\ UNCHANGED <<status, padded, log, applied, tableVars, published, said, inbox,
                   delivered, refused>>

PublishEnds(n, th) ==
    /\ Doing(n, th) = "publish"
    /\ task[n][th].left = {}
    /\ mMtx' = [mMtx EXCEPT ![n] = "free"]
    /\ Goto(n, th, Rest(n, th))
    /\ UNCHANGED <<status, padded, log, applied, tableVars, published, said, inbox,
                   delivered, refused>>

-----------------------------------------------------------------------------
(* MainLoop and OnData.                                                    *)

\* If the event of a shutdown is there too, poll has returned before it.
Read(n) ==
    /\ status[n] = "up"
    /\ Doing(n, "reader") = "idle"
    /\ inbox[n] # <<>>
    /\ Goto(n, "reader", [at |-> "handle", msg |-> Head(inbox[n])])
    /\ inbox' = [inbox EXCEPT ![n] = Tail(@)]
    /\ UNCHANGED <<status, padded, log, applied, tableVars, mMtx, published, said,
                   delivered, refused>>

\* Deviation: the handler runs under the lock.
OnDataLocked(n) ==
    /\ Free(n)
    /\ Doing(n, "reader") = "handle"
    /\ LET msg == task[n]["reader"].msg
       IN  IF msg.topic \in mSubscriptions[n] /\ msg.topic \in DOMAIN Replies[n]
           THEN /\ delivered' = [delivered EXCEPT ![n] = Append(@, msg)]
                /\ Goto(n, "reader", [at |-> "reply", topic |-> Replies[n][msg.topic]])
                /\ mMtx' = [mMtx EXCEPT ![n] = "reader"]
           ELSE /\ UNCHANGED <<delivered, mMtx>>
                /\ Goto(n, "reader", Rest(n, "reader"))
    /\ UNCHANGED <<status, padded, log, applied, tableVars, published, said, inbox, refused>>

\* The handler is looked up under the lock and called without it.
OnData(n) ==
    /\ Free(n)
    /\ Doing(n, "reader") = "handle"
    /\ LET msg == task[n]["reader"].msg
       IN  IF msg.topic \in mSubscriptions[n]
           THEN /\ delivered' = [delivered EXCEPT ![n] = Append(@, msg)]
                /\ Goto(n, "reader", IF msg.topic \in DOMAIN Replies[n]
                                     THEN [at |-> "reply", topic |-> Replies[n][msg.topic]]
                                     ELSE Rest(n, "reader"))
           ELSE /\ UNCHANGED delivered
                /\ Goto(n, "reader", Rest(n, "reader"))
    /\ UNCHANGED <<status, padded, log, applied, tableVars, mMtx, published, said, inbox, refused>>

\* The handler of a topic publishes.
Reply(n) ==
    /\ Doing(n, "reader") = "reply"
    /\ Publish(n, "reader", task[n]["reader"].topic)
    /\ UNCHANGED said

-----------------------------------------------------------------------------
(* ~IPCNode.                                                               *)

\* Writes the event and joins MainLoop.
Destroy(n) ==
    /\ n \in Destroyed
    /\ status[n] = "up"
    /\ Doing(n, "app") = "idle"
    /\ Goto(n, "app", [at |-> "join"])
    /\ UNCHANGED <<status, padded, log, applied, tableVars, mMtx, published, said, inbox,
                   delivered, refused>>

\* A MainLoop that was waiting in poll.
ReaderEnds(n) ==
    /\ Doing(n, "app") = "join"
    /\ Doing(n, "reader") = "idle"
    /\ Goto(n, "reader", Rest(n, "reader"))
    /\ UNCHANGED <<status, padded, log, applied, tableVars, mMtx, published, said, inbox,
                   delivered, refused>>

\* The sockets are closed.  Then ~TopologyManager waits for the hub to go, which it
\* does not do here (DropClient in TopologyManager), and goes on to call back.
CloseSockets(n) ==
    /\ Doing(n, "app") = "join"
    /\ Doing(n, "reader") = "ended"
    /\ Goto(n, "app", [at |-> "manager"])
    /\ inbox' = [inbox EXCEPT ![n] = <<>>]
    /\ UNCHANGED <<status, padded, log, applied, tableVars, mMtx, published, said,
                   delivered, refused>>

-----------------------------------------------------------------------------

\* The application publishes.
Say(n, topic) ==
    /\ Doing(n, "app") = "idle"
    /\ said[n] < MaxPublished[n]
    /\ said' = [said EXCEPT ![n] = @ + 1]
    /\ Publish(n, "app", topic)

System ==
    \E n \in Nodes :
        \/ Leave(n) \/ Apply(n) \/ Register(n)
        \/ Read(n) \/ OnData(n) \/ Reply(n)
        \/ ReaderEnds(n) \/ CloseSockets(n)
        \/ \E th \in Threads : PublishEnds(n, th) \/ \E m \in Nodes : Sendto(n, th, m)

Environment ==
    \E n \in Nodes :
        \/ Create(n)
        \/ Kill(n)
        \/ Destroy(n)
        \/ \E topic \in Wants[n] : Subscribe(n, topic)
        \/ \E topic \in Says[n] : Say(n, topic)

Next == System \/ Environment

\* As in Topology: while a thread of some node can go on, some thread does.
Spec == Init /\ [][Next]_vars /\ WF_vars(System)

-----------------------------------------------------------------------------
(* Properties.                                                             *)

Up == {n \in Nodes : status[n] = "up"}

\* Every variable has its type, and the holder of a lock is a thread that publishes.
TypeOK ==
    /\ status \in [Nodes -> {"off", "up", "dead"}] /\ padded \in [Nodes -> BOOLEAN]
    /\ log \in Seq(Events)
    /\ applied \in [Nodes -> 0..Len(log)]
    /\ \A n \in Nodes : DOMAIN mNodeById[n] \subseteq Nodes /\ mNodeById[n] \in
          [DOMAIN mNodeById[n] -> [path : BOOLEAN, subs : SUBSET Topics]]
    /\ mSubscriptions \in [Nodes -> SUBSET Topics]
    /\ mMtx \in [Nodes -> {"free"} \cup Threads]
    /\ \A n \in Nodes : mMtx[n] # "free" => Doing(n, mMtx[n]) = "publish"
    /\ \A n \in Nodes, th \in Threads :
          Doing(n, th) \in {"idle", "register", "handle", "reply", "publish", "join", "ended",
                           "manager"}
    /\ published \in [Nodes -> Nat] /\ \A n \in Nodes : said[n] \in 0..MaxPublished[n]
    /\ inbox \in [Nodes -> Seq(Messages)] /\ delivered \in [Nodes -> Seq(Messages)]
    /\ refused \in [Nodes -> SUBSET Nodes]

\* The table from which Publish picks its receivers agrees with the events the node
\* has been called back for: it holds the nodes of the view, with an address and their
\* subscriptions, and nothing of those that left.
NeighboursFollowView ==
    \A n \in Up : LET k == applied[n] IN
        mNodeById[n] = [m \in Joined(k) |->
            [path |-> TRUE,
             subs |-> {t \in Topics : \E i \in 1..k : log[i] = Event("SUBSCRIBE", m, t)}]]

\* What a node is handed and has still to read, oldest first.
Received(n) ==
    delivered[n]
    \o (IF Doing(n, "reader") = "handle" THEN <<task[n]["reader"].msg>> ELSE <<>>)
    \o inbox[n]

\* Receivers get a publisher's messages in the order of the Publish calls and at
\* most once, although the application and the handlers of a node publish
\* at the same time, each to many neighbours.
OnceInOrder ==
    \A n \in Nodes : \A i, j \in DOMAIN Received(n) :
        /\ i < j
        /\ Received(n)[i].from = Received(n)[j].from
        => Received(n)[i].serial < Received(n)[j].serial

\* Nobody is sent what he did not ask for (subscriptions.count in Publish): what
\* arrives is of a topic that the node has called Subscribe with.
NobodyElseHears ==
    \A n \in Nodes : \A i \in DOMAIN Received(n) :
        Event("SUBSCRIBE", n, Received(n)[i].topic) \in {log[j] : j \in DOMAIN log}

\* If the nodes that publish to each other, directly or by their handlers, form no
\* cycle of whatever length, every Publish returns although it blocks on full queues
\* with the lock held, and again and again a node has none under way: the receiver's
\* loop gets its own lock and makes room, or its node is gone or closes the socket.
PublishReturns ==
    \A n \in Nodes : []<>(\A th \in Threads : Doing(n, th) \notin {"reply", "publish"})

\* The destructor gets MainLoop to end, although MainLoop may be in a handler whose
\* Publish waits for a neighbour, or have to wait for the lock first.
LoopEnds == \A n \in Destroyed : Doing(n, "app") = "join" ~> Doing(n, "app") # "join"

\* The tables of all nodes come to hold exactly the nodes that are up, although
\* the callbacks wait for a Publish that waits for a neighbour.
TablesConverge == <>[](\A n \in Up : DOMAIN mNodeById[n] = Up)

\* A datagram for a neighbour that is alive finds its socket: the address ends at
\* the first \0 after the first character (the NOTE in Publish).
LiveNeighboursReached == \A n \in Nodes : refused[n] \cap Up = {}
=============================================================================
