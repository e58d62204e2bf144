--------------------------- MODULE TopologyManager ---------------------------
(***************************************************************************)
(* The spokes (lib/TopologyManager.cc), one per node.  Three threads act   *)
(* for a node: MainLoop (pc), the thread of its UDSClient, which calls     *)
(* ApplyUpdate, and the callers of Announce, Retract, Subscribe and        *)
(* Unsubscribe.  They share mHistory, mNodes, mBacklog and mClient.  A     *)
(* step is what a thread does from taking mMtx to giving it back, or one   *)
(* access that is not locked.                                              *)
(*                                                                         *)
(* Unlike a hub's variables those of the spokes are functions of the node. *)
(* A process runs one node; a process that died does not come back, since  *)
(* a new process draws a new node id.                                      *)
(***************************************************************************)
EXTENDS TopologyMessages, UDS

CONSTANTS
    Nodes,      \* ids of the nodes: positive numbers
    NoHost      \* no process owns the announce address

ASSUME NodesAssumption == Nodes \subseteq Nat \ {0} /\ NoHost \notin Nodes

VARIABLES
    pc,         \* where MainLoop is
    client,     \* MainLoop's local variable client: a connection, or 0
    unsent,     \* MainLoop's local copy of the backlog, from the next one on
    mClient,    \* the shared client: a connection, or 0 for nullptr
    mBacklog,   \* messages that could not be sent
    mHistory,   \* messages received, by seq
    mNodes,     \* the view: node -> [pubs: topic -> mime, subs: set of topics]
    stuck,      \* Unsubscribe locked mMtx twice: nobody ever gets it again
    owner,      \* whoever owns the manager: "uses" it, "destroys" it (mShutdown is
                \* set), "joins" MainLoop, or the manager is "gone"
    hubHost     \* the node whose process is bound to the announce address

connVars    == <<client, unsent, mClient, mBacklog>>
viewVars    == <<mHistory, mNodes>>
objVars     == <<stuck, owner>>
managerVars == <<pc, connVars, viewVars, objVars, hubHost>>

Running(n) == pc[n] \notin {"off", "dead"}

mShutdown(n) == owner[n] # "uses"

\* mMtx can be taken.
CanLock(n) == ~stuck[n]

ManagerInit ==
    /\ pc = [n \in Nodes |-> "off"]
    /\ client = [n \in Nodes |-> 0]
    /\ unsent = [n \in Nodes |-> <<>>]
    /\ mClient = [n \in Nodes |-> 0]
    /\ mBacklog = [n \in Nodes |-> <<>>]
    /\ mHistory = [n \in Nodes |-> <<>>]
    /\ mNodes = [n \in Nodes |-> <<>>]
    /\ stuck = [n \in Nodes |-> FALSE]
    /\ owner = [n \in Nodes |-> "uses"]
    /\ hubHost = NoHost
    /\ toHub = <<>> /\ toClient = <<>> /\ hubEnd = <<>> /\ cliEnd = <<>>

-----------------------------------------------------------------------------
(* ApplyUpdate.                                                            *)

NewNode == [pubs |-> <<>>, subs |-> {}]

Without(f, x) == [y \in DOMAIN f \ {x} |-> f[y]]

\* The view after a message: what is known of a node, by its op.
Updated(node, body) ==
    CASE body.op = "ANNOUNCE"    -> [node EXCEPT !.pubs = With(@, body.topic, body.mime)]
      [] body.op = "RETRACT"     -> [node EXCEPT !.pubs = Without(@, body.topic)]
      [] body.op = "SUBSCRIBE"   -> [node EXCEPT !.subs = @ \cup {body.topic}]
      [] body.op = "UNSUBSCRIBE" -> [node EXCEPT !.subs = @ \ {body.topic}]

Viewed(view, body) ==
    CASE body.op = "JOIN" /\ body.node \notin DOMAIN view -> With(view, body.node, NewNode)
      [] body.op = "LEAVE" -> Without(view, body.node)
      [] body.op \in TopicOps /\ body.node \in DOMAIN view ->
             [view EXCEPT ![body.node] = Updated(@, body)]
      [] OTHER -> view

\* Deviation: messages are kept in the order of their arrival.
RememberedLast(h, msg) == Append(h, msg)

Remembered(h, msg) == InsertBefore(h, LowerBound(h, msg.seq), msg)

ApplyUpdate(n, msg) ==
    /\ CanLock(n)
    /\ mHistory' = [mHistory EXCEPT ![n] = Remembered(@, msg)]
    /\ mNodes' = [mNodes EXCEPT ![n] = Viewed(@, msg.body)]

-----------------------------------------------------------------------------
(* The thread of the UDSClient.                                            *)

ClientRead(n) ==
    LET c == client[n] IN
    /\ c # 0
    /\ ClientCanRead(c)
    /\ ApplyUpdate(n, Head(toClient[c]))
    /\ toClient' = [toClient EXCEPT ![c] = Tail(@)]
    /\ UNCHANGED <<pc, connVars, objVars, hubHost, toHub, hubEnd, cliEnd>>

ClientHangup(n) ==
    LET c == client[n] IN
    /\ c # 0
    /\ ClientSeesHangup(c)
    /\ \/ /\ LastReadSucceeds(c)
          /\ ApplyUpdate(n, Head(toClient[c]))
          /\ toClient' = [toClient EXCEPT ![c] = Tail(@)]
       \/ LastReadFails(c) /\ UNCHANGED <<viewVars, toClient>>
    /\ cliEnd' = [cliEnd EXCEPT ![c] = "closed"]
    /\ UNCHANGED <<pc, connVars, objVars, hubHost, toHub, hubEnd>>

-----------------------------------------------------------------------------
(* Send and the calls of the application.                                  *)

Send(n, msg) ==
    IF mClient[n] # 0 /\ CanSend(mClient[n])
    THEN /\ toHub' = Written(mClient[n], <<msg>>)
         /\ UNCHANGED <<mClient, mBacklog>>
    ELSE /\ mClient' = [mClient EXCEPT ![n] = 0]
         /\ mBacklog' = [mBacklog EXCEPT ![n] = Append(@, msg)]
         /\ UNCHANGED toHub

Call(n, body) ==
    /\ Running(n) /\ owner[n] = "uses"
    /\ CanLock(n)
    /\ Send(n, Message(0, 0, body))
    /\ UNCHANGED <<pc, client, unsent, viewVars, objVars, hubHost, toClient, hubEnd, cliEnd>>

Announce(n, topic, mime) == Call(n, TopicChange("ANNOUNCE", n, topic, mime))
Retract(n, topic)        == Call(n, TopicChange("RETRACT", n, topic, ""))
Subscribe(n, topic)      == Call(n, TopicChange("SUBSCRIBE", n, topic, ""))

\* Holds mMtx and calls Send, which takes it again.
Unsubscribe(n) ==
    /\ Running(n) /\ owner[n] = "uses"
    /\ CanLock(n)
    /\ stuck' = [stuck EXCEPT ![n] = TRUE]
    /\ UNCHANGED <<pc, connVars, viewVars, owner, hubHost, udsVars>>

-----------------------------------------------------------------------------
(* MainLoop.                                                               *)

Goto(n, label) == pc' = [pc EXCEPT ![n] = label]

\* MainLoop goes on unless mShutdown is set.
Continue(n, label) == Goto(n, IF mShutdown(n) THEN "ended" ELSE label)

Start(n) ==
    /\ pc[n] = "off"
    /\ Goto(n, "connect")
    /\ UNCHANGED <<connVars, viewVars, objVars, hubHost, udsVars>>

Connect(n) ==
    /\ pc[n] = "connect"
    /\ hubHost # NoHost
    /\ OpenConnection(NextConn)
    /\ client' = [client EXCEPT ![n] = NextConn]
    /\ Goto(n, "introduce")
    /\ UNCHANGED <<unsent, mClient, mBacklog, viewVars, objVars, hubHost, toClient>>

ConnectFails(n) ==
    /\ pc[n] = "connect"
    /\ hubHost = NoHost
    /\ Continue(n, "serve")
    /\ UNCHANGED <<connVars, viewVars, objVars, hubHost, udsVars>>

\* The enumerations of a finite set, the orders in which the code may walk an
\* unordered container.
Orders(S) == {o \in [1..Cardinality(S) -> S] : \A i, j \in DOMAIN o : o[i] = o[j] => i = j}

(* One message object serves for all: SUBSCRIBE messages carry the mime of *)
(* the last publication, because set_mime is not called again.             *)
Introduction(n, pubs, pubOrder, subOrder) ==
    LET lastMime == IF pubOrder = <<>> THEN "" ELSE pubs[pubOrder[Len(pubOrder)]]
    IN  <<Message(0, 0, NodeChange("JOIN", n))>>
        \o [i \in DOMAIN pubOrder |->
               Message(0, 0, TopicChange("ANNOUNCE", n, pubOrder[i], pubs[pubOrder[i]]))]
        \o [i \in DOMAIN subOrder |->
               Message(0, 0, TopicChange("SUBSCRIBE", n, subOrder[i], lastMime))]

IntroduceOurselves(n) ==
    LET self == IF n \in DOMAIN mNodes[n] THEN mNodes[n][n] ELSE NewNode IN
    /\ pc[n] = "introduce"
    /\ CanLock(n)
    /\ \E pubOrder \in Orders(DOMAIN self.pubs), subOrder \in Orders(self.subs) :
          toHub' = Written(client[n],
                       mHistory[n] \o Introduction(n, self.pubs, pubOrder, subOrder))
    /\ Goto(n, "attach")
    /\ UNCHANGED <<connVars, viewVars, objVars, hubHost, toClient, hubEnd, cliEnd>>

\* Deviation: the backlog is cleared before it is copied.
AttachCleared(n) ==
    /\ pc[n] = "attach"
    /\ CanLock(n)
    /\ mClient' = [mClient EXCEPT ![n] = client[n]]
    /\ unsent' = [unsent EXCEPT ![n] = <<>>]
    /\ mBacklog' = [mBacklog EXCEPT ![n] = <<>>]
    /\ Goto(n, "flush")
    /\ UNCHANGED <<client, viewVars, objVars, hubHost, udsVars>>

\* The locked block that publishes the client and takes the backlog.
Attach(n) ==
    /\ pc[n] = "attach"
    /\ CanLock(n)
    /\ mClient' = [mClient EXCEPT ![n] = client[n]]
    /\ unsent' = [unsent EXCEPT ![n] = mBacklog[n]]
    /\ mBacklog' = [mBacklog EXCEPT ![n] = <<>>]
    /\ Goto(n, "flush")
    /\ UNCHANGED <<client, viewVars, objVars, hubHost, udsVars>>

FlushBacklog(n) ==
    /\ pc[n] = "flush"
    /\ CanLock(n)
    /\ unsent[n] # <<>>
    /\ Send(n, Head(unsent[n]))
    /\ unsent' = [unsent EXCEPT ![n] = Tail(@)]
    /\ UNCHANGED <<pc, client, viewVars, objVars, hubHost, toClient, hubEnd, cliEnd>>

\* mClient->Wait() on the shared pointer, which a failed Send has cleared.
Wait(n) ==
    /\ pc[n] = "flush"
    /\ unsent[n] = <<>>
    /\ Goto(n, IF mClient[n] = 0 THEN "null" ELSE "wait")
    /\ UNCHANGED <<connVars, viewVars, objVars, hubHost, udsVars>>

\* Deviation: the shared client is not reset.
WaitReturnsAttached(n) ==
    /\ pc[n] = "wait"
    /\ cliEnd[client[n]] = "closed"
    /\ client' = [client EXCEPT ![n] = 0]
    /\ Continue(n, "serve")
    /\ UNCHANGED <<unsent, mClient, mBacklog, viewVars, objVars, hubHost, udsVars>>

\* Deviation: the next connection is noted before it is made.
WaitReturnsElsewhere(n) ==
    /\ pc[n] = "wait"
    /\ cliEnd[client[n]] = "closed"
    /\ mClient' = [mClient EXCEPT ![n] = 0]
    /\ client' = [client EXCEPT ![n] = NextConn]
    /\ Continue(n, "serve")
    /\ UNCHANGED <<unsent, mBacklog, viewVars, objVars, hubHost, udsVars>>

WaitReturns(n) ==
    /\ pc[n] = "wait"
    /\ cliEnd[client[n]] = "closed"
    /\ mClient' = [mClient EXCEPT ![n] = 0]
    /\ client' = [client EXCEPT ![n] = 0]
    /\ Continue(n, "serve")
    /\ UNCHANGED <<unsent, mBacklog, viewVars, objVars, hubHost, udsVars>>

\* Deviation: whoever finds the address taken tries again to bind it.
ServeUntilBound(n) ==
    /\ pc[n] = "serve"
    /\ hubHost' = IF hubHost = NoHost THEN n ELSE hubHost
    /\ Continue(n, IF hubHost \in {NoHost, n} THEN "connect" ELSE "serve")
    /\ UNCHANGED <<connVars, viewVars, objVars, udsVars>>

(* The new TopologyServer binds the address, unless somebody has it.  The  *)
(* variable server is assigned after that: a server that this node has had *)
(* until now kept the address from the new one and is then destroyed.      *)
Serve(n) ==
    /\ pc[n] = "serve"
    /\ hubHost' = IF hubHost = NoHost THEN n ELSE IF hubHost = n THEN NoHost ELSE hubHost
    /\ IF hubHost = n THEN HubCloses ELSE UNCHANGED udsVars
    /\ Continue(n, "connect")
    /\ UNCHANGED <<connVars, viewVars, objVars>>

-----------------------------------------------------------------------------
(* ~TopologyManager.                                                       *)

Destroy(n) ==
    /\ Running(n) /\ owner[n] = "uses"
    /\ owner' = [owner EXCEPT ![n] = "destroys"]
    /\ UNCHANGED <<pc, connVars, viewVars, stuck, hubHost, udsVars>>

\* The shared client is cleared without the lock.  MainLoop's own copy keeps the
\* UDSClient alive: nothing wakes Wait.
DropClient(n) ==
    /\ owner[n] = "destroys"
    /\ mClient' = [mClient EXCEPT ![n] = 0]
    /\ owner' = [owner EXCEPT ![n] = "joins"]
    /\ UNCHANGED <<pc, client, unsent, mBacklog, viewVars, stuck, hubHost, udsVars>>

\* MainLoop returns: its server, if it has the address, is destroyed.
DestroyServer(n) ==
    /\ pc[n] = "ended"
    /\ hubHost = n
    /\ hubHost' = NoHost
    /\ HubCloses
    /\ UNCHANGED <<pc, connVars, viewVars, objVars>>

Joined(n) ==
    /\ owner[n] = "joins"
    /\ pc[n] = "ended" /\ hubHost # n
    /\ owner' = [owner EXCEPT ![n] = "gone"]
    /\ UNCHANGED <<pc, connVars, viewVars, stuck, hubHost, udsVars>>

-----------------------------------------------------------------------------
(* The process ends: its sockets are closed, its hub goes with it.         *)

Die(n) ==
    /\ Running(n)
    /\ pc' = [pc EXCEPT ![n] = "dead"]
    /\ client' = [client EXCEPT ![n] = 0]
    /\ mClient' = [mClient EXCEPT ![n] = 0]
    /\ unsent' = [unsent EXCEPT ![n] = <<>>]
    /\ mBacklog' = [mBacklog EXCEPT ![n] = <<>>]
    /\ mHistory' = [mHistory EXCEPT ![n] = <<>>]
    /\ mNodes' = [mNodes EXCEPT ![n] = <<>>]
    /\ stuck' = [stuck EXCEPT ![n] = FALSE]
    /\ owner' = [owner EXCEPT ![n] = "gone"]
    /\ cliEnd' = ClosedByDeath(client[n])
    /\ IF hubHost = n
       THEN /\ hubHost' = NoHost
            /\ hubEnd' = [c \in DOMAIN hubEnd |-> "closed"]
       ELSE UNCHANGED <<hubHost, hubEnd>>
    /\ UNCHANGED <<toHub, toClient>>

\* All of MainLoop but Serve, which also creates the server.
MainLoop(n) ==
    \/ Connect(n) \/ ConnectFails(n)
    \/ IntroduceOurselves(n)
    \/ Attach(n) \/ FlushBacklog(n)
    \/ Wait(n) \/ WaitReturns(n)
=============================================================================
