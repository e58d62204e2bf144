-------------------------- MODULE OpenManagerProofs --------------------------
(***************************************************************************)
(* Proofs about a spoke in an open world, for any number of connections,   *)
(* any messages that hubs may write, and any calls: the types, that        *)
(* nothing is sent through a client of an earlier connection, that the     *)
(* destructor leaves nothing behind, and that every call is handed over    *)
(* once.                                                                   *)
(*                                                                         *)
(* The argument: MainLoop has a client exactly between connect and Wait,   *)
(* so the shared client, which is set from MainLoop's and cleared before   *)
(* it, is 0 or MainLoop's; and it leaves Wait only when the connection is  *)
(* closed, so at most its client is open.  Calls are counted: every step   *)
(* that takes a message from one of the three places puts it into another, *)
(* and what the spoke says of itself when it introduces itself is told     *)
(* apart from the calls.                                                   *)
(***************************************************************************)
EXTENDS OpenManager, SpokeLemmas

-----------------------------------------------------------------------------
(* The inductive invariant.                                                *)

Labels == {"off", "connect", "introduce", "attach", "flush", "wait", "null", "serve", "ended", "dead"}

SpokeTypes ==
    /\ pc \in [Nodes -> Labels]
    /\ stuck \in [Nodes -> BOOLEAN] /\ owner \in [Nodes -> {"uses", "destroys", "joins", "gone"}]
    /\ hubHost \in Nodes \cup {NoHost}

QueueTypes ==
    /\ unsent \in [Nodes -> Seq(Messages)] /\ mBacklog \in [Nodes -> Seq(Messages)]
    /\ mHistory \in [Nodes -> Seq(FromHub)]


Types == SpokeTypes /\ QueueTypes /\ ClientTypes /\ Linked(FromHub) /\ ViewTypes

\* Nothing is open but MainLoop's client.
LoopHolds ==
    /\ client[Self] # 0 <=> pc[Self] \in Connected
    /\ ClientIsCurrent
    /\ pc[Self] # "flush" => unsent[Self] = <<>>
    /\ \A c \in DOMAIN cliEnd : cliEnd[c] = "open" => c = client[Self]

OwnerKnows ==
    /\ owner[Self] # "uses" => pc[Self] # "off"
    /\ owner[Self] = "gone" => pc[Self] \in {"ended", "dead"} /\ hubHost # Self

OpenInv == Types /\ LoopHolds /\ OwnerKnows

\* What hubs write of the node itself can be told from its calls.  They send back what
\* the node has published, and it introduces itself with that.
ToldApart ==
    \A msg \in FromHub :
        msg.body.op \in TopicOps /\ msg.body.node = Self => msg.body.topic \notin Topics

Apart(view) ==
    Self \in DOMAIN view =>
        \A t \in DOMAIN view[Self].pubs \cup view[Self].subs : t \notin Topics

OwnTopicsApart == Apart(mNodes[Self])

TakenTypes == taken \in [CallBodies -> Nat]

CallsInv == OpenInv /\ OwnTopicsApart /\ TakenTypes /\ EachCallOnce

-----------------------------------------------------------------------------
(* The operators.                                                          *)

LEMMA SelfIsNode == Self \in Nodes /\ Self \in Nat /\ Self # 0 /\ NoHost \notin Nodes /\ Other \in Nodes /\ Self # Other
BY NodesAssumption, OpenAssumption

LEMMA HubMessages ==
    ASSUME NEW msg \in FromHub
    PROVE  msg \in Messages /\ msg.seq \in Nat /\ msg.body \in Bodies
BY OpenAssumption DEF Messages

-----------------------------------------------------------------------------
(* The steps keep the invariant.                                           *)

\* Steps of the world.
LEMMA WorldKeeps ==
    ASSUME OpenInv, UNCHANGED <<pc, connVars, viewVars, objVars>>,
           hubHost' \in {hubHost, Other, NoHost}, Linked(FromHub)', DOMAIN toHub' = DOMAIN toHub, cliEnd' = cliEnd
    PROVE  OpenInv'
<1> USE DEF OpenInv, connVars, viewVars, objVars
<1>1. SpokeTypes' /\ QueueTypes' /\ ClientTypes' /\ ViewTypes'
  BY SelfIsNode DEF Types, SpokeTypes, QueueTypes, ClientTypes, ViewTypes
<1>2. LoopHolds'
  BY DEF LoopHolds, ClientIsCurrent
<1>3. OwnerKnows'
  BY SelfIsNode DEF OwnerKnows
<1> QED
  BY <1>1, <1>2, <1>3 DEF Types

\* The hub's side of the connections when it closes them all.
LEMMA ClosedKeeps ==
    ASSUME Linked(FromHub), UNCHANGED <<toHub, toClient>>, cliEnd' \in [DOMAIN toHub -> {"open", "closed", "reset"}],
           hubEnd' = [c \in DOMAIN hubEnd |-> "closed"]
    PROVE  Linked(FromHub)'
<1>1. hubEnd' \in [DOMAIN toHub -> {"backlog", "open", "closed"}]
  BY DEF Linked
<1> QED
  BY <1>1, EndsKeep

\* Steps of MainLoop that only move it.
LEMMA MoveKeeps ==
    ASSUME OpenInv, UNCHANGED <<connVars, viewVars, objVars, toHub, toClient, cliEnd>>, Linked(FromHub)',
           NEW l \in Labels, Goto(Self, l), hubHost' \in {hubHost, Self, NoHost}, l \in Connected <=> pc[Self] \in Connected, unsent[Self] = <<>>,
           pc[Self] \notin {"ended", "dead"}, l # "off"
    PROVE  OpenInv'
<1> USE SelfIsNode DEF OpenInv, connVars, viewVars, objVars, Types
<1>1. pc' = [pc EXCEPT ![Self] = l] /\ pc \in [Nodes -> Labels]
  BY DEF Goto, SpokeTypes
<1>2. pc' \in [Nodes -> Labels] /\ pc'[Self] = l
  BY <1>1
<1>3. SpokeTypes'
  BY <1>2 DEF SpokeTypes
<1>4. QueueTypes' /\ ClientTypes' /\ ViewTypes'
  BY DEF QueueTypes, ClientTypes, ViewTypes
<1>5. LoopHolds'
  BY <1>2 DEF LoopHolds, ClientIsCurrent
<1>6. OwnerKnows'
  BY <1>2 DEF OwnerKnows
<1> QED
  BY <1>3, <1>4, <1>5, <1>6

\* Where Continue goes.
LEMMA ContinueGoes ==
    ASSUME NEW l \in Labels, Continue(Self, l)
    PROVE  \E k \in {l, "ended"} : Goto(Self, k)
BY DEF Continue

LEMMA MovesKeep ==
    ASSUME OpenInv, Start(Self) \/ ConnectFails(Self) \/ Wait(Self) \/ Serve(Self)
    PROVE  OpenInv'
<1>1. UNCHANGED udsVars => UNCHANGED <<toHub, toClient, cliEnd>> /\ Linked(FromHub)'
  BY SameConns DEF OpenInv, Types, udsVars
<1>2. CASE Start(Self)
  <2>1. unsent[Self] = <<>>
    BY <1>2 DEF Start, OpenInv, LoopHolds
  <2> QED
    BY <1>1, <1>2, <2>1, MoveKeeps DEF Start, Labels, Connected
<1>3. CASE ConnectFails(Self)
  <2>1. unsent[Self] = <<>>
    BY <1>3 DEF ConnectFails, OpenInv, LoopHolds
  <2>2. PICK k \in {"serve", "ended"} : Goto(Self, k)
    BY <1>3, ContinueGoes DEF ConnectFails, Labels
  <2> QED
    BY <1>1, <1>3, <2>1, <2>2, MoveKeeps DEF ConnectFails, Labels, Connected
<1>4. CASE Wait(Self)
  <2>1. PICK k \in {"null", "wait"} : Goto(Self, k)
    BY <1>4 DEF Wait
  <2> QED
    BY <1>1, <1>4, <2>1, MoveKeeps DEF Wait, Labels, Connected
<1>5. CASE Serve(Self)
  <2>1. unsent[Self] = <<>>
    BY <1>5 DEF Serve, OpenInv, LoopHolds
  <2>2. PICK k \in {"connect", "ended"} : Goto(Self, k)
    BY <1>5, ContinueGoes DEF Serve, Labels
  <2>3. /\ UNCHANGED <<toHub, toClient, cliEnd>> /\ hubHost' \in {hubHost, Self, NoHost}
        /\ \/ UNCHANGED udsVars
           \/ hubEnd' = [c \in DOMAIN hubEnd |-> "closed"]
    BY <1>5 DEF Serve, HubCloses, udsVars
  <2>4. Linked(FromHub)'
    BY <1>1, <2>3, ClosedKeeps DEF OpenInv, Types, Linked
  <2> QED
    BY <1>5, <2>1, <2>2, <2>3, <2>4, MoveKeeps DEF Serve, Labels, Connected
<1> QED
  BY <1>2, <1>3, <1>4, <1>5

LEMMA ConnectKeeps == ASSUME OpenInv, Connect(Self) PROVE OpenInv'
<1> USE SelfIsNode DEF OpenInv, Types
<1>1. PICK d : d = NextConn
  OBVIOUS
<1>2. /\ pc[Self] = "connect" /\ client' = [client EXCEPT ![Self] = d] /\ OpenConnection(NextConn)
      /\ pc' = [pc EXCEPT ![Self] = "introduce"] /\ cliEnd' = With(cliEnd, d, "open")
      /\ UNCHANGED <<unsent, mClient, mBacklog, mHistory, mNodes, stuck, owner, hubHost, toClient>>
  BY <1>1 DEF Connect, Goto, viewVars, objVars, OpenConnection
<1>3. /\ Linked(FromHub)' /\ DOMAIN toHub' = DOMAIN toHub \cup {d} /\ d # 0
      /\ DOMAIN cliEnd = DOMAIN toHub /\ 0 \notin DOMAIN toHub
  BY <1>1, <1>2, OpenConnectionKeeps, ConnFacts
<1>4. pc \in [Nodes -> Labels] /\ pc' \in [Nodes -> Labels] /\ pc'[Self] = "introduce"
  BY <1>2 DEF SpokeTypes, Labels
<1>5. SpokeTypes' /\ QueueTypes' /\ ViewTypes'
  BY <1>2, <1>4 DEF SpokeTypes, QueueTypes, ViewTypes
<1>6. ClientTypes' /\ client'[Self] = d
  BY <1>2, <1>3 DEF ClientTypes
<1>7. client[Self] = 0 /\ mClient[Self] = 0 /\ unsent[Self] = <<>>
  BY <1>2 DEF LoopHolds, ClientIsCurrent, Connected
<1>8. \A c \in DOMAIN cliEnd : cliEnd[c] # "open"
  BY <1>3, <1>7 DEF LoopHolds
<1>9. LoopHolds'
  BY <1>2, <1>3, <1>4, <1>6, <1>7, <1>8 DEF LoopHolds, ClientIsCurrent, Connected, With
<1>10. OwnerKnows'
  BY <1>2, <1>4 DEF OwnerKnows
<1> QED
  BY <1>3, <1>5, <1>6, <1>9, <1>10

LEMMA IntroduceKeeps == ASSUME OpenInv, IntroduceOurselves(Self) PROVE OpenInv'
<1> USE SelfIsNode DEF OpenInv, Types
<1> DEFINE self == IF Self \in DOMAIN mNodes[Self] THEN mNodes[Self][Self] ELSE NewNode
<1>1. /\ pc[Self] = "introduce" /\ pc' = [pc EXCEPT ![Self] = "attach"]
      /\ UNCHANGED <<client, unsent, mClient, mBacklog, mHistory, mNodes, stuck, owner, hubHost>>
      /\ UNCHANGED <<toClient, hubEnd, cliEnd>>
  BY DEF IntroduceOurselves, Goto, viewVars, objVars, connVars
<1>2. PICK pubOrder \in Orders(DOMAIN self.pubs), subOrder \in Orders(self.subs) :
          toHub' = Written(client[Self], mHistory[Self] \o Introduction(Self, self.pubs, pubOrder, subOrder))
  BY DEF IntroduceOurselves
<1>3. NodeKnown(self)
  BY NewNodeKnown DEF ViewTypes, ViewKnown
<1> HIDE DEF self
<1>4. Introduction(Self, self.pubs, pubOrder, subOrder) \in Seq(Messages)
  BY <1>3, IntroductionType
<1>5. mHistory[Self] \in Seq(Messages)
  BY OpenAssumption DEF QueueTypes
<1>6. mHistory[Self] \o Introduction(Self, self.pubs, pubOrder, subOrder) \in Seq(Messages)
  BY <1>4, <1>5
<1>7. client[Self] \in DOMAIN toHub
  BY <1>1 DEF LoopHolds, Connected, ClientTypes
<1>8. Linked(FromHub)' /\ DOMAIN toHub' = DOMAIN toHub
  BY <1>1, <1>2, <1>6, <1>7, WrittenKeeps
<1>9. pc \in [Nodes -> Labels] /\ pc' \in [Nodes -> Labels] /\ pc'[Self] = "attach"
  BY <1>1 DEF SpokeTypes, Labels
<1>10. SpokeTypes' /\ QueueTypes' /\ ViewTypes' /\ ClientTypes'
  BY <1>1, <1>8, <1>9 DEF SpokeTypes, QueueTypes, ViewTypes, ClientTypes
<1>11. LoopHolds'
  BY <1>1, <1>9 DEF LoopHolds, ClientIsCurrent, Connected
<1>12. OwnerKnows'
  BY <1>1, <1>9 DEF OwnerKnows
<1> QED
  BY <1>8, <1>10, <1>11, <1>12

LEMMA AttachKeeps == ASSUME OpenInv, Attach(Self) PROVE OpenInv'
<1> USE SelfIsNode DEF OpenInv, Types
<1>1. /\ pc[Self] = "attach" /\ pc' = [pc EXCEPT ![Self] = "flush"]
      /\ mClient' = [mClient EXCEPT ![Self] = client[Self]]
      /\ unsent' = [unsent EXCEPT ![Self] = mBacklog[Self]]
      /\ mBacklog' = [mBacklog EXCEPT ![Self] = <<>>]
      /\ UNCHANGED <<client, mHistory, mNodes, stuck, owner, hubHost, udsVars>>
  BY DEF Attach, Goto, viewVars, objVars
<1>2. pc \in [Nodes -> Labels] /\ pc' \in [Nodes -> Labels] /\ pc'[Self] = "flush"
  BY <1>1 DEF SpokeTypes, Labels
<1>3. SpokeTypes' /\ ViewTypes' /\ Linked(FromHub)'
  BY <1>1, <1>2, SameConns DEF SpokeTypes, ViewTypes
<1>4. QueueTypes'
  BY <1>1 DEF QueueTypes
<1>5. ClientTypes' /\ mClient'[Self] = client[Self]
  BY <1>1 DEF ClientTypes, udsVars
<1>6. LoopHolds'
  BY <1>1, <1>2, <1>5 DEF LoopHolds, ClientIsCurrent, Connected, udsVars
<1>7. OwnerKnows'
  BY <1>1, <1>2 DEF OwnerKnows
<1> QED
  BY <1>3, <1>4, <1>5, <1>6, <1>7

LEMMA FlushKeeps == ASSUME OpenInv, FlushBacklog(Self) PROVE OpenInv'
<1> USE SelfIsNode DEF OpenInv
<1>1. /\ pc[Self] = "flush" /\ unsent[Self] # <<>> /\ Send(Self, Head(unsent[Self]))
      /\ unsent' = [unsent EXCEPT ![Self] = Tail(unsent[Self])]
      /\ UNCHANGED <<pc, client, mHistory, mNodes, stuck, owner, hubHost, toClient, hubEnd, cliEnd>>
  BY DEF FlushBacklog, viewVars, objVars
<1>2. Head(unsent[Self]) \in Messages /\ Tail(unsent[Self]) \in Seq(Messages)
  BY <1>1 DEF Types, QueueTypes
<1>3. /\ Linked(FromHub)' /\ DOMAIN toHub' = DOMAIN toHub
      /\ mClient' \in [Nodes -> {0} \cup DOMAIN toHub] /\ mClient'[Self] \in {0, mClient[Self]}
      /\ mBacklog' \in [Nodes -> Seq(Messages)]
  BY <1>1, <1>2, SelfIsNode, SendKeeps DEF Types, QueueTypes
<1>4. QueueTypes'
  BY <1>1, <1>2, <1>3 DEF Types, QueueTypes
<1>5. SpokeTypes' /\ ViewTypes' /\ ClientTypes'
  BY <1>1, <1>3 DEF Types, SpokeTypes, ViewTypes, ClientTypes
<1>6. LoopHolds'
  BY <1>1, <1>3 DEF LoopHolds, ClientIsCurrent
<1>7. OwnerKnows'
  BY <1>1 DEF OwnerKnows
<1> QED
  BY <1>3, <1>4, <1>5, <1>6, <1>7 DEF Types

\* What the interface sends.
LEMMA CallsAreMessages ==
    ASSUME NEW body \in CallBodies
    PROVE  /\ Message(0, 0, body) \in Messages
           /\ body.op \in TopicOps /\ body.node = Self /\ body.topic \in Topics
<1>1. Topics \subseteq STRING /\ Mimes \subseteq STRING /\ Self \in Nat
  BY OpenAssumption, SelfIsNode
<1>2. body \in Bodies
  BY <1>1, EmptyIsAString DEF CallBodies, Bodies, TopicOps
<1>3. body.op \in TopicOps /\ body.node = Self /\ body.topic \in Topics
  BY DEF CallBodies, TopicOps
<1> QED
  BY <1>2, <1>3 DEF Message, Messages

LEMMA CallKeeps ==
    ASSUME OpenInv, NEW body \in CallBodies, Call(Self, body)
    PROVE  OpenInv'
<1> USE SelfIsNode DEF OpenInv
<1>1. /\ Send(Self, Message(0, 0, body)) /\ Running(Self)
      /\ UNCHANGED <<pc, client, unsent, mHistory, mNodes, stuck, owner, hubHost, toClient, hubEnd, cliEnd>>
  BY DEF Call, viewVars, objVars
<1>2. Message(0, 0, body) \in Messages
  BY CallsAreMessages
<1>3. /\ Linked(FromHub)' /\ DOMAIN toHub' = DOMAIN toHub
      /\ mClient' \in [Nodes -> {0} \cup DOMAIN toHub] /\ mClient'[Self] \in {0, mClient[Self]}
      /\ mBacklog' \in [Nodes -> Seq(Messages)]
  BY <1>1, <1>2, SelfIsNode, SendKeeps DEF Types, QueueTypes
<1>4. SpokeTypes' /\ QueueTypes' /\ ViewTypes' /\ ClientTypes'
  BY <1>1, <1>3 DEF Types, SpokeTypes, QueueTypes, ViewTypes, ClientTypes
<1>5. LoopHolds'
  BY <1>1, <1>3 DEF LoopHolds, ClientIsCurrent
<1>6. OwnerKnows'
  BY <1>1 DEF OwnerKnows
<1> QED
  BY <1>3, <1>4, <1>5, <1>6 DEF Types

LEMMA WaitReturnsKeeps == ASSUME OpenInv, WaitReturns(Self) PROVE OpenInv'
<1> USE SelfIsNode DEF OpenInv, Types
<1>1. /\ pc[Self] = "wait" /\ cliEnd[client[Self]] = "closed"
      /\ mClient' = [mClient EXCEPT ![Self] = 0] /\ client' = [client EXCEPT ![Self] = 0]
      /\ UNCHANGED <<unsent, mBacklog, mHistory, mNodes, stuck, owner, hubHost, udsVars>>
  BY DEF WaitReturns, viewVars, objVars
<1>2. PICK l \in {"serve", "ended"} : pc' = [pc EXCEPT ![Self] = l]
  BY ContinueGoes DEF WaitReturns, Goto, Labels
<1>3. pc \in [Nodes -> Labels] /\ pc' \in [Nodes -> Labels] /\ pc'[Self] = l
  BY <1>2 DEF SpokeTypes, Labels
<1>4. SpokeTypes' /\ ViewTypes' /\ QueueTypes' /\ Linked(FromHub)'
  BY <1>1, <1>3, SameConns DEF SpokeTypes, ViewTypes, QueueTypes
<1>5. ClientTypes' /\ mClient'[Self] = 0 /\ client'[Self] = 0
  BY <1>1 DEF ClientTypes, udsVars
<1>6. LoopHolds'
  BY <1>1, <1>2, <1>3, <1>5 DEF LoopHolds, ClientIsCurrent, Connected, udsVars
<1>7. OwnerKnows'
  BY <1>1, <1>2, <1>3 DEF OwnerKnows
<1> QED
  BY <1>4, <1>5, <1>6, <1>7

\* ApplyUpdate, whatever hub the message comes from.
LEMMA ApplyKeeps ==
    ASSUME Types, NEW msg \in FromHub, ApplyUpdate(Self, msg)
    PROVE  mHistory' \in [Nodes -> Seq(FromHub)] /\ ViewTypes'
<1>1. /\ mHistory' = [mHistory EXCEPT ![Self] = Remembered(mHistory[Self], msg)]
      /\ mNodes' = [mNodes EXCEPT ![Self] = Viewed(mNodes[Self], msg.body)]
  BY DEF ApplyUpdate
<1>2. mHistory \in [Nodes -> Seq(FromHub)] /\ Self \in Nodes
  BY SelfIsNode DEF Types, QueueTypes
<1>3. Remembered(mHistory[Self], msg) \in Seq(FromHub)
  BY <1>2, OpenAssumption, RememberedType
<1>4. ViewKnown(Viewed(mNodes[Self], msg.body))
  BY <1>2, HubMessages, ViewedKnown DEF Types, ViewTypes
<1>5. ViewTypes'
  BY <1>1, <1>2, <1>4 DEF Types, ViewTypes
<1> QED
  BY <1>1, <1>2, <1>3, <1>5

LEMMA ClientReadKeeps == ASSUME OpenInv, ClientRead(Self) PROVE OpenInv'
<1> USE SelfIsNode DEF OpenInv
<1>1. PICK c : c = client[Self]
  OBVIOUS
<1>2. /\ c # 0 /\ ClientCanRead(c) /\ ApplyUpdate(Self, Head(toClient[c]))
      /\ toClient' = [toClient EXCEPT ![c] = Tail(toClient[c])]
      /\ UNCHANGED <<pc, client, unsent, mClient, mBacklog, stuck, owner, hubHost, toHub, hubEnd, cliEnd>>
  BY <1>1 DEF ClientRead, connVars, objVars
<1>3. c \in DOMAIN toClient /\ toClient[c] # <<>>
  BY <1>2 DEF ClientCanRead, Pending
<1>4. Head(toClient[c]) \in FromHub
  BY <1>3 DEF Types, Linked
<1>5. mHistory' \in [Nodes -> Seq(FromHub)] /\ ViewTypes'
  BY <1>2, <1>4, ApplyKeeps
<1>6. Linked(FromHub) /\ hubEnd \in [DOMAIN toHub -> {"backlog", "open", "closed"}]
      /\ cliEnd \in [DOMAIN toHub -> {"open", "closed", "reset"}]
  BY DEF Types, Linked
<1>7. Linked(FromHub)'
  BY <1>2, <1>3, <1>6, EndsKeep
<1>8. SpokeTypes' /\ QueueTypes' /\ ClientTypes'
  BY <1>2, <1>5 DEF Types, SpokeTypes, QueueTypes, ClientTypes
<1>9. LoopHolds' /\ OwnerKnows'
  BY <1>2 DEF LoopHolds, ClientIsCurrent, OwnerKnows
<1> QED
  BY <1>5, <1>7, <1>8, <1>9 DEF Types

LEMMA ClientHangupKeeps == ASSUME OpenInv, ClientHangup(Self) PROVE OpenInv'
<1> USE SelfIsNode DEF OpenInv
<1>1. PICK c : c = client[Self]
  OBVIOUS
<1>2. /\ c # 0 /\ cliEnd' = [cliEnd EXCEPT ![c] = "closed"]
      /\ UNCHANGED <<pc, client, unsent, mClient, mBacklog, stuck, owner, hubHost, toHub, hubEnd>>
      /\ \/ /\ LastReadSucceeds(c)
            /\ ApplyUpdate(Self, Head(toClient[c]))
            /\ toClient' = [toClient EXCEPT ![c] = Tail(toClient[c])]
         \/ UNCHANGED <<mHistory, mNodes, toClient>>
  BY <1>1 DEF ClientHangup, connVars, objVars, viewVars
<1>3. Linked(FromHub) /\ hubEnd' \in [DOMAIN toHub -> {"backlog", "open", "closed"}]
      /\ cliEnd' \in [DOMAIN toHub -> {"open", "closed", "reset"}]
  BY <1>2 DEF Types, Linked
<1>4. Linked(FromHub)' /\ ViewTypes' /\ mHistory' \in [Nodes -> Seq(FromHub)]
  <2>1. CASE /\ LastReadSucceeds(c)
             /\ ApplyUpdate(Self, Head(toClient[c]))
             /\ toClient' = [toClient EXCEPT ![c] = Tail(toClient[c])]
    <3>1. c \in DOMAIN toClient /\ toClient[c] # <<>>
      BY <2>1 DEF LastReadSucceeds, Pending
    <3>2. Head(toClient[c]) \in FromHub
      BY <3>1 DEF Types, Linked
    <3> QED
      BY <1>2, <1>3, <2>1, <3>1, <3>2, ApplyKeeps, EndsKeep
  <2>2. CASE UNCHANGED <<mHistory, mNodes, toClient>>
    <3>1. Linked(FromHub)'
      BY <1>2, <1>3, <2>2, EndsKeep
    <3> QED
      BY <2>2, <3>1 DEF Types, ViewTypes, QueueTypes
  <2> QED
    BY <1>2, <2>1, <2>2
<1>5. SpokeTypes' /\ QueueTypes' /\ ClientTypes'
  BY <1>2, <1>4 DEF Types, SpokeTypes, QueueTypes, ClientTypes
<1>6. LoopHolds'
  BY <1>2, <1>3 DEF LoopHolds, ClientIsCurrent, Types, Linked
<1>7. OwnerKnows'
  BY <1>2 DEF OwnerKnows
<1> QED
  BY <1>4, <1>5, <1>6, <1>7 DEF Types

\* What the owner does; its steps leave the connections alone.
LEMMA OwnerKeeps ==
    ASSUME OpenInv, UNCHANGED <<pc, client, unsent, mBacklog, viewVars, hubHost, udsVars>>,
           stuck' \in [Nodes -> BOOLEAN], NEW o \in {"uses", "destroys", "joins", "gone"},
           owner' = [owner EXCEPT ![Self] = o],
           mClient' = mClient \/ mClient' = [mClient EXCEPT ![Self] = 0],
           o # "uses" => pc[Self] # "off",
           o = "gone" => pc[Self] \in {"ended", "dead"} /\ hubHost # Self
    PROVE  OpenInv'
<1> USE SelfIsNode DEF OpenInv, Types
<1>1. owner \in [Nodes -> {"uses", "destroys", "joins", "gone"}]
  BY DEF SpokeTypes
<1>2. owner' \in [Nodes -> {"uses", "destroys", "joins", "gone"}] /\ owner'[Self] = o
  BY <1>1
<1>3. SpokeTypes' /\ QueueTypes' /\ ViewTypes' /\ Linked(FromHub)'
  BY <1>2, SameConns DEF SpokeTypes, QueueTypes, ViewTypes, viewVars
<1>4. ClientTypes' /\ mClient'[Self] \in {0, mClient[Self]}
  BY DEF ClientTypes, udsVars
<1>5. LoopHolds'
  BY <1>4 DEF LoopHolds, ClientIsCurrent, udsVars
<1>6. OwnerKnows'
  BY <1>2 DEF OwnerKnows
<1> QED
  BY <1>3, <1>4, <1>5, <1>6

LEMMA OwnersKeep ==
    ASSUME OpenInv, Unsubscribe(Self) \/ Destroy(Self) \/ DropClient(Self) \/ Joined(Self)
    PROVE  OpenInv'
<1>1. /\ stuck \in [Nodes -> BOOLEAN] /\ owner \in [Nodes -> {"uses", "destroys", "joins", "gone"}]
      /\ owner = [owner EXCEPT ![Self] = owner[Self]]
  BY SelfIsNode DEF OpenInv, Types, SpokeTypes
<1>2. CASE Unsubscribe(Self)
  <2>1. stuck' \in [Nodes -> BOOLEAN]
    BY <1>1, <1>2 DEF Unsubscribe
  <2>2. /\ owner[Self] = "uses" /\ owner' = [owner EXCEPT ![Self] = "uses"] /\ mClient' = mClient
        /\ UNCHANGED <<pc, client, unsent, mBacklog, viewVars, hubHost, udsVars>>
    BY <1>1, <1>2 DEF Unsubscribe, connVars
  <2> QED
    BY <2>1, <2>2, OwnerKeeps
<1>3. CASE Destroy(Self)
  <2>1. /\ pc[Self] # "off" /\ owner' = [owner EXCEPT ![Self] = "destroys"] /\ mClient' = mClient
        /\ stuck' = stuck /\ UNCHANGED <<pc, client, unsent, mBacklog, viewVars, hubHost, udsVars>>
    BY <1>3 DEF Destroy, connVars, Running
  <2> QED
    BY <1>1, <2>1, OwnerKeeps
<1>4. CASE DropClient(Self)
  <2>1. /\ owner[Self] = "destroys" /\ owner' = [owner EXCEPT ![Self] = "joins"]
        /\ mClient' = [mClient EXCEPT ![Self] = 0]
        /\ stuck' = stuck /\ UNCHANGED <<pc, client, unsent, mBacklog, viewVars, hubHost, udsVars>>
    BY <1>4 DEF DropClient
  <2>2. pc[Self] # "off"
    BY <2>1 DEF OpenInv, OwnerKnows
  <2> QED
    BY <1>1, <2>1, <2>2, OwnerKeeps
<1>5. CASE Joined(Self)
  <2>1. /\ pc[Self] = "ended" /\ hubHost # Self /\ owner' = [owner EXCEPT ![Self] = "gone"]
        /\ mClient' = mClient
        /\ stuck' = stuck /\ UNCHANGED <<pc, client, unsent, mBacklog, viewVars, hubHost, udsVars>>
    BY <1>5 DEF Joined, connVars
  <2> QED
    BY <1>1, <2>1, OwnerKeeps
<1> QED
  BY <1>2, <1>3, <1>4, <1>5

LEMMA DestroyServerKeeps == ASSUME OpenInv, DestroyServer(Self) PROVE OpenInv'
<1>1. /\ hubHost' = NoHost /\ UNCHANGED <<pc, connVars, viewVars, objVars, toHub, toClient, cliEnd>>
      /\ hubEnd' = [c \in DOMAIN hubEnd |-> "closed"]
  BY DEF DestroyServer, HubCloses
<1>2. Linked(FromHub) /\ cliEnd' \in [DOMAIN toHub -> {"open", "closed", "reset"}]
  BY <1>1 DEF OpenInv, Types, Linked
<1>3. Linked(FromHub)'
  BY <1>1, <1>2, ClosedKeeps
<1> QED
  BY <1>1, <1>3, WorldKeeps

LEMMA DieKeeps == ASSUME OpenInv, Die(Self) PROVE OpenInv'
<1> USE SelfIsNode DEF OpenInv, Types
<1>1. /\ Running(Self)
      /\ pc' = [pc EXCEPT ![Self] = "dead"] /\ client' = [client EXCEPT ![Self] = 0]
      /\ mClient' = [mClient EXCEPT ![Self] = 0] /\ unsent' = [unsent EXCEPT ![Self] = <<>>]
      /\ mBacklog' = [mBacklog EXCEPT ![Self] = <<>>] /\ mHistory' = [mHistory EXCEPT ![Self] = <<>>]
      /\ mNodes' = [mNodes EXCEPT ![Self] = <<>>] /\ stuck' = [stuck EXCEPT ![Self] = FALSE]
      /\ owner' = [owner EXCEPT ![Self] = "gone"] /\ cliEnd' = ClosedByDeath(client[Self])
      /\ \/ hubHost = Self /\ hubHost' = NoHost /\ hubEnd' = [c \in DOMAIN hubEnd |-> "closed"]
         \/ hubHost # Self /\ UNCHANGED <<hubHost, hubEnd>>
      /\ UNCHANGED <<toHub, toClient>>
  BY DEF Die
<1>2. pc \in [Nodes -> Labels] /\ pc' \in [Nodes -> Labels] /\ pc'[Self] = "dead"
  BY <1>1 DEF SpokeTypes, Labels
<1>3. hubHost' \in Nodes \cup {NoHost} /\ hubHost' # Self
  BY <1>1 DEF SpokeTypes
<1>4. /\ owner' \in [Nodes -> {"uses", "destroys", "joins", "gone"}] /\ owner'[Self] = "gone"
      /\ stuck' \in [Nodes -> BOOLEAN]
  BY <1>1 DEF SpokeTypes
<1>5. SpokeTypes'
  BY <1>2, <1>3, <1>4 DEF SpokeTypes
<1>6. QueueTypes' /\ unsent'[Self] = <<>>
  BY <1>1 DEF QueueTypes
<1>7. ClientTypes' /\ client'[Self] = 0 /\ mClient'[Self] = 0
  BY <1>1 DEF ClientTypes
<1>8. ViewTypes'
  <2>1. <<>> = [m \in DOMAIN <<>> |-> <<>>[m]] /\ DOMAIN <<>> = {}
    OBVIOUS
  <2>2. ViewKnown(<<>>)
    BY <2>1 DEF ViewKnown
  <2> QED
    BY <1>1, <2>2 DEF ViewTypes
<1>9. /\ DOMAIN cliEnd = DOMAIN toHub
      /\ cliEnd' \in [DOMAIN toHub -> {"open", "closed", "reset"}]
      /\ \A c \in DOMAIN cliEnd' : cliEnd'[c] # "open"
  <2>1. cliEnd \in [DOMAIN toHub -> {"open", "closed", "reset"}]
    BY DEF Linked
  <2>2. \A c \in DOMAIN cliEnd : c # client[Self] => cliEnd[c] # "open"
    BY DEF LoopHolds
  <2>3. CASE client[Self] \in DOMAIN cliEnd /\ cliEnd[client[Self]] = "open"
    <3>1. PICK e \in {"closed", "reset"} : cliEnd' = [cliEnd EXCEPT ![client[Self]] = e]
      BY <1>1, <2>3 DEF ClosedByDeath
    <3> QED
      BY <2>1, <2>2, <2>3, <3>1
  <2>4. CASE ~(client[Self] \in DOMAIN cliEnd /\ cliEnd[client[Self]] = "open")
    <3>1. cliEnd' = cliEnd
      BY <1>1, <2>4 DEF ClosedByDeath
    <3> QED
      BY <2>1, <2>2, <2>4, <3>1
  <2> QED
    BY <2>3, <2>4
<1>10. Linked(FromHub)'
  <2>1. hubEnd' \in [DOMAIN toHub -> {"backlog", "open", "closed"}]
    BY <1>1 DEF Linked
  <2> QED
    BY <1>1, <1>9, <2>1, EndsKeep
<1>11. LoopHolds'
  BY <1>2, <1>6, <1>7, <1>9 DEF LoopHolds, ClientIsCurrent, Connected
<1>12. OwnerKnows'
  BY <1>2, <1>3 DEF OwnerKnows
<1> QED
  BY <1>5, <1>6, <1>7, <1>8, <1>10, <1>11, <1>12

LEMMA HubsKeep ==
    ASSUME OpenInv,
           \/ HubAppears \/ HubDisappears
           \/ \E c \in DOMAIN hubEnd :
                 \/ HubAccepts(c) /\ UNCHANGED <<managerVars, called, taken>>
                 \/ AHubReads(c)
                 \/ \E msg \in FromHub : AHubWrites(c, msg)
    PROVE  OpenInv'
<1>1. /\ Linked(FromHub) /\ hubEnd \in [DOMAIN toHub -> {"backlog", "open", "closed"}]
      /\ cliEnd \in [DOMAIN toHub -> {"open", "closed", "reset"}]
      /\ DOMAIN toClient \subseteq DOMAIN toHub /\ DOMAIN hubEnd = DOMAIN toHub
  BY DEF OpenInv, Types, Linked
<1>2. CASE HubAppears
  BY <1>1, <1>2, SameConns, WorldKeeps DEF HubAppears, udsVars
<1>3. CASE HubDisappears
  <2>1. /\ hubHost' = NoHost /\ UNCHANGED <<pc, connVars, viewVars, objVars, toHub, toClient, cliEnd>>
        /\ hubEnd' = [c \in DOMAIN hubEnd |-> "closed"]
    BY <1>3 DEF HubDisappears, HubCloses
  <2>2. Linked(FromHub)'
    BY <1>1, <2>1, ClosedKeeps
  <2> QED
    BY <2>1, <2>2, WorldKeeps
<1>4. ASSUME NEW c \in DOMAIN hubEnd, HubAccepts(c), UNCHANGED managerVars
      PROVE  OpenInv'
  <2>1. /\ hubEnd' = [hubEnd EXCEPT ![c] = "open"] /\ toClient' = With(toClient, c, <<>>)
        /\ UNCHANGED <<toHub, cliEnd, pc, connVars, viewVars, objVars, hubHost>>
    BY <1>4 DEF HubAccepts, managerVars
  <2>2. hubEnd' \in [DOMAIN toHub -> {"backlog", "open", "closed"}] /\ c \in DOMAIN toHub
    BY <1>1, <2>1
  <2>3. Linked(FromHub)'
    BY <1>1, <2>1, <2>2, EndsKeep
  <2> QED
    BY <2>1, <2>3, WorldKeeps
<1>5. ASSUME NEW c \in DOMAIN hubEnd, AHubReads(c)
      PROVE  OpenInv'
  <2>1. /\ toHub' = [toHub EXCEPT ![c] = Tail(toHub[c])] /\ toHub[c] # <<>>
        /\ UNCHANGED <<toClient, hubEnd, cliEnd, pc, connVars, viewVars, objVars, hubHost>>
    BY <1>5 DEF AHubReads, HubReads, HubCanRead, managerVars
  <2>2. Tail(toHub[c]) \in Seq(Messages)
    BY <1>1, <2>1 DEF Linked
  <2>3. DOMAIN toHub' = DOMAIN toHub /\ toHub' \in [DOMAIN toHub -> Seq(Messages)]
    BY <1>1, <2>1, <2>2 DEF Linked
  <2>4. Linked(FromHub)'
    BY <1>1, <2>1, <2>3 DEF Linked
  <2> QED
    BY <2>1, <2>3, <2>4, WorldKeeps
<1>6. ASSUME NEW c \in DOMAIN hubEnd, NEW msg \in FromHub, AHubWrites(c, msg)
      PROVE  OpenInv'
  <2>1. /\ toClient' = [toClient EXCEPT ![c] = Append(toClient[c], msg)]
        /\ UNCHANGED <<toHub, hubEnd, cliEnd, pc, connVars, viewVars, objVars, hubHost>>
    BY <1>6 DEF AHubWrites, HubWrites, managerVars
  <2>2. Linked(FromHub)'
    <3>1. CASE c \in DOMAIN toClient
      BY <1>1, <2>1, <3>1, EndsKeep
    <3>2. CASE c \notin DOMAIN toClient
      <4>1. toClient' = toClient
        BY <1>1, <2>1, <3>2 DEF Linked
      <4> QED
        BY <1>1, <2>1, <4>1, EndsKeep
    <3> QED
      BY <3>1, <3>2
  <2> QED
    BY <2>1, <2>2, WorldKeeps
<1> QED
  BY <1>2, <1>3, <1>4, <1>5, <1>6

-----------------------------------------------------------------------------
(* The theorems.                                                           *)

LEMMA OpenInitial == OpenInit => OpenInv
<1> SUFFICES ASSUME OpenInit PROVE OpenInv
  OBVIOUS
<1> USE SelfIsNode, MaxConnsAssumption DEF OpenInit, ManagerInit
<1>1. DOMAIN <<>> = {} /\ <<>> \in Seq(Messages) /\ <<>> \in Seq(FromHub) /\ 1..0 = {} /\ 0 \in 0..MaxConns
  OBVIOUS
<1>2. SpokeTypes /\ QueueTypes /\ ClientTypes
  BY <1>1 DEF SpokeTypes, QueueTypes, ClientTypes, Labels
<1>3. Linked(FromHub)
  BY <1>1 DEF Linked
<1>4. ViewTypes
  <2>1. ViewKnown(<<>>)
    BY <1>1 DEF ViewKnown
  <2> QED
    BY <2>1 DEF ViewTypes
<1>5. LoopHolds /\ OwnerKnows
  BY <1>1 DEF LoopHolds, ClientIsCurrent, OwnerKnows, Connected
<1> QED
  BY <1>2, <1>3, <1>4, <1>5 DEF OpenInv, Types

LEMMA OpenStep == OpenInv /\ [OpenNext]_vars => OpenInv'
<1> SUFFICES ASSUME OpenInv, [OpenNext]_vars PROVE OpenInv'
  OBVIOUS
<1>1. CASE \/ HubAppears \/ HubDisappears
           \/ \E c \in DOMAIN hubEnd :
                 \/ HubAccepts(c) /\ UNCHANGED <<managerVars, called, taken>>
                 \/ AHubReads(c)
                 \/ \E msg \in FromHub : AHubWrites(c, msg)
  BY <1>1, HubsKeep
<1>2. CASE Interface
  <2>1. CASE Unsubscribe(Self)
    BY <2>1, OwnersKeep
  <2>2. ASSUME NEW body \in CallBodies, Call(Self, body) PROVE OpenInv'
    BY <2>2, CallKeeps
  <2>3. \A t \in Topics, m \in Mimes : TopicChange("ANNOUNCE", Self, t, m) \in CallBodies
    BY DEF TopicChange, CallBodies
  <2>4. \A t \in Topics, op \in {"RETRACT", "SUBSCRIBE"} : TopicChange(op, Self, t, "") \in CallBodies
    BY DEF TopicChange, CallBodies
  <2> QED
    BY <1>2, <2>1, <2>2, <2>3, <2>4 DEF Interface, Announce, Retract, Subscribe
<1>3. CASE Process
  <2>1. CASE MainLoop(Self)
    BY <2>1, ConnectKeeps, MovesKeep, IntroduceKeeps, AttachKeeps, FlushKeeps, WaitReturnsKeeps DEF MainLoop
  <2> QED
    BY <1>3, <2>1, MovesKeep, ClientReadKeeps, ClientHangupKeeps, OwnersKeep, DestroyServerKeeps, DieKeeps
       DEF Process
<1>4. CASE UNCHANGED vars
  <2>1. /\ UNCHANGED <<pc, connVars, viewVars, objVars, hubHost, udsVars>>
    BY <1>4 DEF vars, managerVars
  <2>2. Linked(FromHub)'
    BY <2>1, SameConns DEF OpenInv, Types
  <2> QED
    BY <2>1, <2>2, WorldKeeps DEF udsVars
<1> QED
  BY <1>1, <1>2, <1>3, <1>4 DEF OpenNext

\* The invariant of a spoke among any hubs: MainLoop has a client exactly between Connect and
\* Wait's return, and no connection but that one is open.
THEOREM OpenInvariant == OpenSpec => []OpenInv
BY OpenInitial, OpenStep, PTL DEF OpenSpec

\* Every variable of a spoke and of its connections keeps its type, whatever hubs
\* write and whenever processes die.
THEOREM OpenTypesHold == OpenSpec => []OpenTypeOK
<1>1. OpenInv => OpenTypeOK
  <2> SUFFICES ASSUME OpenInv PROVE OpenTypeOK
    OBVIOUS
  <2>1. FromHub \subseteq Messages
    BY OpenAssumption
  <2>2. Seq(FromHub) \subseteq Seq(Messages)
    BY <2>1
  <2>3. DOMAIN toHub \subseteq Conns
    BY MaxConnsAssumption DEF OpenInv, Types, Linked, Conns
  <2>4. mHistory \in [Nodes -> Seq(Messages)] /\ toClient \in [DOMAIN toClient -> Seq(Messages)]
    BY <2>2 DEF OpenInv, Types, QueueTypes, Linked
  <2> QED
    BY <2>3, <2>4 DEF OpenInv, Types, SpokeTypes, QueueTypes, ClientTypes, Linked, OpenTypeOK, Labels
<1> QED
  BY <1>1, OpenInvariant, PTL

\* Nobody sends through the client of an earlier connection: the shared client is
\* cleared before MainLoop's is, and set from it.
THEOREM NoOldClient == OpenSpec => []ClientIsCurrent
<1>1. OpenInv => ClientIsCurrent
  BY DEF OpenInv, LoopHolds
<1> QED
  BY <1>1, OpenInvariant, PTL

\* A destructor that returns leaves no client, no connection and no server, although
\* it clears the shared client without the lock.
THEOREM DestructorCleansUp == OpenSpec => []DestroyedCleanly
<1>1. OpenInv => DestroyedCleanly
  <2> SUFFICES ASSUME OpenInv, owner[Self] = "gone"
               PROVE  /\ mClient[Self] = 0 /\ client[Self] = 0 /\ hubHost # Self
                      /\ \A c \in DOMAIN cliEnd : cliEnd[c] # "open"
    BY DEF DestroyedCleanly
  <2>1. pc[Self] \in {"ended", "dead"} /\ hubHost # Self
    BY DEF OpenInv, OwnerKnows
  <2>2. client[Self] = 0 /\ mClient[Self] = 0
    BY <2>1 DEF OpenInv, LoopHolds, ClientIsCurrent, Connected
  <2>3. 0 \notin DOMAIN cliEnd
    BY ConnFacts DEF OpenInv, Types
  <2> QED
    BY <2>1, <2>2, <2>3 DEF OpenInv, LoopHolds
<1> QED
  BY <1>1, OpenInvariant, PTL

-----------------------------------------------------------------------------
(* Counting what is handed over.                                           *)

Places(s, body) == {i \in DOMAIN s : s[i].body = body}

InSocket(hub, c, body) == {<<c, i>> : i \in {k \in DOMAIN hub[c] : hub[c][k].body = body}}

InSockets(hub, S, body) == UNION {InSocket(hub, c, body) : c \in S}

LEMMA OccurrencesType ==
    ASSUME NEW T, NEW s \in Seq(T), NEW body
    PROVE  IsFiniteSet(Places(s, body)) /\ Occurrences(s, body) = Cardinality(Places(s, body))
           /\ Occurrences(s, body) \in Nat
<1>1. IsFiniteSet(DOMAIN s)
  BY FS_Interval
<1>2. IsFiniteSet(Places(s, body))
  BY <1>1, FS_Subset DEF Places
<1>3. Occurrences(s, body) = Cardinality(Places(s, body))
  BY DEF Occurrences, Places
<1> QED
  BY <1>2, <1>3, FS_CardinalityType

\* Two sequences after each other.
LEMMA ConcatIs ==
    ASSUME NEW T, NEW s \in Seq(T), NEW t \in Seq(T)
    PROVE  /\ Len(s) \in Nat /\ DOMAIN s = 1..Len(s) /\ DOMAIN t = 1..Len(t) /\ Len(t) \in Nat
           /\ s \o t \in Seq(T) /\ DOMAIN (s \o t) = 1..(Len(s) + Len(t)) /\ Len(s \o t) = Len(s) + Len(t)
           /\ \A i \in 1..Len(s) : (s \o t)[i] = s[i]
           /\ \A i \in 1..Len(t) : (s \o t)[Len(s) + i] = t[i]
OBVIOUS

LEMMA OccurrencesAdd ==
    ASSUME NEW T, NEW s \in Seq(T), NEW t \in Seq(T), NEW body
    PROVE  Occurrences(s \o t, body) = Occurrences(s, body) + Occurrences(t, body)
<1> DEFINE A == Places(s, body)
           B == Places(t, body)
           C == {Len(s) + i : i \in B}
           f == [i \in B |-> Len(s) + i]
<1>1. /\ Len(s) \in Nat /\ DOMAIN s = 1..Len(s) /\ DOMAIN t = 1..Len(t) /\ Len(t) \in Nat
      /\ s \o t \in Seq(T) /\ DOMAIN (s \o t) = 1..(Len(s) + Len(t))
      /\ \A i \in 1..Len(s) : (s \o t)[i] = s[i]
      /\ \A i \in 1..Len(t) : (s \o t)[Len(s) + i] = t[i]
  BY ConcatIs
<1>2. A \subseteq 1..Len(s) /\ B \subseteq 1..Len(t)
  BY <1>1 DEF Places
<1>3. Places(s \o t, body) = A \cup C
  <2>1. ASSUME NEW i \in Places(s \o t, body) PROVE i \in A \cup C
    <3>1. CASE i \in 1..Len(s)
      BY <1>1, <2>1, <3>1 DEF Places
    <3>2. CASE i \notin 1..Len(s)
      <4>1. PICK j \in 1..Len(t) : i = Len(s) + j
        <5>1. i - Len(s) \in 1..Len(t) /\ i = Len(s) + (i - Len(s))
          BY <1>1, <2>1, <3>2 DEF Places
        <5> QED
          BY <5>1
      <4>2. j \in B
        BY <1>1, <2>1, <4>1 DEF Places
      <4> QED
        BY <4>1, <4>2
    <3> QED
      BY <3>1, <3>2
  <2>2. ASSUME NEW i \in A PROVE i \in Places(s \o t, body)
    BY <1>1, <1>2, <2>2 DEF Places
  <2>3. ASSUME NEW j \in B PROVE Len(s) + j \in Places(s \o t, body)
    BY <1>1, <1>2, <2>3 DEF Places
  <2> QED
    BY <2>1, <2>2, <2>3
<1>4. A \cap C = {}
  BY <1>1, <1>2
<1>5. /\ IsFiniteSet(A) /\ IsFiniteSet(B)
      /\ Occurrences(s, body) = Cardinality(A) /\ Occurrences(t, body) = Cardinality(B)
      /\ Occurrences(s \o t, body) = Cardinality(Places(s \o t, body))
      /\ Occurrences(s, body) \in Nat /\ Occurrences(t, body) \in Nat
  BY <1>1, OccurrencesType
<1>6. IsFiniteSet(C) /\ Cardinality(C) = Cardinality(B)
  <2>1. f \in Bijection(B, C)
    BY <1>1, <1>2 DEF Bijection, Injection, Surjection, IsInjective
  <2>2. ExistsBijection(B, C)
    BY <2>1 DEF ExistsBijection
  <2> HIDE DEF B, C
  <2> QED
    BY <1>5, <2>2, FS_Bijection
<1> HIDE DEF A, B, C
<1>7. Cardinality(A \cup C) = Cardinality(A) + Cardinality(C) - Cardinality(A \cap C)
  BY <1>5, <1>6, FS_Union
<1>8. Cardinality(A \cap C) = 0
  BY <1>4, FS_EmptySet
<1>9. Cardinality(A \cup C) = Cardinality(A) + Cardinality(B)
  BY <1>5, <1>6, <1>7, <1>8
<1> QED
  BY <1>3, <1>5, <1>9

LEMMA OccurrencesNone ==
    ASSUME NEW T, NEW s \in Seq(T), NEW body, \A i \in DOMAIN s : s[i].body # body
    PROVE  Occurrences(s, body) = 0
<1>1. Places(s, body) = {}
  BY DEF Places
<1> QED
  BY <1>1, OccurrencesType, FS_EmptySet

LEMMA OccurrencesOne ==
    ASSUME NEW T, NEW msg \in T, NEW body
    PROVE  Occurrences(<<msg>>, body) = IF msg.body = body THEN 1 ELSE 0
<1>1. <<msg>> \in Seq(T) /\ DOMAIN <<msg>> = {1} /\ <<msg>>[1] = msg
  OBVIOUS
<1>2. CASE msg.body = body
  <2>1. Places(<<msg>>, body) = {1}
    BY <1>1, <1>2 DEF Places
  <2> QED
    <3>1. Occurrences(<<msg>>, body) = Cardinality(Places(<<msg>>, body))
      BY <1>1, OccurrencesType
    <3>2. Cardinality({1}) = 1
      BY FS_Singleton
    <3> QED
      BY <1>2, <2>1, <3>1, <3>2
<1>3. CASE msg.body # body
  BY <1>1, <1>3, OccurrencesNone
<1> QED
  BY <1>2, <1>3

LEMMA OccurrencesAppend ==
    ASSUME NEW T, NEW s \in Seq(T), NEW msg \in T, NEW body
    PROVE  Occurrences(Append(s, msg), body) = Occurrences(s, body) + (IF msg.body = body THEN 1 ELSE 0)
<1>1. Append(s, msg) = s \o <<msg>> /\ <<msg>> \in Seq(T)
  OBVIOUS
<1>2. Occurrences(s \o <<msg>>, body) = Occurrences(s, body) + Occurrences(<<msg>>, body)
  BY <1>1, OccurrencesAdd
<1>3. Occurrences(<<msg>>, body) = IF msg.body = body THEN 1 ELSE 0
  BY OccurrencesOne
<1> QED
  BY <1>1, <1>2, <1>3

LEMMA OccurrencesTail ==
    ASSUME NEW T, NEW s \in Seq(T), s # <<>>, NEW body
    PROVE  /\ Occurrences(s, body) = (IF Head(s).body = body THEN 1 ELSE 0) + Occurrences(Tail(s), body)
           /\ Occurrences(Tail(s), body) \in Nat
<1>1. s = <<Head(s)>> \o Tail(s) /\ Head(s) \in T /\ <<Head(s)>> \in Seq(T) /\ Tail(s) \in Seq(T)
  OBVIOUS
<1>2. Occurrences(<<Head(s)>> \o Tail(s), body) = Occurrences(<<Head(s)>>, body) + Occurrences(Tail(s), body)
  BY <1>1, OccurrencesAdd
<1> QED
  BY <1>1, <1>2, OccurrencesOne, OccurrencesType

\* One socket and the others.
LEMMA SocketsSplit ==
    ASSUME NEW hub, IsFiniteSet(DOMAIN hub), NEW T, \A d \in DOMAIN hub : hub[d] \in Seq(T),
           NEW c \in DOMAIN hub, NEW body
    PROVE  /\ Cardinality(InSockets(hub, DOMAIN hub, body)) =
                  Occurrences(hub[c], body) + Cardinality(InSockets(hub, DOMAIN hub \ {c}, body))
           /\ Cardinality(InSockets(hub, DOMAIN hub \ {c}, body)) \in Nat
           /\ Occurrences(hub[c], body) \in Nat
<1> DEFINE all == InSockets(hub, DOMAIN hub, body)
           one == InSocket(hub, c, body)
           rest == InSockets(hub, DOMAIN hub \ {c}, body)
<1>1. \A d \in DOMAIN hub : IsFiniteSet(InSocket(hub, d, body))
                            /\ Cardinality(InSocket(hub, d, body)) = Occurrences(hub[d], body)
  <2> TAKE d \in DOMAIN hub
  <2> DEFINE f == [i \in Places(hub[d], body) |-> <<d, i>>]
  <2>1. f \in Bijection(Places(hub[d], body), InSocket(hub, d, body))
    BY DEF Bijection, Injection, Surjection, IsInjective, Places, InSocket
  <2>2. ExistsBijection(Places(hub[d], body), InSocket(hub, d, body))
    BY <2>1 DEF ExistsBijection
  <2> QED
    BY <2>2, OccurrencesType, FS_Bijection
<1>2. all = one \cup rest
  BY DEF InSockets
<1>3. one \cap rest = {}
  <2>1. \A p \in one : p[1] = c
    BY DEF InSocket
  <2>2. \A p \in rest : p[1] # c
    BY DEF InSockets, InSocket
  <2> QED
    BY <2>1, <2>2
<1>4. IsFiniteSet(rest)
  <2> DEFINE parts == {InSocket(hub, d, body) : d \in DOMAIN hub}
             U == UNION parts
  <2>1. IsFiniteSet(parts)
    <3> DEFINE g == [d \in DOMAIN hub |-> InSocket(hub, d, body)]
    <3>1. g \in Surjection(DOMAIN hub, parts)
      BY DEF Surjection
    <3> HIDE DEF parts, g
    <3> QED
      BY <3>1, FS_Surjection
  <2>2. \A P \in parts : IsFiniteSet(P)
    BY <1>1
  <2>3. rest \subseteq U
    BY DEF InSockets
  <2> HIDE DEF parts
  <2>4. IsFiniteSet(U)
    BY <2>1, <2>2, FS_UNION
  <2> HIDE DEF U, rest
  <2> QED
    BY <2>3, <2>4, FS_Subset
<1>5. IsFiniteSet(one) /\ Cardinality(one) = Occurrences(hub[c], body) /\ Occurrences(hub[c], body) \in Nat
  BY <1>1, OccurrencesType
<1> HIDE DEF all, one, rest
<1>6. Cardinality(one \cup rest) = Cardinality(one) + Cardinality(rest) - Cardinality(one \cap rest)
  BY <1>4, <1>5, FS_Union
<1>7. Cardinality(rest) \in Nat
  BY <1>4, FS_CardinalityType
<1>8. Cardinality(all) = Occurrences(hub[c], body) + Cardinality(rest)
  <2>1. Cardinality(one \cap rest) = 0
    BY <1>3, FS_EmptySet
  <2> QED
    BY <1>2, <1>5, <1>6, <1>7, <2>1
<1> QED
  BY <1>5, <1>7, <1>8 DEF all, rest

LEMMA SocketsFinite ==
    ASSUME Linked(FromHub), NEW body
    PROVE  /\ IsFiniteSet(DOMAIN toHub)
           /\ Cardinality(InSockets(toHub, DOMAIN toHub, body)) \in Nat
<1>1. IsFiniteSet(DOMAIN toHub)
  <2>1. DOMAIN toHub = 1..(NextConn - 1) /\ NextConn \in Nat
    BY ConnFacts
  <2> QED
    BY <2>1, FS_Interval
<1>2. CASE DOMAIN toHub = {}
  <2>1. InSockets(toHub, DOMAIN toHub, body) = {}
    BY <1>2 DEF InSockets
  <2> QED
    BY <1>1, <2>1, FS_EmptySet
<1>3. ASSUME NEW c \in DOMAIN toHub PROVE Cardinality(InSockets(toHub, DOMAIN toHub, body)) \in Nat
  <2>1. \A d \in DOMAIN toHub : toHub[d] \in Seq(Messages)
    BY DEF Linked
  <2>2. /\ Cardinality(InSockets(toHub, DOMAIN toHub, body)) =
               Occurrences(toHub[c], body) + Cardinality(InSockets(toHub, DOMAIN toHub \ {c}, body))
        /\ Cardinality(InSockets(toHub, DOMAIN toHub \ {c}, body)) \in Nat
        /\ Occurrences(toHub[c], body) \in Nat
    BY <1>1, <2>1, SocketsSplit
  <2> QED
    BY <2>2
<1> QED
  BY <1>1, <1>2, <1>3

\* What changes in one socket changes what is handed over.
LEMMA OneSocketChanges ==
    ASSUME Linked(FromHub), Linked(FromHub)', DOMAIN toHub' = DOMAIN toHub, NEW c \in DOMAIN toHub,
           \A d \in DOMAIN toHub \ {c} : toHub'[d] = toHub[d], NEW body
    PROVE  /\ Cardinality(InSockets(toHub', DOMAIN toHub', body)) + Occurrences(toHub[c], body) =
                  Cardinality(InSockets(toHub, DOMAIN toHub, body)) + Occurrences(toHub'[c], body)
           /\ Cardinality(InSockets(toHub, DOMAIN toHub, body)) \in Nat
           /\ Cardinality(InSockets(toHub', DOMAIN toHub', body)) \in Nat
           /\ Occurrences(toHub[c], body) \in Nat /\ Occurrences(toHub'[c], body) \in Nat
<1>1. IsFiniteSet(DOMAIN toHub)
  BY SocketsFinite
<1>2. (\A d \in DOMAIN toHub : toHub[d] \in Seq(Messages)) /\ \A d \in DOMAIN toHub' : toHub'[d] \in Seq(Messages)
  BY DEF Linked
<1>3. InSockets(toHub', DOMAIN toHub' \ {c}, body) = InSockets(toHub, DOMAIN toHub \ {c}, body)
  <2>1. \A d \in DOMAIN toHub \ {c} : InSocket(toHub', d, body) = InSocket(toHub, d, body)
    BY DEF InSocket
  <2> QED
    BY <2>1 DEF InSockets
<1>4. /\ Cardinality(InSockets(toHub, DOMAIN toHub, body)) =
             Occurrences(toHub[c], body) + Cardinality(InSockets(toHub, DOMAIN toHub \ {c}, body))
      /\ Cardinality(InSockets(toHub, DOMAIN toHub \ {c}, body)) \in Nat
      /\ Occurrences(toHub[c], body) \in Nat
  BY <1>1, <1>2, SocketsSplit
<1>5. PICK hub : hub = toHub'
  OBVIOUS
<1>6. /\ Cardinality(InSockets(hub, DOMAIN hub, body)) =
             Occurrences(hub[c], body) + Cardinality(InSockets(hub, DOMAIN hub \ {c}, body))
      /\ Occurrences(hub[c], body) \in Nat
  <2>1. IsFiniteSet(DOMAIN hub) /\ c \in DOMAIN hub /\ \A d \in DOMAIN hub : hub[d] \in Seq(Messages)
    BY <1>1, <1>2, <1>5
  <2> QED
    BY <2>1, SocketsSplit
<1> QED
  BY <1>3, <1>4, <1>5, <1>6

\* A new socket has nothing in it.
LEMMA NewSocketIsEmpty ==
    ASSUME DOMAIN toHub' = DOMAIN toHub \cup {NextConn}, toHub'[NextConn] = <<>>,
           \A c \in DOMAIN toHub : toHub'[c] = toHub[c], NEW body
    PROVE  InSockets(toHub', DOMAIN toHub', body) = InSockets(toHub, DOMAIN toHub, body)
<1>1. PICK d : d = NextConn
  OBVIOUS
<1>2. InSocket(toHub', d, body) = {}
  BY <1>1 DEF InSocket
<1>3. \A c \in DOMAIN toHub : InSocket(toHub', c, body) = InSocket(toHub, c, body)
  BY DEF InSocket
<1> QED
  BY <1>1, <1>2, <1>3 DEF InSockets

-----------------------------------------------------------------------------
(* The steps keep the count.                                               *)

LEMMA HandedIs ==
    ASSUME NEW body \in CallBodies
    PROVE  /\ HandedOver(body) = taken[body] + Cardinality(InSockets(toHub, DOMAIN toHub, body))
           /\ HandedOver(body)' = taken'[body] + Cardinality(InSockets(toHub', DOMAIN toHub', body))
BY DEF HandedOver, InSockets, InSocket

\* The own topics of the view stay apart.
LEMMA ViewedApart ==
    ASSUME ToldApart, NEW view, ViewKnown(view), Apart(view), NEW msg \in FromHub
    PROVE  Apart(Viewed(view, msg.body))
<1>1. PICK body \in Bodies : body = msg.body
  BY HubMessages
<1>2. body.op \in TopicOps /\ body.node = Self => body.topic \notin Topics
  BY <1>1 DEF ToldApart
<1>3. CASE body.op = "JOIN" /\ body.node \notin DOMAIN view
  <2>1. Viewed(view, body) = With(view, body.node, NewNode)
    BY <1>3 DEF Viewed
  <2>2. DOMAIN NewNode.pubs = {} /\ NewNode.subs = {}
    BY DEF NewNode
  <2>3. CASE body.node = Self
    <3>1. Viewed(view, body)[Self] = NewNode
      BY <2>1, <2>3 DEF With
    <3> QED
      BY <1>1, <2>2, <3>1 DEF Apart
  <2>4. CASE body.node # Self
    <3>1. Self \in DOMAIN Viewed(view, body) => Self \in DOMAIN view /\ Viewed(view, body)[Self] = view[Self]
      BY <2>1, <2>4 DEF With
    <3> QED
      BY <1>1, <3>1 DEF Apart
  <2> QED
    BY <2>3, <2>4
<1>4. CASE body.op = "LEAVE"
  <2>1. ~(body.op = "JOIN" /\ body.node \notin DOMAIN view)
    BY <1>4
  <2>2. ~(body.op \in TopicOps /\ body.node \in DOMAIN view)
    BY <1>4 DEF TopicOps
  <2>3. Viewed(view, body) = Without(view, body.node)
    BY <1>4, <2>1, <2>2 DEF Viewed
  <2>4. Self \in DOMAIN Viewed(view, body) => Self \in DOMAIN view /\ Viewed(view, body)[Self] = view[Self]
    BY <2>3 DEF Without
  <2> QED
    BY <1>1, <2>4 DEF Apart
<1>5. CASE body.op \in TopicOps /\ body.node \in DOMAIN view
  <2> DEFINE u == Updated(view[body.node], body)
  <2>1. Viewed(view, body) = [view EXCEPT ![body.node] = u]
    BY <1>5 DEF Viewed, TopicOps
  <2>2. /\ DOMAIN u.pubs \subseteq DOMAIN view[body.node].pubs \cup {body.topic}
        /\ u.subs \subseteq view[body.node].subs \cup {body.topic}
    <3>1. PICK e : e = view[body.node]
      OBVIOUS
    <3>2. e = [pubs |-> e.pubs, subs |-> e.subs]
      BY <1>5, <3>1 DEF ViewKnown, NodeKnown
    <3>3. CASE body.op = "ANNOUNCE"
      <4>1. Updated(e, body) = [pubs |-> With(e.pubs, body.topic, body.mime), subs |-> e.subs]
        BY <3>2, <3>3 DEF Updated
      <4> QED
        BY <3>1, <4>1 DEF With
    <3>4. CASE body.op = "RETRACT"
      <4>1. Updated(e, body) = [pubs |-> Without(e.pubs, body.topic), subs |-> e.subs]
        BY <3>2, <3>4 DEF Updated
      <4> QED
        BY <3>1, <4>1 DEF Without
    <3>5. CASE body.op = "SUBSCRIBE"
      <4>1. Updated(e, body) = [pubs |-> e.pubs, subs |-> e.subs \cup {body.topic}]
        BY <3>2, <3>5 DEF Updated
      <4> QED
        BY <3>1, <4>1
    <3>6. CASE body.op = "UNSUBSCRIBE"
      <4>1. Updated(e, body) = [pubs |-> e.pubs, subs |-> e.subs \ {body.topic}]
        BY <3>2, <3>6 DEF Updated
      <4> QED
        BY <3>1, <4>1
    <3> QED
      BY <1>5, <3>3, <3>4, <3>5, <3>6 DEF TopicOps
  <2> HIDE DEF u
  <2>3. CASE body.node = Self
    <3>1. Viewed(view, body)[Self] = u /\ body.topic \notin Topics
      BY <1>2, <1>5, <2>1, <2>3 DEF ViewKnown
    <3> QED
      BY <1>1, <1>5, <2>2, <2>3, <3>1 DEF Apart
  <2>4. CASE body.node # Self
    <3>1. Self \in DOMAIN Viewed(view, body) => Self \in DOMAIN view /\ Viewed(view, body)[Self] = view[Self]
      BY <2>1, <2>4 DEF ViewKnown
    <3> QED
      BY <1>1, <3>1 DEF Apart
  <2> QED
    BY <2>3, <2>4
<1>6. CASE /\ ~(body.op = "JOIN" /\ body.node \notin DOMAIN view) /\ body.op # "LEAVE"
           /\ ~(body.op \in TopicOps /\ body.node \in DOMAIN view)
  <2>1. Viewed(view, body) = view
    BY <1>6 DEF Viewed
  <2> QED
    BY <1>1, <2>1
<1> QED
  BY <1>3, <1>4, <1>5, <1>6

LEMMA ApplyApart ==
    ASSUME ToldApart, Types, OwnTopicsApart, NEW msg \in FromHub, ApplyUpdate(Self, msg)
    PROVE  OwnTopicsApart'
<1>1. mNodes' = [mNodes EXCEPT ![Self] = Viewed(mNodes[Self], msg.body)] /\ Self \in Nodes
  BY SelfIsNode DEF ApplyUpdate
<1>2. mNodes'[Self] = Viewed(mNodes[Self], msg.body) /\ ViewKnown(mNodes[Self])
  BY <1>1 DEF Types, ViewTypes
<1> QED
  BY <1>2, ViewedApart DEF OwnTopicsApart

\* A body that is not from the interface.
LEMMA NotFromHubs ==
    ASSUME ToldApart, NEW body \in CallBodies, NEW msg \in FromHub
    PROVE  msg.body # body
BY CallsAreMessages DEF ToldApart

\* A step that hands nothing over.
LEMMA CountStays ==
    ASSUME EachCallOnce, pc'[Self] # "dead" => pc[Self] # "dead", called' = called, taken' = taken,
           mBacklog'[Self] = mBacklog[Self], unsent'[Self] = unsent[Self],
           \A body \in CallBodies :
               InSockets(toHub', DOMAIN toHub', body) = InSockets(toHub, DOMAIN toHub, body)
    PROVE  EachCallOnce'
<1> SUFFICES ASSUME pc'[Self] # "dead", NEW body \in CallBodies
             PROVE  Occurrences(mBacklog'[Self], body) + Occurrences(unsent'[Self], body)
                    + HandedOver(body)' = IF body \in called' THEN 1 ELSE 0
  BY DEF EachCallOnce
<1>1. Occurrences(mBacklog[Self], body) + Occurrences(unsent[Self], body)
      + HandedOver(body) = IF body \in called THEN 1 ELSE 0
  BY DEF EachCallOnce
<1>2. HandedOver(body)' = HandedOver(body)
  BY HandedIs
<1> QED
  BY <1>1, <1>2

\* A message sent is in the socket or in the backlog.
LEMMA SendCounts ==
    ASSUME Types, TakenTypes, taken' = taken, NEW msg \in Messages, Send(Self, msg),
           UNCHANGED <<toClient, hubEnd, cliEnd>>, NEW body \in CallBodies
    PROVE  /\ Occurrences(mBacklog'[Self], body) + HandedOver(body)' =
                  Occurrences(mBacklog[Self], body) + HandedOver(body) + (IF msg.body = body THEN 1 ELSE 0)
           /\ Occurrences(mBacklog[Self], body) \in Nat /\ HandedOver(body) \in Nat
           /\ Occurrences(mBacklog'[Self], body) \in Nat /\ HandedOver(body)' \in Nat
<1>1. /\ mBacklog[Self] \in Seq(Messages) /\ mBacklog \in [Nodes -> Seq(Messages)] /\ Self \in Nodes
      /\ taken[body] \in Nat /\ Linked(FromHub)
  BY SelfIsNode DEF Types, QueueTypes, TakenTypes
<1>2. Occurrences(mBacklog[Self], body) \in Nat
  BY <1>1, OccurrencesType
<1>3. CASE mClient[Self] # 0 /\ CanSend(mClient[Self])
  <2>1. PICK c : c = mClient[Self]
    OBVIOUS
  <2>2. /\ c \in DOMAIN toHub /\ toHub' = [toHub EXCEPT ![c] = toHub[c] \o <<msg>>] /\ mBacklog' = mBacklog
    BY <1>1, <1>3, <2>1 DEF Send, Written, Types, ClientTypes
  <2>3. Linked(FromHub)' /\ DOMAIN toHub' = DOMAIN toHub /\ toHub[c] \in Seq(Messages)
    BY <1>1, <2>2, SendKeeps DEF Linked
  <2>4. toHub'[c] = Append(toHub[c], msg) /\ \A d \in DOMAIN toHub \ {c} : toHub'[d] = toHub[d]
    BY <2>2, <2>3
  <2>5. Occurrences(toHub'[c], body) = Occurrences(toHub[c], body) + (IF msg.body = body THEN 1 ELSE 0)
    BY <2>3, <2>4, OccurrencesAppend
  <2>6. /\ Cardinality(InSockets(toHub', DOMAIN toHub', body)) + Occurrences(toHub[c], body) =
               Cardinality(InSockets(toHub, DOMAIN toHub, body)) + Occurrences(toHub'[c], body)
        /\ Cardinality(InSockets(toHub, DOMAIN toHub, body)) \in Nat
        /\ Cardinality(InSockets(toHub', DOMAIN toHub', body)) \in Nat
        /\ Occurrences(toHub[c], body) \in Nat /\ Occurrences(toHub'[c], body) \in Nat
    BY <1>1, <2>2, <2>3, <2>4, OneSocketChanges
  <2>7. /\ HandedOver(body) = taken[body] + Cardinality(InSockets(toHub, DOMAIN toHub, body))
        /\ HandedOver(body)' = taken[body] + Cardinality(InSockets(toHub', DOMAIN toHub', body))
    BY HandedIs
  <2>8. HandedOver(body)' = HandedOver(body) + (IF msg.body = body THEN 1 ELSE 0) /\ HandedOver(body) \in Nat
    BY <1>1, <2>5, <2>6, <2>7
  <2> QED
    BY <1>2, <2>2, <2>8
<1>4. CASE ~(mClient[Self] # 0 /\ CanSend(mClient[Self]))
  <2>1. toHub' = toHub /\ mBacklog'[Self] = Append(mBacklog[Self], msg)
    BY <1>1, <1>4 DEF Send
  <2>2. Occurrences(mBacklog'[Self], body) = Occurrences(mBacklog[Self], body) + (IF msg.body = body THEN 1 ELSE 0)
    BY <1>1, <2>1, OccurrencesAppend
  <2>3. HandedOver(body)' = HandedOver(body) /\ HandedOver(body) \in Nat
    BY <1>1, <2>1, HandedIs, SocketsFinite
  <2> QED
    BY <1>2, <2>2, <2>3
<1> QED
  BY <1>3, <1>4

LEMMA FlushCounts ==
    ASSUME CallsInv, FlushBacklog(Self), UNCHANGED <<called, taken>>
    PROVE  EachCallOnce'
<1>1. /\ pc' = pc /\ unsent[Self] # <<>> /\ Send(Self, Head(unsent[Self]))
      /\ unsent' = [unsent EXCEPT ![Self] = Tail(unsent[Self])] /\ UNCHANGED <<toClient, hubEnd, cliEnd>>
  BY DEF FlushBacklog
<1>2. unsent \in [Nodes -> Seq(Messages)] /\ Self \in Nodes /\ Types /\ TakenTypes
  BY SelfIsNode DEF CallsInv, OpenInv, Types, QueueTypes
<1>3. /\ unsent'[Self] = Tail(unsent[Self]) /\ unsent[Self] \in Seq(Messages)
      /\ Head(unsent[Self]) \in Messages
  BY <1>1, <1>2
<1> SUFFICES ASSUME pc'[Self] # "dead", NEW body \in CallBodies
             PROVE  Occurrences(mBacklog'[Self], body) + Occurrences(unsent'[Self], body)
                    + HandedOver(body)' = IF body \in called' THEN 1 ELSE 0
  BY DEF EachCallOnce
<1>4. Occurrences(mBacklog[Self], body) + Occurrences(unsent[Self], body)
      + HandedOver(body) = IF body \in called THEN 1 ELSE 0
  BY <1>1 DEF CallsInv, EachCallOnce
<1>5. /\ Occurrences(unsent[Self], body) =
             (IF Head(unsent[Self]).body = body THEN 1 ELSE 0) + Occurrences(unsent'[Self], body)
      /\ Occurrences(unsent'[Self], body) \in Nat
  BY <1>1, <1>3, OccurrencesTail
<1>6. /\ Occurrences(mBacklog'[Self], body) + HandedOver(body)' =
             Occurrences(mBacklog[Self], body) + HandedOver(body)
             + (IF Head(unsent[Self]).body = body THEN 1 ELSE 0)
      /\ Occurrences(mBacklog[Self], body) \in Nat /\ HandedOver(body) \in Nat
      /\ Occurrences(mBacklog'[Self], body) \in Nat /\ HandedOver(body)' \in Nat
  BY <1>1, <1>2, <1>3, SendCounts
<1> QED
  BY <1>4, <1>5, <1>6

LEMMA CallCounts ==
    ASSUME CallsInv, NEW call \in CallBodies, Call(Self, call), Calling(call)
    PROVE  EachCallOnce'
<1>1. /\ pc' = pc /\ unsent' = unsent /\ Send(Self, Message(0, 0, call)) /\ UNCHANGED <<toClient, hubEnd, cliEnd>>
      /\ call \notin called /\ called' = called \cup {call} /\ taken' = taken
  BY DEF Call, Calling
<1>2. unsent \in [Nodes -> Seq(Messages)] /\ Self \in Nodes /\ Types /\ TakenTypes
  BY SelfIsNode DEF CallsInv, OpenInv, Types, QueueTypes
<1>3. PICK msg \in Messages : msg = Message(0, 0, call) /\ msg.body = call
  BY CallsAreMessages DEF Message
<1> SUFFICES ASSUME pc'[Self] # "dead", NEW body \in CallBodies
             PROVE  Occurrences(mBacklog'[Self], body) + Occurrences(unsent'[Self], body)
                    + HandedOver(body)' = IF body \in called' THEN 1 ELSE 0
  BY DEF EachCallOnce
<1>4. Occurrences(mBacklog[Self], body) + Occurrences(unsent[Self], body)
      + HandedOver(body) = IF body \in called THEN 1 ELSE 0
  BY <1>1 DEF CallsInv, EachCallOnce
<1>5. Occurrences(unsent[Self], body) \in Nat
  BY <1>2, OccurrencesType
<1>6. /\ Occurrences(mBacklog'[Self], body) + HandedOver(body)' =
             Occurrences(mBacklog[Self], body) + HandedOver(body) + (IF msg.body = body THEN 1 ELSE 0)
      /\ Occurrences(mBacklog[Self], body) \in Nat /\ HandedOver(body) \in Nat
      /\ Occurrences(mBacklog'[Self], body) \in Nat /\ HandedOver(body)' \in Nat
  BY <1>1, <1>2, <1>3, SendCounts
<1>7. (IF body \in called' THEN 1 ELSE 0) = (IF body \in called THEN 1 ELSE 0) + (IF msg.body = body THEN 1 ELSE 0)
  BY <1>1, <1>3
<1>8. Occurrences(unsent'[Self], body) = Occurrences(unsent[Self], body)
  BY <1>1
<1>9. PICK k \in {0, 1} : k = IF msg.body = body THEN 1 ELSE 0
  OBVIOUS
<1> QED
  BY <1>4, <1>5, <1>6, <1>7, <1>8, <1>9

LEMMA AttachCounts ==
    ASSUME CallsInv, Attach(Self), UNCHANGED <<called, taken>>
    PROVE  EachCallOnce'
<1>1. /\ pc[Self] = "attach" /\ mBacklog'= [mBacklog EXCEPT ![Self] = <<>>] /\ toHub' = toHub
      /\ unsent' = [unsent EXCEPT ![Self] = mBacklog[Self]]
  BY DEF Attach, udsVars
<1>2. /\ unsent \in [Nodes -> Seq(Messages)] /\ mBacklog \in [Nodes -> Seq(Messages)] /\ Self \in Nodes
      /\ Types /\ TakenTypes /\ unsent[Self] = <<>>
  BY <1>1, SelfIsNode DEF CallsInv, OpenInv, Types, QueueTypes, LoopHolds
<1>3. mBacklog'[Self] = <<>> /\ unsent'[Self] = mBacklog[Self] /\ <<>> \in Seq(Messages)
  BY <1>1, <1>2
<1> SUFFICES ASSUME pc'[Self] # "dead", NEW body \in CallBodies
             PROVE  Occurrences(mBacklog'[Self], body) + Occurrences(unsent'[Self], body)
                    + HandedOver(body)' = IF body \in called' THEN 1 ELSE 0
  BY DEF EachCallOnce
<1>4. Occurrences(mBacklog[Self], body) + Occurrences(unsent[Self], body)
      + HandedOver(body) = IF body \in called THEN 1 ELSE 0
  BY <1>1 DEF CallsInv, EachCallOnce
<1>5. Occurrences(mBacklog[Self], body) \in Nat /\ Occurrences(<<>>, body) \in Nat
  BY <1>2, <1>3, OccurrencesType
<1>6. HandedOver(body)' = HandedOver(body)
  BY <1>1, HandedIs
<1> QED
  BY <1>2, <1>3, <1>4, <1>5, <1>6

\* Nothing of the introduction is from the interface.
LEMMA IntroductionApart ==
    ASSUME NEW e, NodeKnown(e), \A t \in DOMAIN e.pubs \cup e.subs : t \notin Topics,
           NEW pubOrder \in Orders(DOMAIN e.pubs), NEW subOrder \in Orders(e.subs), NEW body \in CallBodies
    PROVE  Occurrences(Introduction(Self, e.pubs, pubOrder, subOrder), body) = 0
<1> DEFINE s == Introduction(Self, e.pubs, pubOrder, subOrder)
           lastMime == IF pubOrder = <<>> THEN "" ELSE e.pubs[pubOrder[Len(pubOrder)]]
           join == Message(0, 0, NodeChange("JOIN", Self))
           pubs == [i \in DOMAIN pubOrder |-> Message(0, 0, TopicChange("ANNOUNCE", Self, pubOrder[i], e.pubs[pubOrder[i]]))]
           subs == [i \in DOMAIN subOrder |-> Message(0, 0, TopicChange("SUBSCRIBE", Self, subOrder[i], lastMime))]
<1>1. s \in Seq(Messages) /\ pubOrder \in Seq(DOMAIN e.pubs) /\ subOrder \in Seq(e.subs)
  BY SelfIsNode, IntroductionType
<1>2. body.op \in TopicOps /\ body.topic \in Topics
  BY CallsAreMessages
<1>3. join.body.op = "JOIN"
  BY DEF Message, NodeChange
<1>4. \A i \in DOMAIN pubOrder : pubs[i].body.topic \in DOMAIN e.pubs
  BY <1>1 DEF Message, TopicChange
<1>5. \A i \in DOMAIN subOrder : subs[i].body.topic \in e.subs
  <2> HIDE DEF lastMime
  <2> QED
    BY <1>1 DEF Message, TopicChange
<1>6. s = <<join>> \o pubs \o subs
  BY DEF Introduction
<1>7. DOMAIN pubs = 1..Len(pubOrder) /\ DOMAIN subs = 1..Len(subOrder) /\ Len(pubOrder) \in Nat /\ Len(subOrder) \in Nat
  BY <1>1
<1> HIDE DEF join, pubs, subs, s
<1> DEFINE T == {join} \cup {pubs[i] : i \in DOMAIN pubs} \cup {subs[i] : i \in DOMAIN subs}
<1>8. pubs \in Seq(T) /\ subs \in Seq(T) /\ <<join>> \in Seq(T)
      /\ Len(pubs) = Len(pubOrder) /\ Len(subs) = Len(subOrder)
  <2>1. pubs \in [1..Len(pubOrder) -> T] /\ join \in T
    BY <1>7 DEF pubs
  <2>2. subs \in [1..Len(subOrder) -> T]
    BY <1>7 DEF subs
  <2> HIDE DEF T
  <2> QED
    BY <1>7, <2>1, <2>2, FunctionIsSeq
<1> HIDE DEF T
<1>9. Occurrences(<<join>>, body) = 0
  <2>1. join \in T
    BY DEF T
  <2>2. Occurrences(<<join>>, body) = IF join.body = body THEN 1 ELSE 0
    BY <2>1, OccurrencesOne
  <2> QED
    BY <1>2, <1>3, <2>2 DEF TopicOps
<1>10. Occurrences(pubs, body) = 0
  <2>1. \A i \in DOMAIN pubs : pubs[i].body # body
    BY <1>2, <1>4, <1>7, <1>1
  <2> QED
    BY <1>8, <2>1, OccurrencesNone
<1>11. Occurrences(subs, body) = 0
  <2>1. \A i \in DOMAIN subs : subs[i].body # body
    BY <1>2, <1>5, <1>7, <1>1
  <2> QED
    BY <1>8, <2>1, OccurrencesNone
<1>12. PICK v \in Seq(T), p \in Seq(T) : v = <<join>> /\ p = pubs
  BY <1>8
<1>13. v \o p \in Seq(T) /\ Occurrences(v \o p, body) = Occurrences(v, body) + Occurrences(p, body)
  <2>1. Occurrences(v \o p, body) = Occurrences(v, body) + Occurrences(p, body)
    BY OccurrencesAdd
  <2>2. v \o p \in Seq(T)
    OBVIOUS
  <2> QED
    BY <2>1, <2>2
<1>14. PICK u \in Seq(T) : u = v \o p
  BY <1>13
<1>15. Occurrences(u \o subs, body) = Occurrences(u, body) + Occurrences(subs, body)
  BY <1>8, OccurrencesAdd
<1>16. Occurrences(s, body) = 0
  BY <1>6, <1>9, <1>10, <1>11, <1>12, <1>13, <1>14, <1>15
<1> QED
  BY <1>16 DEF s

LEMMA IntroduceCounts ==
    ASSUME ToldApart, CallsInv, IntroduceOurselves(Self), UNCHANGED <<called, taken>>
    PROVE  EachCallOnce'
<1> DEFINE self == IF Self \in DOMAIN mNodes[Self] THEN mNodes[Self][Self] ELSE NewNode
<1>1. /\ pc[Self] = "introduce" /\ UNCHANGED <<client, unsent, mBacklog, mHistory, mNodes, toClient, hubEnd, cliEnd>>
  BY DEF IntroduceOurselves, viewVars, connVars
<1>2. PICK pubOrder \in Orders(DOMAIN self.pubs), subOrder \in Orders(self.subs) :
          toHub' = Written(client[Self], mHistory[Self] \o Introduction(Self, self.pubs, pubOrder, subOrder))
  BY DEF IntroduceOurselves
<1>3. /\ NodeKnown(self) /\ \A t \in DOMAIN self.pubs \cup self.subs : t \notin Topics
  <2>1. CASE Self \in DOMAIN mNodes[Self]
    BY <2>1, SelfIsNode DEF CallsInv, OpenInv, Types, ViewTypes, ViewKnown, OwnTopicsApart, Apart
  <2>2. CASE Self \notin DOMAIN mNodes[Self]
    <3>1. DOMAIN NewNode.pubs = {} /\ NewNode.subs = {}
      BY DEF NewNode
    <3> QED
      BY <2>2, <3>1, NewNodeKnown
  <2> QED
    BY <2>1, <2>2
<1> HIDE DEF self
<1>4. PICK c : c = client[Self]
  OBVIOUS
<1>5. PICK s : s = Introduction(Self, self.pubs, pubOrder, subOrder)
  OBVIOUS
<1>6. /\ mHistory[Self] \in Seq(FromHub) /\ mHistory[Self] \in Seq(Messages) /\ Linked(FromHub) /\ c \in DOMAIN toHub
      /\ TakenTypes
  BY <1>1, <1>4, SelfIsNode, OpenAssumption
     DEF CallsInv, OpenInv, Types, QueueTypes, ClientTypes, LoopHolds, Connected
<1>7. s \in Seq(Messages)
  BY <1>3, <1>5, SelfIsNode, IntroductionType
<1>8. mHistory[Self] \o s \in Seq(Messages)
  BY <1>6, <1>7
<1>9. Linked(FromHub)' /\ DOMAIN toHub' = DOMAIN toHub
  BY <1>1, <1>2, <1>4, <1>5, <1>6, <1>8, WrittenKeeps
<1>10. \A d \in DOMAIN toHub \ {c} : toHub'[d] = toHub[d]
  BY <1>2, <1>4, <1>6 DEF Written
<1>11. ASSUME NEW body \in CallBodies PROVE Occurrences(toHub'[c], body) = Occurrences(toHub[c], body)
  <2>1. Occurrences(s, body) = 0
    BY <1>3, <1>5, IntroductionApart
  <2>2. Occurrences(mHistory[Self], body) = 0
    <3>1. \A i \in DOMAIN mHistory[Self] : mHistory[Self][i] \in FromHub
      BY <1>6
    <3>2. \A i \in DOMAIN mHistory[Self] : mHistory[Self][i].body # body
      BY <3>1, NotFromHubs
    <3> QED
      BY <1>6, <3>2, OccurrencesNone
  <2>3. Occurrences(mHistory[Self] \o s, body) = 0
    BY <1>6, <1>7, <2>1, <2>2, OccurrencesAdd
  <2>4. toHub[c] \in Seq(Messages)
    BY <1>6 DEF Linked
  <2>5. CASE CanSend(c)
    <3>1. toHub'[c] = toHub[c] \o (mHistory[Self] \o s)
      BY <1>2, <1>4, <1>5, <1>6, <2>5 DEF Written
    <3>2. Occurrences(toHub'[c], body) = Occurrences(toHub[c], body) + Occurrences(mHistory[Self] \o s, body)
      <4>1. PICK w \in Seq(Messages) : w = mHistory[Self] \o s
        BY <1>8
      <4>2. Occurrences(toHub[c] \o w, body) = Occurrences(toHub[c], body) + Occurrences(w, body)
        BY <2>4, OccurrencesAdd
      <4> QED
        BY <3>1, <4>1, <4>2
    <3>3. Occurrences(toHub[c], body) \in Nat
      BY <2>4, OccurrencesType
    <3> QED
      BY <2>3, <3>2, <3>3
  <2>6. CASE ~CanSend(c)
    BY <1>2, <1>4, <2>6 DEF Written
  <2> QED
    BY <2>5, <2>6
<1> SUFFICES ASSUME pc'[Self] # "dead", NEW body \in CallBodies
             PROVE  Occurrences(mBacklog'[Self], body) + Occurrences(unsent'[Self], body)
                    + HandedOver(body)' = IF body \in called' THEN 1 ELSE 0
  BY DEF EachCallOnce
<1>12. Occurrences(mBacklog[Self], body) + Occurrences(unsent[Self], body)
      + HandedOver(body) = IF body \in called THEN 1 ELSE 0
  BY <1>1 DEF CallsInv, EachCallOnce
<1>13. Cardinality(InSockets(toHub', DOMAIN toHub', body)) = Cardinality(InSockets(toHub, DOMAIN toHub, body))
  <2>1. /\ Cardinality(InSockets(toHub', DOMAIN toHub', body)) + Occurrences(toHub[c], body) =
               Cardinality(InSockets(toHub, DOMAIN toHub, body)) + Occurrences(toHub'[c], body)
        /\ Cardinality(InSockets(toHub, DOMAIN toHub, body)) \in Nat
        /\ Cardinality(InSockets(toHub', DOMAIN toHub', body)) \in Nat
        /\ Occurrences(toHub[c], body) \in Nat /\ Occurrences(toHub'[c], body) \in Nat
    BY <1>6, <1>9, <1>10, OneSocketChanges
  <2> QED
    BY <1>11, <2>1
<1>14. HandedOver(body)' = HandedOver(body)
  BY <1>13, HandedIs
<1> QED
  BY <1>1, <1>12, <1>14

LEMMA ReadCounts ==
    ASSUME CallsInv, OpenInv', NEW c \in DOMAIN hubEnd, AHubReads(c)
    PROVE  EachCallOnce' /\ TakenTypes'
<1>1. /\ toHub' = [toHub EXCEPT ![c] = Tail(toHub[c])] /\ toHub[c] # <<>>
      /\ taken' = [body \in CallBodies |-> taken[body] + (IF Head(toHub[c]).body = body THEN 1 ELSE 0)]
      /\ UNCHANGED <<pc, unsent, mBacklog, called>>
  BY DEF AHubReads, HubReads, HubCanRead, managerVars, connVars
<1>2. /\ Linked(FromHub) /\ Linked(FromHub)' /\ c \in DOMAIN toHub /\ toHub[c] \in Seq(Messages) /\ DOMAIN toHub' = DOMAIN toHub
      /\ taken \in [CallBodies -> Nat]
  BY <1>1 DEF CallsInv, OpenInv, Types, Linked, TakenTypes
<1>3. TakenTypes'
  BY <1>1, <1>2 DEF TakenTypes
<1>4. toHub'[c] = Tail(toHub[c]) /\ \A d \in DOMAIN toHub \ {c} : toHub'[d] = toHub[d]
  BY <1>1, <1>2
<1>5. ASSUME NEW body \in CallBodies PROVE HandedOver(body)' = HandedOver(body)
  <2>1. PICK k \in {0, 1} : k = IF Head(toHub[c]).body = body THEN 1 ELSE 0
    OBVIOUS
  <2>2. taken'[body] = taken[body] + k /\ taken[body] \in Nat
    BY <1>1, <1>2, <2>1
  <2>3. Occurrences(toHub[c], body) = k + Occurrences(toHub'[c], body)
    BY <1>1, <1>2, <1>4, <2>1, OccurrencesTail
  <2>4. /\ Cardinality(InSockets(toHub', DOMAIN toHub', body)) + Occurrences(toHub[c], body) =
               Cardinality(InSockets(toHub, DOMAIN toHub, body)) + Occurrences(toHub'[c], body)
        /\ Cardinality(InSockets(toHub, DOMAIN toHub, body)) \in Nat
        /\ Cardinality(InSockets(toHub', DOMAIN toHub', body)) \in Nat
        /\ Occurrences(toHub[c], body) \in Nat /\ Occurrences(toHub'[c], body) \in Nat
    BY <1>2, <1>4, OneSocketChanges
  <2>5. /\ HandedOver(body) = taken[body] + Cardinality(InSockets(toHub, DOMAIN toHub, body))
        /\ HandedOver(body)' = taken'[body] + Cardinality(InSockets(toHub', DOMAIN toHub', body))
    BY HandedIs
  <2> QED
    BY <2>2, <2>3, <2>4, <2>5
<1>6. EachCallOnce'
  <2> SUFFICES ASSUME pc'[Self] # "dead", NEW body \in CallBodies
               PROVE  Occurrences(mBacklog'[Self], body) + Occurrences(unsent'[Self], body)
                      + HandedOver(body)' = IF body \in called' THEN 1 ELSE 0
    BY DEF EachCallOnce
  <2>1. Occurrences(mBacklog[Self], body) + Occurrences(unsent[Self], body)
        + HandedOver(body) = IF body \in called THEN 1 ELSE 0
    BY <1>1 DEF CallsInv, EachCallOnce
  <2> QED
    BY <1>1, <1>5, <2>1
<1> QED
  BY <1>3, <1>6

\* Steps that leave the sockets' contents and the queues alone.
LEMMA QuietCounts ==
    ASSUME CallsInv, UNCHANGED <<unsent, mBacklog, called, taken>>,
           toHub' = toHub \/ Connect(Self), pc'[Self] # "dead" => pc[Self] # "dead"
    PROVE  EachCallOnce'
<1>1. \A body \in CallBodies : InSockets(toHub', DOMAIN toHub', body) = InSockets(toHub, DOMAIN toHub, body)
  <2>1. CASE toHub' = toHub
    BY <2>1
  <2>2. CASE Connect(Self)
    <3>1. OpenConnection(NextConn) /\ toClient' = toClient /\ Linked(FromHub)
      BY <2>2 DEF Connect, CallsInv, OpenInv, Types
    <3>2. /\ DOMAIN toHub' = DOMAIN toHub \cup {NextConn} /\ toHub'[NextConn] = <<>>
          /\ \A c \in DOMAIN toHub : toHub'[c] = toHub[c]
      BY <3>1, OpenConnectionKeeps
    <3> QED
      BY <3>2, NewSocketIsEmpty
  <2> QED
    BY <2>1, <2>2
<1> QED
  BY <1>1, CountStays DEF CallsInv

LEMMA CallsInitial == OpenInit => CallsInv
<1> SUFFICES ASSUME OpenInit PROVE CallsInv
  OBVIOUS
<1>1. OpenInv /\ Self \in Nodes
  BY OpenInitial, SelfIsNode
<1>2. /\ mBacklog[Self] = <<>> /\ unsent[Self] = <<>> /\ mNodes[Self] = <<>> /\ toHub = <<>>
      /\ taken = [body \in CallBodies |-> 0] /\ called = {}
  BY <1>1 DEF OpenInit, ManagerInit
<1>3. OwnTopicsApart /\ TakenTypes
  BY <1>2 DEF OwnTopicsApart, Apart, TakenTypes
<1>4. ASSUME NEW body \in CallBodies
      PROVE  Occurrences(mBacklog[Self], body) + Occurrences(unsent[Self], body) + HandedOver(body) = 0
  <2>1. <<>> \in Seq(Messages) /\ DOMAIN <<>> = {}
    OBVIOUS
  <2>2. Occurrences(<<>>, body) = 0
    BY <2>1, OccurrencesNone
  <2>3. InSockets(toHub, DOMAIN toHub, body) = {}
    BY <1>2, <2>1 DEF InSockets
  <2>4. HandedOver(body) = 0
    <3>1. HandedOver(body) = taken[body] + Cardinality({})
      BY <2>3, HandedIs
    <3> QED
      BY <1>2, <3>1, FS_EmptySet
  <2> QED
    BY <1>2, <2>2, <2>4
<1>5. EachCallOnce
  BY <1>2, <1>4 DEF EachCallOnce
<1> QED
  BY <1>1, <1>3, <1>5 DEF CallsInv

LEMMA CallsStep == ASSUME ToldApart PROVE CallsInv /\ [OpenNext]_vars => CallsInv'
<1> SUFFICES ASSUME CallsInv, [OpenNext]_vars PROVE CallsInv'
  OBVIOUS
<1>1. OpenInv /\ OpenInv' /\ Self \in Nodes
  BY OpenStep, SelfIsNode DEF CallsInv
<1>2. pc \in [Nodes -> Labels] /\ mNodes = [n \in Nodes |-> mNodes[n]] /\ Linked(FromHub) /\ Types
  BY <1>1 DEF OpenInv, Types, SpokeTypes, ViewTypes
<1>3. ASSUME TakenTypes' \/ taken' = taken, EachCallOnce', mNodes'[Self] = mNodes[Self] \/ OwnTopicsApart'
      PROVE  CallsInv'
  BY <1>1, <1>3 DEF CallsInv, TakenTypes, OwnTopicsApart
<1>4. CASE UNCHANGED vars
  <2>1. /\ UNCHANGED <<pc, unsent, mBacklog, called, taken, mNodes>> /\ toHub' = toHub
    BY <1>4 DEF vars, managerVars, connVars, viewVars, udsVars
  <2>2. EachCallOnce'
    BY <2>1, QuietCounts
  <2> QED
    BY <1>3, <2>1, <2>2
<1>5. CASE HubAppears \/ HubDisappears
  <2>1. /\ UNCHANGED <<pc, unsent, mBacklog, called, taken, mNodes>> /\ toHub' = toHub
    BY <1>5 DEF HubAppears, HubDisappears, HubCloses, connVars, viewVars, udsVars
  <2>2. EachCallOnce'
    BY <2>1, QuietCounts
  <2> QED
    BY <1>3, <2>1, <2>2
<1>6. ASSUME NEW c \in DOMAIN hubEnd,
             \/ HubAccepts(c) /\ UNCHANGED <<managerVars, called, taken>>
             \/ \E msg \in FromHub : AHubWrites(c, msg)
      PROVE  CallsInv'
  <2>1. /\ UNCHANGED <<pc, unsent, mBacklog, called, taken, mNodes>> /\ toHub' = toHub
    BY <1>6 DEF HubAccepts, AHubWrites, HubWrites, managerVars, connVars, viewVars
  <2>2. EachCallOnce'
    BY <2>1, QuietCounts
  <2> QED
    BY <1>3, <2>1, <2>2
<1>7. ASSUME NEW c \in DOMAIN hubEnd, AHubReads(c) PROVE CallsInv'
  <2>1. mNodes' = mNodes
    BY <1>7 DEF AHubReads, managerVars, viewVars
  <2>2. EachCallOnce' /\ TakenTypes'
    BY <1>1, <1>7, ReadCounts
  <2> QED
    BY <1>3, <2>1, <2>2
<1>8. CASE Interface
  <2>1. CASE Unsubscribe(Self) /\ UNCHANGED <<called, taken>>
    <3>1. UNCHANGED <<pc, unsent, mBacklog, called, taken, mNodes>> /\ toHub' = toHub
      BY <2>1 DEF Unsubscribe, connVars, viewVars, udsVars
    <3>2. EachCallOnce'
      BY <3>1, QuietCounts
    <3> QED
      BY <1>3, <3>1, <3>2
  <2>2. ASSUME NEW body \in CallBodies, Call(Self, body), Calling(body) PROVE CallsInv'
    <3>1. EachCallOnce'
      BY <2>2, CallCounts
    <3>2. mNodes' = mNodes /\ taken' = taken
      BY <2>2 DEF Call, Calling, viewVars
    <3> QED
      BY <1>3, <3>1, <3>2
  <2>3. \A t \in Topics, m \in Mimes : TopicChange("ANNOUNCE", Self, t, m) \in CallBodies
    BY DEF TopicChange, CallBodies
  <2>4. \A t \in Topics, op \in {"RETRACT", "SUBSCRIBE"} : TopicChange(op, Self, t, "") \in CallBodies
    BY DEF TopicChange, CallBodies
  <2> QED
    BY <1>8, <2>1, <2>2, <2>3, <2>4 DEF Interface, Announce, Retract, Subscribe
<1>9. CASE Process
  <2>1. UNCHANGED <<called, taken>>
    BY <1>9 DEF Process
  <2>2. CASE \/ Start(Self) \/ Connect(Self) \/ ConnectFails(Self) \/ Wait(Self) \/ WaitReturns(Self) \/ Serve(Self)
             \/ Destroy(Self) \/ DropClient(Self) \/ DestroyServer(Self) \/ Joined(Self)
    <3>1. UNCHANGED <<unsent, mBacklog, mNodes>>
      BY <2>2 DEF Start, Connect, ConnectFails, Wait, WaitReturns, Serve, Destroy, DropClient, DestroyServer, Joined,
                  connVars, viewVars
    <3>2. toHub' = toHub \/ Connect(Self)
      BY <2>2 DEF Start, ConnectFails, Wait, WaitReturns, Serve, Destroy, DropClient, DestroyServer, Joined,
                  HubCloses, udsVars
    <3>3. pc[Self] # "dead" \/ pc' = pc
      BY <2>2 DEF Start, Connect, ConnectFails, Wait, WaitReturns, Serve, Destroy, DropClient, DestroyServer, Joined
    <3>4. EachCallOnce'
      BY <2>1, <3>1, <3>2, <3>3, QuietCounts
    <3> QED
      BY <1>3, <2>1, <3>1, <3>4
  <2>3. CASE IntroduceOurselves(Self)
    <3>1. mNodes' = mNodes
      BY <2>3 DEF IntroduceOurselves, viewVars
    <3> QED
      BY <1>3, <2>1, <2>3, <3>1, IntroduceCounts
  <2>4. CASE Attach(Self)
    <3>1. mNodes' = mNodes
      BY <2>4 DEF Attach, viewVars
    <3> QED
      BY <1>3, <2>1, <2>4, <3>1, AttachCounts
  <2>5. CASE FlushBacklog(Self)
    <3>1. mNodes' = mNodes
      BY <2>5 DEF FlushBacklog, viewVars
    <3> QED
      BY <1>3, <2>1, <2>5, <3>1, FlushCounts
  <2>6. CASE ClientRead(Self) \/ ClientHangup(Self)
    <3>1. UNCHANGED <<pc, unsent, mBacklog, called, taken>> /\ toHub' = toHub
      BY <2>1, <2>6 DEF ClientRead, ClientHangup, connVars
    <3>2. EachCallOnce'
      BY <3>1, QuietCounts
    <3>3. PICK c : c = client[Self]
      OBVIOUS
    <3>4. \/ mNodes' = mNodes
          \/ Pending(c) # <<>> /\ ApplyUpdate(Self, Head(toClient[c]))
      BY <2>6, <3>3 DEF ClientRead, ClientHangup, viewVars, ClientCanRead, LastReadSucceeds
    <3>5. CASE Pending(c) # <<>> /\ ApplyUpdate(Self, Head(toClient[c]))
      <4>1. c \in DOMAIN toClient /\ toClient[c] # <<>>
        BY <3>5 DEF Pending
      <4>2. Head(toClient[c]) \in FromHub
        BY <1>2, <4>1 DEF Linked
      <4>3. OwnTopicsApart'
        BY <1>2, <3>5, <4>2, ApplyApart DEF CallsInv
      <4> QED
        BY <1>3, <2>1, <3>2, <4>3
    <3> QED
      BY <1>3, <2>1, <3>2, <3>4, <3>5
  <2>7. CASE Die(Self)
    <3>1. pc' = [pc EXCEPT ![Self] = "dead"] /\ mNodes' = [mNodes EXCEPT ![Self] = <<>>]
      BY <2>7 DEF Die
    <3>2. pc'[Self] = "dead" /\ mNodes'[Self] = <<>>
      BY <1>1, <1>2, <3>1
    <3>3. EachCallOnce' /\ OwnTopicsApart'
      BY <3>2 DEF EachCallOnce, OwnTopicsApart, Apart
    <3> QED
      BY <1>3, <2>1, <3>3
  <2> QED
    BY <1>9, <2>2, <2>3, <2>4, <2>5, <2>6, <2>7 DEF Process, MainLoop
<1> QED
  BY <1>4, <1>5, <1>6, <1>7, <1>8, <1>9 DEF OpenNext

\* A call of the interface is neither lost nor doubled on its way to a socket, in any
\* interleaving of the callers with MainLoop, of any number of connections: it is in
\* the backlog, in MainLoop's copy of it, or handed to a socket that took it, once.
THEOREM CallsHandedOverOnce ==
    ASSUME ToldApart
    PROVE  OpenSpec => []EachCallOnce
<1>1. CallsInv => EachCallOnce
  BY DEF CallsInv
<1> QED
  BY <1>1, CallsInitial, CallsStep, PTL DEF OpenSpec
=============================================================================
