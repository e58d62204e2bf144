----------------------------- MODULE TopologyProofs -----------------------------
(***************************************************************************)
(* Theorems about the group, for any nodes, calls and deaths.              *)
(*                                                                         *)
(* WorldInv types the group and relates its parts: the hub's clients are   *)
(* the accepted connections that are open, MainLoop's label says whether   *)
(* it has a client, histories are sorted, what waits in a backlog is a     *)
(* call.  MintedInv adds where uids come from and whose nodes messages are *)
(* about.  StableInv adds, for a hub whose process is not killed, what     *)
(* each spoke was sent and where its calls are; ViewsRead adds that a view *)
(* is what the messages applied say.  A handler of the hub, as far as the  *)
(* rest of the group sees it, extends a history and prunes it (Settling):  *)
(* HistoryLemmas says what that does to what others hold, SpokeLemmas what *)
(* a view reads from messages.                                             *)
(***************************************************************************)
EXTENDS Topology, SpokeLemmas

-----------------------------------------------------------------------------
(* The inductive invariant.                                                *)

Labels == {"off", "connect", "introduce", "attach", "flush", "wait", "null", "serve", "dead"}

SpokeTypes ==
    /\ pc \in [Nodes -> Labels]
    /\ stuck \in [Nodes -> BOOLEAN] /\ owner \in [Nodes -> {"uses", "gone"}]
    /\ hubHost \in Nodes \cup {NoHost}
    /\ epoch \in Nat /\ called \in [Nodes -> SUBSET Bodies]

QueueTypes ==
    /\ unsent \in [Nodes -> Seq(Messages)] /\ mBacklog \in [Nodes -> Seq(Messages)]
    /\ mHistory \in [Nodes -> Seq(Messages)]

ClientRecords == [seq : Nat, nodeId : Nat, history : SUBSET Bodies]

HubTypes ==
    /\ hubHistory \in Seq(Messages) /\ hubNextSeq \in Nat
    /\ hubClients \in [DOMAIN hubClients -> ClientRecords]
    /\ aborted \in {"no", "uid", "hit"} /\ purged \in BOOLEAN

Types == SpokeTypes /\ QueueTypes /\ ClientTypes /\ Linked(Messages) /\ ViewTypes /\ HubTypes

\* The hub's history is sorted and lies below the next number.
HubInOrder ==
    /\ SortedBySeq(hubHistory)
    /\ \A i \in DOMAIN hubHistory : hubHistory[i].seq < hubNextSeq
    /\ LastSeq(hubHistory) < hubNextSeq

LoopHolds ==
    \A n \in Nodes :
        /\ client[n] # 0 <=> pc[n] \in Connected
        /\ mClient[n] \in {0, client[n]}
        /\ owner[n] = "uses" <=> pc[n] # "dead"

\* The hub's clients are the connections it has accepted and not closed.
HubEnds ==
    /\ DOMAIN hubClients \subseteq DOMAIN toClient
    /\ \A c \in DOMAIN hubEnd : hubEnd[c] = "open" <=> c \in DOMAIN hubClients
    /\ \A c \in DOMAIN hubEnd : hubEnd[c] = "backlog" => c \notin DOMAIN toClient
    /\ IF hubHost = NoHost
       THEN /\ purged /\ hubHistory = <<>>
            /\ \A c \in DOMAIN hubEnd : hubEnd[c] = "closed"
       ELSE epoch # 0

CallMessages(n) == {Message(0, 0, body) : body \in called[n]}

\* What waits to be sent are calls.
Backlogs ==
    \A n \in Nodes :
        /\ called[n] \subseteq Calls[n]
        /\ \A i \in DOMAIN mBacklog[n] : mBacklog[n][i] \in CallMessages(n)
        /\ \A i \in DOMAIN unsent[n] : unsent[n][i] \in CallMessages(n)

WorldInv == Types /\ HubInOrder /\ SpokesSorted /\ LoopHolds /\ HubEnds /\ Backlogs

-----------------------------------------------------------------------------
(* The operators of the hub, which it has in common with its spokes.       *)

LEMMA HubCardinality == \A S : Hub!Cardinality(S) = Cardinality(S)
BY Zenon DEF Hub!Cardinality, Cardinality

LEMMA HubMessages ==
    /\ Hub!Messages = Messages /\ Hub!Bodies = Bodies /\ Hub!Clients = ClientRecords
    /\ \A s, u, b : Hub!Message(s, u, b) = Message(s, u, b)
    /\ \A o, n : Hub!NodeChange(o, n) = NodeChange(o, n)
BY DEF Hub!Messages, Messages, Hub!Bodies, Bodies, Hub!NodeOps, NodeOps, Hub!TopicOps, TopicOps,
       Hub!Clients, ClientRecords, Hub!Message, Message, Hub!NodeChange, NodeChange

LEMMA HubSubsequences == \A s, S : Hub!SubsequenceAt(s, S) = SubsequenceAt(s, S)
BY Zenon DEF Hub!SubsequenceAt, SubsequenceAt, Hub!Kth, Kth, Hub!Cardinality, Cardinality

LEMMA HubPrunes ==
    /\ \A h : Hub!PruneRemoved(h) = PruneRemoved(h)
    /\ \A h : Hub!LeftNodes(h) = LeftNodes(h)
<1>1. \A msg : Hub!IsLeave(msg) <=> IsLeave(msg)
  BY DEF Hub!IsLeave, IsLeave
<1>2. \A h : Hub!LeftNodes(h) = LeftNodes(h)
  BY <1>1 DEF Hub!LeftNodes, LeftNodes
<1>3. \A left, msg : Hub!Prunable(left, msg) <=> Prunable(left, msg)
  BY <1>1 DEF Hub!Prunable, Prunable, Hub!NodeOps, NodeOps, Hub!TopicOps, TopicOps
<1>4. ASSUME NEW h
      PROVE  {i \in DOMAIN h : ~Hub!Prunable(Hub!LeftNodes(h), h[i])}
                = {i \in DOMAIN h : ~Prunable(LeftNodes(h), h[i])}
  BY <1>2, <1>3
<1>5. \A h : Hub!PruneRemoved(h) = PruneRemoved(h)
  BY <1>4, HubSubsequences DEF Hub!PruneRemoved, PruneRemoved
<1> QED
  BY <1>2, <1>5

LEMMA HubNumbers ==
    /\ \A h : Hub!SortedBySeq(h) <=> SortedBySeq(h)
    /\ \A h : Hub!LastSeq(h) = LastSeq(h)
    /\ \A h, seq : Hub!HighestSeq(h, seq) = HighestSeq(h, seq)
    /\ \A h, seq : Hub!Unsent(h, seq) = Unsent(h, seq)
    /\ \A h, seq : Hub!LowerBound(h, seq) = LowerBound(h, seq)
BY DEF Hub!SortedBySeq, SortedBySeq, Hub!LastSeq, LastSeq, Hub!HighestSeq, HighestSeq,
       Hub!Unsent, Unsent, Hub!LowerBound, LowerBound

LEMMA HubActive == \A h : Hub!HistoricallyActive(h) = HistoricallyActive(h)
BY DEF Hub!HistoricallyActive, HistoricallyActive, Hub!IsJoin, IsJoin, Hub!IsLeave, IsLeave

-----------------------------------------------------------------------------
(* What the hub's handlers do.                                             *)

\* What Settle stores and sends when its assert holds.
Settled(h, clients, nextSeq) ==
    LET g == PruneRemoved(h) IN
    /\ hubHistory' = g
    /\ hubNextSeq' = nextSeq
    /\ hubClients' = [c \in DOMAIN clients |->
           [clients[c] EXCEPT !.seq = HighestSeq(g, clients[c].seq)]]
    /\ toClient' = [c \in DOMAIN toClient |->
           IF c \in DOMAIN clients
           THEN toClient[c] \o SubsequenceAt(g, Unsent(g, clients[c].seq))
           ELSE toClient[c]]
    /\ aborted' = "no"

\* The assert holds for a sorted history below the next number.
LEMMA SettleIs ==
    ASSUME NEW h \in Seq(Messages), SortedBySeq(h), NEW nextSeq \in Nat,
           \A i \in DOMAIN h : h[i].seq < nextSeq,
           NEW clients, Hub!Settle(h, clients, nextSeq)
    PROVE  Settled(h, clients, nextSeq)
<1> DEFINE g == PruneRemoved(h)
<1>1. \A i \in DOMAIN g : g[i].seq < nextSeq
  BY PruneKeepsOrder
<1>2. Hub!Broadcast(g, clients, nextSeq)
  BY HubPrunes DEF Hub!Settle
<1> HIDE DEF g
<1>3. \A c \in DOMAIN clients : \A i \in Hub!Unsent(g, clients[c].seq) : g[i].seq < nextSeq
  BY <1>1 DEF Hub!Unsent
<1>4. /\ hubHistory' = g /\ hubNextSeq' = nextSeq /\ aborted' = "no"
      /\ hubClients' = [c \in DOMAIN clients |->
             [clients[c] EXCEPT !.seq = Hub!HighestSeq(g, clients[c].seq)]]
      /\ toClient' = [c \in DOMAIN toClient |->
             IF c \in DOMAIN clients
             THEN toClient[c] \o Hub!SubsequenceAt(g, Hub!Unsent(g, clients[c].seq))
             ELSE toClient[c]]
  BY <1>2, <1>3 DEF Hub!Broadcast
<1>5. hubClients' = [c \in DOMAIN clients |->
             [clients[c] EXCEPT !.seq = HighestSeq(g, clients[c].seq)]]
  BY <1>4, HubNumbers
<1>6. toClient' = [c \in DOMAIN toClient |->
             IF c \in DOMAIN clients
             THEN toClient[c] \o SubsequenceAt(g, Unsent(g, clients[c].seq))
             ELSE toClient[c]]
  BY <1>4, HubNumbers, HubSubsequences
<1> QED
  BY <1>4, <1>5, <1>6 DEF Settled, g

-----------------------------------------------------------------------------
(* The steps of the spokes.                                                *)

LEMMA NodeFacts ==
    ASSUME NEW n \in Nodes
    PROVE  n \in Nat /\ n # 0 /\ NoHost \notin Nodes
BY NodesAssumption

\* What is said of the hub alone.
LEMMA SameHub ==
    ASSUME WorldInv, UNCHANGED <<hubVars, epoch, hubHost>>, DOMAIN toClient' = DOMAIN toClient,
           hubEnd' = hubEnd
    PROVE  HubTypes' /\ HubInOrder' /\ HubEnds'
BY DEF WorldInv, Types, HubTypes, HubInOrder, HubEnds, hubVars

\* What is said of the calls.
LEMMA SameBacklogs ==
    ASSUME WorldInv, UNCHANGED <<unsent, mBacklog, called>>
    PROVE  Backlogs'
BY DEF WorldInv, Backlogs, CallMessages

\* Steps of MainLoop that only move it.
LEMMA MoveKeeps ==
    ASSUME WorldInv, NEW n \in Nodes, NEW l \in Labels \ {"dead"}, Goto(n, l), pc[n] # "dead",
           l \in Connected <=> pc[n] \in Connected,
           UNCHANGED <<connVars, viewVars, objVars, udsVars, hubHost, hubVars, epoch, called>>
    PROVE  WorldInv'
<1> USE DEF connVars, viewVars, objVars, udsVars
<1>1. pc' = [pc EXCEPT ![n] = l] /\ pc \in [Nodes -> Labels]
  BY DEF Goto, WorldInv, Types, SpokeTypes
<1>2. pc' \in [Nodes -> Labels] /\ pc'[n] = l /\ \A m \in Nodes \ {n} : pc'[m] = pc[m]
  BY <1>1
<1>3. SpokeTypes' /\ QueueTypes' /\ ClientTypes' /\ ViewTypes'
  BY <1>2 DEF WorldInv, Types, SpokeTypes, QueueTypes, ClientTypes, ViewTypes
<1>4. Linked(Messages)'
  BY SameConns DEF WorldInv, Types
<1>5. HubTypes' /\ HubInOrder' /\ HubEnds' /\ Backlogs'
  BY SameHub, SameBacklogs
<1>6. LoopHolds'
  BY <1>2 DEF WorldInv, LoopHolds
<1>7. SpokesSorted'
  BY DEF WorldInv, SpokesSorted
<1> QED
  BY <1>3, <1>4, <1>5, <1>6, <1>7 DEF WorldInv, Types

\* Nobody shuts down.
LEMMA ContinueGoes ==
    ASSUME LoopHolds, NEW n \in Nodes, pc[n] # "dead", NEW l, Continue(n, l)
    PROVE  Goto(n, l)
BY DEF Continue, LoopHolds, mShutdown

LEMMA MovesKeep ==
    ASSUME WorldInv, NEW n \in Nodes,
           StartNode(n) \/ ((ConnectFails(n) \/ Wait(n)) /\ UNCHANGED <<hubVars, epoch, called>>)
    PROVE  WorldInv'
<1>1. CASE StartNode(n)
  BY <1>1, MoveKeeps DEF StartNode, Start, Labels, Connected
<1>2. CASE ConnectFails(n) /\ UNCHANGED <<hubVars, epoch, called>>
  <2>1. Goto(n, "serve")
    BY <1>2, ContinueGoes DEF ConnectFails, WorldInv
  <2> QED
    BY <1>2, <2>1, MoveKeeps DEF ConnectFails, Labels, Connected
<1>3. CASE Wait(n) /\ UNCHANGED <<hubVars, epoch, called>>
  <2>1. PICK l \in {"null", "wait"} : Goto(n, l)
    BY <1>3 DEF Wait
  <2> QED
    BY <1>3, <2>1, MoveKeeps DEF Wait, Labels, Connected
<1> QED
  BY <1>1, <1>2, <1>3

LEMMA ConnectKeeps ==
    ASSUME WorldInv, NEW n \in Nodes, Connect(n), UNCHANGED <<hubVars, epoch, called>>
    PROVE  WorldInv'
<1> USE DEF WorldInv, Types
<1>1. PICK d : d = NextConn
  OBVIOUS
<1>2. /\ pc[n] = "connect" /\ hubHost # NoHost /\ client' = [client EXCEPT ![n] = d]
      /\ OpenConnection(NextConn) /\ hubEnd' = With(hubEnd, d, "backlog")
      /\ pc' = [pc EXCEPT ![n] = "introduce"]
      /\ UNCHANGED <<unsent, mClient, mBacklog, mHistory, mNodes, stuck, owner, hubHost, toClient>>
  BY <1>1 DEF Connect, Goto, viewVars, objVars, OpenConnection
<1>3. /\ Linked(Messages)' /\ DOMAIN toHub' = DOMAIN toHub \cup {d} /\ d # 0
      /\ d \notin DOMAIN toHub
      /\ DOMAIN hubEnd = DOMAIN toHub /\ 0 \notin DOMAIN toHub
  BY <1>1, <1>2, OpenConnectionKeeps, ConnFacts
<1>4. pc \in [Nodes -> Labels] /\ pc' \in [Nodes -> Labels] /\ pc'[n] = "introduce"
      /\ \A m \in Nodes \ {n} : pc'[m] = pc[m]
  BY <1>2 DEF SpokeTypes, Labels
<1>5. SpokeTypes' /\ QueueTypes' /\ ViewTypes'
  BY <1>2, <1>4 DEF SpokeTypes, QueueTypes, ViewTypes
<1>6. ClientTypes' /\ client'[n] = d /\ \A m \in Nodes \ {n} : client'[m] = client[m]
  BY <1>2, <1>3 DEF ClientTypes
<1>7. client[n] = 0 /\ mClient[n] = 0
  BY <1>2 DEF LoopHolds, Connected
<1>8. LoopHolds'
  BY <1>2, <1>3, <1>4, <1>6, <1>7 DEF LoopHolds, Connected
<1>9. HubTypes' /\ HubInOrder'
  BY <1>2 DEF HubTypes, HubInOrder, hubVars
<1>10. d \notin DOMAIN toClient
  BY <1>3 DEF Linked
<1>11. /\ DOMAIN hubEnd' = DOMAIN hubEnd \cup {d} /\ hubEnd'[d] = "backlog"
       /\ \A c \in DOMAIN hubEnd : hubEnd'[c] = hubEnd[c]
  BY <1>2, <1>3 DEF With
<1>12. HubEnds'
  BY <1>2, <1>10, <1>11 DEF HubEnds, hubVars
<1>13. Backlogs' /\ SpokesSorted'
  BY <1>2, SameBacklogs DEF SpokesSorted
<1> QED
  BY <1>3, <1>5, <1>6, <1>8, <1>9, <1>12, <1>13

\* What a spoke introduces itself with.
LEMMA IntroductionOf ==
    ASSUME WorldInv, NEW n \in Nodes, IntroduceOurselves(n)
    PROVE  \E e, pubOrder, subOrder :
              /\ NodeKnown(e) /\ pubOrder \in Orders(DOMAIN e.pubs) /\ subOrder \in Orders(e.subs)
              /\ e = (IF n \in DOMAIN mNodes[n] THEN mNodes[n][n] ELSE NewNode)
              /\ Introduction(n, e.pubs, pubOrder, subOrder) \in Seq(Messages)
              /\ mHistory[n] \in Seq(Messages)
              /\ toHub' = Written(client[n], mHistory[n] \o Introduction(n, e.pubs, pubOrder, subOrder))
<1> DEFINE self == IF n \in DOMAIN mNodes[n] THEN mNodes[n][n] ELSE NewNode
<1>1. PICK pubOrder \in Orders(DOMAIN self.pubs), subOrder \in Orders(self.subs) :
          toHub' = Written(client[n], mHistory[n] \o Introduction(n, self.pubs, pubOrder, subOrder))
  BY DEF IntroduceOurselves
<1>2. NodeKnown(self)
  BY NewNodeKnown DEF WorldInv, Types, ViewTypes, ViewKnown
<1>3. Introduction(n, self.pubs, pubOrder, subOrder) \in Seq(Messages)
  <2> HIDE DEF self
  <2> QED
    BY <1>2, NodeFacts, IntroductionType
<1>4. mHistory[n] \in Seq(Messages)
  BY DEF WorldInv, Types, QueueTypes
<1> QED
  BY <1>1, <1>2, <1>3, <1>4

LEMMA IntroduceKeeps ==
    ASSUME WorldInv, NEW n \in Nodes, IntroduceOurselves(n), UNCHANGED <<hubVars, epoch, called>>
    PROVE  WorldInv'
<1> USE DEF WorldInv, Types
<1>1. /\ pc[n] = "introduce" /\ pc' = [pc EXCEPT ![n] = "attach"]
      /\ UNCHANGED <<client, unsent, mClient, mBacklog, mHistory, mNodes, stuck, owner, hubHost>>
      /\ UNCHANGED <<toClient, hubEnd, cliEnd>>
  BY DEF IntroduceOurselves, Goto, viewVars, objVars, connVars
<1>2. PICK packets \in Seq(Messages) : toHub' = Written(client[n], packets)
  <2>1. PICK e, pubOrder, subOrder :
            /\ Introduction(n, e.pubs, pubOrder, subOrder) \in Seq(Messages)
            /\ mHistory[n] \in Seq(Messages)
            /\ toHub' = Written(client[n], mHistory[n] \o Introduction(n, e.pubs, pubOrder, subOrder))
    BY IntroductionOf
  <2>2. mHistory[n] \o Introduction(n, e.pubs, pubOrder, subOrder) \in Seq(Messages)
    BY <2>1
  <2> QED
    BY <2>1, <2>2
<1>3. client[n] \in DOMAIN toHub
  BY <1>1 DEF LoopHolds, Connected, ClientTypes
<1>4. Linked(Messages)' /\ DOMAIN toHub' = DOMAIN toHub
  BY <1>1, <1>2, <1>3, WrittenKeeps
<1>5. pc \in [Nodes -> Labels] /\ pc' \in [Nodes -> Labels] /\ pc'[n] = "attach"
      /\ \A m \in Nodes \ {n} : pc'[m] = pc[m]
  BY <1>1 DEF SpokeTypes, Labels
<1>6. SpokeTypes' /\ QueueTypes' /\ ViewTypes' /\ ClientTypes'
  BY <1>1, <1>4, <1>5 DEF SpokeTypes, QueueTypes, ViewTypes, ClientTypes
<1>7. LoopHolds'
  BY <1>1, <1>5 DEF LoopHolds, Connected
<1>8. HubTypes' /\ HubInOrder' /\ HubEnds' /\ Backlogs' /\ SpokesSorted'
  BY <1>1, SameHub, SameBacklogs DEF SpokesSorted
<1> QED
  BY <1>4, <1>6, <1>7, <1>8

LEMMA AttachKeeps ==
    ASSUME WorldInv, NEW n \in Nodes, Attach(n), UNCHANGED <<hubVars, epoch, called>>
    PROVE  WorldInv'
<1> USE DEF WorldInv, Types
<1>1. /\ pc[n] = "attach" /\ pc' = [pc EXCEPT ![n] = "flush"]
      /\ mClient' = [mClient EXCEPT ![n] = client[n]]
      /\ unsent' = [unsent EXCEPT ![n] = mBacklog[n]]
      /\ mBacklog' = [mBacklog EXCEPT ![n] = <<>>]
      /\ UNCHANGED <<client, mHistory, mNodes, stuck, owner, hubHost, udsVars>>
  BY DEF Attach, Goto, viewVars, objVars
<1>2. pc \in [Nodes -> Labels] /\ pc' \in [Nodes -> Labels] /\ pc'[n] = "flush"
      /\ \A m \in Nodes \ {n} : pc'[m] = pc[m]
  BY <1>1 DEF SpokeTypes, Labels
<1>3. SpokeTypes' /\ ViewTypes' /\ Linked(Messages)'
  BY <1>1, <1>2, SameConns DEF SpokeTypes, ViewTypes
<1>4. QueueTypes'
  BY <1>1 DEF QueueTypes
<1>5. ClientTypes' /\ mClient'[n] = client[n] /\ \A m \in Nodes \ {n} : mClient'[m] = mClient[m]
  BY <1>1 DEF ClientTypes, udsVars
<1>6. LoopHolds'
  BY <1>1, <1>2, <1>5 DEF LoopHolds, Connected, udsVars
<1>7. HubTypes' /\ HubInOrder' /\ HubEnds' /\ SpokesSorted'
  BY <1>1, SameHub DEF SpokesSorted, udsVars
<1>8. /\ unsent'[n] = mBacklog[n] /\ mBacklog'[n] = <<>>
      /\ \A m \in Nodes \ {n} : unsent'[m] = unsent[m] /\ mBacklog'[m] = mBacklog[m]
  BY <1>1 DEF QueueTypes
<1>9. Backlogs'
  BY <1>8 DEF Backlogs, CallMessages
<1> QED
  BY <1>3, <1>4, <1>5, <1>6, <1>7, <1>9

\* Send, of a call of n.
LEMMA SentKeeps ==
    ASSUME WorldInv, NEW n \in Nodes, NEW body \in called'[n], Send(n, Message(0, 0, body)),
           UNCHANGED <<toClient, hubEnd, cliEnd>>, Message(0, 0, body) \in Messages
    PROVE  /\ Linked(Messages)' /\ DOMAIN toHub' = DOMAIN toHub
           /\ mClient' \in [Nodes -> {0} \cup DOMAIN toHub] /\ mClient'[n] \in {0, mClient[n]}
           /\ \A m \in Nodes \ {n} : mClient'[m] = mClient[m]
           /\ mBacklog' \in [Nodes -> Seq(Messages)]
           /\ \A m \in Nodes : \A i \in DOMAIN mBacklog'[m] :
                 \/ i \in DOMAIN mBacklog[m] /\ mBacklog'[m][i] = mBacklog[m][i]
                 \/ m = n /\ mBacklog'[m][i] = Message(0, 0, body)
<1>1. ClientTypes /\ Linked(Messages) /\ mBacklog \in [Nodes -> Seq(Messages)]
  BY DEF WorldInv, Types, QueueTypes
<1>2. /\ Linked(Messages)' /\ DOMAIN toHub' = DOMAIN toHub
      /\ mClient' \in [Nodes -> {0} \cup DOMAIN toHub] /\ mClient'[n] \in {0, mClient[n]}
      /\ mBacklog' \in [Nodes -> Seq(Messages)]
  BY <1>1, SendKeeps
<1>3. CASE UNCHANGED <<mClient, mBacklog>>
  BY <1>2, <1>3
<1>4. CASE /\ mClient' = [mClient EXCEPT ![n] = 0]
           /\ mBacklog' = [mBacklog EXCEPT ![n] = Append(mBacklog[n], Message(0, 0, body))]
  <2>1. \A m \in Nodes \ {n} : mClient'[m] = mClient[m] /\ mBacklog'[m] = mBacklog[m]
    BY <1>1, <1>4 DEF ClientTypes
  <2>2. mBacklog[n] \in Seq(Messages) /\ mBacklog'[n] = Append(mBacklog[n], Message(0, 0, body))
    BY <1>1, <1>4
  <2>3. \A i \in DOMAIN mBacklog'[n] :
           \/ i \in DOMAIN mBacklog[n] /\ mBacklog'[n][i] = mBacklog[n][i]
           \/ mBacklog'[n][i] = Message(0, 0, body)
    BY <2>2
  <2> QED
    BY <1>2, <2>1, <2>3
<1> QED
  BY <1>3, <1>4 DEF Send

\* What the application says.
LEMMA CallsAreMessages ==
    ASSUME NEW n \in Nodes, NEW body \in Calls[n]
    PROVE  /\ body \in Bodies /\ Message(0, 0, body) \in Messages
           /\ body.op \in {"ANNOUNCE", "RETRACT", "SUBSCRIBE"} /\ body.node = n
<1>1. body \in [op : {"ANNOUNCE", "RETRACT", "SUBSCRIBE"}, node : {n}, topic : STRING, mime : STRING]
  BY CallsAssumption
<1>2. body \in Bodies
  BY <1>1, NodeFacts DEF Bodies, TopicOps
<1> QED
  BY <1>1, <1>2 DEF Message, Messages

LEMMA FlushKeeps ==
    ASSUME WorldInv, NEW n \in Nodes, FlushBacklog(n), UNCHANGED <<hubVars, epoch, called>>
    PROVE  WorldInv'
<1> USE DEF WorldInv, Types
<1>1. /\ pc[n] = "flush" /\ unsent[n] # <<>> /\ Send(n, Head(unsent[n]))
      /\ unsent' = [unsent EXCEPT ![n] = Tail(unsent[n])]
      /\ UNCHANGED <<pc, client, mHistory, mNodes, stuck, owner, hubHost, toClient, hubEnd, cliEnd>>
  BY DEF FlushBacklog, viewVars, objVars
<1>2. /\ unsent[n] \in Seq(Messages) /\ Head(unsent[n]) = unsent[n][1] /\ 1 \in DOMAIN unsent[n]
      /\ Tail(unsent[n]) \in Seq(Messages) /\ Head(unsent[n]) \in Messages
      /\ \A i \in DOMAIN Tail(unsent[n]) : i + 1 \in DOMAIN unsent[n] /\ Tail(unsent[n])[i] = unsent[n][i + 1]
  BY <1>1 DEF QueueTypes
<1>3. Head(unsent[n]) \in CallMessages(n)
  BY <1>2 DEF Backlogs
<1>4. PICK body \in called'[n] : Head(unsent[n]) = Message(0, 0, body)
  BY <1>3 DEF CallMessages
<1>5. /\ Linked(Messages)' /\ DOMAIN toHub' = DOMAIN toHub
      /\ mClient' \in [Nodes -> {0} \cup DOMAIN toHub] /\ mClient'[n] \in {0, mClient[n]}
      /\ \A m \in Nodes \ {n} : mClient'[m] = mClient[m]
      /\ mBacklog' \in [Nodes -> Seq(Messages)]
      /\ \A m \in Nodes : \A i \in DOMAIN mBacklog'[m] :
            \/ i \in DOMAIN mBacklog[m] /\ mBacklog'[m][i] = mBacklog[m][i]
            \/ m = n /\ mBacklog'[m][i] = Message(0, 0, body)
  BY <1>1, <1>2, <1>4, SentKeeps
<1>6. QueueTypes'
  BY <1>1, <1>2, <1>5 DEF QueueTypes
<1>7. SpokeTypes' /\ ViewTypes' /\ ClientTypes'
  BY <1>1, <1>5 DEF SpokeTypes, ViewTypes, ClientTypes
<1>8. LoopHolds'
  BY <1>1, <1>5 DEF LoopHolds
<1>9. HubTypes' /\ HubInOrder' /\ HubEnds' /\ SpokesSorted'
  BY <1>1, SameHub DEF SpokesSorted
<1>10. unsent'[n] = Tail(unsent[n]) /\ \A m \in Nodes \ {n} : unsent'[m] = unsent[m]
  BY <1>1 DEF QueueTypes
<1>11. \A m \in Nodes : CallMessages(m)' = CallMessages(m)
  BY DEF CallMessages
<1>12. Message(0, 0, body) \in CallMessages(n)
  BY <1>3, <1>4
<1>13. Backlogs'
  <2>1. \A m \in Nodes : \A i \in DOMAIN mBacklog'[m] : mBacklog'[m][i] \in CallMessages(m)
    BY <1>5, <1>12 DEF Backlogs
  <2>2. \A i \in DOMAIN unsent'[n] : unsent'[n][i] \in CallMessages(n)
    BY <1>2, <1>10 DEF Backlogs
  <2>3. \A m \in Nodes : \A i \in DOMAIN unsent'[m] : unsent'[m][i] \in CallMessages(m)
    BY <1>10, <2>2 DEF Backlogs
  <2> QED
    BY <1>11, <2>1, <2>3 DEF Backlogs
<1> QED
  BY <1>5, <1>6, <1>7, <1>8, <1>9, <1>13

LEMMA CallKeeps ==
    ASSUME WorldInv, NEW n \in Nodes, NEW body \in Calls[n], CallOf(n, body)
    PROVE  WorldInv'
<1> USE DEF WorldInv, Types
<1>1. /\ Send(n, Message(0, 0, body))
      /\ called' = [called EXCEPT ![n] = called[n] \cup {body}]
      /\ UNCHANGED <<pc, client, unsent, mHistory, mNodes, stuck, owner, hubHost, toClient, hubEnd, cliEnd>>
      /\ UNCHANGED <<hubVars, epoch>>
  BY DEF CallOf, Call, viewVars, objVars
<1>2. body \in Bodies /\ Message(0, 0, body) \in Messages
  BY CallsAreMessages
<1>3. called' \in [Nodes -> SUBSET Bodies] /\ called'[n] = called[n] \cup {body}
      /\ \A m \in Nodes : called[m] \subseteq called'[m] /\ (m # n => called'[m] = called[m])
  BY <1>1, <1>2 DEF SpokeTypes
<1>4. /\ Linked(Messages)' /\ DOMAIN toHub' = DOMAIN toHub
      /\ mClient' \in [Nodes -> {0} \cup DOMAIN toHub] /\ mClient'[n] \in {0, mClient[n]}
      /\ \A m \in Nodes \ {n} : mClient'[m] = mClient[m]
      /\ mBacklog' \in [Nodes -> Seq(Messages)]
      /\ \A m \in Nodes : \A i \in DOMAIN mBacklog'[m] :
            \/ i \in DOMAIN mBacklog[m] /\ mBacklog'[m][i] = mBacklog[m][i]
            \/ m = n /\ mBacklog'[m][i] = Message(0, 0, body)
  BY <1>1, <1>2, <1>3, SentKeeps
<1>5. SpokeTypes' /\ QueueTypes' /\ ViewTypes' /\ ClientTypes'
  BY <1>1, <1>3, <1>4 DEF SpokeTypes, QueueTypes, ViewTypes, ClientTypes
<1>6. LoopHolds'
  BY <1>1, <1>4 DEF LoopHolds
<1>7. HubTypes' /\ HubInOrder' /\ HubEnds' /\ SpokesSorted'
  BY <1>1, SameHub DEF SpokesSorted
<1>8. \A m \in Nodes : CallMessages(m) \subseteq CallMessages(m)'
  BY <1>3 DEF CallMessages
<1>9. Message(0, 0, body) \in CallMessages(n)'
  BY <1>3 DEF CallMessages
<1>10. \A m \in Nodes : called'[m] \subseteq Calls[m]
  BY <1>3 DEF Backlogs
<1>11. Backlogs'
  BY <1>1, <1>4, <1>8, <1>9, <1>10 DEF Backlogs
<1> QED
  BY <1>4, <1>5, <1>6, <1>7, <1>11

LEMMA WaitReturnsKeeps ==
    ASSUME WorldInv, NEW n \in Nodes, WaitReturns(n), UNCHANGED <<hubVars, epoch, called>>
    PROVE  WorldInv'
<1> USE DEF WorldInv, Types
<1>1. /\ pc[n] = "wait" /\ Goto(n, "serve")
      /\ mClient' = [mClient EXCEPT ![n] = 0] /\ client' = [client EXCEPT ![n] = 0]
      /\ UNCHANGED <<unsent, mBacklog, mHistory, mNodes, stuck, owner, hubHost, udsVars>>
  BY ContinueGoes DEF WaitReturns, viewVars, objVars
<1>2. pc \in [Nodes -> Labels] /\ pc' \in [Nodes -> Labels] /\ pc'[n] = "serve"
      /\ \A m \in Nodes \ {n} : pc'[m] = pc[m]
  BY <1>1 DEF SpokeTypes, Labels, Goto
<1>3. SpokeTypes' /\ ViewTypes' /\ QueueTypes' /\ Linked(Messages)'
  BY <1>1, <1>2, SameConns DEF SpokeTypes, ViewTypes, QueueTypes
<1>4. ClientTypes' /\ mClient'[n] = 0 /\ client'[n] = 0
      /\ \A m \in Nodes \ {n} : mClient'[m] = mClient[m] /\ client'[m] = client[m]
  BY <1>1 DEF ClientTypes, udsVars
<1>5. LoopHolds'
  BY <1>1, <1>2, <1>4 DEF LoopHolds, Connected
<1>6. HubTypes' /\ HubInOrder' /\ HubEnds' /\ Backlogs' /\ SpokesSorted'
  BY <1>1, SameHub, SameBacklogs DEF SpokesSorted, udsVars
<1> QED
  BY <1>3, <1>4, <1>5, <1>6

\* ApplyUpdate: lower_bound finds the place that keeps the history sorted.
LEMMA InsertKeepsOrder ==
    ASSUME NEW h \in Seq(Messages), SortedBySeq(h), NEW msg \in Messages
    PROVE  /\ Remembered(h, msg) \in Seq(Messages) /\ SortedBySeq(Remembered(h, msg))
           /\ \A j \in DOMAIN Remembered(h, msg) :
                 \/ Remembered(h, msg)[j] = msg
                 \/ \E i \in DOMAIN h : Remembered(h, msg)[j] = h[i]
<1> DEFINE p == LowerBound(h, msg.seq)
           r == Remembered(h, msg)
<1>1. msg.seq \in Nat
  BY DEF Messages
<1>2. /\ p \in 1..(Len(h) + 1)
      /\ p <= Len(h) => h[p].seq >= msg.seq
      /\ \A j \in 1..(p - 1) : h[j].seq < msg.seq
  BY <1>1, LowerBoundExists
<1>3. Len(h) \in Nat /\ DOMAIN h = 1..Len(h) /\ \A i \in DOMAIN h : h[i].seq \in Nat
  BY HistoryElements
<1> HIDE DEF p
<1>4. r = SubSeq(h, 1, p - 1) \o <<msg>> \o SubSeq(h, p, Len(h))
  BY DEF Remembered, InsertBefore, p
<1>5. /\ SubSeq(h, 1, p - 1) \in Seq(Messages) /\ Len(SubSeq(h, 1, p - 1)) = p - 1
      /\ \A i \in 1..(p - 1) : SubSeq(h, 1, p - 1)[i] = h[i]
      /\ SubSeq(h, p, Len(h)) \in Seq(Messages) /\ Len(SubSeq(h, p, Len(h))) = Len(h) + 1 - p
      /\ \A i \in 1..(Len(h) + 1 - p) : SubSeq(h, p, Len(h))[i] = h[p + i - 1]
  BY <1>2, <1>3
<1>6. /\ r \in Seq(Messages) /\ Len(r) = Len(h) + 1
      /\ \A i \in 1..(Len(h) + 1) : r[i] = IF i < p THEN h[i] ELSE IF i = p THEN msg ELSE h[i - 1]
  <2> HIDE DEF r
  <2>1. <<msg>> \in Seq(Messages) /\ Len(<<msg>>) = 1 /\ <<msg>>[1] = msg
    OBVIOUS
  <2> DEFINE a == SubSeq(h, 1, p - 1)
             b == SubSeq(h, p, Len(h))
             a1 == a \o <<msg>>
  <2>2. /\ a \in Seq(Messages) /\ Len(a) = p - 1 /\ \A i \in 1..(p - 1) : a[i] = h[i]
        /\ b \in Seq(Messages) /\ Len(b) = Len(h) + 1 - p
        /\ \A i \in 1..(Len(h) + 1 - p) : b[i] = h[p + i - 1]
        /\ r = a1 \o b
    BY <1>4, <1>5
  <2> HIDE DEF a, b
  <2>3. /\ a1 \in Seq(Messages) /\ Len(a1) = p
        /\ \A i \in 1..p : a1[i] = IF i < p THEN h[i] ELSE msg
    BY <1>2, <1>3, <2>1, <2>2
  <2> HIDE DEF a1
  <2>4. r \in Seq(Messages) /\ Len(r) = Len(h) + 1
    <3>1. r \in Seq(Messages) /\ Len(r) = Len(a1) + Len(b)
      BY <2>2, <2>3, ConcatProperties
    <3> QED
      BY <1>2, <1>3, <2>2, <2>3, <3>1
  <2>5. \A i \in 1..(Len(h) + 1) : r[i] = IF i <= p THEN a1[i] ELSE b[i - p]
    BY <1>2, <1>3, <2>2, <2>3
  <2> QED
    BY <1>2, <1>3, <2>2, <2>3, <2>4, <2>5
<1> HIDE DEF r
<1>7. DOMAIN r = 1..(Len(h) + 1)
  BY <1>3, <1>6
<1>8. ASSUME NEW i \in DOMAIN r, NEW j \in DOMAIN r, i < j
      PROVE  r[i].seq <= r[j].seq
  <2>1. CASE j < p
    BY <1>2, <1>3, <1>6, <1>7, <1>8, <2>1 DEF SortedBySeq
  <2>2. CASE j = p
    <3>1. i \in 1..(p - 1) /\ r[i] = h[i] /\ r[j] = msg /\ i \in DOMAIN h
      BY <1>2, <1>3, <1>6, <1>7, <1>8, <2>2
    <3> QED
      BY <1>1, <1>2, <1>3, <3>1
  <2>3. CASE j > p
    <3>1. p <= Len(h) /\ j - 1 \in DOMAIN h /\ p \in DOMAIN h /\ p <= j - 1 /\ r[j] = h[j - 1]
      BY <1>2, <1>3, <1>6, <1>7, <2>3
    <3>2. h[p].seq <= h[j - 1].seq
      BY <1>3, <3>1 DEF SortedBySeq
    <3>3. CASE i < p
      <4>1. i \in DOMAIN h /\ r[i] = h[i] /\ i < j - 1
        BY <1>2, <1>3, <1>6, <1>7, <1>8, <2>3, <3>3
      <4> QED
        BY <3>1, <4>1 DEF SortedBySeq
    <3>4. CASE i = p
      <4>1. r[i] = msg
        BY <1>2, <1>3, <1>6, <1>7, <3>4
      <4> QED
        BY <1>1, <1>2, <1>3, <3>1, <3>2, <4>1
    <3>5. CASE i > p
      <4>1. i - 1 \in DOMAIN h /\ r[i] = h[i - 1] /\ i - 1 < j - 1
        BY <1>2, <1>3, <1>6, <1>7, <1>8, <3>5
      <4> QED
        BY <3>1, <4>1 DEF SortedBySeq
    <3> QED
      BY <1>2, <1>7, <3>3, <3>4, <3>5
  <2> QED
    BY <1>2, <1>7, <2>1, <2>2, <2>3
<1>9. ASSUME NEW j \in DOMAIN r
      PROVE  r[j] = msg \/ \E i \in DOMAIN h : r[j] = h[i]
  <2>1. CASE j < p
    BY <1>2, <1>3, <1>6, <1>7, <2>1
  <2>2. CASE j = p
    BY <1>2, <1>6, <1>7, <2>2
  <2>3. CASE j > p
    <3>1. j - 1 \in DOMAIN h /\ r[j] = h[j - 1]
      BY <1>2, <1>3, <1>6, <1>7, <2>3
    <3> QED
      BY <3>1
  <2> QED
    BY <1>2, <1>7, <2>1, <2>2, <2>3
<1> QED
  BY <1>6, <1>8, <1>9 DEF SortedBySeq, r

\* ApplyUpdate of what the hub wrote.
LEMMA ApplyKeeps ==
    ASSUME WorldInv, NEW n \in Nodes, NEW msg \in Messages, ApplyUpdate(n, msg)
    PROVE  /\ mHistory' \in [Nodes -> Seq(Messages)] /\ ViewTypes' /\ SpokesSorted'
           /\ \A m \in Nodes : \A j \in DOMAIN mHistory'[m] :
                 \/ m = n /\ mHistory'[m][j] = msg
                 \/ \E i \in DOMAIN mHistory[m] : mHistory'[m][j] = mHistory[m][i]
<1>1. /\ mHistory' = [mHistory EXCEPT ![n] = Remembered(mHistory[n], msg)]
      /\ mNodes' = [mNodes EXCEPT ![n] = Viewed(mNodes[n], msg.body)]
  BY DEF ApplyUpdate
<1>2. mHistory \in [Nodes -> Seq(Messages)] /\ \A m \in Nodes : SortedBySeq(mHistory[m])
  BY DEF WorldInv, Types, QueueTypes, SpokesSorted
<1>3. /\ Remembered(mHistory[n], msg) \in Seq(Messages) /\ SortedBySeq(Remembered(mHistory[n], msg))
      /\ \A j \in DOMAIN Remembered(mHistory[n], msg) :
            \/ Remembered(mHistory[n], msg)[j] = msg
            \/ \E i \in DOMAIN mHistory[n] : Remembered(mHistory[n], msg)[j] = mHistory[n][i]
  BY <1>2, InsertKeepsOrder
<1>4. msg.body \in Bodies
  BY DEF Messages
<1>5. ViewKnown(Viewed(mNodes[n], msg.body))
  BY <1>4, ViewedKnown DEF WorldInv, Types, ViewTypes
<1>6. ViewTypes'
  BY <1>1, <1>5 DEF WorldInv, Types, ViewTypes
<1>7. /\ mHistory'[n] = Remembered(mHistory[n], msg)
      /\ \A m \in Nodes \ {n} : mHistory'[m] = mHistory[m]
  BY <1>1, <1>2
<1>8. mHistory' \in [Nodes -> Seq(Messages)]
  BY <1>1, <1>2, <1>3
<1>9. SpokesSorted'
  BY <1>2, <1>3, <1>7 DEF SpokesSorted
<1> QED
  BY <1>3, <1>6, <1>7, <1>8, <1>9

\* What the thread of n's UDSClient does.
LEMMA ClientThreadDoes ==
    ASSUME WorldInv, NEW n \in Nodes, ClientThread(n)
    PROVE  /\ client[n] # 0 /\ client[n] \in DOMAIN toHub /\ cliEnd[client[n]] = "open"
           /\ UNCHANGED <<pc, client, unsent, mClient, mBacklog, stuck, owner, hubHost, toHub, hubEnd>>
           /\ UNCHANGED <<hubVars, epoch, called>>
           /\ \/ cliEnd' = cliEnd
              \/ hubEnd[client[n]] = "closed" /\ cliEnd' = [cliEnd EXCEPT ![client[n]] = "closed"]
           /\ \/ UNCHANGED <<mHistory, mNodes, toClient>> /\ cliEnd' # cliEnd
              \/ /\ client[n] \in DOMAIN toClient /\ toClient[client[n]] # <<>>
                 /\ ApplyUpdate(n, Head(toClient[client[n]]))
                 /\ toClient' = [toClient EXCEPT ![client[n]] = Tail(toClient[client[n]])]
<1>1. client[n] # 0
  BY DEF ClientThread, ClientRead, ClientHangup
<1>2. client[n] \in DOMAIN toHub /\ DOMAIN cliEnd = DOMAIN toHub
      /\ cliEnd \in [DOMAIN toHub -> {"open", "closed", "reset"}]
  BY <1>1 DEF WorldInv, Types, ClientTypes, Linked
<1>3. CASE ClientRead(n)
  BY <1>1, <1>2, <1>3 DEF ClientThread, ClientRead, ClientCanRead, Pending, connVars, objVars
<1>4. CASE ClientHangup(n)
  <2>1. cliEnd[client[n]] = "open" /\ cliEnd' = [cliEnd EXCEPT ![client[n]] = "closed"] /\ cliEnd' # cliEnd
        /\ hubEnd[client[n]] = "closed"
    BY <1>2, <1>4 DEF ClientHangup, ClientSeesHangup
  <2> QED
    BY <1>1, <1>2, <1>4, <2>1 DEF ClientThread, ClientHangup, LastReadSucceeds, Pending, connVars, objVars, viewVars
<1> QED
  BY <1>3, <1>4 DEF ClientThread

LEMMA ClientThreadKeeps ==
    ASSUME WorldInv, NEW n \in Nodes, ClientThread(n)
    PROVE  WorldInv'
<1> USE DEF WorldInv, Types
<1>1. PICK c : c = client[n]
  OBVIOUS
<1>2. /\ c # 0 /\ c \in DOMAIN toHub
      /\ UNCHANGED <<pc, client, unsent, mClient, mBacklog, stuck, owner, hubHost, toHub, hubEnd>>
      /\ UNCHANGED <<hubVars, epoch, called>>
      /\ cliEnd' = cliEnd \/ cliEnd' = [cliEnd EXCEPT ![c] = "closed"]
      /\ \/ UNCHANGED <<mHistory, mNodes, toClient>>
         \/ /\ c \in DOMAIN toClient /\ toClient[c] # <<>>
            /\ ApplyUpdate(n, Head(toClient[c]))
            /\ toClient' = [toClient EXCEPT ![c] = Tail(toClient[c])]
  BY <1>1, ClientThreadDoes
<1>3. Linked(Messages) /\ hubEnd' \in [DOMAIN toHub -> {"backlog", "open", "closed"}]
      /\ cliEnd' \in [DOMAIN toHub -> {"open", "closed", "reset"}]
  BY <1>2 DEF Linked
<1>4. /\ mHistory' \in [Nodes -> Seq(Messages)] /\ ViewTypes' /\ SpokesSorted'
      /\ Linked(Messages)' /\ DOMAIN toClient' = DOMAIN toClient
  <2>1. CASE UNCHANGED <<mHistory, mNodes, toClient>>
    BY <1>2, <1>3, <2>1, EndsKeep DEF ViewTypes, QueueTypes, SpokesSorted
  <2>2. CASE /\ c \in DOMAIN toClient /\ toClient[c] # <<>>
             /\ ApplyUpdate(n, Head(toClient[c]))
             /\ toClient' = [toClient EXCEPT ![c] = Tail(toClient[c])]
    <3>1. Head(toClient[c]) \in Messages
      BY <2>2 DEF Linked
    <3>2. Linked(Messages)'
      BY <1>2, <1>3, <2>2, EndsKeep
    <3> QED
      BY <2>2, <3>1, <3>2, ApplyKeeps
  <2> QED
    BY <1>2, <2>1, <2>2
<1>5. SpokeTypes' /\ QueueTypes' /\ ClientTypes'
  BY <1>2, <1>4 DEF SpokeTypes, QueueTypes, ClientTypes
<1>6. LoopHolds'
  BY <1>2 DEF LoopHolds
<1>7. HubTypes' /\ HubInOrder' /\ HubEnds' /\ Backlogs'
  BY <1>2, <1>4, SameHub, SameBacklogs
<1> QED
  BY <1>4, <1>5, <1>6, <1>7

LEMMA ServeKeeps ==
    ASSUME WorldInv, NEW n \in Nodes, ServeGroup(n)
    PROVE  WorldInv'
<1> USE DEF WorldInv, Types
<1>1. /\ pc[n] = "serve" /\ Goto(n, "connect")
      /\ UNCHANGED <<client, unsent, mClient, mBacklog, mHistory, mNodes, stuck, owner,
                     toHub, toClient, cliEnd, called>>
      /\ \/ /\ hubHost = NoHost /\ hubHost' = n /\ hubEnd' = hubEnd
            /\ Hub!CreateServer(mHistory[n]) /\ epoch' = epoch + 1
         \/ /\ hubHost = n /\ hubHost' = NoHost /\ NoHub /\ epoch' = epoch
            /\ hubEnd' = [c \in DOMAIN hubEnd |-> "closed"]
         \/ UNCHANGED <<hubHost, hubEnd, hubVars, epoch>>
  BY ContinueGoes, NodeFacts DEF ServeGroup, Serve, HubCloses, connVars, viewVars, objVars, udsVars
<1>2. pc \in [Nodes -> Labels] /\ pc' \in [Nodes -> Labels] /\ pc'[n] = "connect"
      /\ \A m \in Nodes \ {n} : pc'[m] = pc[m]
  BY <1>1 DEF SpokeTypes, Labels, Goto
<1>3. epoch' \in Nat /\ hubHost' \in Nodes \cup {NoHost}
  BY <1>1, NodeFacts DEF SpokeTypes
<1>4. SpokeTypes' /\ QueueTypes' /\ ClientTypes' /\ ViewTypes'
  BY <1>1, <1>2, <1>3 DEF SpokeTypes, QueueTypes, ClientTypes, ViewTypes
<1>5. Linked(Messages)'
  <2>1. hubEnd' \in [DOMAIN toHub -> {"backlog", "open", "closed"}]
    BY <1>1 DEF Linked
  <2> QED
    BY <1>1, <2>1 DEF Linked
<1>6. LoopHolds'
  BY <1>1, <1>2 DEF LoopHolds, Connected
<1>7. Backlogs' /\ SpokesSorted'
  BY <1>1, SameBacklogs DEF SpokesSorted
<1>8. HubTypes' /\ HubInOrder' /\ HubEnds'
  <2>1. CASE /\ hubHost = NoHost /\ hubHost' = n /\ hubEnd' = hubEnd
             /\ Hub!CreateServer(mHistory[n]) /\ epoch' = epoch + 1
    <3> DEFINE h == mHistory[n]
    <3>1. h \in Seq(Messages) /\ SortedBySeq(h)
      BY DEF QueueTypes, SpokesSorted
    <3>2. LastSeq(h) \in Nat /\ \A i \in DOMAIN h : h[i].seq <= LastSeq(h)
      BY <3>1, LastSeqIsLargest
    <3>3. /\ hubHistory' = h /\ hubNextSeq' = LastSeq(h) + 1 /\ hubClients' = <<>>
          /\ aborted' = "no" /\ purged' = FALSE
      BY <1>1, <2>1, HubNumbers DEF Hub!CreateServer
    <3>4. \A i \in DOMAIN h : h[i].seq \in Nat
      BY <3>1, HistoryElements
    <3> HIDE DEF h
    <3>5. HubTypes'
      <4>1. hubNextSeq' \in Nat
        BY <3>2, <3>3
      <4>2. hubClients' \in [DOMAIN hubClients' -> ClientRecords]
        BY <3>3
      <4> QED
        BY <3>1, <3>3, <4>1, <4>2 DEF HubTypes
    <3>6. HubInOrder'
      BY <3>1, <3>2, <3>3, <3>4 DEF HubInOrder
    <3>7. epoch' # 0
      BY <1>1, <2>1 DEF SpokeTypes
    <3>8. HubEnds'
      BY <1>1, <2>1, <3>3, <3>7, NodeFacts DEF HubEnds
    <3> QED
      BY <3>5, <3>6, <3>8
  <2>2. CASE /\ hubHost' = NoHost /\ NoHub
             /\ hubEnd' = [c \in DOMAIN hubEnd |-> "closed"]
    <3>1. /\ hubHistory' = <<>> /\ hubNextSeq' = 1 /\ hubClients' = <<>> /\ aborted' = "no" /\ purged'
          /\ <<>> \in Seq(Messages)
      BY <2>2 DEF NoHub
    <3>2. HubTypes' /\ HubInOrder'
      BY <3>1 DEF HubTypes, HubInOrder, LastSeq, SortedBySeq
    <3>3. HubEnds'
      BY <2>2, <3>1 DEF HubEnds
    <3> QED
      BY <3>2, <3>3
  <2>3. CASE UNCHANGED <<hubHost, hubEnd, hubVars, epoch>>
    BY <1>1, <2>3, SameHub
  <2> QED
    BY <1>1, <2>1, <2>2, <2>3
<1> QED
  BY <1>4, <1>5, <1>6, <1>7, <1>8

\* What becomes of the connections when a process dies.
LEMMA DeathCloses ==
    ASSUME Linked(Messages), NEW c, cliEnd' = ClosedByDeath(c)
    PROVE  /\ cliEnd' \in [DOMAIN toHub -> {"open", "closed", "reset"}]
           /\ \A d \in DOMAIN cliEnd : d # c => cliEnd'[d] = cliEnd[d]
BY DEF Linked, ClosedByDeath

\* What dies with a process.
LEMMA DeathDoes ==
    ASSUME WorldInv, NEW n \in Nodes, ProcessDies(n)
    PROVE  /\ pc[n] \notin {"off", "dead"}
           /\ pc' = [pc EXCEPT ![n] = "dead"] /\ owner' = [owner EXCEPT ![n] = "gone"]
           /\ client' = [client EXCEPT ![n] = 0] /\ mClient' = [mClient EXCEPT ![n] = 0]
           /\ unsent' = [unsent EXCEPT ![n] = <<>>] /\ mBacklog' = [mBacklog EXCEPT ![n] = <<>>]
           /\ mHistory' = [mHistory EXCEPT ![n] = <<>>] /\ mNodes' = [mNodes EXCEPT ![n] = <<>>]
           /\ stuck' = [stuck EXCEPT ![n] = FALSE]
           /\ cliEnd' = ClosedByDeath(client[n])
           /\ UNCHANGED <<toHub, toClient, epoch, called>>
           /\ \/ /\ hubHost = n /\ hubHost' = NoHost /\ NoHub
                 /\ hubEnd' = [c \in DOMAIN hubEnd |-> "closed"]
              \/ hubHost # n /\ UNCHANGED <<hubHost, hubEnd, hubVars>>
BY DEF ProcessDies, Die, Running

LEMMA DeathKeeps ==
    ASSUME WorldInv, NEW n \in Nodes, ProcessDies(n)
    PROVE  WorldInv'
<1> USE DEF WorldInv, Types
<1>1. /\ pc' = [pc EXCEPT ![n] = "dead"] /\ owner' = [owner EXCEPT ![n] = "gone"]
      /\ client' = [client EXCEPT ![n] = 0] /\ mClient' = [mClient EXCEPT ![n] = 0]
      /\ unsent' = [unsent EXCEPT ![n] = <<>>] /\ mBacklog' = [mBacklog EXCEPT ![n] = <<>>]
      /\ mHistory' = [mHistory EXCEPT ![n] = <<>>] /\ mNodes' = [mNodes EXCEPT ![n] = <<>>]
      /\ stuck' = [stuck EXCEPT ![n] = FALSE]
      /\ cliEnd' = ClosedByDeath(client[n])
      /\ UNCHANGED <<toHub, toClient, epoch, called>>
      /\ \/ /\ hubHost' = NoHost /\ NoHub
            /\ hubEnd' = [c \in DOMAIN hubEnd |-> "closed"]
         \/ UNCHANGED <<hubHost, hubEnd, hubVars>>
  BY DeathDoes
<1>2. /\ pc' \in [Nodes -> Labels] /\ owner' \in [Nodes -> {"uses", "gone"}]
      /\ pc'[n] = "dead" /\ owner'[n] = "gone"
      /\ \A m \in Nodes \ {n} : pc'[m] = pc[m] /\ owner'[m] = owner[m]
  BY <1>1 DEF SpokeTypes, Labels
<1>3. SpokeTypes'
  BY <1>1, <1>2 DEF SpokeTypes
<1>4. <<>> \in Seq(Messages) /\ SortedBySeq(<<>>) /\ ViewKnown(<<>>)
  BY DEF SortedBySeq, ViewKnown
<1>5. QueueTypes'
  BY <1>1, <1>4 DEF QueueTypes
<1>6. ViewTypes'
  BY <1>1, <1>4 DEF ViewTypes
<1>7. ClientTypes' /\ client'[n] = 0 /\ mClient'[n] = 0
      /\ \A m \in Nodes \ {n} : client'[m] = client[m] /\ mClient'[m] = mClient[m]
  BY <1>1 DEF ClientTypes
<1>8. LoopHolds'
  BY <1>2, <1>7 DEF LoopHolds, Connected
<1>9. cliEnd' \in [DOMAIN toHub -> {"open", "closed", "reset"}]
  BY <1>1, DeathCloses
<1>10. hubEnd' \in [DOMAIN toHub -> {"backlog", "open", "closed"}]
  BY <1>1 DEF Linked
<1>11. Linked(Messages)'
  BY <1>1, <1>9, <1>10 DEF Linked
<1>12. SpokesSorted'
  BY <1>1, <1>4 DEF SpokesSorted, QueueTypes
<1>13. Backlogs'
  BY <1>1 DEF Backlogs, CallMessages, QueueTypes
<1>14. HubTypes' /\ HubInOrder' /\ HubEnds'
  <2>1. CASE /\ hubHost' = NoHost /\ NoHub
             /\ hubEnd' = [c \in DOMAIN hubEnd |-> "closed"]
    <3>1. /\ hubHistory' = <<>> /\ hubNextSeq' = 1 /\ hubClients' = <<>> /\ aborted' = "no" /\ purged'
      BY <2>1 DEF NoHub
    <3>2. HubTypes'
      BY <1>4, <3>1 DEF HubTypes
    <3>3. HubInOrder'
      BY <1>4, <3>1 DEF HubInOrder, LastSeq
    <3>4. HubEnds'
      BY <2>1, <3>1 DEF HubEnds
    <3> QED
      BY <3>2, <3>3, <3>4
  <2>2. CASE UNCHANGED <<hubHost, hubEnd, hubVars>>
    BY <1>1, <2>2, SameHub
  <2> QED
    BY <1>1, <2>1, <2>2
<1> QED
  BY <1>3, <1>5, <1>6, <1>7, <1>8, <1>11, <1>12, <1>13, <1>14

-----------------------------------------------------------------------------
(* The steps of the hub: each settles additions to the history.            *)

Settling(news, clients, nextSeq) ==
    /\ news \in Additions(hubHistory)
    /\ nextSeq \in Nat /\ LastSeq(hubHistory) < nextSeq
    /\ \A i \in DOMAIN (hubHistory \o news) : (hubHistory \o news)[i].seq < nextSeq
    /\ DOMAIN clients \subseteq DOMAIN hubClients
    /\ clients \in [DOMAIN clients -> ClientRecords]
    /\ \A c \in DOMAIN clients : clients[c].seq = hubClients[c].seq
    /\ Settled(hubHistory \o news, clients, nextSeq)

\* Where the handlers begin.
LEMMA HubFacts ==
    ASSUME WorldInv
    PROVE  /\ hubHistory \in Seq(Messages) /\ hubNextSeq \in Nat /\ SortedBySeq(hubHistory)
           /\ \A i \in DOMAIN hubHistory : hubHistory[i].seq < hubNextSeq
           /\ LastSeq(hubHistory) < hubNextSeq /\ LastSeq(hubHistory) \in Nat
           /\ hubClients \in [DOMAIN hubClients -> ClientRecords]
           /\ (DOMAIN hubHistory # {} => LastSeq(hubHistory) = hubHistory[Len(hubHistory)].seq)
           /\ (DOMAIN hubHistory # {} => Len(hubHistory) \in DOMAIN hubHistory)
           /\ (DOMAIN hubHistory = {} => LastSeq(hubHistory) = 0)
           /\ \A i \in DOMAIN hubHistory : hubHistory[i].seq <= LastSeq(hubHistory)
<1>1. /\ hubHistory \in Seq(Messages) /\ hubNextSeq \in Nat /\ SortedBySeq(hubHistory)
      /\ \A i \in DOMAIN hubHistory : hubHistory[i].seq < hubNextSeq
      /\ LastSeq(hubHistory) < hubNextSeq
      /\ hubClients \in [DOMAIN hubClients -> ClientRecords]
  BY DEF WorldInv, Types, HubTypes, HubInOrder
<1> QED
  BY <1>1, LastSeqIsLargest

\* Settle with nothing new, and with one message that is.
LEMMA SettlesNothing ==
    ASSUME WorldInv, NEW clients, DOMAIN clients \subseteq DOMAIN hubClients,
           clients \in [DOMAIN clients -> ClientRecords],
           \A c \in DOMAIN clients : clients[c].seq = hubClients[c].seq,
           Hub!Settle(hubHistory, clients, hubNextSeq)
    PROVE  Settling(<<>>, clients, hubNextSeq)
<1>1. <<>> \in Additions(hubHistory) /\ hubHistory \o <<>> = hubHistory
  BY HubFacts, NoAdditions
<1>2. Settled(hubHistory, clients, hubNextSeq)
  BY HubFacts, SettleIs
<1> QED
  BY <1>1, <1>2, HubFacts DEF Settling

LEMMA SettlesOne ==
    ASSUME WorldInv, NEW clients, DOMAIN clients \subseteq DOMAIN hubClients,
           clients \in [DOMAIN clients -> ClientRecords],
           \A c \in DOMAIN clients : clients[c].seq = hubClients[c].seq,
           NEW new \in Messages, LastSeq(hubHistory) < new.seq,
           Hub!Settle(Append(hubHistory, new), clients, new.seq + 1)
    PROVE  Settling(<<new>>, clients, new.seq + 1)
<1> DEFINE h == Append(hubHistory, new)
           news == <<new>>
<1>1. new.seq \in Nat /\ \A i \in DOMAIN hubHistory : hubHistory[i].seq < new.seq
  <2>1. new.seq \in Nat /\ \A i \in DOMAIN hubHistory : hubHistory[i].seq \in Nat
    BY HubFacts, HistoryElements DEF Messages
  <2> QED
    BY <2>1, HubFacts
<1>2. h \in Seq(Messages) /\ SortedBySeq(h) /\ \A i \in DOMAIN h : h[i].seq < new.seq + 1
  BY <1>1, HubFacts, AppendKeepsOrder
<1>3. news \in Additions(hubHistory) /\ h = hubHistory \o news
  BY HubFacts, SmallAdditions
<1>4. new.seq + 1 \in Nat /\ LastSeq(hubHistory) < new.seq + 1
  BY <1>1, HubFacts
<1> HIDE DEF h
<1>5. Settled(h, clients, new.seq + 1)
  BY <1>2, <1>4, SettleIs DEF h
<1> HIDE DEF news
<1> QED
  BY <1>2, <1>3, <1>4, <1>5 DEF Settling, news

\* What the hub notes of a client whose message it has read.
Heard(c, msg, clients) ==
    /\ DOMAIN clients = DOMAIN hubClients
    /\ clients[c].nodeId = msg.body.node
    /\ hubClients[c].history \subseteq clients[c].history
    /\ msg.seq = 0 => msg.body \in clients[c].history
    /\ \A f \in DOMAIN hubClients : f # c => clients[f] = hubClients[f]

\* What is new when the hub has read a message: nothing, the call, or an old
\* message with a number that is yet to come.
LEMMA OnDataSettles ==
    ASSUME WorldInv, NEW c \in DOMAIN hubClients, NEW msg \in Messages, NEW uid \in Nat,
           Hub!OnData(c, msg, uid)
    PROVE  /\ aborted = "no" /\ purged' = purged
           /\ \/ /\ msg.body.node = 0
                 /\ UNCHANGED <<hubHistory, hubNextSeq, hubClients, toClient, aborted>>
              \/ /\ UNCHANGED <<hubHistory, hubNextSeq, hubClients, toClient>>
                 /\ aborted' \in {"uid", "hit"} /\ msg.seq # 0
                 /\ \/ LastSeq(hubHistory) < msg.seq
                    \/ \E i \in DOMAIN hubHistory :
                          hubHistory[i].seq = msg.seq /\ hubHistory[i] # msg
              \/ \E news, clients, nextSeq :
                    /\ Settling(news, clients, nextSeq) /\ Heard(c, msg, clients)
                    /\ msg.body.node # 0
                    /\ \/ news = <<>>
                       \/ msg.seq = 0 /\ news = <<Message(hubNextSeq, uid, msg.body)>>
                       \/ /\ msg.seq # 0 /\ msg.uid # 0
                          /\ LastSeq(hubHistory) < msg.seq /\ news = <<msg>>
<1> DEFINE clients == [hubClients EXCEPT ![c].nodeId = msg.body.node]
           remembered == [clients EXCEPT ![c].history = @ \cup {msg.body}]
           New(news) ==
              \/ news = <<>>
              \/ msg.seq = 0 /\ news = <<Message(hubNextSeq, uid, msg.body)>>
              \/ /\ msg.seq # 0 /\ msg.uid # 0
                 /\ LastSeq(hubHistory) < msg.seq /\ news = <<msg>>
           Outcome == \E news, cls, nextSeq :
              /\ Settling(news, cls, nextSeq) /\ Heard(c, msg, cls) /\ New(news)
<1>1. msg.seq \in Nat /\ msg.uid \in Nat /\ msg.body \in Bodies /\ msg.body.node \in Nat
  BY DEF Messages, Bodies
<1>2. /\ clients \in [DOMAIN hubClients -> ClientRecords] /\ DOMAIN clients = DOMAIN hubClients
      /\ \A f \in DOMAIN hubClients : clients[f].seq = hubClients[f].seq
      /\ \A f \in DOMAIN hubClients : clients[f].history = hubClients[f].history
      /\ clients[c].nodeId = msg.body.node
      /\ \A f \in DOMAIN hubClients : f # c => clients[f] = hubClients[f]
  BY <1>1, HubFacts DEF ClientRecords
<1>3. /\ remembered \in [DOMAIN hubClients -> ClientRecords] /\ DOMAIN remembered = DOMAIN hubClients
      /\ \A f \in DOMAIN hubClients : remembered[f].seq = hubClients[f].seq
      /\ remembered[c].history = hubClients[c].history \cup {msg.body}
      /\ remembered[c].nodeId = msg.body.node
      /\ \A f \in DOMAIN hubClients : f # c => remembered[f] = hubClients[f]
  <2> HIDE DEF clients
  <2> QED
    BY <1>1, <1>2 DEF ClientRecords
<1>4. /\ aborted = "no" /\ purged' = purged
      /\ \/ /\ msg.body.node = 0
            /\ UNCHANGED <<hubHistory, hubNextSeq, hubClients, toClient, aborted>>
         \/ msg.body.node # 0 /\ Hub!AddNovelMessage(c, msg, uid, clients)
         \/ msg.body.node # 0 /\ Hub!AddOldMessage(c, msg, clients)
  BY DEF Hub!OnData
<1> HIDE DEF remembered
<1>5. ASSUME Hub!Settle(hubHistory, clients, hubNextSeq),
             msg.seq = 0 => msg.body \in hubClients[c].history
      PROVE  Outcome
  <2> HIDE DEF clients
  <2>1. Settling(<<>>, clients, hubNextSeq)
    BY <1>2, <1>5, SettlesNothing
  <2>2. Heard(c, msg, clients)
    BY <1>2, <1>5 DEF Heard
  <2>3. New(<<>>)
    OBVIOUS
  <2> HIDE DEF New
  <2> QED
    BY <2>1, <2>2, <2>3
<1>6. ASSUME NEW new \in Messages, LastSeq(hubHistory) < new.seq, New(<<new>>),
             Hub!Settle(Append(hubHistory, new), remembered, new.seq + 1)
      PROVE  Outcome
  <2>1. Settling(<<new>>, remembered, new.seq + 1)
    BY <1>3, <1>6, SettlesOne
  <2>2. Heard(c, msg, remembered)
    BY <1>3 DEF Heard
  <2> HIDE DEF New
  <2> QED
    BY <1>6, <2>1, <2>2
<1>7. ASSUME Hub!AddNovelMessage(c, msg, uid, clients)
      PROVE  Outcome
  <2> DEFINE novel == Message(hubNextSeq, uid, msg.body)
  <2>1. novel \in Messages /\ novel.seq = hubNextSeq
    BY <1>1, HubFacts DEF Message, Messages
  <2>2. /\ msg.seq = 0
        /\ \/ msg.body \in clients[c].history /\ Hub!Settle(hubHistory, clients, hubNextSeq)
           \/ Hub!Settle(Append(hubHistory, novel), remembered, hubNextSeq + 1)
    BY <1>7, HubMessages DEF Hub!AddNovelMessage, Hub!IsRedundant, remembered
  <2>3. New(<<novel>>)
    BY <2>2
  <2>4. msg.body \in clients[c].history => msg.body \in hubClients[c].history
    BY <1>2
  <2> HIDE DEF novel, clients, Outcome, New
  <2> QED
    BY <1>5, <1>6, <2>1, <2>2, <2>3, <2>4, HubFacts
<1>8. ASSUME Hub!AddOldMessage(c, msg, clients)
      PROVE  \/ /\ UNCHANGED <<hubHistory, hubNextSeq, hubClients, toClient>>
                /\ aborted' \in {"uid", "hit"} /\ msg.seq # 0
                /\ \/ LastSeq(hubHistory) < msg.seq
                   \/ \E i \in DOMAIN hubHistory :
                         hubHistory[i].seq = msg.seq /\ hubHistory[i] # msg
             \/ Outcome
  <2> DEFINE hit == LowerBound(hubHistory, msg.seq)
  <2>1. /\ msg.seq # 0
        /\ \/ /\ hit > Len(hubHistory)
              /\ \/ Hub!Abort("uid")
                 \/ msg.uid # 0 /\ Hub!Settle(Append(hubHistory, msg), remembered, msg.seq + 1)
           \/ /\ hit <= Len(hubHistory) /\ hubHistory[hit].seq = msg.seq
              /\ hubHistory[hit] # msg /\ Hub!Abort("hit")
           \/ Hub!Settle(hubHistory, clients, hubNextSeq)
    BY <1>8, HubNumbers DEF Hub!AddOldMessage, remembered
  <2>2. Len(hubHistory) \in Nat /\ DOMAIN hubHistory = 1..Len(hubHistory)
    BY HubFacts, HistoryElements
  <2>3. /\ hit \in 1..(Len(hubHistory) + 1)
        /\ \A j \in 1..(hit - 1) : hubHistory[j].seq < msg.seq
    BY <1>1, HubFacts, LowerBoundExists
  <2> HIDE DEF hit, clients, Outcome
  <2>4. ASSUME hit > Len(hubHistory)
        PROVE  LastSeq(hubHistory) < msg.seq
    <3>1. hit - 1 = Len(hubHistory)
      BY <2>2, <2>3, <2>4
    <3>2. \A i \in DOMAIN hubHistory : hubHistory[i].seq < msg.seq
      BY <2>2, <2>3, <3>1
    <3> QED
      BY <1>1, <2>1, <3>2, HubFacts
  <2>5. CASE /\ hit > Len(hubHistory)
             /\ msg.uid # 0 /\ Hub!Settle(Append(hubHistory, msg), remembered, msg.seq + 1)
    <3>1. New(<<msg>>)
      BY <2>1, <2>4, <2>5
    <3> HIDE DEF New
    <3> QED
      BY <1>6, <2>4, <2>5, <3>1
  <2>6. CASE hit > Len(hubHistory) /\ Hub!Abort("uid")
    BY <2>1, <2>4, <2>6 DEF Hub!Abort
  <2>7. CASE /\ hit <= Len(hubHistory) /\ hubHistory[hit].seq = msg.seq
             /\ hubHistory[hit] # msg /\ Hub!Abort("hit")
    <3>1. hit \in DOMAIN hubHistory
      BY <2>2, <2>3, <2>7
    <3> QED
      BY <2>1, <2>7, <3>1 DEF Hub!Abort
  <2>8. CASE Hub!Settle(hubHistory, clients, hubNextSeq)
    BY <1>5, <2>1, <2>8
  <2> QED
    BY <2>1, <2>5, <2>6, <2>7, <2>8
<1> HIDE DEF clients
<1> QED
  BY <1>4, <1>7, <1>8

\* A hangup adds the LEAVE of the client.
LEMMA OnDisconnectSettles ==
    ASSUME WorldInv, NEW c \in DOMAIN hubClients, Hub!OnDisconnect(c)
    PROVE  /\ aborted = "no" /\ purged' = purged
           /\ \E clients, nextSeq :
                 /\ Settling(<<Message(hubNextSeq, 0, NodeChange("LEAVE", hubClients[c].nodeId))>>,
                             clients, nextSeq)
                 /\ DOMAIN clients = DOMAIN hubClients \ {c}
                 /\ \A f \in DOMAIN clients : clients[f] = hubClients[f]
<1> DEFINE leave   == Message(hubNextSeq, 0, NodeChange("LEAVE", hubClients[c].nodeId))
           clients == [f \in DOMAIN hubClients \ {c} |-> hubClients[f]]
<1>1. clients \in [DOMAIN clients -> ClientRecords] /\ DOMAIN clients = DOMAIN hubClients \ {c}
      /\ \A f \in DOMAIN clients : clients[f] = hubClients[f]
  BY HubFacts
<1>2. leave \in Messages /\ leave.seq = hubNextSeq
  <2>1. hubClients[c].nodeId \in Nat
    BY HubFacts DEF ClientRecords
  <2>2. NodeChange("LEAVE", hubClients[c].nodeId) \in Bodies
    BY <2>1 DEF NodeChange, Bodies, NodeOps
  <2> QED
    BY <2>2, HubFacts DEF Message, Messages
<1>3. aborted = "no" /\ purged' = purged /\ Hub!Settle(Append(hubHistory, leave), clients, hubNextSeq + 1)
  BY HubMessages DEF Hub!OnDisconnect
<1> HIDE DEF leave, clients
<1>4. Settling(<<leave>>, clients, hubNextSeq + 1)
  BY <1>1, <1>2, <1>3, HubFacts, SettlesOne
<1> QED
  BY <1>1, <1>3, <1>4 DEF leave

\* The purge adds the LEAVEs of nodes that have no connection.
LEMMA PurgeSettles ==
    ASSUME WorldInv, Hub!PurgeDisconnected
    PROVE  /\ aborted = "no" /\ ~purged /\ purged'
           /\ \E nextSeq : \E n \in Nat :
                 \E order \in [1..n -> HistoricallyActive(hubHistory)
                                       \ {hubClients[c].nodeId : c \in DOMAIN hubClients}] :
                    Settling(Leaves(hubNextSeq, n, order), hubClients, nextSeq)
<1> DEFINE gone == HistoricallyActive(hubHistory) \ {hubClients[c].nodeId : c \in DOMAIN hubClients}
           n    == Hub!Cardinality(gone)
<1>1. gone \in SUBSET Nat /\ n \in Nat
  <2>1. IsFiniteSet(HistoricallyActive(hubHistory)) /\ HistoricallyActive(hubHistory) \in SUBSET Nat
    BY HubFacts, ActiveNodesFinite
  <2>2. gone \in SUBSET HistoricallyActive(hubHistory)
    OBVIOUS
  <2>3. n = Cardinality(gone)
    BY HubCardinality
  <2> HIDE DEF gone, n
  <2>4. IsFiniteSet(gone)
    BY <2>1, <2>2, FS_Subset
  <2> QED
    BY <2>1, <2>2, <2>3, <2>4, FS_CardinalityType
<1>2. gone = Hub!HistoricallyActive(hubHistory) \ Hub!ConnectedNodes
  BY HubActive DEF Hub!ConnectedNodes
<1>3. /\ aborted = "no" /\ ~purged /\ purged'
      /\ \E order \in [1..n -> gone] :
            Hub!Settle(hubHistory \o Leaves(hubNextSeq, n, order), hubClients, hubNextSeq + n)
  BY <1>2, HubMessages DEF Hub!PurgeDisconnected, Leaves
<1> HIDE DEF n, gone
<1>4. PICK order \in [1..n -> gone] :
         Hub!Settle(hubHistory \o Leaves(hubNextSeq, n, order), hubClients, hubNextSeq + n)
  BY <1>3
<1>5. order \in [1..n -> Nat]
  BY <1>1
<1> DEFINE l == Leaves(hubNextSeq, n, order)
<1>6. l \in Additions(hubHistory)
  BY <1>1, <1>5, HubFacts, LeavesAreAdditions
<1>7. /\ hubHistory \o l \in Seq(Messages) /\ SortedBySeq(hubHistory \o l)
      /\ \A i \in DOMAIN (hubHistory \o l) : (hubHistory \o l)[i].seq < hubNextSeq + n
  BY <1>1, <1>5, HubFacts, LeavesKeepOrder
<1>8. hubNextSeq + n \in Nat /\ LastSeq(hubHistory) < hubNextSeq + n
  BY <1>1, HubFacts
<1> HIDE DEF l
<1>9. Settled(hubHistory \o l, hubClients, hubNextSeq + n)
  BY <1>4, <1>7, <1>8, SettleIs DEF l
<1>10. Settling(l, hubClients, hubNextSeq + n)
  BY <1>6, <1>7, <1>8, <1>9, HubFacts DEF Settling
<1> QED
  BY <1>1, <1>3, <1>10 DEF l, gone

\* A client that is accepted gets the history.
LEMMA OnConnectDoes ==
    ASSUME WorldInv, NEW c \in Nat, Hub!OnConnect(c)
    PROVE  /\ aborted = "no" /\ UNCHANGED <<hubHistory, hubNextSeq, aborted, purged>>
           /\ DOMAIN hubClients' = DOMAIN hubClients \cup {c}
           /\ hubClients'[c] = [seq |-> LastSeq(hubHistory), nodeId |-> 0, history |-> {}]
           /\ \A f \in DOMAIN hubClients : f # c => hubClients'[f] = hubClients[f]
           /\ hubClients' = [f \in DOMAIN hubClients' |-> hubClients'[f]]
           /\ DOMAIN toClient' = DOMAIN toClient \cup {c}
           /\ toClient' = [f \in DOMAIN toClient' |-> toClient'[f]]
           /\ toClient'[c] = hubHistory
           /\ \A f \in DOMAIN toClient : f # c => toClient'[f] = toClient[f]
BY HubFacts, HubNumbers DEF Hub!OnConnect

\* What Settle makes of the hub.
LEMMA SettlingDoes ==
    ASSUME WorldInv, NEW news, NEW clients, NEW nextSeq, Settling(news, clients, nextSeq)
    PROVE  /\ HubInOrder' /\ hubHistory' = PruneRemoved(hubHistory \o news)
           /\ hubHistory' \in Seq(Messages) /\ hubNextSeq' \in Nat /\ aborted' = "no"
           /\ hubClients' \in [DOMAIN hubClients' -> ClientRecords]
           /\ DOMAIN hubClients' = DOMAIN clients
           /\ \A c \in DOMAIN clients : /\ hubClients'[c].nodeId = clients[c].nodeId
                                        /\ hubClients'[c].history = clients[c].history
           /\ DOMAIN toClient' = DOMAIN toClient
           /\ toClient' \in [DOMAIN toClient -> Seq(Messages)]
           /\ \A c \in DOMAIN toClient \ DOMAIN clients : toClient'[c] = toClient[c]
           /\ \A c \in DOMAIN clients \cap DOMAIN toClient :
                 toClient'[c] = toClient[c] \o SubsequenceAt(hubHistory', Unsent(hubHistory', clients[c].seq))
<1> DEFINE h == hubHistory \o news
           g == PruneRemoved(h)
<1>1. /\ news \in Additions(hubHistory) /\ nextSeq \in Nat
      /\ \A i \in DOMAIN h : h[i].seq < nextSeq
      /\ DOMAIN clients \subseteq DOMAIN hubClients
      /\ clients \in [DOMAIN clients -> ClientRecords]
      /\ Settled(h, clients, nextSeq)
  BY DEF Settling
<1>2. h \in Seq(Messages) /\ SortedBySeq(h)
  BY <1>1, HubFacts, Extended
<1> HIDE DEF h
<1>3. /\ g \in Seq(Messages) /\ SortedBySeq(g)
      /\ \A i \in DOMAIN g : g[i].seq < nextSeq
  BY <1>1, <1>2, PruneKeepsOrder
<1>4. /\ hubHistory' = g /\ hubNextSeq' = nextSeq /\ aborted' = "no"
      /\ hubClients' = [c \in DOMAIN clients |->
             [clients[c] EXCEPT !.seq = HighestSeq(g, clients[c].seq)]]
      /\ toClient' = [c \in DOMAIN toClient |->
             IF c \in DOMAIN clients
             THEN toClient[c] \o SubsequenceAt(g, Unsent(g, clients[c].seq))
             ELSE toClient[c]]
  BY <1>1 DEF Settled
<1>5. LastSeq(g) < nextSeq
  <2>1. CASE DOMAIN g = {}
    <3>1. LastSeq(g) = 0
      BY <1>3, <2>1, LastSeqIsLargest
    <3>2. LastSeq(hubHistory) \in Nat /\ LastSeq(hubHistory) < nextSeq
      BY HubFacts DEF Settling
    <3> QED
      BY <1>1, <3>1, <3>2
  <2>2. CASE DOMAIN g # {}
    BY <1>3, <2>2, LastSeqIsLargest
  <2> QED
    BY <2>1, <2>2
<1> HIDE DEF g
<1>6. HubInOrder'
  BY <1>3, <1>4, <1>5 DEF HubInOrder
<1>7. \A c \in DOMAIN clients :
         /\ clients[c] \in ClientRecords
         /\ HighestSeq(g, clients[c].seq) \in Nat
  BY <1>1, <1>3, HighestSeqIsNat DEF ClientRecords
<1>8. /\ hubClients' \in [DOMAIN hubClients' -> ClientRecords]
      /\ DOMAIN hubClients' = DOMAIN clients
      /\ \A c \in DOMAIN clients : /\ hubClients'[c].nodeId = clients[c].nodeId
                                   /\ hubClients'[c].history = clients[c].history
  BY <1>4, <1>7 DEF ClientRecords
<1>9. \A c \in DOMAIN toClient : toClient[c] \in Seq(Messages)
  BY DEF WorldInv, Types, Linked
<1>10. \A seq : SubsequenceAt(g, Unsent(g, seq)) \in Seq(Messages)
  BY <1>3, SubsequenceProperties DEF Unsent
<1>11. toClient' \in [DOMAIN toClient -> Seq(Messages)]
  BY <1>4, <1>9, <1>10
<1> QED
  BY <1>1, <1>3, <1>4, <1>6, <1>8, <1>11 DEF g, h

\* Steps of the hub leave the spokes alone.
LEMMA HubStepKeeps ==
    ASSUME WorldInv, UNCHANGED <<managerVars, epoch, called>>, DOMAIN toHub' = DOMAIN toHub,
           Linked(Messages)', HubTypes', HubInOrder', HubEnds'
    PROVE  WorldInv'
<1> USE DEF WorldInv, Types, managerVars, connVars, viewVars, objVars
<1>1. SpokeTypes' /\ QueueTypes' /\ ClientTypes' /\ ViewTypes'
  BY DEF SpokeTypes, QueueTypes, ClientTypes, ViewTypes
<1>2. LoopHolds' /\ SpokesSorted' /\ Backlogs'
  BY SameBacklogs DEF LoopHolds, SpokesSorted
<1> QED
  BY <1>1, <1>2

LEMMA LinkedEnds ==
    ASSUME WorldInv, DOMAIN toHub' = DOMAIN toHub, toHub' \in [DOMAIN toHub -> Seq(Messages)],
           hubEnd' \in [DOMAIN toHub -> {"backlog", "open", "closed"}], cliEnd' = cliEnd,
           DOMAIN toClient' \subseteq DOMAIN toHub, toClient' \in [DOMAIN toClient' -> Seq(Messages)]
    PROVE  Linked(Messages)'
BY DEF WorldInv, Types, Linked

LEMMA HubAcceptKeeps ==
    ASSUME WorldInv, NEW c \in DOMAIN hubEnd, HubAccept(c)
    PROVE  WorldInv'
<1> USE DEF WorldInv, Types
<1>1. /\ hubEnd[c] = "backlog" /\ Hub!OnConnect(c)
      /\ hubEnd' = [hubEnd EXCEPT ![c] = "open"]
      /\ UNCHANGED <<managerVars, toHub, cliEnd, epoch, called>>
  BY DEF HubAccept, HubCanAccept
<1>2. DOMAIN hubEnd = DOMAIN toHub /\ hubEnd \in [DOMAIN toHub -> {"backlog", "open", "closed"}]
      /\ toHub \in [DOMAIN toHub -> Seq(Messages)]
  BY DEF Linked
<1>3. c \in Nat
  BY <1>2, ConnFacts
<1>4. /\ UNCHANGED <<hubHistory, hubNextSeq, aborted, purged>>
      /\ DOMAIN hubClients' = DOMAIN hubClients \cup {c}
      /\ hubClients'[c] = [seq |-> LastSeq(hubHistory), nodeId |-> 0, history |-> {}]
      /\ \A f \in DOMAIN hubClients : f # c => hubClients'[f] = hubClients[f]
      /\ hubClients' = [f \in DOMAIN hubClients' |-> hubClients'[f]]
      /\ DOMAIN toClient' = DOMAIN toClient \cup {c}
      /\ toClient' = [f \in DOMAIN toClient' |-> toClient'[f]]
      /\ toClient'[c] = hubHistory
      /\ \A f \in DOMAIN toClient : f # c => toClient'[f] = toClient[f]
  BY <1>1, <1>3, OnConnectDoes
<1>5. hubClients'[c] \in ClientRecords
  BY <1>4, HubFacts DEF ClientRecords
<1>6. hubClients' \in [DOMAIN hubClients' -> ClientRecords]
  BY <1>4, <1>5, HubFacts
<1>7. HubTypes' /\ HubInOrder'
  BY <1>4, <1>6 DEF HubTypes, HubInOrder
<1>8. /\ hubEnd' \in [DOMAIN toHub -> {"backlog", "open", "closed"}] /\ hubEnd'[c] = "open"
      /\ \A d \in DOMAIN hubEnd : d # c => hubEnd'[d] = hubEnd[d]
  BY <1>1, <1>2
<1>9. toClient' \in [DOMAIN toClient' -> Seq(Messages)] /\ DOMAIN toClient' \subseteq DOMAIN toHub
  BY <1>2, <1>4, HubFacts DEF Linked
<1>10. Linked(Messages)'
  BY <1>1, <1>2, <1>8, <1>9, LinkedEnds
<1>11. hubHost # NoHost
  BY <1>1 DEF HubEnds
<1>12. HubEnds'
  BY <1>1, <1>2, <1>4, <1>8, <1>11 DEF HubEnds, managerVars
<1> QED
  BY <1>1, <1>7, <1>10, <1>12, HubStepKeeps

\* What the hub reads from a client.
LEMMA HubReadDoes ==
    ASSUME WorldInv, NEW c \in DOMAIN hubEnd, HubRead(c) \/ HubReadLast(c)
    PROVE  /\ hubEnd[c] = "open" /\ c \in DOMAIN hubClients /\ c \in DOMAIN toHub
           /\ toHub[c] \in Seq(Messages) /\ toHub[c] # <<>> /\ Head(toHub[c]) \in Messages
           /\ Head(toHub[c]) = toHub[c][1] /\ 1 \in DOMAIN toHub[c]
           /\ Hub!OnData(c, Head(toHub[c]), epoch) /\ epoch \in Nat /\ hubHost # NoHost
           /\ UNCHANGED <<managerVars, hubEnd, cliEnd, epoch, called>>
           /\ toHub' \in [DOMAIN toHub -> Seq(Messages)] /\ DOMAIN toHub' = DOMAIN toHub
           /\ toHub'[c] = Tail(toHub[c]) \/ (toHub'[c] = <<>> /\ cliEnd[c] # "open")
           /\ \A i \in DOMAIN toHub'[c] : i + 1 \in DOMAIN toHub[c] /\ toHub'[c][i] = toHub[c][i + 1]
           /\ \A d \in DOMAIN toHub : d # c => toHub'[d] = toHub[d]
<1>1. /\ hubEnd[c] = "open" /\ toHub[c] # <<>> /\ Hub!OnData(c, Head(toHub[c]), epoch)
      /\ UNCHANGED <<managerVars, hubEnd, cliEnd, epoch, called>>
      /\ \/ toHub' = [toHub EXCEPT ![c] = Tail(toHub[c])]
         \/ toHub' = [toHub EXCEPT ![c] = <<>>] /\ cliEnd[c] # "open"
  BY DEF HubRead, HubReadLast, HubCanRead, HubCanReadLast
<1>2. c \in DOMAIN toHub /\ toHub \in [DOMAIN toHub -> Seq(Messages)]
  BY DEF WorldInv, Types, Linked
<1>3. c \in DOMAIN hubClients /\ epoch \in Nat /\ hubHost # NoHost
  BY <1>1 DEF WorldInv, Types, HubEnds, SpokeTypes
<1>4. toHub[c] \in Seq(Messages)
  BY <1>2
<1>5. /\ Head(toHub[c]) \in Messages /\ Head(toHub[c]) = toHub[c][1] /\ 1 \in DOMAIN toHub[c]
      /\ Tail(toHub[c]) \in Seq(Messages) /\ <<>> \in Seq(Messages)
      /\ \A i \in DOMAIN Tail(toHub[c]) : i + 1 \in DOMAIN toHub[c] /\ Tail(toHub[c])[i] = toHub[c][i + 1]
      /\ DOMAIN (<<>>) = {}
  BY <1>1, <1>4
<1>6. /\ toHub' \in [DOMAIN toHub -> Seq(Messages)] /\ DOMAIN toHub' = DOMAIN toHub
      /\ toHub'[c] = Tail(toHub[c]) \/ (toHub'[c] = <<>> /\ cliEnd[c] # "open")
      /\ \A d \in DOMAIN toHub : d # c => toHub'[d] = toHub[d]
  BY <1>1, <1>2, <1>5
<1>7. \A i \in DOMAIN toHub'[c] : i + 1 \in DOMAIN toHub[c] /\ toHub'[c][i] = toHub[c][i + 1]
  <2>1. CASE toHub'[c] = Tail(toHub[c])
    BY <1>5, <2>1
  <2>2. CASE toHub'[c] = <<>>
    BY <1>5, <2>2
  <2> QED
    BY <1>6, <2>1, <2>2
<1> QED
  BY <1>1, <1>2, <1>3, <1>4, <1>5, <1>6, <1>7, Zenon

LEMMA HubReadKeeps ==
    ASSUME WorldInv, NEW c \in DOMAIN hubEnd, HubRead(c) \/ HubReadLast(c)
    PROVE  WorldInv'
<1> USE DEF WorldInv, Types
<1>1. /\ c \in DOMAIN hubClients /\ Head(toHub[c]) \in Messages
      /\ Hub!OnData(c, Head(toHub[c]), epoch) /\ epoch \in Nat
      /\ UNCHANGED <<managerVars, hubEnd, cliEnd, epoch, called>>
      /\ toHub' \in [DOMAIN toHub -> Seq(Messages)] /\ DOMAIN toHub' = DOMAIN toHub
  BY HubReadDoes
<1>2. /\ HubTypes' /\ HubInOrder' /\ DOMAIN hubClients' = DOMAIN hubClients
      /\ DOMAIN toClient' = DOMAIN toClient /\ toClient' \in [DOMAIN toClient -> Seq(Messages)]
      /\ purged' = purged
  <2>1. purged' = purged
    BY <1>1, OnDataSettles
  <2>2. CASE UNCHANGED <<hubHistory, hubNextSeq, hubClients, toClient>> /\ aborted' \in {aborted, "uid", "hit"}
    BY <2>1, <2>2 DEF HubTypes, HubInOrder, Linked
  <2>3. ASSUME NEW news, NEW clients, NEW nextSeq, Settling(news, clients, nextSeq),
               Heard(c, Head(toHub[c]), clients)
        PROVE  /\ HubTypes' /\ HubInOrder' /\ DOMAIN hubClients' = DOMAIN hubClients
               /\ DOMAIN toClient' = DOMAIN toClient /\ toClient' \in [DOMAIN toClient -> Seq(Messages)]
    BY <2>1, <2>3, SettlingDoes DEF HubTypes, Heard
  <2> QED
    BY <1>1, <2>1, <2>2, <2>3, OnDataSettles
<1>3. Linked(Messages)'
  BY <1>1, <1>2, LinkedEnds DEF Linked
<1>4. HubEnds'
  <2>1. hubHost # NoHost
    BY HubReadDoes
  <2> QED
    BY <1>1, <1>2, <2>1 DEF HubEnds, managerVars
<1> QED
  BY <1>1, <1>2, <1>3, <1>4, HubStepKeeps

LEMMA HubHangupKeeps ==
    ASSUME WorldInv, NEW c \in DOMAIN hubEnd, HubHangup(c)
    PROVE  WorldInv'
<1> USE DEF WorldInv, Types
<1>1. /\ hubEnd[c] = "open" /\ Hub!OnDisconnect(c)
      /\ hubEnd' = [hubEnd EXCEPT ![c] = "closed"]
      /\ UNCHANGED <<managerVars, toHub, cliEnd, epoch, called>>
  BY DEF HubHangup, HubSeesHangup
<1>2. c \in DOMAIN hubClients /\ hubHost # NoHost
  BY <1>1 DEF HubEnds
<1>3. PICK clients, nextSeq :
         /\ Settling(<<Message(hubNextSeq, 0, NodeChange("LEAVE", hubClients[c].nodeId))>>, clients, nextSeq)
         /\ DOMAIN clients = DOMAIN hubClients \ {c}
         /\ \A f \in DOMAIN clients : clients[f] = hubClients[f]
  BY <1>1, <1>2, OnDisconnectSettles
<1>4. /\ HubTypes' /\ HubInOrder' /\ DOMAIN hubClients' = DOMAIN hubClients \ {c}
      /\ DOMAIN toClient' = DOMAIN toClient /\ toClient' \in [DOMAIN toClient -> Seq(Messages)]
  <2>1. purged' = purged
    BY <1>1, <1>2, OnDisconnectSettles
  <2> QED
    BY <1>3, <2>1, SettlingDoes DEF HubTypes
<1>5. /\ hubEnd' \in [DOMAIN toHub -> {"backlog", "open", "closed"}] /\ hubEnd'[c] = "closed"
      /\ DOMAIN hubEnd' = DOMAIN hubEnd
      /\ \A d \in DOMAIN hubEnd : d # c => hubEnd'[d] = hubEnd[d]
      /\ toHub' \in [DOMAIN toHub -> Seq(Messages)] /\ DOMAIN toHub' = DOMAIN toHub
  BY <1>1 DEF Linked
<1>6. Linked(Messages)'
  BY <1>1, <1>4, <1>5, LinkedEnds DEF Linked
<1>7. HubEnds'
  BY <1>1, <1>2, <1>4, <1>5 DEF HubEnds, managerVars
<1> QED
  BY <1>1, <1>4, <1>5, <1>6, <1>7, HubStepKeeps

LEMMA HubPurgeKeeps ==
    ASSUME WorldInv, HubPurge
    PROVE  WorldInv'
<1> USE DEF WorldInv, Types
<1>1. Hub!PurgeDisconnected /\ UNCHANGED <<managerVars, toHub, hubEnd, cliEnd, epoch, called>>
  BY DEF HubPurge
<1>2. ~purged /\ purged' /\ \E news, nextSeq : Settling(news, hubClients, nextSeq)
  BY <1>1, PurgeSettles
<1>3. PICK news, nextSeq : Settling(news, hubClients, nextSeq)
  BY <1>2
<1>4. purged' \in BOOLEAN /\ hubHost # NoHost
  BY <1>2 DEF HubEnds, Hub!PurgeDisconnected, HubPurge
<1>5. /\ HubTypes' /\ HubInOrder' /\ DOMAIN hubClients' = DOMAIN hubClients
      /\ DOMAIN toClient' = DOMAIN toClient /\ toClient' \in [DOMAIN toClient -> Seq(Messages)]
  BY <1>3, <1>4, SettlingDoes DEF HubTypes
<1>6. Linked(Messages)'
  BY <1>1, <1>5, LinkedEnds DEF Linked
<1>7. HubEnds'
  BY <1>1, <1>4, <1>5 DEF HubEnds, managerVars
<1> QED
  BY <1>1, <1>5, <1>6, <1>7, HubStepKeeps

-----------------------------------------------------------------------------
(* Any nodes, any deaths.                                                  *)

LEMMA InitKeepsWorld == Init => WorldInv
<1> SUFFICES ASSUME Init PROVE WorldInv
  OBVIOUS
<1> USE DEF Init, ManagerInit
<1>1. <<>> \in Seq(Messages) /\ SortedBySeq(<<>>) /\ ViewKnown(<<>>) /\ LastSeq(<<>>) = 0
  BY DEF SortedBySeq, ViewKnown, LastSeq
<1>2. SpokeTypes /\ QueueTypes /\ ClientTypes /\ ViewTypes
  BY <1>1 DEF SpokeTypes, QueueTypes, ClientTypes, ViewTypes, Labels
<1>3. Linked(Messages)
  <2>1. 0 \in 0..MaxConns /\ DOMAIN toHub = 1..0
    BY MaxConnsAssumption
  <2>2. DOMAIN toHub = {} /\ DOMAIN toClient = {} /\ DOMAIN hubEnd = {} /\ DOMAIN cliEnd = {}
    OBVIOUS
  <2>3. /\ toHub \in [DOMAIN toHub -> Seq(Messages)] /\ toClient \in [DOMAIN toClient -> Seq(Messages)]
        /\ hubEnd \in [DOMAIN toHub -> {"backlog", "open", "closed"}]
        /\ cliEnd \in [DOMAIN toHub -> {"open", "closed", "reset"}]
    OBVIOUS
  <2> QED
    BY <2>1, <2>2, <2>3 DEF Linked
<1>4. HubTypes /\ HubInOrder
  BY <1>1 DEF HubTypes, HubInOrder
<1>5. SpokesSorted /\ LoopHolds /\ Backlogs
  BY <1>1 DEF SpokesSorted, LoopHolds, Connected, Backlogs
<1>6. HubEnds
  BY DEF HubEnds
<1> QED
  BY <1>2, <1>3, <1>4, <1>5, <1>6 DEF WorldInv, Types

\* The steps, one by one.
LEMMA Steps ==
    ASSUME Next
    PROVE  \/ \E n \in Nodes :
                 \/ MainLoop(n) /\ UNCHANGED <<hubVars, epoch, called>>
                 \/ ServeGroup(n) \/ ClientThread(n) \/ StartNode(n)
                 \/ ProcessDies(n) /\ (Kill(n) \/ Abort(n))
                 \/ \E body \in Calls[n] : CallOf(n, body)
           \/ \E c \in DOMAIN hubEnd : HubAccept(c) \/ HubRead(c) \/ HubReadLast(c) \/ HubHangup(c)
           \/ HubPurge
BY DEF Next, System, Environment, MainThread, HubThread, Kill, Abort

LEMMA NextKeepsWorld == ASSUME WorldInv, [Next]_vars PROVE WorldInv'
<1>1. CASE UNCHANGED vars
  <2> USE <1>1 DEF vars, managerVars, udsVars, hubVars, connVars, viewVars, objVars
  <2>1. SpokeTypes' /\ QueueTypes' /\ ClientTypes' /\ ViewTypes' /\ HubTypes' /\ Linked(Messages)'
    BY DEF WorldInv, Types, SpokeTypes, QueueTypes, ClientTypes, ViewTypes, HubTypes, Linked
  <2>2. HubInOrder' /\ SpokesSorted' /\ LoopHolds' /\ HubEnds' /\ Backlogs'
    BY DEF WorldInv, HubInOrder, SpokesSorted, LoopHolds, HubEnds, Backlogs, CallMessages
  <2> QED
    BY <2>1, <2>2 DEF WorldInv, Types
<1>2. ASSUME NEW n \in Nodes, MainLoop(n) /\ UNCHANGED <<hubVars, epoch, called>>
      PROVE  WorldInv'
  BY <1>2, ConnectKeeps, MovesKeep, IntroduceKeeps, AttachKeeps, FlushKeeps, WaitReturnsKeeps DEF MainLoop
<1>3. ASSUME NEW n \in Nodes,
             ServeGroup(n) \/ ClientThread(n) \/ StartNode(n) \/ ProcessDies(n)
             \/ \E body \in Calls[n] : CallOf(n, body)
      PROVE  WorldInv'
  BY <1>3, ServeKeeps, ClientThreadKeeps, MovesKeep, DeathKeeps, CallKeeps
<1>4. ASSUME NEW c \in DOMAIN hubEnd, HubAccept(c) \/ HubRead(c) \/ HubReadLast(c) \/ HubHangup(c)
      PROVE  WorldInv'
  BY <1>4, HubAcceptKeeps, HubReadKeeps, HubHangupKeeps
<1>5. CASE HubPurge
  BY <1>5, HubPurgeKeeps
<1> QED
  BY <1>1, <1>2, <1>3, <1>4, <1>5, Steps

\* The inductive invariant holds whatever processes start, call, are killed or
\* abort, and whichever spoke's ServeGroup wins the address.
THEOREM WorldInvariant == Spec => []WorldInv
<1>1. Init => WorldInv
  BY InitKeepsWorld
<1>2. WorldInv /\ [Next]_vars => WorldInv'
  BY NextKeepsWorld
<1> QED
  BY <1>1, <1>2, PTL DEF Spec

\* The state of spokes, hubs and connections is well typed, for any nodes, calls
\* and deaths.
THEOREM GroupTypeCorrect == Spec => []TypeOK
<1>1. WorldInv => TypeOK
  <2> SUFFICES ASSUME WorldInv PROVE TypeOK
    OBVIOUS
  <2> USE DEF WorldInv, Types
  <2>1. DOMAIN toHub \subseteq Conns
    BY MaxConnsAssumption DEF Linked, Conns
  <2>2. Hub!TypeOK
    BY <2>1, HubMessages DEF Hub!TypeOK, HubTypes, Linked, HubEnds, Hub!Asserts
  <2>3. client \in [Nodes -> {0} \cup Conns] /\ mClient \in [Nodes -> {0} \cup Conns]
    BY <2>1 DEF ClientTypes
  <2>4. \A n \in Nodes : \A m \in DOMAIN mNodes[n] :
           mNodes[n][m] \in [pubs : [DOMAIN mNodes[n][m].pubs -> STRING], subs : SUBSET STRING]
    BY DEF ViewTypes, ViewKnown, NodeKnown
  <2> QED
    BY <2>2, <2>3, <2>4 DEF TypeOK, SpokeTypes, QueueTypes, Linked, Labels
<1> QED
  BY <1>1, WorldInvariant, PTL

\* Broadcast's assert on sequence numbers and OnData's and OnDisconnect's on known
\* descriptors hold in every hub of the group, with whatever mHistory its spoke
\* has made its digest.
THEOREM HubsNeverAbortOnNumbers == Spec => []HubAssertionsHold
<1>1. WorldInv => HubAssertionsHold
  BY DEF WorldInv, Types, HubTypes, HubAssertionsHold, Hub!SequenceAssertionsHold
<1> QED
  BY <1>1, WorldInvariant, PTL

\* ApplyUpdate keeps mHistory sorted although every hub starts over with the
\* messages of the hubs before it: each spoke has a lawful digest for the next.
THEOREM HistoriesStaySorted == Spec => []SpokesSorted
<1>1. WorldInv => SpokesSorted
  BY DEF WorldInv
<1> QED
  BY <1>1, WorldInvariant, PTL

-----------------------------------------------------------------------------
(* Minted messages are identified by seq and uid.                          *)

Minted(m) == m.seq # 0 /\ m.uid # 0

UidsOfHubs == \A m \in KnownMessages : m.uid <= epoch

MintedOnce ==
    \A m, k \in KnownMessages : Minted(m) /\ m.seq = k.seq /\ m.uid = k.uid => m = k

Unprunable(h) == \A i \in DOMAIN h : ~Prunable(LeftNodes(h), h[i])

\* What the hub has minted lies below the newest message of its history.
MintedBelow ==
    hubHost # NoHost =>
        \A m \in KnownMessages :
            m.uid = epoch => \E i \in DOMAIN hubHistory : m.seq <= hubHistory[i].seq

\* A hub has not minted anything before it prunes the history it begins with.
Pruned ==
    hubHost # NoHost => Unprunable(hubHistory) \/ \A m \in KnownMessages : m.uid # epoch

\* Whose node a message is about: that of a spoke or, in the LEAVE of a client that
\* has not said who it is, node 0.
Named(body) == body.node \in Nodes \cup {0} /\ (body.op \in TopicOps => body.node # 0)

GroupNodes ==
    /\ \A m \in KnownMessages : Named(m.body)
    /\ \A c \in DOMAIN hubClients : hubClients[c].nodeId \in Nodes \cup {0}

MintedInv == WorldInv /\ UidsOfHubs /\ MintedOnce /\ MintedBelow /\ Pruned /\ GroupNodes

\* Where messages are known from.
LEMMA KnownIs ==
    \A m : m \in KnownMessages <=>
        \/ \E i \in DOMAIN hubHistory : m = hubHistory[i]
        \/ \E n \in Nodes : \E i \in DOMAIN mHistory[n] : m = mHistory[n][i]
        \/ \E c \in DOMAIN toClient : \E i \in DOMAIN toClient[c] : m = toClient[c][i]
        \/ \E c \in DOMAIN toHub : \E i \in DOMAIN toHub[c] : m = toHub[c][i]
<1> DEFINE A == {hubHistory[i] : i \in DOMAIN hubHistory}
           B == UNION {{mHistory[n][i] : i \in DOMAIN mHistory[n]} : n \in Nodes}
           C == UNION {{toClient[c][i] : i \in DOMAIN toClient[c]} : c \in DOMAIN toClient}
           D == UNION {{toHub[c][i] : i \in DOMAIN toHub[c]} : c \in DOMAIN toHub}
<1>1. KnownMessages = A \cup B \cup C \cup D
  BY DEF KnownMessages
<1>2. \A m : m \in A <=> \E i \in DOMAIN hubHistory : m = hubHistory[i]
  OBVIOUS
<1>3. \A m : m \in B <=> \E n \in Nodes : \E i \in DOMAIN mHistory[n] : m = mHistory[n][i]
  OBVIOUS
<1>4. \A m : m \in C <=>
          \E c \in DOMAIN toClient : \E i \in DOMAIN toClient[c] : m = toClient[c][i]
  OBVIOUS
<1>5. \A m : m \in D <=>
          \E c \in DOMAIN toHub : \E i \in DOMAIN toHub[c] : m = toHub[c][i]
  OBVIOUS
<1> HIDE DEF A, B, C, D
<1> QED
  BY <1>1, <1>2, <1>3, <1>4, <1>5

LEMMA KnownFrom ==
    /\ \A i \in DOMAIN hubHistory : hubHistory[i] \in KnownMessages
    /\ \A n \in Nodes : \A i \in DOMAIN mHistory[n] : mHistory[n][i] \in KnownMessages
    /\ \A c \in DOMAIN toClient : \A i \in DOMAIN toClient[c] : toClient[c][i] \in KnownMessages
    /\ \A c \in DOMAIN toHub : \A i \in DOMAIN toHub[c] : toHub[c][i] \in KnownMessages
BY KnownIs

LEMMA KnownTypes == ASSUME WorldInv, NEW m \in KnownMessages PROVE m \in Messages
<1> USE DEF WorldInv, Types
<1>1. \A i \in DOMAIN hubHistory : hubHistory[i] \in Messages
  BY DEF HubTypes
<1>2. \A n \in Nodes : \A i \in DOMAIN mHistory[n] : mHistory[n][i] \in Messages
  BY DEF QueueTypes
<1>3. \A c \in DOMAIN toClient : \A i \in DOMAIN toClient[c] : toClient[c][i] \in Messages
  BY DEF Linked
<1>4. \A c \in DOMAIN toHub : \A i \in DOMAIN toHub[c] : toHub[c][i] \in Messages
  BY DEF Linked
<1> QED
  BY <1>1, <1>2, <1>3, <1>4, KnownIs

LEMMA KnownStep ==
    ASSUME NEW S,
           \A i \in DOMAIN hubHistory' : hubHistory'[i] \in S,
           \A n \in Nodes : \A i \in DOMAIN mHistory'[n] : mHistory'[n][i] \in S,
           \A c \in DOMAIN toClient' : \A i \in DOMAIN toClient'[c] : toClient'[c][i] \in S,
           \A c \in DOMAIN toHub' : \A i \in DOMAIN toHub'[c] : toHub'[c][i] \in S
    PROVE  KnownMessages' \subseteq S
<1> DEFINE A == {hubHistory'[i] : i \in DOMAIN hubHistory'}
           B == UNION {{mHistory'[n][i] : i \in DOMAIN mHistory'[n]} : n \in Nodes}
           C == UNION {{toClient'[c][i] : i \in DOMAIN toClient'[c]} : c \in DOMAIN toClient'}
           D == UNION {{toHub'[c][i] : i \in DOMAIN toHub'[c]} : c \in DOMAIN toHub'}
<1>1. KnownMessages' = A \cup B \cup C \cup D
  BY DEF KnownMessages
<1>2. \A m : m \in A <=> \E i \in DOMAIN hubHistory' : m = hubHistory'[i]
  OBVIOUS
<1>3. \A m : m \in B <=> \E n \in Nodes : \E i \in DOMAIN mHistory'[n] : m = mHistory'[n][i]
  OBVIOUS
<1>4. \A m : m \in C <=>
          \E c \in DOMAIN toClient' : \E i \in DOMAIN toClient'[c] : m = toClient'[c][i]
  OBVIOUS
<1>5. \A m : m \in D <=>
          \E c \in DOMAIN toHub' : \E i \in DOMAIN toHub'[c] : m = toHub'[c][i]
  OBVIOUS
<1> HIDE DEF A, B, C, D
<1> QED
  BY <1>1, <1>2, <1>3, <1>4, <1>5

\* Steps that mint nothing.
LEMMA MintedFrame ==
    ASSUME MintedInv, WorldInv', epoch' = epoch,
           \A m \in KnownMessages' : m \in KnownMessages \/ (m.uid = 0 /\ Named(m.body)),
           \A c \in DOMAIN hubClients' : hubClients'[c].nodeId \in Nodes \cup {0},
           (hubHost' = hubHost /\ hubHistory' = hubHistory) \/ hubHost' = NoHost
    PROVE  MintedInv'
<1> USE DEF MintedInv
<1>1. epoch \in Nat /\ (hubHost # NoHost => epoch # 0)
  BY DEF WorldInv, Types, SpokeTypes, HubEnds
<1>2. UidsOfHubs'
  BY <1>1 DEF UidsOfHubs
<1>3. MintedOnce'
  BY DEF MintedOnce, Minted
<1>4. MintedBelow'
  BY <1>1 DEF MintedBelow
<1>5. Pruned'
  BY <1>1 DEF Pruned
<1>6. GroupNodes'
  BY DEF GroupNodes
<1> QED
  BY <1>2, <1>3, <1>4, <1>5, <1>6

\* What PruneRemoved drops of a pruned history gives way to a later LEAVE.
LEMMA NewestSurvives ==
    ASSUME NEW old \in Seq(Messages), SortedBySeq(old), Unprunable(old),
           NEW news \in Additions(old), NEW i \in DOMAIN old
    PROVE  LET g == PruneRemoved(old \o news) IN
           \E k \in DOMAIN g : old[i].seq <= g[k].seq
<1> DEFINE h == old \o news
           g == PruneRemoved(h)
           m == Len(old)
<1>1. /\ h \in Seq(Messages) /\ m \in Nat /\ DOMAIN old = 1..m
      /\ DOMAIN h = 1..Len(h) /\ Len(h) \in Nat /\ m <= Len(h)
      /\ \A j \in 1..m : j \in DOMAIN h /\ h[j] = old[j]
      /\ \A j \in DOMAIN h : j > m => LastSeq(old) < h[j].seq
  BY Extended
<1>2. \A j \in DOMAIN old : old[j].seq <= LastSeq(old) /\ old[j].seq \in Nat /\ LastSeq(old) \in Nat
  BY LastSeqIsLargest, HistoryElements
<1> HIDE DEF h, m
<1>3. \A j \in Surviving(h) : \E k \in DOMAIN g : g[k] = h[j]
  BY <1>1, PruneProperties
<1> HIDE DEF g
<1>4. i \in DOMAIN h /\ h[i] = old[i]
  BY <1>1
<1>5. CASE i \in Surviving(h)
  BY <1>2, <1>3, <1>4, <1>5 DEF g, h
<1>6. CASE i \notin Surviving(h)
  <2>1. PICK n \in LeftNodes(h) : Prunable({n}, h[i])
    BY <1>4, <1>6, PrunableByOne DEF Surviving
  <2>2. PICK j \in DOMAIN h : IsLeave(h[j]) /\ h[j].body.node = n
    BY DEF LeftNodes
  <2>3. j > m
    <3>1. ASSUME j <= m PROVE FALSE
      <4>1. j \in DOMAIN old /\ h[j] = old[j]
        BY <1>1, <3>1
      <4>2. n \in LeftNodes(old)
        BY <2>2, <4>1 DEF LeftNodes
      <4>3. Prunable(LeftNodes(old), old[i])
        BY <1>4, <2>1, <4>2, PrunableByOne
      <4> QED
        BY <4>3 DEF Unprunable
    <3> QED
      BY <1>1, <3>1
  <2>4. j \in Surviving(h)
    BY <2>2, PrunableByOne DEF Surviving
  <2>5. PICK k \in DOMAIN g : g[k] = h[j]
    BY <1>3, <2>4
  <2>6. g[k].seq \in Nat /\ LastSeq(old) < g[k].seq
    <3>1. h[j].seq \in Nat
      BY <1>1, HistoryElements
    <3> QED
      BY <1>1, <2>3, <2>5, <3>1
  <2> QED
    BY <1>2, <2>6 DEF g, h
<1> QED
  BY <1>5, <1>6

\* Where the messages come from that are known when something is settled.
LEMMA SettlingKnows ==
    ASSUME WorldInv, NEW news, NEW clients, NEW nextSeq, Settling(news, clients, nextSeq)
    PROVE  /\ \A k \in DOMAIN hubHistory' :
                 \/ \E i \in DOMAIN hubHistory : hubHistory'[k] = hubHistory[i]
                 \/ \E i \in DOMAIN news : hubHistory'[k] = news[i]
           /\ \A c \in DOMAIN toClient' : \A j \in DOMAIN toClient'[c] :
                 \/ \E i \in DOMAIN toClient[c] : toClient'[c][j] = toClient[c][i]
                 \/ \E k \in DOMAIN hubHistory' : toClient'[c][j] = hubHistory'[k]
           /\ Unprunable(hubHistory')
<1> DEFINE h == hubHistory \o news
           g == PruneRemoved(h)
<1>1. /\ hubHistory' = g /\ g \in Seq(Messages) /\ DOMAIN toClient' = DOMAIN toClient
      /\ \A c \in DOMAIN toClient \ DOMAIN clients : toClient'[c] = toClient[c]
      /\ \A c \in DOMAIN clients \cap DOMAIN toClient :
            toClient'[c] = toClient[c] \o SubsequenceAt(hubHistory', Unsent(hubHistory', clients[c].seq))
  BY SettlingDoes
<1>2. hubHistory \in Seq(Messages) /\ news \in Seq(Messages) /\ h \in Seq(Messages)
  BY HubFacts DEF Settling, Additions
<1>3. ASSUME NEW i \in DOMAIN h
      PROVE  \/ \E j \in DOMAIN hubHistory : h[i] = hubHistory[j]
             \/ \E j \in DOMAIN news : h[i] = news[j]
  BY <1>2, ConcatElements
<1> HIDE DEF h
<1>4. /\ \A k \in DOMAIN g : Kth(Surviving(h), k) \in Surviving(h) /\ g[k] = h[Kth(Surviving(h), k)]
      /\ \A k \in DOMAIN g : ~Prunable(LeftNodes(h), g[k])
  BY <1>2, PruneProperties
<1>5. \A k \in DOMAIN g : \E i \in DOMAIN h : g[k] = h[i]
  BY <1>4 DEF Surviving
<1> HIDE DEF g
<1>6. Unprunable(g)
  <2>1. LeftNodes(g) \subseteq LeftNodes(h)
    BY <1>5 DEF LeftNodes
  <2> QED
    BY <1>4, <2>1, PrunableByOne DEF Unprunable
<1>7. ASSUME NEW c \in DOMAIN toClient', NEW j \in DOMAIN toClient'[c]
      PROVE  \/ \E i \in DOMAIN toClient[c] : toClient'[c][j] = toClient[c][i]
             \/ \E k \in DOMAIN g : toClient'[c][j] = g[k]
  <2>1. toClient[c] \in Seq(Messages)
    BY <1>1 DEF WorldInv, Types, Linked
  <2>2. CASE c \notin DOMAIN clients
    BY <1>1, <2>2
  <2>3. CASE c \in DOMAIN clients
    <3> DEFINE S == Unsent(g, clients[c].seq)
               r == SubsequenceAt(g, S)
    <3>1. S \in SUBSET DOMAIN g
      BY DEF Unsent
    <3>2. toClient'[c] = toClient[c] \o r
      BY <1>1, <2>3
    <3> HIDE DEF S
    <3>3. r \in Seq(Messages) /\ \A k \in DOMAIN r : Kth(S, k) \in S /\ r[k] = g[Kth(S, k)]
      BY <1>1, <3>1, SubsequenceProperties
    <3> HIDE DEF r
    <3>4. \/ j \in DOMAIN toClient[c] /\ toClient'[c][j] = toClient[c][j]
          \/ \E k \in DOMAIN r : toClient'[c][j] = r[k]
      BY <2>1, <3>2, <3>3, ConcatElements
    <3> QED
      BY <3>1, <3>3, <3>4
  <2> QED
    BY <2>2, <2>3
<1> QED
  BY <1>1, <1>3, <1>5, <1>6, <1>7

\* Steps of the hub.
LEMMA MintedSettles ==
    ASSUME MintedInv, WorldInv', hubHost # NoHost,
           UNCHANGED <<hubHost, epoch, mHistory>>,
           NEW news, NEW clients, NEW nextSeq, Settling(news, clients, nextSeq),
           \A c \in DOMAIN toHub' : \A i \in DOMAIN toHub'[c] : toHub'[c][i] \in KnownMessages,
           \A i \in DOMAIN news :
              news[i] \in KnownMessages \/ (news[i].uid \in {0, epoch} /\ Named(news[i].body)),
           \A c \in DOMAIN clients : clients[c].nodeId \in Nodes \cup {0}
    PROVE  MintedInv'
<1> USE DEF MintedInv
<1> DEFINE S == KnownMessages \cup {hubHistory'[k] : k \in DOMAIN hubHistory'}
<1>1. /\ \A k \in DOMAIN hubHistory' :
             \/ \E i \in DOMAIN hubHistory : hubHistory'[k] = hubHistory[i]
             \/ \E i \in DOMAIN news : hubHistory'[k] = news[i]
      /\ \A c \in DOMAIN toClient' : \A j \in DOMAIN toClient'[c] :
             \/ \E i \in DOMAIN toClient[c] : toClient'[c][j] = toClient[c][i]
             \/ \E k \in DOMAIN hubHistory' : toClient'[c][j] = hubHistory'[k]
      /\ Unprunable(hubHistory')
  BY SettlingKnows
<1>2. DOMAIN toClient' = DOMAIN toClient /\ hubHistory' = PruneRemoved(hubHistory \o news)
  BY SettlingDoes
<1>3. KnownMessages' \subseteq S
  <2>1. \A i \in DOMAIN hubHistory' : hubHistory'[i] \in S
    OBVIOUS
  <2>2. \A n \in Nodes : \A i \in DOMAIN mHistory'[n] : mHistory'[n][i] \in S
    BY KnownFrom
  <2>3. \A c \in DOMAIN toClient' : \A i \in DOMAIN toClient'[c] : toClient'[c][i] \in S
    BY <1>1, <1>2, KnownFrom
  <2>4. \A c \in DOMAIN toHub' : \A i \in DOMAIN toHub'[c] : toHub'[c][i] \in S
    OBVIOUS
  <2> HIDE DEF S
  <2> QED
    BY <2>1, <2>2, <2>3, <2>4, KnownStep
<1>4. /\ news \in Additions(hubHistory) /\ hubHistory \in Seq(Messages) /\ SortedBySeq(hubHistory)
      /\ \A i \in DOMAIN hubHistory : hubHistory[i].seq <= LastSeq(hubHistory)
      /\ LastSeq(hubHistory) \in Nat
  BY HubFacts DEF Settling
<1>5. news \in Seq(Messages) /\ StrictlySortedBySeq(news)
      /\ \A i \in DOMAIN news : LastSeq(hubHistory) < news[i].seq
  BY <1>4 DEF Additions
<1>6. epoch \in Nat /\ \A m \in KnownMessages : m \in Messages /\ m.seq \in Nat /\ m.uid \in Nat
  BY KnownTypes DEF WorldInv, Types, SpokeTypes, Messages
<1>7. ASSUME NEW m \in KnownMessages', m \notin KnownMessages
      PROVE  /\ \E i \in DOMAIN news : m = news[i]
             /\ \E k \in DOMAIN hubHistory' : m = hubHistory'[k]
             /\ m.uid \in {0, epoch} /\ LastSeq(hubHistory) < m.seq /\ m.seq \in Nat
             /\ Named(m.body)
  <2>1. PICK k \in DOMAIN hubHistory' : m = hubHistory'[k]
    BY <1>3, <1>7
  <2>2. PICK i \in DOMAIN news : m = news[i]
    BY <1>1, <1>7, <2>1, KnownFrom
  <2>3. news[i] \in Messages
    BY <1>5
  <2> QED
    BY <1>5, <1>7, <2>1, <2>2, <2>3 DEF Messages
<1> HIDE DEF S
<1>8. UidsOfHubs'
  BY <1>6, <1>7 DEF UidsOfHubs
<1>9. ASSUME NEW m \in KnownMessages, m.uid = epoch PROVE m.seq <= LastSeq(hubHistory)
  <2>1. PICK i \in DOMAIN hubHistory : m.seq <= hubHistory[i].seq
    BY <1>9 DEF MintedBelow
  <2>2. hubHistory[i].seq \in Nat /\ hubHistory[i].seq <= LastSeq(hubHistory)
    BY <1>4, HistoryElements
  <2> QED
    BY <1>4, <1>6, <2>1, <2>2
<1>10. MintedOnce'
  <2>1. ASSUME NEW m \in KnownMessages', NEW k \in KnownMessages', Minted(m),
               m.seq = k.seq, m.uid = k.uid
        PROVE  m = k
    <3>1. CASE m \in KnownMessages /\ k \in KnownMessages
      BY <2>1, <3>1 DEF MintedOnce
    <3>2. CASE m \notin KnownMessages /\ k \in KnownMessages
      BY <1>4, <1>6, <1>7, <1>9, <2>1, <3>2 DEF Minted
    <3>3. CASE m \in KnownMessages /\ k \notin KnownMessages
      BY <1>4, <1>6, <1>7, <1>9, <2>1, <3>3 DEF Minted
    <3>4. CASE m \notin KnownMessages /\ k \notin KnownMessages
      <4>1. PICK i \in DOMAIN news, j \in DOMAIN news : m = news[i] /\ k = news[j]
        BY <1>7, <3>4
      <4>2. i \in Nat /\ j \in Nat /\ news[i].seq \in Nat /\ news[j].seq \in Nat
        BY <1>5, HistoryElements
      <4>3. i = j
        BY <1>5, <2>1, <4>1, <4>2 DEF StrictlySortedBySeq
      <4> QED
        BY <4>1, <4>3
    <3> QED
      BY <3>1, <3>2, <3>3, <3>4
  <2> QED
    BY <2>1 DEF MintedOnce, Minted
<1>11. MintedBelow'
  <2> SUFFICES ASSUME NEW m \in KnownMessages', m.uid = epoch
               PROVE  \E k \in DOMAIN hubHistory' : m.seq <= hubHistory'[k].seq
    BY DEF MintedBelow
  <2>1. CASE m \notin KnownMessages
    BY <1>7, <2>1
  <2>2. CASE m \in KnownMessages
    <3>1. Unprunable(hubHistory)
      BY <2>2 DEF Pruned
    <3>2. PICK i \in DOMAIN hubHistory : m.seq <= hubHistory[i].seq
      BY <2>2 DEF MintedBelow
    <3>3. PICK k \in DOMAIN hubHistory' : hubHistory[i].seq <= hubHistory'[k].seq
      BY <1>2, <1>4, <3>1, NewestSurvives
    <3>4. hubHistory[i].seq \in Nat /\ hubHistory'[k].seq \in Nat
      <4>1. hubHistory' \in Seq(Messages)
        BY SettlingDoes
      <4> QED
        BY <1>4, <4>1, HistoryElements
    <3> QED
      BY <1>6, <2>2, <3>2, <3>3, <3>4
  <2> QED
    BY <2>1, <2>2
<1>12. Pruned'
  BY <1>1 DEF Pruned
<1>13. GroupNodes'
  <2>1. \A c \in DOMAIN hubClients' : hubClients'[c].nodeId = clients[c].nodeId /\ c \in DOMAIN clients
    BY SettlingDoes
  <2> QED
    BY <1>7, <2>1 DEF GroupNodes
<1> QED
  BY <1>8, <1>10, <1>11, <1>12, <1>13

\* What a spoke writes.
LEMMA WrittenIs ==
    ASSUME WorldInv, NEW k \in DOMAIN toHub, NEW packets \in Seq(Messages),
           toHub' = Written(k, packets) \/ toHub' = toHub
    PROVE  \A c \in DOMAIN toHub' : \A i \in DOMAIN toHub'[c] :
              toHub'[c][i] \in KnownMessages \/ \E j \in DOMAIN packets : toHub'[c][i] = packets[j]
<1>1. toHub \in [DOMAIN toHub -> Seq(Messages)]
  BY DEF WorldInv, Types, Linked
<1>2. CASE toHub' = toHub
  BY <1>2, KnownFrom
<1>3. CASE toHub' = [toHub EXCEPT ![k] = @ \o packets]
  <2>1. toHub'[k] = toHub[k] \o packets /\ DOMAIN toHub' = DOMAIN toHub
        /\ \A c \in DOMAIN toHub : c # k => toHub'[c] = toHub[c]
    BY <1>1, <1>3
  <2>2. toHub[k] \in Seq(Messages)
    BY <1>1
  <2>3. \A i \in DOMAIN toHub'[k] :
           \/ i \in DOMAIN toHub[k] /\ toHub'[k][i] = toHub[k][i]
           \/ \E j \in DOMAIN packets : toHub'[k][i] = packets[j]
    BY <2>1, <2>2, ConcatElements
  <2> QED
    BY <2>1, <2>3, KnownFrom
<1> QED
  BY <1>2, <1>3 DEF Written

\* Steps of the spokes: what they send is known already or has no uid.
LEMMA MintedSends ==
    ASSUME MintedInv, WorldInv',
           UNCHANGED <<hubHost, hubHistory, hubClients, mHistory, toClient, epoch>>,
           \A c \in DOMAIN toHub' : \A i \in DOMAIN toHub'[c] :
              \/ toHub'[c][i] \in KnownMessages
              \/ toHub'[c][i] \in Messages /\ toHub'[c][i].uid = 0 /\ Named(toHub'[c][i].body)
    PROVE  MintedInv'
<1> DEFINE S == KnownMessages \cup {m \in Messages : m.uid = 0 /\ Named(m.body)}
<1>1. \A c \in DOMAIN toHub' : \A i \in DOMAIN toHub'[c] : toHub'[c][i] \in S
  OBVIOUS
<1>2. \A m \in S : m \in KnownMessages \/ (m.uid = 0 /\ Named(m.body))
  OBVIOUS
<1>3. KnownMessages \subseteq S
  OBVIOUS
<1> HIDE DEF S
<1>4. KnownMessages' \subseteq S
  BY <1>1, <1>3, KnownFrom, KnownStep
<1> QED
  BY <1>2, <1>4, MintedFrame DEF MintedInv, GroupNodes

LEMMA MovesMintNothing ==
    ASSUME MintedInv, WorldInv', NEW n \in Nodes,
           StartNode(n) \/ ((ConnectFails(n) \/ Wait(n) \/ Attach(n) \/ WaitReturns(n) \/ Connect(n))
                             /\ UNCHANGED <<hubVars, epoch, called>>)
    PROVE  MintedInv'
<1>1. UNCHANGED <<hubHost, hubHistory, hubClients, mHistory, toClient, epoch>>
  BY DEF StartNode, Start, ConnectFails, Wait, Attach, WaitReturns, Connect, viewVars, udsVars, hubVars
<1>2. toHub' = toHub \/ toHub' = With(toHub, NextConn, <<>>)
  BY DEF StartNode, Start, ConnectFails, Wait, Attach, WaitReturns, Connect, OpenConnection, udsVars
<1>3. \A c \in DOMAIN toHub' : \A i \in DOMAIN toHub'[c] : toHub'[c][i] \in KnownMessages
  <2>1. CASE toHub' = toHub
    BY <2>1, KnownFrom
  <2>2. CASE toHub' = With(toHub, NextConn, <<>>)
    <3>1. \A c \in DOMAIN toHub' : (c \in DOMAIN toHub /\ toHub'[c] = toHub[c]) \/ toHub'[c] = <<>>
      BY <2>2 DEF With
    <3>2. DOMAIN <<>> = {}
      OBVIOUS
    <3> QED
      BY <3>1, <3>2, KnownFrom
  <2> QED
    BY <1>2, <2>1, <2>2
<1> QED
  BY <1>1, <1>3, MintedSends

LEMMA IntroductionUnnumbered ==
    ASSUME NEW n \in Nat, NEW e, NodeKnown(e),
           NEW pubOrder \in Orders(DOMAIN e.pubs), NEW subOrder \in Orders(e.subs)
    PROVE  \A i \in DOMAIN Introduction(n, e.pubs, pubOrder, subOrder) :
              /\ Introduction(n, e.pubs, pubOrder, subOrder)[i].seq = 0
              /\ Introduction(n, e.pubs, pubOrder, subOrder)[i].uid = 0
              /\ Introduction(n, e.pubs, pubOrder, subOrder)[i].body.node = n
<1> DEFINE lastMime == IF pubOrder = <<>> THEN "" ELSE e.pubs[pubOrder[Len(pubOrder)]]
           a == <<Message(0, 0, NodeChange("JOIN", n))>>
           b == [j \in DOMAIN pubOrder |->
                    Message(0, 0, TopicChange("ANNOUNCE", n, pubOrder[j], e.pubs[pubOrder[j]]))]
           c == [j \in DOMAIN subOrder |->
                    Message(0, 0, TopicChange("SUBSCRIBE", n, subOrder[j], lastMime))]
<1>1. pubOrder \in Seq(DOMAIN e.pubs) /\ subOrder \in Seq(e.subs)
  BY IntroductionType
<1>2. DOMAIN pubOrder = 1..Len(pubOrder) /\ Len(pubOrder) \in Nat
      /\ DOMAIN subOrder = 1..Len(subOrder) /\ Len(subOrder) \in Nat
  BY <1>1
<1> DEFINE T == {m \in {a[1]} \cup {b[j] : j \in DOMAIN pubOrder} \cup {c[j] : j \in DOMAIN subOrder} :
                     m.seq = 0 /\ m.uid = 0 /\ m.body.node = n}
<1>3. /\ a[1].seq = 0 /\ a[1].uid = 0 /\ a[1].body.node = n
      /\ \A j \in DOMAIN pubOrder : b[j].seq = 0 /\ b[j].uid = 0 /\ b[j].body.node = n
  BY DEF Message, NodeChange, TopicChange
<1>4. \A j \in DOMAIN subOrder : c[j].seq = 0 /\ c[j].uid = 0 /\ c[j].body.node = n
  BY DEF Message, TopicChange
<1>5. a \in Seq(T)
  BY <1>3
<1>6. b \in Seq(T) /\ c \in Seq(T)
  <2>1. b \in [1..Len(pubOrder) -> T] /\ c \in [1..Len(subOrder) -> T]
    BY <1>2, <1>3, <1>4
  <2> HIDE DEF a, b, c, T
  <2> QED
    BY <1>2, <2>1, FunctionIsSeq
<1>7. Introduction(n, e.pubs, pubOrder, subOrder) = a \o b \o c
  BY DEF Introduction
<1>8. \A m \in T : m.seq = 0 /\ m.uid = 0 /\ m.body.node = n
  OBVIOUS
<1> HIDE DEF a, b, c, T
<1>9. a \o b \o c \in Seq(T)
  BY <1>5, <1>6
<1> QED
  BY <1>7, <1>8, <1>9

LEMMA IntroduceMintsNothing ==
    ASSUME MintedInv, WorldInv', NEW n \in Nodes, IntroduceOurselves(n), UNCHANGED <<hubVars, epoch, called>>
    PROVE  MintedInv'
<1>1. WorldInv /\ n \in Nat
  BY NodeFacts DEF MintedInv
<1>2. PICK e, pubOrder, subOrder :
         /\ NodeKnown(e) /\ pubOrder \in Orders(DOMAIN e.pubs) /\ subOrder \in Orders(e.subs)
         /\ Introduction(n, e.pubs, pubOrder, subOrder) \in Seq(Messages)
         /\ mHistory[n] \in Seq(Messages)
         /\ toHub' = Written(client[n], mHistory[n] \o Introduction(n, e.pubs, pubOrder, subOrder))
  BY <1>1, IntroductionOf, Zenon
<1> DEFINE intro == Introduction(n, e.pubs, pubOrder, subOrder)
           packets == mHistory[n] \o intro
<1>3. \A i \in DOMAIN intro : intro[i].uid = 0 /\ intro[i].body.node = n
  <2>1. n \in Nat /\ NodeKnown(e) /\ pubOrder \in Orders(DOMAIN e.pubs) /\ subOrder \in Orders(e.subs)
    BY <1>1, <1>2
  <2> QED
    BY <2>1, IntroductionUnnumbered
<1>4. client[n] \in DOMAIN toHub
  BY <1>1 DEF IntroduceOurselves, WorldInv, Types, LoopHolds, Connected, ClientTypes
<1>5. UNCHANGED <<hubHost, hubHistory, hubClients, mHistory, toClient, epoch>>
  BY DEF IntroduceOurselves, viewVars, hubVars
<1> HIDE DEF intro
<1>6. intro \in Seq(Messages) /\ mHistory[n] \in Seq(Messages) /\ packets \in Seq(Messages)
  BY <1>2 DEF intro
<1>7. \A j \in DOMAIN packets :
         \/ \E i \in DOMAIN mHistory[n] : packets[j] = mHistory[n][i]
         \/ \E i \in DOMAIN intro : packets[j] = intro[i]
  BY <1>6, ConcatHolds
<1>8. \A j \in DOMAIN packets : packets[j] \in Messages
  BY <1>6
<1> HIDE DEF packets
<1>9. \A c \in DOMAIN toHub' : \A i \in DOMAIN toHub'[c] :
         toHub'[c][i] \in KnownMessages \/ \E j \in DOMAIN packets : toHub'[c][i] = packets[j]
  BY <1>1, <1>2, <1>4, <1>6, WrittenIs DEF intro, packets
<1>10. \A j \in DOMAIN packets :
          packets[j] \in KnownMessages \/ (packets[j].uid = 0 /\ Named(packets[j].body))
  BY <1>3, <1>7, KnownFrom, NodesAssumption DEF Named
<1> QED
  BY <1>5, <1>8, <1>9, <1>10, MintedSends

LEMMA SendMintsNothing ==
    ASSUME MintedInv, WorldInv', NEW n \in Nodes,
           NEW msg \in Messages, msg.uid = 0, Named(msg.body), Send(n, msg),
           UNCHANGED <<hubHost, hubHistory, hubClients, mHistory, toClient, epoch>>
    PROVE  MintedInv'
<1>1. WorldInv
  BY DEF MintedInv
<1>2. <<msg>> \in Seq(Messages) /\ \A j \in DOMAIN <<msg>> : <<msg>>[j] = msg
  OBVIOUS
<1>3. CASE toHub' = toHub
  BY <1>3, KnownFrom, MintedSends
<1>4. CASE mClient[n] # 0 /\ toHub' = Written(mClient[n], <<msg>>)
  <2>1. mClient[n] \in DOMAIN toHub
    BY <1>1, <1>4 DEF WorldInv, Types, ClientTypes
  <2>2. \A c \in DOMAIN toHub' : \A i \in DOMAIN toHub'[c] :
           toHub'[c][i] \in KnownMessages \/ \E j \in DOMAIN <<msg>> : toHub'[c][i] = <<msg>>[j]
    BY <1>1, <1>2, <1>4, <2>1, WrittenIs
  <2> QED
    BY <1>2, <2>2, MintedSends
<1> QED
  BY <1>3, <1>4 DEF Send

LEMMA CallsMintNothing ==
    ASSUME MintedInv, WorldInv', NEW n \in Nodes,
           (\E body \in Calls[n] : CallOf(n, body))
           \/ (FlushBacklog(n) /\ UNCHANGED <<hubVars, epoch, called>>)
    PROVE  MintedInv'
<1>1. CASE FlushBacklog(n) /\ UNCHANGED <<hubVars, epoch, called>>
  <2>1. unsent[n] # <<>> /\ Send(n, Head(unsent[n])) /\ UNCHANGED <<hubHost, hubHistory, hubClients, mHistory, toClient, epoch>>
    BY <1>1 DEF FlushBacklog, viewVars, hubVars
  <2>2. unsent[n] \in Seq(Messages)
    BY DEF MintedInv, WorldInv, Types, QueueTypes
  <2>3. 1 \in DOMAIN unsent[n] /\ Head(unsent[n]) = unsent[n][1] /\ Head(unsent[n]) \in Messages
    BY <2>1, <2>2
  <2>4. PICK body \in Calls[n] : Head(unsent[n]) = Message(0, 0, body)
    BY <2>3 DEF MintedInv, WorldInv, Backlogs, CallMessages
  <2>5. Head(unsent[n]).uid = 0 /\ Named(Head(unsent[n]).body)
    BY <2>4, CallsAreMessages, NodesAssumption DEF Message, Named
  <2> QED
    BY <2>1, <2>3, <2>5, SendMintsNothing
<1>2. ASSUME NEW body \in Calls[n], CallOf(n, body) PROVE MintedInv'
  <2>1. Send(n, Message(0, 0, body)) /\ UNCHANGED <<hubHost, hubHistory, hubClients, mHistory, toClient, epoch>>
    BY <1>2 DEF CallOf, Call, viewVars, hubVars
  <2>2. Message(0, 0, body) \in Messages
    BY CallsAreMessages
  <2>3. Message(0, 0, body).uid = 0 /\ Named(Message(0, 0, body).body)
    <3>1. body.node = n /\ n # 0
      BY CallsAreMessages, NodesAssumption
    <3> QED
      BY <3>1 DEF Message, Named
  <2> QED
    BY <2>1, <2>2, <2>3, SendMintsNothing
<1> QED
  BY <1>1, <1>2

LEMMA ClientThreadMintsNothing ==
    ASSUME MintedInv, WorldInv', NEW n \in Nodes, ClientThread(n)
    PROVE  MintedInv'
<1>1. WorldInv
  BY DEF MintedInv
<1>2. PICK c : c = client[n]
  OBVIOUS
<1>3. /\ UNCHANGED <<hubHost, hubHistory, hubClients, epoch, toHub>>
      /\ \/ UNCHANGED <<mHistory, toClient>>
         \/ /\ c \in DOMAIN toClient /\ toClient[c] # <<>>
            /\ mHistory' = [mHistory EXCEPT ![n] = Remembered(@, Head(toClient[c]))]
            /\ toClient' = [toClient EXCEPT ![c] = Tail(toClient[c])]
  BY <1>1, <1>2, ClientThreadDoes DEF ApplyUpdate, hubVars
<1>4. CASE UNCHANGED <<mHistory, toClient>>
  BY <1>3, <1>4, KnownFrom, MintedSends
<1>5. CASE /\ c \in DOMAIN toClient /\ toClient[c] # <<>>
           /\ mHistory' = [mHistory EXCEPT ![n] = Remembered(@, Head(toClient[c]))]
           /\ toClient' = [toClient EXCEPT ![c] = Tail(toClient[c])]
  <2> DEFINE K == KnownMessages
  <2>1. K \in SUBSET Messages
    BY <1>1, KnownTypes
  <2>2. mHistory[n] \in Seq(K)
    <3>1. mHistory[n] \in Seq(Messages) /\ \A i \in DOMAIN mHistory[n] : mHistory[n][i] \in K
      BY <1>1, KnownFrom DEF WorldInv, Types, QueueTypes
    <3> HIDE DEF K
    <3> QED
      BY <3>1
  <2>3. /\ toClient[c] \in Seq(Messages) /\ 1 \in DOMAIN toClient[c] /\ Head(toClient[c]) = toClient[c][1]
        /\ \A i \in DOMAIN Tail(toClient[c]) : i + 1 \in DOMAIN toClient[c]
                                               /\ Tail(toClient[c])[i] = toClient[c][i + 1]
    <3>1. toClient[c] \in Seq(Messages)
      BY <1>1, <1>5 DEF WorldInv, Types, Linked
    <3> QED
      BY <1>5, <3>1
  <2>4. Head(toClient[c]) \in K
    BY <1>5, <2>3, KnownFrom
  <2> HIDE DEF K
  <2>5. Remembered(mHistory[n], Head(toClient[c])) \in Seq(K)
    BY <2>1, <2>2, <2>4, RememberedType
  <2>6. /\ mHistory'[n] = Remembered(mHistory[n], Head(toClient[c]))
        /\ \A m \in Nodes : m # n => mHistory'[m] = mHistory[m]
        /\ DOMAIN toClient' = DOMAIN toClient /\ toClient'[c] = Tail(toClient[c])
        /\ \A d \in DOMAIN toClient : d # c => toClient'[d] = toClient[d]
    BY <1>1, <1>5 DEF WorldInv, Types, QueueTypes, Linked
  <2>7. \A m \in Nodes : \A i \in DOMAIN mHistory'[m] : mHistory'[m][i] \in KnownMessages
    BY <2>5, <2>6, KnownFrom DEF K
  <2>8. \A d \in DOMAIN toClient' : \A i \in DOMAIN toClient'[d] : toClient'[d][i] \in KnownMessages
    BY <1>5, <2>3, <2>6, KnownFrom
  <2>9. KnownMessages' \subseteq KnownMessages
    BY <1>3, <2>7, <2>8, KnownFrom, KnownStep
  <2> QED
    BY <1>3, <2>9, MintedFrame DEF MintedInv, GroupNodes
<1> QED
  BY <1>3, <1>4, <1>5

\* A new hub has minted nothing yet.
LEMMA ServeMintsNothing ==
    ASSUME MintedInv, WorldInv', NEW n \in Nodes, ServeGroup(n)
    PROVE  MintedInv'
<1>1. /\ UNCHANGED <<mHistory, toHub, toClient>>
      /\ IF hubHost = NoHost
         THEN hubHistory' = mHistory[n] /\ epoch' = epoch + 1
         ELSE /\ (hubHost' = NoHost /\ hubHistory' = <<>>) \/ UNCHANGED <<hubHost, hubHistory>>
              /\ epoch' = epoch
  BY DEF ServeGroup, Serve, HubCloses, NoHub, viewVars, udsVars, hubVars, Hub!CreateServer
<1>2. KnownMessages' \subseteq KnownMessages
  <2>1. DOMAIN <<>> = {}
    OBVIOUS
  <2> QED
    BY <1>1, <2>1, KnownFrom, KnownStep
<1>3. GroupNodes'
  <2>1. hubClients' = <<>> \/ hubClients' = hubClients
    BY DEF ServeGroup, NoHub, hubVars, Hub!CreateServer
  <2>2. DOMAIN <<>> = {}
    OBVIOUS
  <2> QED
    BY <1>2, <2>1, <2>2 DEF MintedInv, GroupNodes
<1>4. CASE hubHost # NoHost
  BY <1>1, <1>2, <1>3, <1>4, MintedFrame DEF GroupNodes
<1>5. CASE hubHost = NoHost
  <2>1. epoch \in Nat /\ epoch' = epoch + 1 /\ \A m \in KnownMessages : m.uid \in Nat
    BY <1>1, <1>5, KnownTypes DEF MintedInv, WorldInv, Types, SpokeTypes, Messages
  <2>2. \A m \in KnownMessages' : m.uid <= epoch /\ m.uid < epoch'
    BY <1>2, <2>1 DEF MintedInv, UidsOfHubs
  <2>3. UidsOfHubs' /\ MintedBelow' /\ Pruned'
    <3>1. \A m \in KnownMessages' : m.uid <= epoch' /\ m.uid # epoch'
      BY <1>2, <2>1, <2>2
    <3> QED
      BY <3>1 DEF UidsOfHubs, MintedBelow, Pruned
  <2>4. MintedOnce'
    BY <1>2 DEF MintedInv, MintedOnce, Minted
  <2> QED
    BY <1>3, <2>3, <2>4 DEF MintedInv
<1> QED
  BY <1>4, <1>5

LEMMA DeathMintsNothing ==
    ASSUME MintedInv, WorldInv', NEW n \in Nodes, ProcessDies(n)
    PROVE  MintedInv'
<1>1. WorldInv
  BY DEF MintedInv
<1>2. /\ mHistory' = [mHistory EXCEPT ![n] = <<>>]
      /\ UNCHANGED <<toHub, toClient, epoch>>
      /\ (hubHost' = NoHost /\ hubHistory' = <<>>) \/ UNCHANGED <<hubHost, hubHistory>>
  BY <1>1, DeathDoes DEF NoHub, hubVars
<1>3. DOMAIN <<>> = {} /\ mHistory \in [Nodes -> Seq(Messages)]
  BY <1>1 DEF WorldInv, Types, QueueTypes
<1>4. \A m \in Nodes : \A i \in DOMAIN mHistory'[m] : mHistory'[m][i] \in KnownMessages
  BY <1>2, <1>3, KnownFrom
<1>5. \A i \in DOMAIN hubHistory' : hubHistory'[i] \in KnownMessages
  BY <1>2, <1>3, KnownFrom
<1>6. KnownMessages' \subseteq KnownMessages
  BY <1>2, <1>4, <1>5, KnownFrom, KnownStep
<1>7. hubClients' = <<>> \/ hubClients' = hubClients
  BY <1>1, DeathDoes DEF NoHub, hubVars
<1> QED
  BY <1>2, <1>3, <1>6, <1>7, MintedFrame DEF MintedInv, GroupNodes

\* The hub's steps.
LEMMA HubAcceptMintsNothing ==
    ASSUME MintedInv, WorldInv', NEW c \in DOMAIN hubEnd, HubAccept(c)
    PROVE  MintedInv'
<1>1. WorldInv
  BY DEF MintedInv
<1>2. Hub!OnConnect(c) /\ UNCHANGED <<hubHost, mHistory, toHub, epoch>>
  BY DEF HubAccept, managerVars, viewVars
<1>3. c \in Nat
  BY <1>1, ConnFacts DEF WorldInv, Types
<1>4. /\ hubHistory' = hubHistory /\ DOMAIN toClient' = DOMAIN toClient \cup {c}
      /\ toClient'[c] = hubHistory
      /\ \A f \in DOMAIN toClient : f # c => toClient'[f] = toClient[f]
      /\ DOMAIN hubClients' = DOMAIN hubClients \cup {c} /\ hubClients'[c].nodeId = 0
      /\ \A f \in DOMAIN hubClients : f # c => hubClients'[f] = hubClients[f]
  BY <1>1, <1>2, <1>3, OnConnectDoes
<1>5. \A d \in DOMAIN toClient' : \A i \in DOMAIN toClient'[d] : toClient'[d][i] \in KnownMessages
  BY <1>4, KnownFrom
<1>6. KnownMessages' \subseteq KnownMessages
  BY <1>2, <1>4, <1>5, KnownFrom, KnownStep
<1>7. \A d \in DOMAIN hubClients' : hubClients'[d].nodeId \in Nodes \cup {0}
  BY <1>4 DEF MintedInv, GroupNodes
<1> QED
  BY <1>2, <1>4, <1>6, <1>7, MintedFrame

LEMMA HubReadMints ==
    ASSUME MintedInv, WorldInv', NEW c \in DOMAIN hubEnd, HubRead(c) \/ HubReadLast(c)
    PROVE  MintedInv'
<1>1. WorldInv
  BY DEF MintedInv
<1>2. PICK msg : msg = Head(toHub[c])
  OBVIOUS
<1>3. /\ c \in DOMAIN hubClients /\ c \in DOMAIN toHub /\ msg \in Messages
      /\ msg = toHub[c][1] /\ 1 \in DOMAIN toHub[c]
      /\ Hub!OnData(c, msg, epoch) /\ epoch \in Nat /\ hubHost # NoHost
      /\ UNCHANGED <<hubHost, mHistory, epoch>>
      /\ DOMAIN toHub' = DOMAIN toHub
      /\ \A i \in DOMAIN toHub'[c] : i + 1 \in DOMAIN toHub[c] /\ toHub'[c][i] = toHub[c][i + 1]
      /\ \A d \in DOMAIN toHub : d # c => toHub'[d] = toHub[d]
  BY <1>1, <1>2, HubReadDoes DEF managerVars, viewVars
<1>4. msg \in KnownMessages
  BY <1>3, KnownFrom
<1>5. \A d \in DOMAIN toHub' : \A i \in DOMAIN toHub'[d] : toHub'[d][i] \in KnownMessages
  BY <1>3, KnownFrom
<1>6. CASE UNCHANGED <<hubHistory, hubClients, toClient>>
  BY <1>3, <1>5, <1>6, MintedSends
<1>7. ASSUME NEW news, NEW clients, NEW nextSeq, Settling(news, clients, nextSeq),
             Heard(c, msg, clients),
             news = <<>> \/ news = <<Message(hubNextSeq, epoch, msg.body)>> \/ news = <<msg>>
      PROVE  MintedInv'
  <2>1. /\ Message(hubNextSeq, epoch, msg.body).uid = epoch
        /\ Named(Message(hubNextSeq, epoch, msg.body).body) /\ msg.body.node \in Nodes \cup {0}
    BY <1>4 DEF Message, MintedInv, GroupNodes, Named
  <2>2. \A i \in DOMAIN news :
           news[i] \in KnownMessages \/ (news[i].uid \in {0, epoch} /\ Named(news[i].body))
    BY <1>4, <1>7, <2>1
  <2>3. \A d \in DOMAIN clients : clients[d].nodeId \in Nodes \cup {0}
    BY <1>7, <2>1 DEF Heard, MintedInv, GroupNodes
  <2> QED
    BY <1>3, <1>5, <1>7, <2>2, <2>3, MintedSettles
<1> QED
  BY <1>1, <1>3, <1>6, <1>7, OnDataSettles

LEMMA LeavesMintNothing ==
    ASSUME MintedInv, WorldInv',
           (\E c \in DOMAIN hubEnd : HubHangup(c)) \/ HubPurge
    PROVE  MintedInv'
<1>1. WorldInv
  BY DEF MintedInv
<1>2. UNCHANGED <<hubHost, mHistory, epoch, toHub>>
  BY DEF HubHangup, HubPurge, managerVars, viewVars
<1>3. \A d \in DOMAIN toHub' : \A i \in DOMAIN toHub'[d] : toHub'[d][i] \in KnownMessages
  BY <1>2, KnownFrom
<1>4. ASSUME NEW c \in DOMAIN hubEnd, HubHangup(c) PROVE MintedInv'
  <2>1. Hub!OnDisconnect(c) /\ hubEnd[c] = "open"
    BY <1>4 DEF HubHangup, HubSeesHangup
  <2>2. c \in DOMAIN hubClients /\ hubHost # NoHost
    BY <1>1, <2>1 DEF WorldInv, HubEnds
  <2>3. PICK news, clients, nextSeq :
           /\ Settling(news, clients, nextSeq)
           /\ news = <<Message(hubNextSeq, 0, NodeChange("LEAVE", hubClients[c].nodeId))>>
           /\ DOMAIN clients = DOMAIN hubClients \ {c}
           /\ \A f \in DOMAIN clients : clients[f] = hubClients[f]
    BY <1>1, <2>1, <2>2, OnDisconnectSettles
  <2>4. /\ \A i \in DOMAIN news : news[i].uid \in {0, epoch} /\ Named(news[i].body)
        /\ \A d \in DOMAIN clients : clients[d].nodeId \in Nodes \cup {0}
    <3>1. hubClients[c].nodeId \in Nodes \cup {0}
      BY <2>2 DEF MintedInv, GroupNodes
    <3>2. Named(NodeChange("LEAVE", hubClients[c].nodeId))
      BY <3>1 DEF Named, NodeChange, TopicOps
    <3>3. \A i \in DOMAIN news : news[i] = Message(hubNextSeq, 0, NodeChange("LEAVE", hubClients[c].nodeId))
      BY <2>3
    <3>4. \A d \in DOMAIN clients : clients[d].nodeId \in Nodes \cup {0}
      BY <2>3 DEF MintedInv, GroupNodes
    <3> QED
      BY <3>2, <3>3, <3>4 DEF Message
  <2> QED
    BY <1>2, <1>3, <2>2, <2>3, <2>4, MintedSettles
<1>5. CASE HubPurge
  <2>1. Hub!PurgeDisconnected
    BY <1>5 DEF HubPurge
  <2>2. ~purged
    BY <1>1, <2>1, PurgeSettles
  <2>3. hubHost # NoHost
    BY <1>1, <2>2 DEF WorldInv, HubEnds
  <2>4. PICK nextSeq : \E n \in Nat :
                 \E order \in [1..n -> HistoricallyActive(hubHistory)
                                       \ {hubClients[c].nodeId : c \in DOMAIN hubClients}] :
                    Settling(Leaves(hubNextSeq, n, order), hubClients, nextSeq)
    BY <1>1, <2>1, PurgeSettles
  <2>5. \A k \in HistoricallyActive(hubHistory) : k \in Nodes \cup {0}
    BY KnownFrom DEF HistoricallyActive, MintedInv, GroupNodes, Named
  <2>6. PICK n \in Nat : \E order \in [1..n -> HistoricallyActive(hubHistory)] :
           Settling(Leaves(hubNextSeq, n, order), hubClients, nextSeq)
    BY <2>4
  <2>7. PICK order \in [1..n -> HistoricallyActive(hubHistory)] :
           Settling(Leaves(hubNextSeq, n, order), hubClients, nextSeq)
    BY <2>6
  <2>8. \A i \in DOMAIN Leaves(hubNextSeq, n, order) :
           /\ Leaves(hubNextSeq, n, order)[i].uid \in {0, epoch}
           /\ Named(Leaves(hubNextSeq, n, order)[i].body)
    BY <2>5, <2>7 DEF Leaves, Message, NodeChange, Named, TopicOps
  <2>9. \A c \in DOMAIN hubClients : hubClients[c].nodeId \in Nodes \cup {0}
    BY DEF MintedInv, GroupNodes
  <2> QED
    BY <1>2, <1>3, <2>3, <2>7, <2>8, <2>9, MintedSettles
<1> QED
  BY <1>4, <1>5

LEMMA InitMinted == Init => MintedInv
<1> SUFFICES ASSUME Init PROVE MintedInv
  OBVIOUS
<1>1. WorldInv
  BY InitKeepsWorld
<1>2. DOMAIN <<>> = {}
  OBVIOUS
<1>3. \A m : m \notin KnownMessages
  BY <1>2, KnownIs DEF Init, ManagerInit
<1> QED
  BY <1>1, <1>2, <1>3 DEF MintedInv, UidsOfHubs, MintedOnce, MintedBelow, Pruned, GroupNodes, Init, ManagerInit

LEMMA NextKeepsMinted == ASSUME MintedInv, [Next]_vars PROVE MintedInv'
<1>1. WorldInv'
  BY NextKeepsWorld DEF MintedInv
<1>2. CASE UNCHANGED vars
  <2>1. UNCHANGED <<hubHost, hubHistory, hubClients, mHistory, toClient, epoch, toHub>>
    BY <1>2 DEF vars, managerVars, viewVars, udsVars, hubVars
  <2> QED
    BY <1>1, <2>1, KnownFrom, MintedSends
<1>3. ASSUME NEW n \in Nodes, MainLoop(n) /\ UNCHANGED <<hubVars, epoch, called>>
      PROVE  MintedInv'
  BY <1>1, <1>3, MovesMintNothing, IntroduceMintsNothing, CallsMintNothing DEF MainLoop
<1>4. ASSUME NEW n \in Nodes,
             ServeGroup(n) \/ ClientThread(n) \/ StartNode(n) \/ ProcessDies(n)
             \/ \E body \in Calls[n] : CallOf(n, body)
      PROVE  MintedInv'
  BY <1>1, <1>4, ServeMintsNothing, ClientThreadMintsNothing, MovesMintNothing, DeathMintsNothing,
     CallsMintNothing
<1>5. ASSUME NEW c \in DOMAIN hubEnd, HubAccept(c) \/ HubRead(c) \/ HubReadLast(c) \/ HubHangup(c)
      PROVE  MintedInv'
  BY <1>1, <1>5, HubAcceptMintsNothing, HubReadMints, LeavesMintNothing
<1>6. CASE HubPurge
  BY <1>1, <1>6, LeavesMintNothing
<1> QED
  BY <1>2, <1>3, <1>4, <1>5, <1>6, Steps

\* A hub's epoch lies above all uids that are known when it is created, and its
\* own messages lie below mHistory's last: whatever AddNovelMessage mints is new.
THEOREM MintedInvariant == Spec => []MintedInv
<1>1. Init => MintedInv
  BY InitMinted
<1>2. MintedInv /\ [Next]_vars => MintedInv'
  BY NextKeepsMinted
<1> QED
  BY <1>1, <1>2, PTL DEF Spec

\* With finitely many nodes, as every group has, the number of messages is finite.
LEMMA FiniteImage ==
    ASSUME NEW S, IsFiniteSet(S), NEW f
    PROVE  IsFiniteSet({f[x] : x \in S})
<1> DEFINE T == {f[x] : x \in S}
           g == [x \in S |-> f[x]]
<1>1. g \in Surjection(S, T)
  BY DEF Surjection
<1> QED
  BY <1>1, FS_Surjection

LEMMA FinitelyManyElements ==
    ASSUME NEW s \in Seq(Messages)
    PROVE  IsFiniteSet({s[i] : i \in DOMAIN s})
<1>1. DOMAIN s = 1..Len(s) /\ Len(s) \in Nat
  OBVIOUS
<1>2. IsFiniteSet(DOMAIN s)
  BY <1>1, PositionsFinite
<1> QED
  BY <1>2, FiniteImage

LEMMA FinitelyManyIn ==
    ASSUME NEW I, IsFiniteSet(I), NEW f, \A n \in I : f[n] \in Seq(Messages)
    PROVE  IsFiniteSet(UNION {{f[n][i] : i \in DOMAIN f[n]} : n \in I})
<1> DEFINE g == [n \in I |-> {f[n][i] : i \in DOMAIN f[n]}]
           T == {g[n] : n \in I}
<1>1. IsFiniteSet(T)
  <2> HIDE DEF g
  <2> QED
    BY FiniteImage
<1>2. \A n \in I : IsFiniteSet({f[n][i] : i \in DOMAIN f[n]})
  BY FinitelyManyElements
<1>3. {{f[n][i] : i \in DOMAIN f[n]} : n \in I} = T
  OBVIOUS
<1>4. \A X \in T : IsFiniteSet(X)
  BY <1>2
<1>5. IsFiniteSet(UNION T)
  <2> HIDE DEF T
  <2> QED
    BY <1>1, <1>4, FS_UNION
<1> HIDE DEF T
<1> QED
  BY <1>3, <1>5

LEMMA FinitelyManyKnown == ASSUME WorldInv, IsFiniteSet(Nodes) PROVE IsFiniteSet(KnownMessages)
<1> USE DEF WorldInv, Types
<1> DEFINE A == {hubHistory[i] : i \in DOMAIN hubHistory}
           B == UNION {{mHistory[n][i] : i \in DOMAIN mHistory[n]} : n \in Nodes}
           C == UNION {{toClient[c][i] : i \in DOMAIN toClient[c]} : c \in DOMAIN toClient}
           D == UNION {{toHub[c][i] : i \in DOMAIN toHub[c]} : c \in DOMAIN toHub}
<1>1. IsFiniteSet(A)
  BY FinitelyManyElements DEF HubTypes
<1>2. IsFiniteSet(DOMAIN toHub) /\ IsFiniteSet(DOMAIN toClient)
  <2>1. PICK k \in 0..MaxConns : DOMAIN toHub = 1..k
    BY DEF Linked
  <2>2. k \in Nat
    BY <2>1, MaxConnsAssumption
  <2>3. DOMAIN toClient \in SUBSET (1..k) /\ DOMAIN toHub \in SUBSET (1..k)
    BY <2>1 DEF Linked
  <2> QED
    BY <2>2, <2>3, PositionsFinite
<1>3. \A n \in Nodes : mHistory[n] \in Seq(Messages)
  BY DEF QueueTypes
<1>4. /\ \A c \in DOMAIN toClient : toClient[c] \in Seq(Messages)
      /\ \A c \in DOMAIN toHub : toHub[c] \in Seq(Messages)
  BY DEF Linked
<1>5. IsFiniteSet(B) /\ IsFiniteSet(C) /\ IsFiniteSet(D)
  <2>1. IsFiniteSet(B)
    BY <1>3, FinitelyManyIn
  <2>2. IsFiniteSet(C)
    BY <1>2, <1>4, FinitelyManyIn
  <2>3. IsFiniteSet(D)
    BY <1>2, <1>4, FinitelyManyIn
  <2> QED
    BY <2>1, <2>2, <2>3
<1>6. KnownMessages = A \cup B \cup C \cup D
  BY DEF KnownMessages
<1> HIDE DEF A, B, C, D
<1>7. IsFiniteSet(A \cup B) /\ IsFiniteSet(C \cup D)
  BY <1>1, <1>5, FS_Union
<1>8. IsFiniteSet((A \cup B) \cup (C \cup D))
  BY <1>7, FS_Union
<1>9. (A \cup B) \cup (C \cup D) = A \cup B \cup C \cup D
  OBVIOUS
<1> QED
  BY <1>6, <1>8, <1>9

\* The pair of seq and uid identifies what a hub has minted from a call, whichever
\* hub of the group minted it and wherever the message has got to: AddOldMessage
\* may take a replayed message for the one it has.
THEOREM MintedMessagesIdentified ==
    ASSUME IsFiniteSet(Nodes)
    PROVE  Spec => []MintedIdentity
<1>1. MintedInv => MintedIdentity
  <2> SUFFICES ASSUME MintedInv PROVE MintedIdentity
    OBVIOUS
  <2> DEFINE minted == {m \in KnownMessages : m.seq # 0 /\ m.uid # 0}
             pairs == {<<m.seq, m.uid>> : m \in minted}
             f == [m \in minted |-> <<m.seq, m.uid>>]
  <2>1. IsFiniteSet(minted)
    BY FinitelyManyKnown, FS_Subset DEF MintedInv
  <2>2. f \in Surjection(minted, pairs)
    BY DEF Surjection
  <2>3. f \in Injection(minted, pairs)
    BY DEF Injection, IsInjective, MintedInv, MintedOnce, Minted
  <2>4. Cardinality(pairs) = Cardinality(minted)
    <3> HIDE DEF f, pairs, minted
    <3> QED
      BY <2>1, <2>2, <2>3, FS_Surjection
  <2> QED
    BY <2>4 DEF MintedIdentity
<1> QED
  BY <1>1, MintedInvariant, PTL

-----------------------------------------------------------------------------
(* A group whose hub stays.                                                *)

\* A copy of what the hub has minted.
Copy(m, h) == m.seq <= LastSeq(h) /\ \A j \in DOMAIN h : h[j].seq = m.seq => h[j] = m

\* What a spoke was sent: all of the hub's history, and beside it what was pruned.
Carries(w, h) ==
    /\ StrictlySortedBySeq(w) /\ Follows(w, h)
    /\ \A j \in DOMAIN h : \E i \in DOMAIN w : w[i] = h[j]
    /\ \A i \in DOMAIN w : Prunable(LeftNodes(h), w[i]) \/ \E j \in DOMAIN h : w[i] = h[j]

\* Where a call of n may be.
NovelKept(n, body) ==
    \/ \E i \in DOMAIN mBacklog[n] : mBacklog[n][i].body = body
    \/ \E i \in DOMAIN unsent[n] : unsent[n][i].body = body
    \/ /\ client[n] # 0
       /\ \/ \E i \in DOMAIN toHub[client[n]] : toHub[client[n]][i].seq = 0 /\ toHub[client[n]][i].body = body
          \/ client[n] \in DOMAIN hubClients /\ body \in hubClients[client[n]].history

Stream(n) == mHistory[n] \o Pending(client[n])

\* A spoke and its one connection.
AtHome(n) ==
    /\ pc[n] # "null"
    /\ client[n] = 0 => mHistory[n] = <<>>
    /\ client[n] # 0 =>
          /\ cliEnd[client[n]] = "open" /\ hubEnd[client[n]] # "closed"
          /\ hubEnd[client[n]] = "backlog" => mHistory[n] = <<>>
          /\ hubEnd[client[n]] = "open" => Carries(Stream(n), hubHistory)
    /\ mClient[n] = IF pc[n] \in {"flush", "wait"} THEN client[n] ELSE 0
    /\ unsent[n] # <<>> => pc[n] = "flush"
    /\ pc[n] # "dead" => \A body \in called[n] : NovelKept(n, body)

OwnClients == \A m, n \in Nodes : client[m] = client[n] /\ client[n] # 0 => m = n

OnlyCopies ==
    \A c \in DOMAIN toHub : \A i \in DOMAIN toHub[c] :
        toHub[c][i].seq = 0 \/ Copy(toHub[c][i], hubHistory)

HubStays ==
    /\ aborted = "no"
    /\ hubHost = NoHost => DOMAIN toHub = {}
    /\ StrictlySortedBySeq(hubHistory) /\ Unprunable(hubHistory)
    /\ \A c \in DOMAIN hubClients : hubClients[c].seq = LastSeq(hubHistory)
    /\ OnlyCopies

StableInv == WorldInv /\ HubStays /\ OwnClients /\ \A n \in Nodes : AtHome(n)

\* What other steps leave alone.
SameNode(n) ==
    /\ pc'[n] = pc[n] /\ client'[n] = client[n] /\ mClient'[n] = mClient[n]
    /\ mHistory'[n] = mHistory[n] /\ unsent'[n] = unsent[n] /\ mBacklog'[n] = mBacklog[n]
    /\ called'[n] = called[n]

SameLink(c) ==
    /\ cliEnd'[c] = cliEnd[c] /\ hubEnd'[c] = hubEnd[c] /\ toHub'[c] = toHub[c]
    /\ c \in DOMAIN toClient' <=> c \in DOMAIN toClient
    /\ c \in DOMAIN toClient => toClient'[c] = toClient[c]

SameClient(c) ==
    /\ c \in DOMAIN hubClients' <=> c \in DOMAIN hubClients
    /\ c \in DOMAIN hubClients => hubClients'[c].history = hubClients[c].history

LEMMA Untouched ==
    ASSUME NEW n \in Nodes, AtHome(n), SameNode(n), hubHistory' = hubHistory,
           client[n] # 0 => SameLink(client[n]) /\ SameClient(client[n])
    PROVE  AtHome(n)'
<1>1. client[n] # 0 => Stream(n)' = Stream(n)
  BY DEF Stream, Pending, SameNode, SameLink
<1>2. ASSUME NEW body, NovelKept(n, body) PROVE NovelKept(n, body)'
  BY <1>2 DEF NovelKept, SameNode, SameLink, SameClient
<1> QED
  BY <1>1, <1>2 DEF AtHome, SameNode, SameLink

LEMMA SpokeFacts ==
    ASSUME WorldInv, NEW n \in Nodes
    PROVE  /\ client[n] \in {0} \cup DOMAIN toHub /\ 0 \notin DOMAIN toHub
           /\ client[n] # 0 <=> pc[n] \in Connected
           /\ pc \in [Nodes -> Labels] /\ client \in [Nodes -> {0} \cup DOMAIN toHub]
           /\ mClient \in [Nodes -> {0} \cup DOMAIN toHub]
           /\ mHistory[n] \in Seq(Messages) /\ unsent[n] \in Seq(Messages) /\ mBacklog[n] \in Seq(Messages)
           /\ mHistory \in [Nodes -> Seq(Messages)] /\ unsent \in [Nodes -> Seq(Messages)]
           /\ mBacklog \in [Nodes -> Seq(Messages)] /\ called \in [Nodes -> SUBSET Bodies]
           /\ DOMAIN hubEnd = DOMAIN toHub /\ DOMAIN cliEnd = DOMAIN toHub
           /\ DOMAIN toClient \subseteq DOMAIN toHub
           /\ toHub \in [DOMAIN toHub -> Seq(Messages)]
           /\ toClient \in [DOMAIN toClient -> Seq(Messages)]
           /\ hubEnd \in [DOMAIN toHub -> {"backlog", "open", "closed"}]
           /\ cliEnd \in [DOMAIN toHub -> {"open", "closed", "reset"}]
           /\ \A c \in DOMAIN hubEnd : hubEnd[c] = "open" <=> c \in DOMAIN hubClients
           /\ hubHistory \in Seq(Messages)
<1>1. 0 \notin DOMAIN toHub
  BY ConnFacts DEF WorldInv, Types
<1> QED
  BY <1>1 DEF WorldInv, Types, ClientTypes, LoopHolds, SpokeTypes, QueueTypes, Linked, HubEnds, HubTypes

\* A step of one spoke.
LEMMA SpokeStep ==
    ASSUME StableInv, WorldInv', NEW n \in Nodes, UNCHANGED hubVars,
           hubHost' = NoHost => DOMAIN toHub' = {},
           \A m \in Nodes \ {n} : SameNode(m),
           \A c \in DOMAIN toHub : c # client[n] => SameLink(c),
           \A c \in DOMAIN toHub' : \A i \in DOMAIN toHub'[c] :
              toHub'[c][i].seq = 0 \/ Copy(toHub'[c][i], hubHistory),
           client'[n] \in {0, client[n]} \/ client'[n] \notin DOMAIN toHub,
           AtHome(n)'
    PROVE  StableInv'
<1>1. WorldInv
  BY DEF StableInv
<1>2. \A m \in Nodes : client[m] \in {0} \cup DOMAIN toHub /\ 0 \notin DOMAIN toHub
  BY <1>1, SpokeFacts
<1>3. UNCHANGED <<hubHistory, hubClients, aborted>>
  BY DEF hubVars
<1>4. ASSUME NEW m \in Nodes, m # n PROVE AtHome(m)'
  <2>1. client[m] # 0 => client[m] # client[n] /\ client[m] \in DOMAIN toHub
    BY <1>2, <1>4 DEF StableInv, OwnClients
  <2>2. client[m] # 0 => SameLink(client[m]) /\ SameClient(client[m])
    BY <1>3, <2>1 DEF SameClient
  <2> QED
    BY <1>3, <1>4, <2>2, Untouched DEF StableInv
<1>5. OwnClients'
  <2>1. ASSUME NEW m \in Nodes, m # n, client'[m] # 0 PROVE client'[m] # client'[n]
    BY <1>2, <2>1 DEF StableInv, OwnClients, SameNode
  <2> QED
    BY <2>1 DEF StableInv, OwnClients, SameNode
<1>6. HubStays'
  BY <1>3 DEF StableInv, HubStays, OnlyCopies
<1> QED
  BY <1>4, <1>5, <1>6 DEF StableInv

\* Steps that touch no connection.
LEMMA LoopStep ==
    ASSUME StableInv, WorldInv', NEW n \in Nodes, UNCHANGED hubVars, UNCHANGED udsVars,
           hubHost' = NoHost => hubHost = NoHost,
           \A m \in Nodes \ {n} : SameNode(m), client'[n] = client[n], AtHome(n)'
    PROVE  StableInv'
<1>1. \A c \in DOMAIN toHub : SameLink(c)
  BY DEF SameLink, udsVars
<1>2. toHub' = toHub
  BY DEF udsVars
<1>3. \A c \in DOMAIN toHub' : \A i \in DOMAIN toHub'[c] :
         toHub'[c][i].seq = 0 \/ Copy(toHub'[c][i], hubHistory)
  BY <1>2 DEF StableInv, HubStays, OnlyCopies
<1>4. hubHost' = NoHost => DOMAIN toHub' = {}
  BY <1>2 DEF StableInv, HubStays
<1> QED
  BY <1>1, <1>3, <1>4, SpokeStep

LEMMA MovesStay ==
    ASSUME StableInv, WorldInv', NEW n \in Nodes, NEW l \in Labels \ {"dead", "null"}, Goto(n, l),
           l \in {"flush", "wait"} <=> pc[n] \in {"flush", "wait"},
           l = "flush" \/ unsent[n] = <<>>, pc[n] # "dead",
           UNCHANGED <<connVars, viewVars, udsVars, hubVars, called>>,
           hubHost' = NoHost => hubHost = NoHost
    PROVE  StableInv'
<1>1. /\ pc \in [Nodes -> Labels] /\ pc' = [pc EXCEPT ![n] = l]
      /\ UNCHANGED <<client, unsent, mClient, mBacklog, mHistory, called, hubHistory, hubClients>>
      /\ UNCHANGED <<toHub, toClient, hubEnd, cliEnd>>
  BY SpokeFacts DEF Goto, connVars, viewVars, hubVars, udsVars, StableInv
<1>2. pc'[n] = l /\ \A m \in Nodes \ {n} : SameNode(m)
  BY <1>1 DEF SameNode
<1>3. AtHome(n)'
  <2>1. Stream(n)' = Stream(n)
    BY <1>1 DEF Stream, Pending
  <2>2. ASSUME NEW body, NovelKept(n, body) PROVE NovelKept(n, body)'
    BY <1>1, <2>2 DEF NovelKept
  <2>3. AtHome(n)
    BY DEF StableInv
  <2> QED
    BY <1>1, <1>2, <2>1, <2>2, <2>3 DEF AtHome
<1> QED
  BY <1>1, <1>2, <1>3, LoopStep

LEMMA StableMoves ==
    ASSUME StableInv, WorldInv', NEW n \in Nodes,
           \/ StartNode(n)
           \/ ((ConnectFails(n) \/ Wait(n)) /\ UNCHANGED <<hubVars, epoch, called>>)
           \/ (ServeGroup(n) /\ hubHost \notin {NoHost, n})
    PROVE  StableInv'
<1>1. WorldInv /\ AtHome(n) /\ LoopHolds
  BY DEF StableInv, WorldInv
<1>2. CASE StartNode(n)
  BY <1>1, <1>2, MovesStay DEF StartNode, Start, Labels, AtHome
<1>3. CASE ConnectFails(n) /\ UNCHANGED <<hubVars, epoch, called>>
  BY <1>1, <1>3, ContinueGoes, MovesStay DEF ConnectFails, Labels, AtHome
<1>4. CASE Wait(n) /\ UNCHANGED <<hubVars, epoch, called>>
  <2>1. pc[n] = "flush" /\ mClient[n] # 0
    BY <1>1, <1>4, SpokeFacts DEF Wait, AtHome, Connected
  <2>2. Goto(n, "wait")
    BY <1>4, <2>1 DEF Wait
  <2> QED
    BY <1>4, <2>1, <2>2, MovesStay DEF Wait, Labels
<1>5. CASE ServeGroup(n) /\ hubHost \notin {NoHost, n}
  BY <1>1, <1>5, ContinueGoes, MovesStay DEF ServeGroup, Serve, Labels, AtHome
<1> QED
  BY <1>2, <1>3, <1>4, <1>5

LEMMA WaitStays == ASSUME StableInv, NEW n \in Nodes PROVE ~WaitReturns(n)
<1>1. WorldInv /\ AtHome(n)
  BY DEF StableInv
<1> QED
  BY <1>1, SpokeFacts DEF WaitReturns, AtHome, Connected

LEMMA StableAttach ==
    ASSUME StableInv, WorldInv', NEW n \in Nodes, Attach(n), UNCHANGED <<hubVars, epoch, called>>
    PROVE  StableInv'
<1>1. WorldInv /\ AtHome(n)
  BY DEF StableInv
<1>2. /\ pc[n] = "attach" /\ pc' = [pc EXCEPT ![n] = "flush"]
      /\ mClient' = [mClient EXCEPT ![n] = client[n]]
      /\ unsent' = [unsent EXCEPT ![n] = mBacklog[n]]
      /\ mBacklog' = [mBacklog EXCEPT ![n] = <<>>]
      /\ UNCHANGED <<client, mHistory, hubHost, udsVars, hubHistory, hubClients, called>>
      /\ UNCHANGED <<toHub, toClient, hubEnd, cliEnd>>
  BY DEF Attach, Goto, viewVars, objVars, hubVars, udsVars
<1>3. /\ pc'[n] = "flush" /\ mClient'[n] = client[n] /\ unsent'[n] = mBacklog[n]
      /\ \A m \in Nodes \ {n} : SameNode(m)
  BY <1>1, <1>2, SpokeFacts DEF SameNode
<1>4. unsent[n] = <<>> /\ DOMAIN <<>> = {}
  BY <1>1, <1>2 DEF AtHome
<1>5. Stream(n)' = Stream(n)
  BY <1>2 DEF Stream, Pending
<1>6. ASSUME NEW body, NovelKept(n, body) PROVE NovelKept(n, body)'
  BY <1>2, <1>3, <1>4, <1>6 DEF NovelKept
<1>7. AtHome(n)'
  BY <1>1, <1>2, <1>3, <1>5, <1>6 DEF AtHome
<1> QED
  BY <1>2, <1>3, <1>7, LoopStep

LEMMA StableConnect ==
    ASSUME StableInv, WorldInv', NEW n \in Nodes, Connect(n), UNCHANGED <<hubVars, epoch, called>>
    PROVE  StableInv'
<1>1. WorldInv /\ AtHome(n) /\ Linked(Messages)
  BY DEF StableInv, WorldInv, Types
<1>2. PICK d : d = NextConn
  OBVIOUS
<1>3. /\ pc[n] = "connect" /\ hubHost # NoHost /\ client' = [client EXCEPT ![n] = d]
      /\ OpenConnection(NextConn) /\ hubEnd' = With(hubEnd, d, "backlog")
      /\ cliEnd' = With(cliEnd, d, "open") /\ toHub' = With(toHub, d, <<>>)
      /\ pc' = [pc EXCEPT ![n] = "introduce"]
      /\ UNCHANGED <<unsent, mClient, mBacklog, mHistory, hubHost, toClient, hubHistory, hubClients, called>>
  BY <1>2 DEF Connect, Goto, viewVars, objVars, OpenConnection, hubVars
<1>4. d \notin DOMAIN toHub /\ d # 0 /\ DOMAIN toHub' = DOMAIN toHub \cup {d}
      /\ DOMAIN hubEnd = DOMAIN toHub /\ DOMAIN cliEnd = DOMAIN toHub
  BY <1>1, <1>2, <1>3, OpenConnectionKeeps, ConnFacts
<1>5. \A c \in DOMAIN toHub : SameLink(c)
  BY <1>3, <1>4 DEF SameLink, With
<1>6. /\ client'[n] = d /\ pc'[n] = "introduce" /\ client[n] = 0
      /\ \A m \in Nodes \ {n} : SameNode(m)
  BY <1>1, <1>3, SpokeFacts DEF SameNode, Connected
<1>7. toHub'[d] = <<>> /\ hubEnd'[d] = "backlog" /\ cliEnd'[d] = "open"
  BY <1>3 DEF With
<1>8. ASSUME NEW body, NovelKept(n, body) PROVE NovelKept(n, body)'
  BY <1>3, <1>6, <1>8 DEF NovelKept
<1>9. AtHome(n)'
  BY <1>1, <1>3, <1>4, <1>6, <1>7, <1>8 DEF AtHome
<1>10. DOMAIN <<>> = {}
  OBVIOUS
<1>11. \A c \in DOMAIN toHub' : \A i \in DOMAIN toHub'[c] :
          toHub'[c][i].seq = 0 \/ Copy(toHub'[c][i], hubHistory)
  <2>1. ASSUME NEW c \in DOMAIN toHub', NEW i \in DOMAIN toHub'[c]
        PROVE  c \in DOMAIN toHub /\ toHub'[c] = toHub[c]
    BY <1>4, <1>5, <1>7, <1>10 DEF SameLink
  <2> QED
    BY <2>1 DEF StableInv, HubStays, OnlyCopies
<1> QED
  BY <1>3, <1>4, <1>5, <1>6, <1>9, <1>11, SpokeStep

\* The step that creates the hub.
LEMMA StableServe ==
    ASSUME StableInv, WorldInv', NEW n \in Nodes, ServeGroup(n), hubHost = NoHost
    PROVE  StableInv'
<1>1. WorldInv /\ \A m \in Nodes : AtHome(m)
  BY DEF StableInv
<1>2. /\ pc[n] = "serve" /\ Goto(n, "connect") /\ hubHost' = n
      /\ UNCHANGED <<client, unsent, mClient, mBacklog, mHistory, toHub, toClient, called>>
      /\ Hub!CreateServer(mHistory[n])
  BY <1>1, NodeFacts, ContinueGoes DEF ServeGroup, Serve, connVars, viewVars, objVars, udsVars, WorldInv
<1>3. DOMAIN toHub = {} /\ \A m \in Nodes : client[m] = 0
  BY <1>1, SpokeFacts DEF StableInv, HubStays
<1>4. mHistory[n] = <<>>
  BY <1>1, <1>3 DEF AtHome
<1>5. hubHistory' = <<>> /\ hubClients' = <<>> /\ aborted' = "no" /\ hubHost' # NoHost
  BY <1>2, <1>4, NodeFacts DEF Hub!CreateServer
<1>6. DOMAIN <<>> = {}
  OBVIOUS
<1>7. HubStays'
  <2>1. StrictlySortedBySeq(hubHistory') /\ Unprunable(hubHistory')
    BY <1>5, <1>6 DEF StrictlySortedBySeq, Unprunable
  <2> QED
    BY <1>2, <1>3, <1>5, <1>6, <2>1 DEF HubStays, OnlyCopies
<1>8. pc' \in [Nodes -> Labels] /\ pc'[n] = "connect" /\ \A m \in Nodes \ {n} : pc'[m] = pc[m]
  BY <1>1, <1>2, SpokeFacts DEF Goto, Labels
<1>9. ASSUME NEW m \in Nodes PROVE AtHome(m)'
  <2>1. ASSUME NEW body, NovelKept(m, body) PROVE NovelKept(m, body)'
    BY <1>2, <1>3, <2>1 DEF NovelKept
  <2> QED
    BY <1>1, <1>2, <1>3, <1>8, <2>1 DEF AtHome
<1>10. OwnClients'
  BY <1>2, <1>3 DEF OwnClients
<1> QED
  BY <1>7, <1>9, <1>10 DEF StableInv

\* What a spoke remembers of a hub that stays.
LEMMA RememberedAreCopies ==
    ASSUME StableInv, NEW n \in Nodes, NEW i \in DOMAIN mHistory[n]
    PROVE  Copy(mHistory[n][i], hubHistory)
<1>1. WorldInv /\ AtHome(n)
  BY DEF StableInv
<1>2. DOMAIN <<>> = {}
  OBVIOUS
<1>3. client[n] # 0 /\ hubEnd[client[n]] = "open"
  BY <1>1, <1>2, SpokeFacts DEF AtHome
<1>4. Follows(Stream(n), hubHistory)
  BY <1>1, <1>3 DEF AtHome, Carries
<1>5. mHistory[n] \in Seq(Messages) /\ Pending(client[n]) \in Seq(Messages)
  BY <1>1, SpokeFacts DEF Pending
<1>6. i \in DOMAIN Stream(n) /\ Stream(n)[i] = mHistory[n][i]
  BY <1>5, ConcatElements DEF Stream
<1> QED
  BY <1>4, <1>6 DEF Follows, Copy

\* A spoke writes to its hub.
LEMMA SendsStay ==
    ASSUME StableInv, WorldInv', NEW n \in Nodes, client[n] # 0, NEW packets \in Seq(Messages),
           toHub' = Written(client[n], packets),
           UNCHANGED <<client, mClient, mHistory, toClient, hubEnd, cliEnd, hubHost, hubVars>>,
           \A m \in Nodes \ {n} : SameNode(m),
           pc'[n] \notin {"null", "dead"}, pc'[n] \in {"flush", "wait"} <=> pc[n] \in {"flush", "wait"},
           unsent'[n] # <<>> => pc'[n] = "flush",
           \A j \in DOMAIN packets : packets[j].seq = 0 \/ Copy(packets[j], hubHistory),
           \A body \in called'[n] :
              \/ \E i \in DOMAIN mBacklog'[n] : mBacklog'[n][i].body = body
              \/ \E i \in DOMAIN unsent'[n] : unsent'[n][i].body = body
              \/ \E j \in DOMAIN packets : packets[j].seq = 0 /\ packets[j].body = body
              \/ \E i \in DOMAIN toHub[client[n]] :
                    toHub[client[n]][i].seq = 0 /\ toHub[client[n]][i].body = body
              \/ client[n] \in DOMAIN hubClients /\ body \in hubClients[client[n]].history
    PROVE  StableInv'
<1>1. WorldInv /\ AtHome(n) /\ OnlyCopies
  BY DEF StableInv, HubStays
<1> DEFINE c == client[n]
<1>2. c \in DOMAIN toHub /\ CanSend(c)
  BY <1>1, SpokeFacts DEF AtHome, CanSend
<1>3. toHub \in [DOMAIN toHub -> Seq(Messages)] /\ toHub[c] \in Seq(Messages)
  BY <1>1, <1>2, SpokeFacts
<1>4. /\ DOMAIN toHub' = DOMAIN toHub /\ toHub'[c] = toHub[c] \o packets
      /\ \A d \in DOMAIN toHub : d # c => toHub'[d] = toHub[d]
  BY <1>2, <1>3 DEF Written
<1>5. UNCHANGED <<hubHistory, hubClients>>
  BY DEF hubVars
<1> HIDE DEF c
<1>6. /\ \A i \in DOMAIN toHub[c] : i \in DOMAIN toHub'[c] /\ toHub'[c][i] = toHub[c][i]
      /\ \A j \in DOMAIN packets : \E i \in DOMAIN toHub'[c] : toHub'[c][i] = packets[j]
      /\ \A i \in DOMAIN toHub'[c] :
            \/ i \in DOMAIN toHub[c] /\ toHub'[c][i] = toHub[c][i]
            \/ \E j \in DOMAIN packets : toHub'[c][i] = packets[j]
  <2> DEFINE q == toHub[c]
  <2>1. /\ \A i \in DOMAIN q : i \in DOMAIN (q \o packets) /\ (q \o packets)[i] = q[i]
        /\ \A j \in DOMAIN packets : \E i \in DOMAIN (q \o packets) : (q \o packets)[i] = packets[j]
        /\ \A i \in DOMAIN (q \o packets) :
              \/ i \in DOMAIN q /\ (q \o packets)[i] = q[i]
              \/ \E j \in DOMAIN packets : (q \o packets)[i] = packets[j]
    <3> q \in Seq(Messages) /\ packets \in Seq(Messages)
      BY <1>3
    <3> HIDE DEF q
    <3> QED
      BY ConcatElements, ConcatHolds
  <2> QED
    BY <1>4, <2>1
<1>7. \A d \in DOMAIN toHub' : \A i \in DOMAIN toHub'[d] :
         toHub'[d][i].seq = 0 \/ Copy(toHub'[d][i], hubHistory)
  <2>1. ASSUME NEW i \in DOMAIN toHub'[c] PROVE toHub'[c][i].seq = 0 \/ Copy(toHub'[c][i], hubHistory)
    BY <1>1, <1>2, <1>6 DEF OnlyCopies
  <2>2. \A d \in DOMAIN toHub : d # c => \A i \in DOMAIN toHub'[d] :
           toHub'[d][i].seq = 0 \/ Copy(toHub'[d][i], hubHistory)
    BY <1>1, <1>4 DEF OnlyCopies
  <2> QED
    BY <1>4, <2>1, <2>2
<1>8. \A d \in DOMAIN toHub : d # c => SameLink(d)
  BY <1>4 DEF SameLink
<1>9. ASSUME NEW body \in called'[n] PROVE NovelKept(n, body)'
  <2>1. client'[n] = c /\ c # 0
    BY DEF c
  <2>2. ASSUME NEW j \in DOMAIN packets, packets[j].seq = 0, packets[j].body = body
        PROVE  NovelKept(n, body)'
    BY <1>6, <2>1, <2>2 DEF NovelKept
  <2>3. ASSUME NEW i \in DOMAIN toHub[c], toHub[c][i].seq = 0, toHub[c][i].body = body
        PROVE  NovelKept(n, body)'
    BY <1>6, <2>1, <2>3 DEF NovelKept
  <2> QED
    BY <1>5, <2>1, <2>2, <2>3 DEF NovelKept, c
<1>10. Stream(n)' = Stream(n)
  BY DEF Stream, Pending
<1>11. AtHome(n)'
  BY <1>1, <1>5, <1>9, <1>10 DEF AtHome, c
<1>12. hubHost' = NoHost => DOMAIN toHub' = {}
  BY <1>4 DEF StableInv, HubStays
<1> QED
  BY <1>5, <1>7, <1>8, <1>11, <1>12, SpokeStep DEF c

LEMMA StableIntroduce ==
    ASSUME StableInv, WorldInv', NEW n \in Nodes, IntroduceOurselves(n), UNCHANGED <<hubVars, epoch, called>>
    PROVE  StableInv'
<1>1. WorldInv /\ AtHome(n) /\ n \in Nat
  BY NodeFacts DEF StableInv
<1>2. PICK e, pubOrder, subOrder :
         /\ NodeKnown(e) /\ pubOrder \in Orders(DOMAIN e.pubs) /\ subOrder \in Orders(e.subs)
         /\ Introduction(n, e.pubs, pubOrder, subOrder) \in Seq(Messages)
         /\ mHistory[n] \in Seq(Messages)
         /\ toHub' = Written(client[n], mHistory[n] \o Introduction(n, e.pubs, pubOrder, subOrder))
  BY <1>1, IntroductionOf, Zenon
<1> DEFINE intro == Introduction(n, e.pubs, pubOrder, subOrder)
           packets == mHistory[n] \o intro
<1>3. \A i \in DOMAIN intro : intro[i].seq = 0
  <2>1. n \in Nat /\ NodeKnown(e) /\ pubOrder \in Orders(DOMAIN e.pubs) /\ subOrder \in Orders(e.subs)
    BY <1>1, <1>2
  <2> QED
    BY <2>1, IntroductionUnnumbered
<1>4. intro \in Seq(Messages) /\ mHistory[n] \in Seq(Messages) /\ toHub' = Written(client[n], packets)
  BY <1>2
<1> HIDE DEF intro
<1>5. /\ packets \in Seq(Messages)
      /\ \A j \in DOMAIN packets : \/ \E i \in DOMAIN mHistory[n] : packets[j] = mHistory[n][i]
                                   \/ \E i \in DOMAIN intro : packets[j] = intro[i]
  BY <1>4, ConcatElements, ConcatHolds
<1> HIDE DEF packets
<1>6. \A j \in DOMAIN packets : packets[j].seq = 0 \/ Copy(packets[j], hubHistory)
  BY <1>3, <1>5, RememberedAreCopies
<1>7. /\ pc[n] = "introduce" /\ Goto(n, "attach")
      /\ UNCHANGED <<client, unsent, mClient, mBacklog, mHistory, toClient, hubEnd, cliEnd, hubHost, called>>
  BY DEF IntroduceOurselves, connVars, viewVars
<1>8. client[n] # 0 /\ unsent[n] = <<>>
  BY <1>1, <1>7, SpokeFacts DEF AtHome, Connected
<1>9. pc'[n] = "attach" /\ \A m \in Nodes \ {n} : SameNode(m)
  BY <1>1, <1>7, SpokeFacts DEF Goto, SameNode
<1>10. \A body \in called'[n] : NovelKept(n, body)
  BY <1>1, <1>7 DEF AtHome
<1> QED
  BY <1>4, <1>5, <1>6, <1>7, <1>8, <1>9, <1>10, SendsStay DEF NovelKept

\* Send, with a client.
LEMMA SendAtHome ==
    ASSUME StableInv, NEW n \in Nodes, NEW msg, Send(n, msg)
    PROVE  IF pc[n] \in {"flush", "wait"}
           THEN client[n] # 0 /\ toHub' = Written(client[n], <<msg>>) /\ UNCHANGED <<mClient, mBacklog>>
           ELSE /\ UNCHANGED <<mClient, toHub>>
                /\ mBacklog' = [mBacklog EXCEPT ![n] = Append(mBacklog[n], msg)]
<1>1. WorldInv /\ AtHome(n)
  BY DEF StableInv
<1>2. CASE pc[n] \in {"flush", "wait"}
  <2>1. client[n] # 0 /\ mClient[n] = client[n] /\ CanSend(client[n])
    BY <1>1, <1>2, SpokeFacts DEF AtHome, Connected, CanSend
  <2> QED
    BY <1>2, <2>1 DEF Send
<1>3. CASE pc[n] \notin {"flush", "wait"}
  <2>1. mClient[n] = 0 /\ mClient \in [Nodes -> {0} \cup DOMAIN toHub]
    BY <1>1, <1>3, SpokeFacts DEF AtHome
  <2>2. [mClient EXCEPT ![n] = 0] = mClient
    BY <2>1
  <2> QED
    BY <1>3, <2>1, <2>2 DEF Send
<1> QED
  BY <1>2, <1>3

LEMMA StableFlush ==
    ASSUME StableInv, WorldInv', NEW n \in Nodes, FlushBacklog(n), UNCHANGED <<hubVars, epoch, called>>
    PROVE  StableInv'
<1>1. WorldInv /\ AtHome(n)
  BY DEF StableInv
<1>2. /\ pc[n] = "flush" /\ unsent[n] # <<>> /\ Send(n, Head(unsent[n]))
      /\ unsent' = [unsent EXCEPT ![n] = Tail(unsent[n])]
      /\ UNCHANGED <<pc, client, mHistory, hubHost, toClient, hubEnd, cliEnd, called>>
  BY DEF FlushBacklog, viewVars
<1>3. client[n] # 0 /\ toHub' = Written(client[n], <<Head(unsent[n])>>) /\ UNCHANGED <<mClient, mBacklog>>
  BY <1>2, SendAtHome
<1>4. PICK msg : msg = Head(unsent[n])
  OBVIOUS
<1>5. /\ unsent[n] \in Seq(Messages) /\ unsent[n] # <<>> /\ msg = unsent[n][1] /\ 1 \in DOMAIN unsent[n]
      /\ msg \in Messages
  BY <1>1, <1>2, <1>4, SpokeFacts
<1>6. msg.seq = 0
  BY <1>1, <1>5 DEF WorldInv, Backlogs, CallMessages, Message
<1>7. /\ <<msg>> \in Seq(Messages) /\ DOMAIN <<msg>> = {1} /\ <<msg>>[1] = msg
  BY <1>5
<1>8. unsent'[n] = Tail(unsent[n]) /\ \A m \in Nodes \ {n} : unsent'[m] = unsent[m]
  BY <1>1, <1>2, SpokeFacts
<1>9. ASSUME NEW i \in DOMAIN unsent[n]
      PROVE  unsent[n][i] = msg \/ \E j \in DOMAIN unsent'[n] : unsent'[n][j] = unsent[n][i]
  <2>1. CASE i = 1
    BY <1>5, <2>1
  <2>2. CASE i # 1
    <3>1. i - 1 \in DOMAIN Tail(unsent[n]) /\ Tail(unsent[n])[i - 1] = unsent[n][i]
      BY <1>5, <2>2
    <3> QED
      BY <1>8, <3>1
  <2> QED
    BY <2>1, <2>2
<1>10. \A m \in Nodes \ {n} : SameNode(m)
  BY <1>2, <1>3, <1>8 DEF SameNode
<1>11. \A body \in called'[n] :
          \/ \E i \in DOMAIN mBacklog'[n] : mBacklog'[n][i].body = body
          \/ \E i \in DOMAIN unsent'[n] : unsent'[n][i].body = body
          \/ msg.body = body
          \/ \E i \in DOMAIN toHub[client[n]] :
                toHub[client[n]][i].seq = 0 /\ toHub[client[n]][i].body = body
          \/ client[n] \in DOMAIN hubClients /\ body \in hubClients[client[n]].history
  <2>1. \A body \in called'[n] : NovelKept(n, body)
    BY <1>1, <1>2 DEF AtHome
  <2> QED
    BY <1>3, <1>9, <2>1 DEF NovelKept
<1>12. \A body \in called'[n] :
          \/ \E i \in DOMAIN mBacklog'[n] : mBacklog'[n][i].body = body
          \/ \E i \in DOMAIN unsent'[n] : unsent'[n][i].body = body
          \/ \E j \in DOMAIN <<msg>> : <<msg>>[j].seq = 0 /\ <<msg>>[j].body = body
          \/ \E i \in DOMAIN toHub[client[n]] :
                toHub[client[n]][i].seq = 0 /\ toHub[client[n]][i].body = body
          \/ client[n] \in DOMAIN hubClients /\ body \in hubClients[client[n]].history
  BY <1>6, <1>7, <1>11
<1>13. \A j \in DOMAIN <<msg>> : <<msg>>[j].seq = 0 \/ Copy(<<msg>>[j], hubHistory)
  BY <1>6, <1>7
<1> QED
  BY <1>2, <1>3, <1>4, <1>7, <1>10, <1>12, <1>13, SendsStay

LEMMA StableCall ==
    ASSUME StableInv, WorldInv', NEW n \in Nodes, NEW body \in Calls[n], CallOf(n, body)
    PROVE  StableInv'
<1>1. WorldInv /\ AtHome(n)
  BY DEF StableInv
<1>2. PICK msg : msg = Message(0, 0, body)
  OBVIOUS
<1>3. msg \in Messages /\ msg.seq = 0 /\ msg.body = body
  BY <1>2, CallsAreMessages DEF Message
<1>4. /\ pc[n] \notin {"off", "dead"} /\ Send(n, msg)
      /\ called' = [called EXCEPT ![n] = called[n] \cup {body}]
      /\ UNCHANGED <<pc, client, unsent, mHistory, hubHost, toClient, hubEnd, cliEnd, hubVars>>
  BY <1>2 DEF CallOf, Call, viewVars, Running
<1>5. called'[n] = called[n] \cup {body} /\ \A m \in Nodes \ {n} : called'[m] = called[m]
  BY <1>1, <1>4, SpokeFacts
<1>6. pc[n] # "null" /\ \A b \in called[n] : NovelKept(n, b)
  BY <1>1, <1>4 DEF AtHome
<1>7. CASE pc[n] \in {"flush", "wait"}
  <2>1. client[n] # 0 /\ toHub' = Written(client[n], <<msg>>) /\ UNCHANGED <<mClient, mBacklog>>
    BY <1>4, <1>7, SendAtHome
  <2>2. /\ <<msg>> \in Seq(Messages) /\ DOMAIN <<msg>> = {1} /\ <<msg>>[1] = msg
    BY <1>3
  <2>3. \A m \in Nodes \ {n} : SameNode(m)
    BY <1>4, <1>5, <2>1 DEF SameNode
  <2>4. \A b \in called'[n] :
           \/ \E i \in DOMAIN mBacklog'[n] : mBacklog'[n][i].body = b
           \/ \E i \in DOMAIN unsent'[n] : unsent'[n][i].body = b
           \/ \E j \in DOMAIN <<msg>> : <<msg>>[j].seq = 0 /\ <<msg>>[j].body = b
           \/ \E i \in DOMAIN toHub[client[n]] :
                 toHub[client[n]][i].seq = 0 /\ toHub[client[n]][i].body = b
           \/ client[n] \in DOMAIN hubClients /\ b \in hubClients[client[n]].history
    <3>1. ASSUME NEW b \in called[n]
          PROVE  \/ \E i \in DOMAIN mBacklog'[n] : mBacklog'[n][i].body = b
                 \/ \E i \in DOMAIN unsent'[n] : unsent'[n][i].body = b
                 \/ \E i \in DOMAIN toHub[client[n]] :
                       toHub[client[n]][i].seq = 0 /\ toHub[client[n]][i].body = b
                 \/ client[n] \in DOMAIN hubClients /\ b \in hubClients[client[n]].history
      BY <1>4, <1>6, <2>1 DEF NovelKept
    <3>2. \E j \in DOMAIN <<msg>> : <<msg>>[j].seq = 0 /\ <<msg>>[j].body = body
      BY <1>3, <2>2
    <3> QED
      BY <1>5, <3>1, <3>2
  <2>5. \A j \in DOMAIN <<msg>> : <<msg>>[j].seq = 0 \/ Copy(<<msg>>[j], hubHistory)
    BY <1>3, <2>2
  <2>6. unsent'[n] # <<>> => pc'[n] = "flush"
    BY <1>1, <1>4 DEF AtHome
  <2> QED
    BY <1>4, <1>6, <2>1, <2>2, <2>3, <2>4, <2>5, <2>6, SendsStay
<1>8. CASE pc[n] \notin {"flush", "wait"}
  <2>1. UNCHANGED <<mClient, toHub>> /\ mBacklog' = [mBacklog EXCEPT ![n] = Append(mBacklog[n], msg)]
    BY <1>4, <1>8, SendAtHome
  <2>2. mBacklog \in [Nodes -> Seq(Messages)] /\ mBacklog[n] \in Seq(Messages)
    BY <1>1, SpokeFacts
  <2>3. /\ mBacklog'[n] = Append(mBacklog[n], msg) /\ \A m \in Nodes \ {n} : mBacklog'[m] = mBacklog[m]
    BY <2>1, <2>2
  <2>4. /\ \A i \in DOMAIN mBacklog[n] : i \in DOMAIN mBacklog'[n] /\ mBacklog'[n][i] = mBacklog[n][i]
        /\ \E i \in DOMAIN mBacklog'[n] : mBacklog'[n][i] = msg
    <3>1. \A i \in DOMAIN mBacklog[n] : i \in DOMAIN mBacklog'[n] /\ mBacklog'[n][i] = mBacklog[n][i]
      BY <1>3, <2>2, <2>3
    <3>2. Len(mBacklog[n]) + 1 \in DOMAIN mBacklog'[n] /\ mBacklog'[n][Len(mBacklog[n]) + 1] = msg
      BY <1>3, <2>2, <2>3
    <3> QED
      BY <3>1, <3>2
  <2>5. hubHistory' = hubHistory /\ hubClients' = hubClients
    BY <1>4 DEF hubVars
  <2>6. ASSUME NEW b, NovelKept(n, b) PROVE NovelKept(n, b)'
    BY <1>4, <2>1, <2>4, <2>5, <2>6 DEF NovelKept
  <2>7. NovelKept(n, body)'
    BY <1>3, <2>4 DEF NovelKept
  <2>8. Stream(n)' = Stream(n)
    BY <1>4 DEF Stream, Pending
  <2>9. AtHome(n)'
    BY <1>1, <1>4, <1>5, <1>6, <2>1, <2>5, <2>6, <2>7, <2>8 DEF AtHome
  <2>10. \A m \in Nodes \ {n} : SameNode(m)
    BY <1>4, <1>5, <2>1, <2>3 DEF SameNode
  <2> QED
    BY <1>4, <2>1, <2>9, <2>10, LoopStep DEF udsVars
<1> QED
  BY <1>7, <1>8

\* What a stream's next message is remembered as.
LEMMA RememberedAtEnd ==
    ASSUME NEW h \in Seq(Messages), NEW msg \in Messages, \A i \in DOMAIN h : h[i].seq < msg.seq
    PROVE  Remembered(h, msg) = Append(h, msg)
<1> DEFINE p == LowerBound(h, msg.seq)
<1>1. msg.seq \in Nat /\ Len(h) \in Nat /\ DOMAIN h = 1..Len(h) /\ \A i \in DOMAIN h : h[i].seq \in Nat
  BY HistoryElements DEF Messages
<1>2. p \in 1..(Len(h) + 1) /\ (p <= Len(h) => h[p].seq >= msg.seq)
  BY <1>1, LowerBoundExists
<1> HIDE DEF p
<1>3. p = Len(h) + 1
  BY <1>1, <1>2
<1>4. Remembered(h, msg) = SubSeq(h, 1, p - 1) \o <<msg>> \o SubSeq(h, p, Len(h))
  BY DEF Remembered, InsertBefore, p
<1>5. p - 1 = Len(h) /\ Len(h) < p
  BY <1>1, <1>3
<1>6. SubSeq(h, 1, p - 1) = h
  BY <1>1, <1>5, SubSeqFull
<1>7. SubSeq(h, p, Len(h)) = <<>>
  BY <1>1, <1>2, <1>5, SubSeqEmpty
<1>8. h \o <<msg>> \in Seq(Messages) /\ h \o <<msg>> = Append(h, msg)
  OBVIOUS
<1> QED
  BY <1>4, <1>6, <1>7, <1>8, ConcatEmptySeq

LEMMA NextOfStream ==
    ASSUME NEW h \in Seq(Messages), NEW p \in Seq(Messages), p # <<>>
    PROVE  Append(h, Head(p)) \o Tail(p) = h \o p
<1>1. p = <<Head(p)>> \o Tail(p) /\ <<Head(p)>> \in Seq(Messages) /\ Tail(p) \in Seq(Messages)
  OBVIOUS
<1>2. Append(h, Head(p)) = h \o <<Head(p)>>
  OBVIOUS
<1> QED
  BY <1>1, <1>2, ConcatAssociative

LEMMA StableReads ==
    ASSUME StableInv, WorldInv', NEW n \in Nodes, ClientThread(n)
    PROVE  StableInv'
<1>1. WorldInv /\ AtHome(n) /\ HubEnds
  BY DEF StableInv, WorldInv
<1>2. PICK c : c = client[n]
  OBVIOUS
<1>3. /\ c # 0 /\ c \in DOMAIN toHub /\ cliEnd[c] = "open"
      /\ UNCHANGED <<pc, client, unsent, mClient, mBacklog, hubHost, toHub, hubEnd, hubVars, called>>
      /\ cliEnd' = cliEnd \/ hubEnd[c] = "closed"
      /\ \/ UNCHANGED <<mHistory, mNodes, toClient>> /\ cliEnd' # cliEnd
         \/ /\ c \in DOMAIN toClient /\ toClient[c] # <<>>
            /\ ApplyUpdate(n, Head(toClient[c]))
            /\ toClient' = [toClient EXCEPT ![c] = Tail(toClient[c])]
  BY <1>1, <1>2, ClientThreadDoes
<1>4. hubEnd[c] # "closed" /\ cliEnd' = cliEnd
  BY <1>1, <1>2, <1>3 DEF AtHome
<1>5. /\ c \in DOMAIN toClient /\ toClient[c] # <<>>
      /\ mHistory' = [mHistory EXCEPT ![n] = Remembered(mHistory[n], Head(toClient[c]))]
      /\ toClient' = [toClient EXCEPT ![c] = Tail(toClient[c])]
  BY <1>3, <1>4 DEF ApplyUpdate
<1>6. hubEnd[c] = "open"
  BY <1>1, <1>3, <1>4, <1>5, SpokeFacts DEF HubEnds
<1> DEFINE h == mHistory[n]
           p == toClient[c]
<1>7. h \in Seq(Messages) /\ p \in Seq(Messages) /\ p # <<>> /\ Stream(n) = h \o p
  BY <1>1, <1>2, <1>5, SpokeFacts DEF Stream, Pending
<1>8. StrictlySortedBySeq(Stream(n)) /\ Carries(Stream(n), hubHistory)
  BY <1>1, <1>2, <1>3, <1>6 DEF AtHome, Carries
<1> HIDE DEF h, p
<1>9. Head(p) = p[1] /\ 1 \in DOMAIN p /\ Head(p) \in Messages /\ Len(h) \in Nat /\ DOMAIN h = 1..Len(h)
  BY <1>7
<1>10. Len(h) + 1 \in DOMAIN (h \o p) /\ (h \o p)[Len(h) + 1] = Head(p)
  BY <1>7, <1>9, ConcatElements
<1>11. ASSUME NEW i \in DOMAIN h PROVE h[i].seq < Head(p).seq
  <2>1. i \in DOMAIN (h \o p) /\ (h \o p)[i] = h[i] /\ i < Len(h) + 1
    BY <1>7, <1>9, ConcatElements
  <2> QED
    BY <1>7, <1>8, <1>10, <2>1 DEF StrictlySortedBySeq
<1>12. Remembered(h, Head(p)) = Append(h, Head(p))
  BY <1>7, <1>9, <1>11, RememberedAtEnd
<1>13. mHistory'[n] = Append(h, Head(p)) /\ \A m \in Nodes \ {n} : mHistory'[m] = mHistory[m]
  BY <1>1, <1>5, <1>12, SpokeFacts DEF h, p
<1>14. /\ toClient'[c] = Tail(p) /\ DOMAIN toClient' = DOMAIN toClient
       /\ \A d \in DOMAIN toClient : d # c => toClient'[d] = toClient[d]
  BY <1>1, <1>5, SpokeFacts DEF p
<1>15. Stream(n)' = Stream(n)
  <2>1. Stream(n)' = mHistory'[n] \o toClient'[c]
    BY <1>2, <1>3, <1>5, <1>14 DEF Stream, Pending
  <2> QED
    BY <1>7, <1>13, <1>14, <2>1, NextOfStream
<1>16. hubHistory' = hubHistory /\ hubClients' = hubClients
  BY <1>3 DEF hubVars
<1>17. ASSUME NEW body, NovelKept(n, body) PROVE NovelKept(n, body)'
  BY <1>3, <1>16, <1>17 DEF NovelKept
<1>18. AtHome(n)'
  BY <1>1, <1>2, <1>3, <1>4, <1>6, <1>8, <1>15, <1>16, <1>17 DEF AtHome
<1>19. \A m \in Nodes \ {n} : SameNode(m)
  BY <1>3, <1>13 DEF SameNode
<1>20. \A d \in DOMAIN toHub : d # client[n] => SameLink(d)
  BY <1>2, <1>3, <1>4, <1>14 DEF SameLink
<1>21. \A d \in DOMAIN toHub' : \A i \in DOMAIN toHub'[d] :
          toHub'[d][i].seq = 0 \/ Copy(toHub'[d][i], hubHistory)
  BY <1>3 DEF StableInv, HubStays, OnlyCopies
<1>22. hubHost' = NoHost => DOMAIN toHub' = {}
  BY <1>3 DEF StableInv, HubStays
<1> QED
  BY <1>2, <1>3, <1>18, <1>19, <1>20, <1>21, <1>22, SpokeStep

\* Nobody but a spoke dies: no assert has failed, and no null client is called.
LEMMA StableDeath ==
    ASSUME StableInv, WorldInv', HubMortal = FALSE, NEW n \in Nodes, ProcessDies(n), Kill(n) \/ Abort(n)
    PROVE  StableInv'
<1>1. WorldInv /\ AtHome(n) /\ aborted = "no"
  BY DEF StableInv, HubStays
<1>2. ~Abort(n)
  BY <1>1 DEF Abort, AtHome
<1>3. hubHost # n
  BY <1>2 DEF Kill
<1>4. /\ pc' = [pc EXCEPT ![n] = "dead"] /\ client' = [client EXCEPT ![n] = 0]
      /\ mClient' = [mClient EXCEPT ![n] = 0] /\ unsent' = [unsent EXCEPT ![n] = <<>>]
      /\ mBacklog' = [mBacklog EXCEPT ![n] = <<>>] /\ mHistory' = [mHistory EXCEPT ![n] = <<>>]
      /\ cliEnd' = ClosedByDeath(client[n])
      /\ UNCHANGED <<toHub, toClient, called, hubHost, hubEnd, hubVars>>
  BY <1>1, <1>3, DeathDoes
<1>5. \A m \in Nodes \ {n} : SameNode(m)
  BY <1>1, <1>4, SpokeFacts DEF SameNode
<1>6. /\ pc'[n] = "dead" /\ client'[n] = 0 /\ mClient'[n] = 0 /\ unsent'[n] = <<>> /\ mHistory'[n] = <<>>
  BY <1>1, <1>4, SpokeFacts
<1>7. AtHome(n)'
  BY <1>6 DEF AtHome
<1>8. \A d \in DOMAIN toHub : d # client[n] => cliEnd'[d] = cliEnd[d]
  BY <1>1, <1>4, DeathCloses, SpokeFacts DEF WorldInv, Types
<1>9. \A d \in DOMAIN toHub : d # client[n] => SameLink(d)
  BY <1>4, <1>8 DEF SameLink
<1>10. \A d \in DOMAIN toHub' : \A i \in DOMAIN toHub'[d] :
          toHub'[d][i].seq = 0 \/ Copy(toHub'[d][i], hubHistory)
  BY <1>4 DEF StableInv, HubStays, OnlyCopies
<1>11. hubHost' = NoHost => DOMAIN toHub' = {}
  BY <1>4 DEF StableInv, HubStays
<1> QED
  BY <1>4, <1>5, <1>6, <1>7, <1>9, <1>10, <1>11, SpokeStep

\* A history that is strictly sorted and pruned.
LEMMA PrunedFacts ==
    ASSUME NEW h \in Seq(Messages), StrictlySortedBySeq(h), Unprunable(h)
    PROVE  SortedBySeq(h) /\ OneMeaning(h) /\ LeavesLast(h)
<1>1. DOMAIN h = 1..Len(h) /\ Len(h) \in Nat /\ \A i \in DOMAIN h : h[i].seq \in Nat
  BY HistoryElements
<1>2. SortedBySeq(h)
  BY <1>1 DEF StrictlySortedBySeq, SortedBySeq
<1>3. ASSUME NEW i \in DOMAIN h, NEW j \in DOMAIN h, h[i].seq = h[j].seq PROVE i = j
  BY <1>1, <1>3 DEF StrictlySortedBySeq
<1>4. OneMeaning(h)
  BY <1>3 DEF OneMeaning
<1>5. ASSUME NEW i \in DOMAIN h, NEW j \in DOMAIN h, IsLeave(h[i]) PROVE ~Prunable({h[i].body.node}, h[j])
  <2>1. h[i].body.node \in LeftNodes(h)
    BY <1>5 DEF LeftNodes
  <2> QED
    BY <2>1, PrunableByOne DEF Unprunable
<1>6. LeavesLast(h)
  BY <1>5 DEF LeavesLast
<1> QED
  BY <1>2, <1>4, <1>6

\* It carries itself: what a client that is accepted is sent.
LEMMA CarriesItself ==
    ASSUME NEW h \in Seq(Messages), StrictlySortedBySeq(h), Unprunable(h)
    PROVE  Carries(h, h)
<1>1. SortedBySeq(h) /\ OneMeaning(h) /\ LeavesLast(h)
  BY PrunedFacts
<1>2. \A i \in DOMAIN h : h[i].seq <= LastSeq(h)
  BY <1>1, LastSeqIsLargest
<1> QED
  BY <1>1, <1>2 DEF Carries, Follows, OneMeaning

\* Settling what is new keeps copies copies, and what is broadcast completes a stream.
LEMMA CarriesOn ==
    ASSUME NEW old \in Seq(Messages), StrictlySortedBySeq(old), Unprunable(old),
           NEW news \in Additions(old)
    PROVE  LET g == PruneRemoved(old \o news)
               r == SubsequenceAt(g, Unsent(g, LastSeq(old)))
           IN  /\ g \in Seq(Messages) /\ StrictlySortedBySeq(g) /\ Unprunable(g) /\ r \in Seq(Messages)
               /\ HighestSeq(g, LastSeq(old)) = LastSeq(g)
               /\ \A m \in Messages : Copy(m, old) => Copy(m, g)
               /\ \A w \in Seq(Messages) : Carries(w, old) => Carries(w \o r, g)
<1> DEFINE h == old \o news
           g == PruneRemoved(h)
           c == KeptOf(old, news)
           r == SubSeq(g, c + 1, Len(g))
<1>1. SortedBySeq(old) /\ OneMeaning(old) /\ LeavesLast(old)
  BY PrunedFacts
<1>2. /\ g \in Seq(Messages) /\ Len(g) \in Nat /\ DOMAIN g = 1..Len(g) /\ c \in 0..Len(g)
      /\ \A k \in 1..c : \E j \in DOMAIN old : g[k] = old[j]
      /\ \A k \in DOMAIN g : k > c => LastSeq(old) < g[k].seq
      /\ LastSeq(old) <= LastSeq(g) /\ LeftNodes(old) \subseteq LeftNodes(g) /\ SortedBySeq(g)
  BY <1>1, PrunedExtension
<1>3. StrictlySortedBySeq(g)
  BY <1>1, StrictlyPruned
<1>4. SubsequenceAt(g, Unsent(g, LastSeq(old))) = r /\ HighestSeq(g, LastSeq(old)) = LastSeq(g)
  BY <1>1, UnsentAreAdditions
<1>5. h \in Seq(Messages) /\ \A i \in DOMAIN old : i \in DOMAIN h /\ h[i] = old[i]
  BY <1>1, Extended
<1>6. r \in Seq(Messages)
  BY <1>2, TailProperties
<1>7. ASSUME NEW w \in Seq(Messages), Follows(w, old)
      PROVE  LET w2 == w \o r IN
             /\ w2 \in Seq(Messages)
             /\ \A i \in DOMAIN w2 : \/ i \in DOMAIN w /\ w2[i] = w[i]
                                     \/ \E k \in DOMAIN g : w2[i] = g[k] /\ k > c
             /\ \A i \in DOMAIN w : i \in DOMAIN w2 /\ w2[i] = w[i]
             /\ \A k \in DOMAIN g : k > c => \E i \in DOMAIN w2 : w2[i] = g[k]
             /\ \A i, j \in DOMAIN w2 : i < j /\ j \notin DOMAIN w => w2[i].seq < w2[j].seq
             /\ Follows(w2, g)
  BY <1>1, <1>7, FollowsOn
<1> HIDE DEF h
<1>8. /\ \A k \in DOMAIN g : ~Prunable(LeftNodes(h), g[k])
      /\ \A i \in Surviving(h) : \E k \in DOMAIN g : g[k] = h[i]
      /\ LeftNodes(g) = LeftNodes(h)
  BY <1>5, PruneProperties
<1> HIDE DEF g, c, r
<1>9. Unprunable(g)
  BY <1>8 DEF Unprunable
<1>10. ASSUME NEW m \in Messages, Copy(m, old) PROVE Copy(m, g)
  <2>1. LastSeq(old) \in Nat /\ LastSeq(g) \in Nat /\ m.seq \in Nat /\ \A k \in DOMAIN g : g[k].seq \in Nat
    BY <1>1, <1>2, LastSeqIsLargest, HistoryElements DEF Messages
  <2>2. m.seq <= LastSeq(old) /\ m.seq <= LastSeq(g)
    BY <1>2, <1>10, <2>1 DEF Copy
  <2>3. ASSUME NEW k \in DOMAIN g, g[k].seq = m.seq PROVE g[k] = m
    <3>1. k \in 1..c
      BY <1>2, <2>1, <2>2, <2>3
    <3> QED
      BY <1>2, <1>10, <2>3, <3>1 DEF Copy
  <2> QED
    BY <2>2, <2>3 DEF Copy
<1>11. ASSUME NEW w \in Seq(Messages), Carries(w, old) PROVE Carries(w \o r, g)
  <2> DEFINE w2 == w \o r
  <2>1. /\ w2 \in Seq(Messages) /\ Follows(w2, g)
        /\ \A i \in DOMAIN w2 : \/ i \in DOMAIN w /\ w2[i] = w[i]
                                \/ \E k \in DOMAIN g : w2[i] = g[k] /\ k > c
        /\ \A i \in DOMAIN w : i \in DOMAIN w2 /\ w2[i] = w[i]
        /\ \A k \in DOMAIN g : k > c => \E i \in DOMAIN w2 : w2[i] = g[k]
        /\ \A i, j \in DOMAIN w2 : i < j /\ j \notin DOMAIN w => w2[i].seq < w2[j].seq
    BY <1>7, <1>11 DEF Carries
  <2> HIDE DEF w2
  <2>2. StrictlySortedBySeq(w2)
    <3>1. ASSUME NEW i \in DOMAIN w2, NEW j \in DOMAIN w, i < j PROVE w2[i].seq < w2[j].seq
      <4>1. i \in DOMAIN w
        BY <2>1, <3>1, HistoryElements
      <4> QED
        BY <1>11, <2>1, <3>1, <4>1 DEF Carries, StrictlySortedBySeq
    <3> QED
      BY <2>1, <3>1 DEF StrictlySortedBySeq
  <2>3. ASSUME NEW k \in DOMAIN g PROVE \E i \in DOMAIN w2 : w2[i] = g[k]
    <3>1. CASE k > c
      BY <2>1, <3>1
    <3>2. CASE ~(k > c)
      <4>1. k \in 1..c
        BY <1>2, <3>2
      <4>2. PICK j \in DOMAIN old : g[k] = old[j]
        BY <1>2, <4>1
      <4>3. PICK i \in DOMAIN w : w[i] = old[j]
        BY <1>11 DEF Carries
      <4> QED
        BY <2>1, <4>2, <4>3
    <3> QED
      BY <3>1, <3>2
  <2>4. ASSUME NEW i \in DOMAIN w2
        PROVE  Prunable(LeftNodes(g), w2[i]) \/ \E k \in DOMAIN g : w2[i] = g[k]
    <3>1. CASE \E k \in DOMAIN g : w2[i] = g[k] /\ k > c
      BY <3>1
    <3>2. CASE i \in DOMAIN w /\ w2[i] = w[i]
      <4>1. CASE Prunable(LeftNodes(old), w[i])
        BY <1>2, <3>2, <4>1, PrunableByOne
      <4>2. ASSUME NEW j \in DOMAIN old, w[i] = old[j]
            PROVE  Prunable(LeftNodes(g), w2[i]) \/ \E k \in DOMAIN g : w2[i] = g[k]
        BY <1>5, <1>8, <3>2, <4>2 DEF Surviving
      <4> QED
        BY <1>11, <3>2, <4>1, <4>2 DEF Carries
    <3> QED
      BY <2>1, <3>1, <3>2
  <2> QED
    BY <2>1, <2>2, <2>3, <2>4 DEF Carries, w2
<1> QED
  BY <1>2, <1>3, <1>4, <1>6, <1>9, <1>10, <1>11 DEF g, h

\* A step of the hub that settles something.
LEMMA StableSettles ==
    ASSUME StableInv, WorldInv', hubHost # NoHost, UNCHANGED <<managerVars, cliEnd, called>>,
           NEW news, NEW clients, NEW nextSeq, Settling(news, clients, nextSeq),
           \A c \in DOMAIN clients : hubClients[c].history \subseteq clients[c].history,
           \A d \in DOMAIN toHub' : \A i \in DOMAIN toHub'[d] :
              toHub'[d][i].seq = 0 \/ Copy(toHub'[d][i], hubHistory),
           \A n \in Nodes : client[n] # 0 =>
              /\ hubEnd'[client[n]] = hubEnd[client[n]]
              /\ client[n] \in DOMAIN hubClients => client[n] \in DOMAIN clients
              /\ \A i \in DOMAIN toHub[client[n]] : toHub[client[n]][i].seq = 0 =>
                    \/ \E j \in DOMAIN toHub'[client[n]] : toHub'[client[n]][j] = toHub[client[n]][i]
                    \/ /\ client[n] \in DOMAIN clients
                       /\ toHub[client[n]][i].body \in clients[client[n]].history
    PROVE  StableInv'
<1>1. /\ WorldInv /\ HubEnds /\ StrictlySortedBySeq(hubHistory) /\ Unprunable(hubHistory)
      /\ \A c \in DOMAIN hubClients : hubClients[c].seq = LastSeq(hubHistory)
  BY DEF StableInv, HubStays, WorldInv
<1> DEFINE g == PruneRemoved(hubHistory \o news)
           r == SubsequenceAt(g, Unsent(g, LastSeq(hubHistory)))
<1>2. /\ news \in Additions(hubHistory) /\ hubHistory \in Seq(Messages)
      /\ \A c \in DOMAIN clients : clients[c].seq = hubClients[c].seq
      /\ DOMAIN clients \subseteq DOMAIN hubClients
      /\ clients \in [DOMAIN clients -> ClientRecords]
  BY <1>1, HubFacts DEF Settling
<1>3. /\ g \in Seq(Messages) /\ StrictlySortedBySeq(g) /\ Unprunable(g) /\ r \in Seq(Messages)
      /\ HighestSeq(g, LastSeq(hubHistory)) = LastSeq(g)
      /\ \A m \in Messages : Copy(m, hubHistory) => Copy(m, g)
      /\ \A w \in Seq(Messages) : Carries(w, hubHistory) => Carries(w \o r, g)
  BY <1>1, <1>2, CarriesOn
<1>4. \A c \in DOMAIN clients : clients[c].seq = LastSeq(hubHistory)
  BY <1>1, <1>2
<1>5. /\ hubHistory' = g /\ aborted' = "no"
      /\ hubClients' = [c \in DOMAIN clients |->
             [clients[c] EXCEPT !.seq = HighestSeq(g, clients[c].seq)]]
      /\ toClient' = [c \in DOMAIN toClient |->
             IF c \in DOMAIN clients
             THEN toClient[c] \o SubsequenceAt(g, Unsent(g, clients[c].seq))
             ELSE toClient[c]]
  BY DEF Settling, Settled
<1> HIDE DEF g
<1>6. /\ DOMAIN hubClients' = DOMAIN clients
      /\ \A c \in DOMAIN clients : /\ hubClients'[c].seq = LastSeq(g)
                                   /\ hubClients'[c].history = clients[c].history
  BY <1>2, <1>3, <1>4, <1>5 DEF ClientRecords
<1>7. \A c \in DOMAIN clients \cap DOMAIN toClient : toClient'[c] = toClient[c] \o r
  BY <1>4, <1>5
<1>8. DOMAIN toClient' = DOMAIN toClient
  BY <1>5
<1> HIDE DEF r
<1>9. UNCHANGED <<pc, client, unsent, mClient, mBacklog, mHistory, hubHost, cliEnd, called>>
  BY DEF managerVars, connVars, viewVars
<1>10. OnlyCopies'
  <2>1. ASSUME NEW d \in DOMAIN toHub', NEW i \in DOMAIN toHub'[d], Copy(toHub'[d][i], hubHistory)
        PROVE  Copy(toHub'[d][i], hubHistory')
    <3>1. toHub'[d] \in Seq(Messages)
      BY DEF WorldInv, Types, Linked
    <3>2. toHub'[d][i] \in Messages
      BY <3>1
    <3> QED
      BY <1>3, <1>5, <2>1, <3>2
  <2> QED
    BY <2>1 DEF OnlyCopies
<1>11. HubStays'
  BY <1>3, <1>5, <1>6, <1>9, <1>10 DEF HubStays
<1>12. ASSUME NEW n \in Nodes PROVE AtHome(n)'
  <2>1. PICK c : c = client[n]
    OBVIOUS
  <2>2. AtHome(n)
    BY DEF StableInv
  <2>3. ASSUME c # 0, hubEnd[c] = "open" PROVE Carries(Stream(n)', hubHistory')
    <3>1. c \in DOMAIN clients \cap DOMAIN toClient /\ c \in DOMAIN hubEnd
      BY <1>1, <2>1, <2>3, SpokeFacts DEF HubEnds
    <3>2. mHistory[n] \in Seq(Messages) /\ toClient[c] \in Seq(Messages)
      BY <1>1, <3>1, SpokeFacts
    <3>3. Stream(n) = mHistory[n] \o toClient[c]
      BY <2>1, <3>1 DEF Stream, Pending
    <3>4. Stream(n)' = mHistory[n] \o (toClient[c] \o r)
      BY <1>7, <1>8, <1>9, <2>1, <3>1 DEF Stream, Pending
    <3>5. Stream(n)' = Stream(n) \o r /\ Stream(n) \in Seq(Messages)
      <4>1. \A s, t \in Seq(Messages) : s \o t \in Seq(Messages) /\ (s \o t) \o r = s \o (t \o r)
        BY <1>3, ConcatAssociative, ConcatProperties
      <4> QED
        BY <3>2, <3>3, <3>4, <4>1
    <3>6. Carries(Stream(n), hubHistory)
      BY <2>1, <2>2, <2>3 DEF AtHome
    <3> QED
      BY <1>3, <1>5, <3>5, <3>6
  <2>4. ASSUME NEW body, NovelKept(n, body) PROVE NovelKept(n, body)'
    <3>1. ASSUME c # 0, NEW i \in DOMAIN toHub[c], toHub[c][i].seq = 0, toHub[c][i].body = body
          PROVE  NovelKept(n, body)'
      <4>1. CASE \E j \in DOMAIN toHub'[c] : toHub'[c][j] = toHub[c][i]
        BY <1>9, <2>1, <3>1, <4>1 DEF NovelKept
      <4>2. CASE c \in DOMAIN clients /\ toHub[c][i].body \in clients[c].history
        BY <1>6, <1>9, <2>1, <3>1, <4>2 DEF NovelKept
      <4> QED
        BY <2>1, <3>1, <4>1, <4>2
    <3>2. ASSUME c # 0, c \in DOMAIN hubClients, body \in hubClients[c].history
          PROVE  NovelKept(n, body)'
      <4>1. c \in DOMAIN clients /\ body \in clients[c].history
        BY <2>1, <3>2
      <4> QED
        BY <1>6, <1>9, <2>1, <3>2, <4>1 DEF NovelKept
    <3> QED
      BY <1>9, <2>1, <2>4, <3>1, <3>2 DEF NovelKept
  <2>5. c # 0 => hubEnd'[c] = hubEnd[c]
    BY <2>1
  <2> QED
    BY <1>9, <2>1, <2>2, <2>3, <2>4, <2>5 DEF AtHome
<1>13. OwnClients'
  BY <1>9 DEF StableInv, OwnClients
<1> QED
  BY <1>11, <1>12, <1>13 DEF StableInv

LEMMA StableAccept ==
    ASSUME StableInv, WorldInv', NEW c \in DOMAIN hubEnd, HubAccept(c)
    PROVE  StableInv'
<1>1. WorldInv /\ HubEnds /\ StrictlySortedBySeq(hubHistory) /\ Unprunable(hubHistory)
  BY DEF StableInv, HubStays, WorldInv
<1>2. /\ hubEnd[c] = "backlog" /\ Hub!OnConnect(c) /\ hubEnd' = [hubEnd EXCEPT ![c] = "open"]
      /\ UNCHANGED <<pc, client, unsent, mClient, mBacklog, mHistory, hubHost, toHub, cliEnd, called>>
  BY DEF HubAccept, HubCanAccept, managerVars, connVars, viewVars
<1>3. c \in Nat /\ c \in DOMAIN toHub /\ c \notin DOMAIN hubClients
  <2>1. c \in DOMAIN toHub /\ c \notin DOMAIN hubClients
    BY <1>1, <1>2, SpokeFacts DEF HubEnds, WorldInv, Types, Linked
  <2>2. c \in Nat
    BY <1>1, <2>1, ConnFacts DEF WorldInv, Types
  <2> QED
    BY <2>1, <2>2
<1>4. /\ UNCHANGED <<hubHistory, aborted>>
      /\ DOMAIN hubClients' = DOMAIN hubClients \cup {c}
      /\ hubClients'[c] = [seq |-> LastSeq(hubHistory), nodeId |-> 0, history |-> {}]
      /\ \A f \in DOMAIN hubClients : f # c => hubClients'[f] = hubClients[f]
      /\ DOMAIN toClient' = DOMAIN toClient \cup {c} /\ toClient'[c] = hubHistory
      /\ \A f \in DOMAIN toClient : f # c => toClient'[f] = toClient[f]
  BY <1>1, <1>2, <1>3, OnConnectDoes
<1>5. hubEnd'[c] = "open" /\ \A d \in DOMAIN hubEnd : d # c => hubEnd'[d] = hubEnd[d]
  BY <1>2
<1>6. hubHistory \in Seq(Messages) /\ Carries(hubHistory, hubHistory)
  BY <1>1, HubFacts, CarriesItself
<1>7. HubStays'
  <2>1. OnlyCopies' /\ (hubHost' = NoHost => DOMAIN toHub' = {})
    BY <1>2, <1>4 DEF StableInv, HubStays, OnlyCopies
  <2>2. \A d \in DOMAIN hubClients' : hubClients'[d].seq = LastSeq(hubHistory)
    BY <1>3, <1>4 DEF StableInv, HubStays
  <2> QED
    BY <1>1, <1>4, <2>1, <2>2 DEF StableInv, HubStays
<1>8. ASSUME NEW n \in Nodes PROVE AtHome(n)'
  <2>1. AtHome(n) /\ SameNode(n)
    BY <1>2 DEF StableInv, SameNode
  <2>2. CASE client[n] # c
    <3>1. client[n] # 0 => client[n] \in DOMAIN hubEnd
      BY <1>1, SpokeFacts DEF WorldInv, Types, Linked
    <3>2. client[n] # 0 => SameLink(client[n]) /\ SameClient(client[n])
      BY <1>2, <1>4, <1>5, <2>2, <3>1 DEF SameLink, SameClient
    <3> QED
      BY <1>4, <2>1, <3>2, Untouched
  <2>3. CASE client[n] = c
    <3>1. c # 0 /\ mHistory[n] = <<>>
      BY <1>1, <1>2, <1>3, <2>1, <2>3, SpokeFacts DEF AtHome
    <3>2. Stream(n)' = <<>> \o hubHistory
      BY <1>2, <1>4, <2>3, <3>1 DEF Stream, Pending
    <3>3. Carries(Stream(n)', hubHistory')
      BY <1>4, <1>6, <3>2, ConcatEmptySeq
    <3>4. ASSUME NEW body, NovelKept(n, body) PROVE NovelKept(n, body)'
      BY <1>2, <1>3, <2>3, <3>4 DEF NovelKept
    <3> QED
      BY <1>2, <1>5, <2>1, <2>3, <3>1, <3>3, <3>4 DEF AtHome
  <2> QED
    BY <2>2, <2>3
<1>9. OwnClients'
  BY <1>2 DEF StableInv, OwnClients
<1> QED
  BY <1>7, <1>8, <1>9 DEF StableInv

\* A message that is not a call of its client is of no use to the hub.
LEMMA StableSkips ==
    ASSUME StableInv, WorldInv', UNCHANGED <<managerVars, cliEnd, hubEnd, called>>,
           UNCHANGED <<hubHistory, hubClients, toClient, aborted>>, DOMAIN toHub' = DOMAIN toHub,
           \A d \in DOMAIN toHub' : \A i \in DOMAIN toHub'[d] :
              toHub'[d][i].seq = 0 \/ Copy(toHub'[d][i], hubHistory),
           \A n \in Nodes : client[n] # 0 =>
              \A i \in DOMAIN toHub[client[n]] : toHub[client[n]][i].seq = 0 =>
                 \/ \E j \in DOMAIN toHub'[client[n]] : toHub'[client[n]][j] = toHub[client[n]][i]
                 \/ toHub[client[n]][i].body \notin called[n]
    PROVE  StableInv'
<1>1. UNCHANGED <<pc, client, unsent, mClient, mBacklog, mHistory, hubHost, cliEnd, called>>
  BY DEF managerVars, connVars, viewVars
<1>2. HubStays'
  BY <1>1 DEF StableInv, HubStays, OnlyCopies
<1>3. ASSUME NEW n \in Nodes PROVE AtHome(n)'
  <2>1. AtHome(n)
    BY DEF StableInv
  <2>2. Stream(n)' = Stream(n)
    BY <1>1 DEF Stream, Pending
  <2>3. ASSUME NEW body \in called[n], NovelKept(n, body) PROVE NovelKept(n, body)'
    <3>1. ASSUME client[n] # 0, NEW i \in DOMAIN toHub[client[n]],
                 toHub[client[n]][i].seq = 0, toHub[client[n]][i].body = body
          PROVE  NovelKept(n, body)'
      <4>1. PICK j \in DOMAIN toHub'[client[n]] : toHub'[client[n]][j] = toHub[client[n]][i]
        BY <2>3, <3>1
      <4> QED
        BY <1>1, <3>1, <4>1 DEF NovelKept
    <3> QED
      BY <1>1, <2>3, <3>1 DEF NovelKept
  <2> QED
    BY <1>1, <2>1, <2>2, <2>3 DEF AtHome
<1>4. OwnClients'
  BY <1>1 DEF StableInv, OwnClients
<1> QED
  BY <1>2, <1>3, <1>4 DEF StableInv

LEMMA StableHubReads ==
    ASSUME StableInv, WorldInv', NEW c \in DOMAIN hubEnd, HubRead(c) \/ HubReadLast(c)
    PROVE  StableInv'
<1>1. WorldInv /\ OnlyCopies
  BY DEF StableInv, HubStays
<1>2. PICK msg : msg = Head(toHub[c])
  OBVIOUS
<1>3. /\ c \in DOMAIN hubClients /\ c \in DOMAIN toHub /\ msg \in Messages
      /\ msg = toHub[c][1] /\ 1 \in DOMAIN toHub[c]
      /\ Hub!OnData(c, msg, epoch) /\ epoch \in Nat /\ hubHost # NoHost
      /\ UNCHANGED <<managerVars, hubEnd, cliEnd, called>>
      /\ toHub[c] \in Seq(Messages) /\ toHub[c] # <<>> /\ DOMAIN toHub' = DOMAIN toHub
      /\ toHub'[c] = Tail(toHub[c]) \/ (toHub'[c] = <<>> /\ cliEnd[c] # "open")
      /\ \A i \in DOMAIN toHub'[c] : i + 1 \in DOMAIN toHub[c] /\ toHub'[c][i] = toHub[c][i + 1]
      /\ \A d \in DOMAIN toHub : d # c => toHub'[d] = toHub[d]
  BY <1>1, <1>2, HubReadDoes
<1>4. \A d \in DOMAIN toHub' : \A i \in DOMAIN toHub'[d] :
         toHub'[d][i].seq = 0 \/ Copy(toHub'[d][i], hubHistory)
  <2>1. \A i \in DOMAIN toHub'[c] : toHub'[c][i].seq = 0 \/ Copy(toHub'[c][i], hubHistory)
    BY <1>1, <1>3 DEF OnlyCopies
  <2>2. \A d \in DOMAIN toHub : d # c => \A i \in DOMAIN toHub'[d] :
           toHub'[d][i].seq = 0 \/ Copy(toHub'[d][i], hubHistory)
    BY <1>1, <1>3 DEF OnlyCopies
  <2> QED
    BY <1>3, <2>1, <2>2
<1>5. msg.seq = 0 \/ Copy(msg, hubHistory)
  BY <1>1, <1>3 DEF OnlyCopies
<1>6. ~(msg.seq # 0 /\ LastSeq(hubHistory) < msg.seq)
  <2>1. msg.seq \in Nat /\ LastSeq(hubHistory) \in Nat
    BY <1>1, <1>3, HubFacts DEF Messages
  <2> QED
    BY <1>5, <2>1 DEF Copy
\* What a live spoke has sent is still there, but for the message that is read.
<1>7. ASSUME NEW n \in Nodes, client[n] # 0, NEW i \in DOMAIN toHub[client[n]]
      PROVE  \/ \E j \in DOMAIN toHub'[client[n]] : toHub'[client[n]][j] = toHub[client[n]][i]
             \/ client[n] = c /\ toHub[client[n]][i] = msg
  <2>1. CASE client[n] # c
    <3>1. client[n] \in DOMAIN toHub
      BY <1>1, <1>7, SpokeFacts
    <3> QED
      BY <1>3, <2>1, <3>1
  <2>2. CASE client[n] = c
    <3>1. cliEnd[c] = "open"
      BY <1>7, <2>2 DEF StableInv, AtHome
    <3>2. toHub'[c] = Tail(toHub[c])
      BY <1>3, <3>1
    <3>3. CASE i = 1
      BY <1>3, <2>2, <3>3
    <3>4. CASE i # 1
      <4>1. i - 1 \in DOMAIN Tail(toHub[c]) /\ Tail(toHub[c])[i - 1] = toHub[c][i]
        BY <1>3, <1>7, <2>2, <3>4
      <4> QED
        BY <2>2, <3>2, <4>1
    <3> QED
      BY <3>3, <3>4
  <2> QED
    BY <2>1, <2>2
<1>8. CASE /\ msg.body.node = 0
           /\ UNCHANGED <<hubHistory, hubNextSeq, hubClients, toClient, aborted>>
  <2>1. ASSUME NEW n \in Nodes PROVE msg.body \notin called[n]
    <3>1. \A body \in called[n] : body.node = n /\ n # 0
      BY <1>1, CallsAreMessages, NodesAssumption DEF WorldInv, Backlogs
    <3> QED
      BY <1>8, <3>1
  <2> QED
    BY <1>3, <1>4, <1>7, <1>8, <2>1, StableSkips
<1>9. ASSUME NEW news, NEW clients, NEW nextSeq, Settling(news, clients, nextSeq),
             Heard(c, msg, clients)
      PROVE  StableInv'
  <2>1. \A d \in DOMAIN clients : hubClients[d].history \subseteq clients[d].history
    BY <1>9 DEF Heard
  <2>2. ASSUME NEW n \in Nodes, client[n] # 0
        PROVE  /\ hubEnd'[client[n]] = hubEnd[client[n]]
               /\ client[n] \in DOMAIN hubClients => client[n] \in DOMAIN clients
               /\ \A i \in DOMAIN toHub[client[n]] : toHub[client[n]][i].seq = 0 =>
                     \/ \E j \in DOMAIN toHub'[client[n]] : toHub'[client[n]][j] = toHub[client[n]][i]
                     \/ /\ client[n] \in DOMAIN clients
                        /\ toHub[client[n]][i].body \in clients[client[n]].history
    <3>1. ASSUME NEW i \in DOMAIN toHub[client[n]], toHub[client[n]][i].seq = 0,
                 client[n] = c, toHub[client[n]][i] = msg
          PROVE  /\ client[n] \in DOMAIN clients
                 /\ toHub[client[n]][i].body \in clients[client[n]].history
      BY <1>3, <1>9, <3>1 DEF Heard
    <3> QED
      BY <1>3, <1>7, <1>9, <2>2, <3>1 DEF Heard
  <2> QED
    BY <1>3, <1>4, <1>9, <2>1, <2>2, StableSettles
<1>10. ~(/\ msg.seq # 0
         /\ \/ LastSeq(hubHistory) < msg.seq
            \/ \E i \in DOMAIN hubHistory : hubHistory[i].seq = msg.seq /\ hubHistory[i] # msg)
  BY <1>5, <1>6 DEF Copy
<1> QED
  BY <1>1, <1>3, <1>8, <1>9, <1>10, OnDataSettles

\* Only a connection that its client has closed hangs up, and no hub that stays
\* forgets a node before its connection hangs up.
LEMMA StableHangup ==
    ASSUME StableInv, WorldInv', NEW c \in DOMAIN hubEnd, HubHangup(c)
    PROVE  StableInv'
<1>1. WorldInv /\ HubEnds
  BY DEF StableInv, WorldInv
<1>2. /\ Hub!OnDisconnect(c) /\ hubEnd[c] = "open" /\ cliEnd[c] # "open"
      /\ hubEnd' = [hubEnd EXCEPT ![c] = "closed"]
      /\ UNCHANGED <<managerVars, toHub, cliEnd, called>>
  BY DEF HubHangup, HubSeesHangup
<1>3. c \in DOMAIN hubClients /\ hubHost # NoHost
  BY <1>1, <1>2 DEF HubEnds
<1>4. PICK news, clients, nextSeq :
         /\ Settling(news, clients, nextSeq)
         /\ DOMAIN clients = DOMAIN hubClients \ {c}
         /\ \A f \in DOMAIN clients : clients[f] = hubClients[f]
  BY <1>1, <1>2, <1>3, OnDisconnectSettles
<1>5. \A d \in DOMAIN clients : hubClients[d].history \subseteq clients[d].history
  BY <1>4
<1>6. \A d \in DOMAIN toHub' : \A i \in DOMAIN toHub'[d] :
         toHub'[d][i].seq = 0 \/ Copy(toHub'[d][i], hubHistory)
  BY <1>2 DEF StableInv, HubStays, OnlyCopies
<1>7. ASSUME NEW n \in Nodes, client[n] # 0
      PROVE  /\ hubEnd'[client[n]] = hubEnd[client[n]]
             /\ client[n] \in DOMAIN hubClients => client[n] \in DOMAIN clients
             /\ \A i \in DOMAIN toHub[client[n]] : toHub[client[n]][i].seq = 0 =>
                   \/ \E j \in DOMAIN toHub'[client[n]] : toHub'[client[n]][j] = toHub[client[n]][i]
                   \/ /\ client[n] \in DOMAIN clients
                      /\ toHub[client[n]][i].body \in clients[client[n]].history
  <2>1. client[n] # c
    BY <1>2, <1>7 DEF StableInv, AtHome
  <2> QED
    BY <1>2, <1>4, <1>7, <2>1
<1> QED
  BY <1>2, <1>3, <1>4, <1>5, <1>6, <1>7, StableSettles

LEMMA StablePurge ==
    ASSUME StableInv, WorldInv', HubPurge
    PROVE  StableInv'
<1>1. WorldInv /\ HubEnds
  BY DEF StableInv, WorldInv
<1>2. Hub!PurgeDisconnected /\ UNCHANGED <<managerVars, toHub, hubEnd, cliEnd, called>>
  BY DEF HubPurge
<1>3. hubHost # NoHost
  BY <1>1, <1>2, PurgeSettles DEF HubEnds
<1>4. PICK news, nextSeq : Settling(news, hubClients, nextSeq)
  BY <1>1, <1>2, PurgeSettles
<1>5. \A d \in DOMAIN toHub' : \A i \in DOMAIN toHub'[d] :
         toHub'[d][i].seq = 0 \/ Copy(toHub'[d][i], hubHistory)
  BY <1>2 DEF StableInv, HubStays, OnlyCopies
<1> QED
  BY <1>2, <1>3, <1>4, <1>5, StableSettles

LEMMA InitStable == Init => StableInv
<1> SUFFICES ASSUME Init PROVE StableInv
  OBVIOUS
<1>1. WorldInv
  BY InitKeepsWorld
<1>2. DOMAIN <<>> = {}
  OBVIOUS
<1>3. /\ aborted = "no" /\ toHub = <<>> /\ hubHistory = <<>> /\ hubClients = <<>>
      /\ pc = [n \in Nodes |-> "off"] /\ client = [n \in Nodes |-> 0] /\ mClient = [n \in Nodes |-> 0]
      /\ unsent = [n \in Nodes |-> <<>>] /\ mHistory = [n \in Nodes |-> <<>>]
      /\ called = [n \in Nodes |-> {}]
  BY DEF Init, ManagerInit, UDSInit
<1>4. HubStays
  BY <1>2, <1>3 DEF HubStays, StrictlySortedBySeq, Unprunable, OnlyCopies
<1>5. OwnClients /\ \A n \in Nodes : AtHome(n)
  BY <1>3 DEF OwnClients, AtHome
<1> QED
  BY <1>1, <1>4, <1>5 DEF StableInv

\* A node that goes to create a server has none: while the hub lives, its own node
\* stays connected to it.
ServesAnew == \A n \in Nodes : pc[n] = "serve" => hubHost # n

LEMMA NextKeepsServing == ASSUME StableInv, ServesAnew, [Next]_vars PROVE ServesAnew'
<1>1. pc \in [Nodes -> Labels] /\ NoHost \notin Nodes
  BY NodeFacts, SpokeFacts DEF StableInv, WorldInv, Types, SpokeTypes
<1>2. ASSUME UNCHANGED <<pc, hubHost>> PROVE ServesAnew'
  BY <1>2 DEF ServesAnew
<1>3. ASSUME NEW n \in Nodes, NEW l, pc' = [pc EXCEPT ![n] = l], hubHost' \in {hubHost, NoHost},
             l = "serve" => hubHost = NoHost
      PROVE  ServesAnew'
  BY <1>1, <1>3 DEF ServesAnew
<1>4. ASSUME NEW n \in Nodes, MainLoop(n) /\ UNCHANGED <<hubVars, epoch, called>>
      PROVE  ServesAnew'
  <2>1. \/ Connect(n) \/ ConnectFails(n) \/ IntroduceOurselves(n)
        \/ Attach(n) \/ FlushBacklog(n) \/ Wait(n)
    BY <1>4, WaitStays DEF MainLoop
  <2>2. CASE ConnectFails(n)
    <3>1. \/ pc' = [pc EXCEPT ![n] = "serve"]
          \/ pc' = [pc EXCEPT ![n] = "ended"]
      BY <2>2 DEF ConnectFails, Continue, Goto
    <3> QED
      BY <1>3, <2>2, <3>1 DEF ConnectFails
  <2>3. CASE FlushBacklog(n)
    BY <1>2, <2>3 DEF FlushBacklog
  <2>4. CASE Wait(n)
    <3>1. PICK l \in {"null", "wait"} : pc' = [pc EXCEPT ![n] = l]
      BY <2>4 DEF Wait, Goto
    <3> QED
      BY <1>3, <2>4, <3>1 DEF Wait
  <2>5. CASE Connect(n) \/ IntroduceOurselves(n) \/ Attach(n)
    <3>1. PICK l \in {"introduce", "attach", "flush"} : pc' = [pc EXCEPT ![n] = l]
      BY <2>5 DEF Connect, IntroduceOurselves, Attach, Goto
    <3> QED
      BY <1>3, <2>5, <3>1 DEF Connect, IntroduceOurselves, Attach
  <2> QED
    BY <2>1, <2>2, <2>3, <2>4, <2>5
<1>5. ASSUME NEW n \in Nodes, ServeGroup(n) PROVE ServesAnew'
  <2>1. \E l \in {"connect", "ended"} : pc' = [pc EXCEPT ![n] = l]
    BY <1>5 DEF ServeGroup, Serve, Continue, Goto
  <2>2. hubHost' \in {hubHost, NoHost, n}
    BY <1>5 DEF ServeGroup, Serve
  <2> QED
    BY <1>1, <2>1, <2>2 DEF ServesAnew
<1>6. ASSUME NEW n \in Nodes,
             ClientThread(n) \/ StartNode(n) \/ ProcessDies(n) \/ \E body \in Calls[n] : CallOf(n, body)
      PROVE  ServesAnew'
  <2>1. CASE ClientThread(n) \/ \E body \in Calls[n] : CallOf(n, body)
    BY <1>2, <2>1 DEF ClientThread, ClientRead, ClientHangup, CallOf, Call
  <2>2. CASE StartNode(n)
    BY <1>3, <2>2 DEF StartNode, Start, Goto
  <2>3. CASE ProcessDies(n)
    <3>1. pc' = [pc EXCEPT ![n] = "dead"] /\ hubHost' \in {hubHost, NoHost}
      BY <2>3 DEF ProcessDies, Die
    <3> QED
      BY <1>3, <3>1
  <2> QED
    BY <1>6, <2>1, <2>2, <2>3
<1>7. CASE UNCHANGED vars
  BY <1>2, <1>7 DEF vars, managerVars
<1>8. ASSUME NEW c \in DOMAIN hubEnd, HubAccept(c) \/ HubRead(c) \/ HubReadLast(c) \/ HubHangup(c)
      PROVE  ServesAnew'
  BY <1>2, <1>8 DEF HubAccept, HubRead, HubReadLast, HubHangup, managerVars
<1>9. CASE HubPurge
  BY <1>2, <1>9 DEF HubPurge, managerVars
<1> QED
  BY <1>4, <1>5, <1>6, <1>7, <1>8, <1>9, Steps

LEMMA NextKeepsStable ==
    ASSUME HubMortal = FALSE, StableInv, ServesAnew, [Next]_vars PROVE StableInv'
<1>1. WorldInv'
  BY NextKeepsWorld DEF StableInv
<1>2. CASE UNCHANGED vars
  <2>1. /\ UNCHANGED <<hubVars, epoch, called, hubHistory, hubClients, aborted>>
        /\ UNCHANGED <<pc, client, mClient, mHistory, unsent, mBacklog, hubHost>>
        /\ UNCHANGED <<toHub, toClient, hubEnd, cliEnd>>
    BY <1>2 DEF vars, managerVars, connVars, viewVars, udsVars, hubVars
  <2>2. HubStays' /\ OwnClients'
    BY <2>1 DEF StableInv, HubStays, OnlyCopies, OwnClients
  <2>3. ASSUME NEW n \in Nodes PROVE AtHome(n)'
    <3>1. AtHome(n) /\ SameNode(n) /\ \A c : SameLink(c) /\ SameClient(c)
      BY <2>1 DEF StableInv, SameNode, SameLink, SameClient
    <3> QED
      BY <2>1, <3>1, Untouched
  <2> QED
    BY <1>1, <2>2, <2>3 DEF StableInv
<1>3. ASSUME NEW n \in Nodes, MainLoop(n) /\ UNCHANGED <<hubVars, epoch, called>>
      PROVE  StableInv'
  <2>1. \/ Connect(n) \/ ConnectFails(n) \/ IntroduceOurselves(n)
        \/ Attach(n) \/ FlushBacklog(n) \/ Wait(n)
    BY <1>3, WaitStays DEF MainLoop
  <2>2. CASE Connect(n)
    BY <1>1, <1>3, <2>2, StableConnect
  <2>3. CASE ConnectFails(n) \/ Wait(n)
    BY <1>1, <1>3, <2>3, StableMoves
  <2>4. CASE IntroduceOurselves(n)
    BY <1>1, <1>3, <2>4, StableIntroduce
  <2>5. CASE Attach(n)
    BY <1>1, <1>3, <2>5, StableAttach
  <2>6. CASE FlushBacklog(n)
    BY <1>1, <1>3, <2>6, StableFlush
  <2> QED
    BY <2>1, <2>2, <2>3, <2>4, <2>5, <2>6
<1>4. ASSUME NEW n \in Nodes, ServeGroup(n) PROVE StableInv'
  <2>1. hubHost # n
    BY <1>4 DEF ServeGroup, Serve, ServesAnew
  <2> QED
    BY <1>1, <1>4, <2>1, StableMoves, StableServe
<1>5. ASSUME NEW n \in Nodes,
             ClientThread(n) \/ StartNode(n) \/ \E body \in Calls[n] : CallOf(n, body)
      PROVE  StableInv'
  <2>1. CASE ClientThread(n)
    BY <1>1, <2>1, StableReads
  <2>2. CASE StartNode(n)
    BY <1>1, <2>2, StableMoves
  <2>3. ASSUME NEW body \in Calls[n], CallOf(n, body) PROVE StableInv'
    BY <1>1, <2>3, StableCall
  <2> QED
    BY <1>5, <2>1, <2>2, <2>3
<1>6. ASSUME NEW n \in Nodes, ProcessDies(n) /\ (Kill(n) \/ Abort(n)) PROVE StableInv'
  BY <1>1, <1>6, StableDeath
<1>7. ASSUME NEW c \in DOMAIN hubEnd, HubAccept(c) \/ HubRead(c) \/ HubReadLast(c) \/ HubHangup(c)
      PROVE  StableInv'
  BY <1>1, <1>7, StableAccept, StableHubReads, StableHangup
<1>8. CASE HubPurge
  BY <1>1, <1>8, StablePurge
<1> QED
  BY <1>2, <1>3, <1>4, <1>5, <1>6, <1>7, <1>8, Steps

\* While the process of the hub lives no spoke has more than one connection, what
\* it was sent is what the hub minted and has not pruned, and each of its calls
\* is on its way to the hub or in the history the hub keeps for its client.
THEOREM StableInvariant ==
    ASSUME HubMortal = FALSE
    PROVE  Spec => []StableInv
<1>1. Init => StableInv /\ ServesAnew
  BY InitStable DEF Init, ManagerInit, ServesAnew
<1>2. StableInv /\ ServesAnew /\ [Next]_vars => StableInv' /\ ServesAnew'
  BY NextKeepsStable, NextKeepsServing
<1> QED
  BY <1>1, <1>2, PTL DEF Spec

\* No call of an application is lost between the API, mBacklog, MainLoop's copy of
\* it and the socket, whichever of them run at once, while the hub lives.
THEOREM CallsAreKept ==
    ASSUME HubMortal = FALSE
    PROVE  Spec => []NoCallLost
<1>1. StableInv => NoCallLost
  <2> SUFFICES ASSUME StableInv, NEW n \in Live PROVE called[n] \subseteq Kept(n)
    BY DEF NoCallLost
  <2>1. n \in Nodes /\ pc[n] # "dead"
    BY DEF Live
  <2>2. \A body \in called[n] : NovelKept(n, body)
    BY <2>1 DEF StableInv, AtHome
  <2>3. ASSUME NEW body, NovelKept(n, body) PROVE body \in Kept(n)
    BY <2>3 DEF NovelKept, Kept
  <2> QED
    BY <2>2, <2>3
<1> QED
  BY <1>1, StableInvariant, PTL

\* However replay (OnConnect), broadcasts and pruning interleave, what a spoke has
\* got and what is on its way to it continue each other without a duplicate: the
\* hub sends each client exactly what is newer than the client's seq.
THEOREM StreamsAreOrdered ==
    ASSUME HubMortal = FALSE
    PROVE  Spec => []OneOrderedStream
<1>1. StableInv => OneOrderedStream
  <2> SUFFICES ASSUME StableInv, NEW n \in Live, client[n] # 0
               PROVE  StrictlySortedBySeq(Stream(n))
    BY DEF OneOrderedStream, Stream
  <2>1. n \in Nodes /\ AtHome(n) /\ WorldInv /\ HubEnds
    BY DEF Live, StableInv, WorldInv
  <2>2. client[n] \in DOMAIN hubEnd /\ hubEnd[client[n]] \in {"backlog", "open"}
    BY <2>1, SpokeFacts DEF AtHome
  <2>3. CASE hubEnd[client[n]] = "open"
    BY <2>1, <2>3 DEF AtHome, Carries
  <2>4. CASE hubEnd[client[n]] = "backlog"
    <3>1. mHistory[n] = <<>> /\ Pending(client[n]) = <<>>
      BY <2>1, <2>2, <2>4 DEF AtHome, HubEnds, Pending
    <3>2. Stream(n) = <<>>
      BY <3>1, ConcatEmptySeq DEF Stream
    <3> QED
      BY <3>2 DEF StrictlySortedBySeq
  <2> QED
    BY <2>2, <2>3, <2>4
<1> QED
  BY <1>1, StableInvariant, PTL

-----------------------------------------------------------------------------
(* Views.                                                                  *)

\* The messages a spoke has applied.
Told(n) == {mHistory[n][i] : i \in DOMAIN mHistory[n]}

ViewsRead == \A n \in Nodes : Reads(mNodes[n], Told(n))

\* An empty view, before the first message.
LEMMA NothingRead == Reads(<<>>, {})
<1>1. DOMAIN <<>> = {} /\ ActiveIn({}) = {}
  BY DEF ActiveIn
<1> QED
  BY <1>1 DEF Reads

\* A spoke applies the next message of its stream.
LEMMA ViewsAfterRead ==
    ASSUME StableInv, ViewsRead, NEW n \in Nodes, ClientThread(n)
    PROVE  ViewsRead'
<1>1. WorldInv /\ AtHome(n) /\ HubEnds
  BY DEF StableInv, WorldInv
<1>2. PICK c : c = client[n]
  OBVIOUS
<1>3. /\ c # 0 /\ c \in DOMAIN toHub /\ cliEnd[c] = "open"
      /\ cliEnd' = cliEnd \/ hubEnd[c] = "closed"
      /\ \/ UNCHANGED <<mHistory, mNodes, toClient>> /\ cliEnd' # cliEnd
         \/ /\ c \in DOMAIN toClient /\ toClient[c] # <<>>
            /\ ApplyUpdate(n, Head(toClient[c]))
  BY <1>1, <1>2, ClientThreadDoes
<1>4. hubEnd[c] # "closed" /\ cliEnd' = cliEnd
  BY <1>1, <1>2, <1>3 DEF AtHome
<1>5. /\ c \in DOMAIN toClient /\ toClient[c] # <<>>
      /\ mHistory' = [mHistory EXCEPT ![n] = Remembered(mHistory[n], Head(toClient[c]))]
      /\ mNodes' = [mNodes EXCEPT ![n] = Viewed(mNodes[n], Head(toClient[c]).body)]
  BY <1>3, <1>4 DEF ApplyUpdate
<1>6. hubEnd[c] = "open"
  BY <1>1, <1>3, <1>4, <1>5, SpokeFacts DEF HubEnds
<1> DEFINE h == mHistory[n]
           p == toClient[c]
           m == Head(p)
<1>7. h \in Seq(Messages) /\ p \in Seq(Messages) /\ p # <<>> /\ Stream(n) = h \o p
  BY <1>1, <1>2, <1>5, SpokeFacts DEF Stream, Pending
<1>8. StrictlySortedBySeq(Stream(n)) /\ LeavesLast(Stream(n))
  BY <1>1, <1>2, <1>3, <1>6 DEF AtHome, Carries, Follows
<1> HIDE DEF h, p
<1>9. m = p[1] /\ 1 \in DOMAIN p /\ m \in Messages /\ Len(h) \in Nat /\ DOMAIN h = 1..Len(h)
  BY <1>7
<1> HIDE DEF m
<1>10. Len(h) + 1 \in DOMAIN (h \o p) /\ (h \o p)[Len(h) + 1] = m
  BY <1>7, <1>9, ConcatElements
<1>11. ASSUME NEW i \in DOMAIN h
       PROVE  h[i].seq < m.seq /\ (IsLeave(h[i]) => ~Prunable({h[i].body.node}, m))
  <2>1. i \in DOMAIN (h \o p) /\ (h \o p)[i] = h[i] /\ i < Len(h) + 1
    BY <1>7, <1>9, ConcatElements
  <2>2. h[i].seq < m.seq
    BY <1>7, <1>8, <1>10, <2>1 DEF StrictlySortedBySeq
  <2>3. IsLeave(h[i]) => ~Prunable({h[i].body.node}, m)
    BY <1>7, <1>8, <1>10, <2>1 DEF LeavesLast
  <2> QED
    BY <2>2, <2>3
<1>12. Remembered(h, m) = Append(h, m)
  BY <1>7, <1>9, <1>11, RememberedAtEnd
<1>13. /\ mHistory'[n] = Append(h, m) /\ mNodes'[n] = Viewed(mNodes[n], m.body)
       /\ \A k \in Nodes \ {n} : mHistory'[k] = mHistory[k] /\ mNodes'[k] = mNodes[k]
  BY <1>1, <1>5, <1>12, SpokeFacts DEF h, p, m, WorldInv, Types, ViewTypes
<1> DEFINE R == {h[i] : i \in DOMAIN h}
<1>14. Told(n) = R /\ Told(n)' = R \cup {m}
  <2>1. Told(n) = R
    BY DEF Told, h
  <2>2. /\ DOMAIN Append(h, m) = 1..(Len(h) + 1) /\ Append(h, m)[Len(h) + 1] = m
        /\ \A i \in DOMAIN h : Append(h, m)[i] = h[i]
    BY <1>7, <1>9
  <2>3. Told(n)' = {Append(h, m)[i] : i \in 1..(Len(h) + 1)}
    BY <1>13, <2>2 DEF Told
  <2>4. \A i : i \in 1..(Len(h) + 1) <=> i \in DOMAIN h \/ i = Len(h) + 1
    BY <1>9
  <2>5. {Append(h, m)[i] : i \in 1..(Len(h) + 1)} = R \cup {m}
    BY <2>2, <2>4
  <2> QED
    BY <2>1, <2>3, <2>5
<1>15. R \in SUBSET Messages /\ Newest(m, R)
  BY <1>7, <1>11, HistoryElements DEF Newest
<1>16. IsJoin(m) => \A x \in R : IsLeave(x) => x.body.node # m.body.node
  BY <1>11 DEF IsJoin, IsLeave, Prunable, NodeOps
<1>17. ViewKnown(mNodes[n]) /\ Reads(mNodes[n], R)
  BY <1>1, <1>14 DEF ViewsRead, WorldInv, Types, ViewTypes
<1> HIDE DEF R
<1>18. Reads(Viewed(mNodes[n], m.body), R \cup {m})
  BY <1>9, <1>15, <1>16, <1>17, ViewedReads
<1>19. \A k \in Nodes \ {n} : Told(k)' = Told(k) /\ mNodes'[k] = mNodes[k]
  BY <1>13 DEF Told
<1>20. Reads(mNodes[n], Told(n))'
  BY <1>13, <1>14, <1>18 DEF Reads
<1>21. \A k \in Nodes \ {n} : Reads(mNodes[k], Told(k))'
  BY <1>19 DEF ViewsRead, Reads
<1> QED
  BY <1>20, <1>21 DEF ViewsRead

\* Nothing but the client's thread and the end of the process touches a view.
LEMMA NextKeepsViews ==
    ASSUME HubMortal = FALSE, StableInv, ViewsRead, [Next]_vars PROVE ViewsRead'
<1>1. ASSUME UNCHANGED viewVars PROVE ViewsRead'
  <2>1. \A n \in Nodes : Told(n)' = Told(n) /\ mNodes'[n] = mNodes[n]
    BY <1>1 DEF viewVars, Told
  <2> QED
    BY <2>1 DEF ViewsRead, Reads
<1>2. CASE UNCHANGED vars
  BY <1>1, <1>2 DEF vars, managerVars
<1>3. ASSUME NEW n \in Nodes, MainLoop(n) PROVE ViewsRead'
  <2>1. UNCHANGED viewVars
    BY <1>3 DEF MainLoop, Connect, ConnectFails, IntroduceOurselves, Attach, FlushBacklog, Wait,
                WaitReturns, viewVars
  <2> QED
    BY <1>1, <2>1
<1>4. ASSUME NEW n \in Nodes, ServeGroup(n) \/ StartNode(n) \/ \E body \in Calls[n] : CallOf(n, body)
      PROVE  ViewsRead'
  <2>1. UNCHANGED viewVars
    BY <1>4 DEF ServeGroup, Serve, StartNode, Start, CallOf, Call, viewVars
  <2> QED
    BY <1>1, <2>1
<1>5. ASSUME NEW n \in Nodes, ClientThread(n) PROVE ViewsRead'
  BY <1>5, ViewsAfterRead
<1>6. ASSUME NEW n \in Nodes, ProcessDies(n) PROVE ViewsRead'
  <2>1. WorldInv
    BY DEF StableInv
  <2>2. /\ mHistory' = [mHistory EXCEPT ![n] = <<>>] /\ mNodes' = [mNodes EXCEPT ![n] = <<>>]
        /\ DOMAIN mHistory = Nodes /\ DOMAIN mNodes = Nodes
    BY <1>6, <2>1, DeathDoes, SpokeFacts DEF WorldInv, Types, ViewTypes
  <2>3. mHistory'[n] = <<>> /\ mNodes'[n] = <<>>
        /\ \A k \in Nodes \ {n} : mHistory'[k] = mHistory[k] /\ mNodes'[k] = mNodes[k]
    BY <2>2
  <2>4. DOMAIN <<>> = {}
    OBVIOUS
  <2>5. Told(n)' = {} /\ \A k \in Nodes \ {n} : Told(k)' = Told(k)
    BY <2>3, <2>4 DEF Told
  <2>6. Reads(mNodes[n], Told(n))'
    BY <2>3, <2>5, NothingRead DEF Reads
  <2>7. \A k \in Nodes \ {n} : Reads(mNodes[k], Told(k))'
    BY <2>3, <2>5 DEF ViewsRead, Reads
  <2> QED
    BY <2>6, <2>7 DEF ViewsRead
<1>7. ASSUME NEW c \in DOMAIN hubEnd, HubAccept(c) \/ HubRead(c) \/ HubReadLast(c) \/ HubHangup(c)
      PROVE  ViewsRead'
  <2>1. UNCHANGED viewVars
    BY <1>7 DEF HubAccept, HubRead, HubReadLast, HubHangup, managerVars
  <2> QED
    BY <1>1, <2>1
<1>8. CASE HubPurge
  BY <1>1, <1>8 DEF HubPurge, managerVars
<1> QED
  BY <1>2, <1>3, <1>4, <1>5, <1>6, <1>7, <1>8, Steps

\* At the start nobody has been told anything.
LEMMA InitViews == Init => ViewsRead
<1> SUFFICES ASSUME Init, NEW n \in Nodes PROVE Reads(mNodes[n], Told(n))
  BY DEF ViewsRead
<1>1. mNodes[n] = <<>> /\ mHistory[n] = <<>> /\ DOMAIN <<>> = {}
  BY DEF Init, ManagerInit
<1>2. Told(n) = {}
  BY <1>1 DEF Told
<1> QED
  BY <1>1, <1>2, NothingRead

\* With nothing under way a view says what the hub's history says: beside it the
\* spoke has been told only of the joining of nodes that have left.
LEMMA ViewOfHub ==
    ASSUME 1 \notin Nodes, MintedInv, StableInv, ViewsRead, Quiescent, NEW n \in Live
    PROVE  ViewKnown(mNodes[n]) /\ Reads(mNodes[n], {hubHistory[i] : i \in DOMAIN hubHistory})
<1> DEFINE Q == {hubHistory[i] : i \in DOMAIN hubHistory}
<1>1. n \in Nodes /\ AtHome(n) /\ WorldInv /\ pc[n] = "wait" /\ hubEnd[client[n]] = "open"
  BY DEF Live, StableInv, Quiescent, Attached
<1>2. client[n] # 0 /\ client[n] \in DOMAIN hubEnd /\ mHistory[n] \in Seq(Messages)
  BY <1>1, SpokeFacts DEF Connected
<1>3. Pending(client[n]) = <<>>
  BY <1>1, <1>2 DEF Quiescent, Pending
<1>4. Stream(n) = mHistory[n]
  BY <1>2, <1>3, ConcatEmptySeq DEF Stream
<1>5. Carries(mHistory[n], hubHistory)
  BY <1>1, <1>2, <1>4 DEF AtHome
<1>6. Q \in SUBSET Told(n)
  BY <1>5 DEF Carries, Told
<1>7. \A l \in LeftNodes(hubHistory) :
         l \in Nodes \cup {0} /\ \E x \in Q : IsLeave(x) /\ x.body.node = l
  <2>1. \A i \in DOMAIN hubHistory : hubHistory[i].body.node \in Nodes \cup {0}
    BY DEF MintedInv, GroupNodes, KnownMessages, Named
  <2> QED
    BY <2>1 DEF LeftNodes
<1>8. ASSUME NEW m \in Told(n), m \notin Q
      PROVE  IsJoin(m) /\ \E l \in Q : IsLeave(l) /\ l.body.node = m.body.node
  <2>1. Prunable(LeftNodes(hubHistory), m)
    BY <1>5, <1>8 DEF Carries, Told
  <2>2. m \in KnownMessages
    BY <1>1 DEF KnownMessages, Told
  <2>3. Named(m.body)
    BY <2>2 DEF MintedInv, GroupNodes
  <2>4. 1 \notin LeftNodes(hubHistory)
    BY <1>7
  <2>5. m.body.op \notin TopicOps
    <3>1. ASSUME m.body.op \in TopicOps PROVE m.body.node \in Nat /\ m.body.node > 0
      <4>1. m.body.node \in Nodes
        BY <2>3, <3>1 DEF Named
      <4>2. m.body.node \in Nat \ {0}
        BY <4>1, NodesAssumption
      <4> QED
        BY <4>2
    <3>2. ASSUME m.body.op \in TopicOps PROVE FALSE
      BY <2>1, <2>4, <3>1, <3>2 DEF Prunable, TopicOps, NodeOps
    <3> QED
      BY <3>2
  <2>6. m.body.op \in NodeOps /\ m.body.node \in LeftNodes(hubHistory) /\ ~IsLeave(m)
    BY <2>1, <2>5 DEF Prunable
  <2> QED
    BY <1>7, <2>6 DEF NodeOps, IsLeave, IsJoin
<1>9. Reads(mNodes[n], Told(n)) /\ ViewKnown(mNodes[n])
  BY <1>1 DEF ViewsRead, WorldInv, Types, ViewTypes
<1> HIDE DEF Q
<1>10. Reads(mNodes[n], Q)
  BY <1>6, <1>8, <1>9, ViewOfRest
<1> QED
  BY <1>9, <1>10 DEF Q

\* Whenever all that was sent has been read, all spokes have the same view, however
\* the replay of histories, the broadcasts, the prunings and the calls interleaved.
\* PruneRemoved compares node_id() > 0, a 1, with the nodes that have left: when a
\* node with the id 1 has left it drops the topics of all nodes, and those who were
\* told of them before keep them.  Hence the second assumption.
THEOREM ViewsAgree ==
    ASSUME HubMortal = FALSE, 1 \notin Nodes
    PROVE  Spec => []QuiescentAgreement
<1>1. Init => ViewsRead
  BY InitViews
<1>2. StableInv /\ ViewsRead /\ [Next]_vars => ViewsRead'
  BY NextKeepsViews
<1>3. MintedInv /\ StableInv /\ ViewsRead => QuiescentAgreement
  <2> SUFFICES ASSUME MintedInv, StableInv, ViewsRead, Quiescent, NEW m \in Live, NEW n \in Live
               PROVE  mNodes[m] = mNodes[n]
    BY DEF QuiescentAgreement
  <2> DEFINE Q == {hubHistory[i] : i \in DOMAIN hubHistory}
  <2>1. /\ ViewKnown(mNodes[m]) /\ Reads(mNodes[m], Q)
        /\ ViewKnown(mNodes[n]) /\ Reads(mNodes[n], Q)
    BY ViewOfHub
  <2> HIDE DEF Q
  <2> QED
    BY <2>1, ViewUnique
<1>4. Spec => []MintedInv /\ []StableInv
  BY MintedInvariant, StableInvariant
<1> QED
  BY <1>1, <1>2, <1>3, <1>4, PTL DEF Spec

-----------------------------------------------------------------------------
(* Whom the hub declares left.                                             *)

\* A node that does not live, or the id of a client that has not spoken.
Gone(x) == x \in Nodes => pc[x] = "dead"

\* What a spoke sends: first what it remembers, then what it says of itself.
Speech(s, n) ==
    /\ \A i \in DOMAIN s : s[i].seq = 0 => s[i].body.node = n /\ ~IsLeave(s[i])
    /\ \A i, j \in DOMAIN s : i < j /\ s[i].seq = 0 => s[j].seq = 0

Spoken == {"attach", "flush", "wait"}

\* The hub has n's own word for who n is, and n replays nothing any more.
Heeded(n) ==
    /\ pc[n] \in Spoken /\ client[n] \in DOMAIN hubClients
    /\ hubClients[client[n]].nodeId = n
    /\ \A i \in DOMAIN toHub[client[n]] : toHub[client[n]][i].seq = 0

\* The hub has heard n or is going to.
Speaks(n) ==
    client[n] # 0 =>
        /\ Speech(toHub[client[n]], n)
        /\ pc[n] = "introduce" => toHub[client[n]] = <<>>
        /\ pc[n] \in Spoken =>
              Heeded(n) \/ \E i \in DOMAIN toHub[client[n]] : toHub[client[n]][i].seq = 0

\* Nobody has a connection whose process was killed: the hub had read it to its end.
Orphans ==
    \A c \in DOMAIN toHub : (\A n \in Nodes : client[n] # c) =>
        /\ toHub[c] = <<>>
        /\ c \in DOMAIN hubClients => Gone(hubClients[c].nodeId)

JoinsHeeded ==
    \A i \in DOMAIN hubHistory : IsJoin(hubHistory[i]) =>
        \/ Gone(hubHistory[i].body.node)
        \/ hubHistory[i].body.node \in Nodes /\ Heeded(hubHistory[i].body.node)

LeavesGone == \A i \in DOMAIN hubHistory : IsLeave(hubHistory[i]) => Gone(hubHistory[i].body.node)

\* What comes from the hub has a number.
AllNumbered ==
    /\ \A i \in DOMAIN hubHistory : hubHistory[i].seq # 0
    /\ \A n \in Nodes : \A i \in DOMAIN mHistory[n] : mHistory[n][i].seq # 0
    /\ \A c \in DOMAIN toClient : \A i \in DOMAIN toClient[c] : toClient[c][i].seq # 0

LeaversInv ==
    StableInv /\ AllNumbered /\ (\A n \in Nodes : Speaks(n)) /\ Orphans /\ JoinsHeeded /\ LeavesGone

LEMMA SpeechGoesOn ==
    ASSUME NEW n, NEW s \in Seq(Messages), NEW t \in Seq(Messages), Speech(s, n), Speech(t, n),
           s = <<>> \/ \A j \in DOMAIN t : t[j].seq = 0
    PROVE  Speech(s \o t, n)
<1> DEFINE u == s \o t
<1>1. /\ DOMAIN u = 1..Len(u) /\ Len(u) \in Nat /\ Len(s) \in Nat
      /\ \A j \in DOMAIN u :
            \/ j \in DOMAIN s /\ u[j] = s[j]
            \/ j > Len(s) /\ j - Len(s) \in DOMAIN t /\ u[j] = t[j - Len(s)]
      /\ DOMAIN s = 1..Len(s)
  BY ConcatElements, LenProperties
<1> HIDE DEF u
<1>2. ASSUME NEW i \in DOMAIN u, u[i].seq = 0 PROVE u[i].body.node = n /\ ~IsLeave(u[i])
  BY <1>1, <1>2 DEF Speech, IsLeave
<1>3. ASSUME NEW i \in DOMAIN u, NEW j \in DOMAIN u, i < j, u[i].seq = 0 PROVE u[j].seq = 0
  <2>1. CASE j \in DOMAIN s /\ u[j] = s[j]
    <3>1. i \in DOMAIN s /\ ~(i > Len(s))
      BY <1>1, <1>3, <2>1
    <3>2. u[i] = s[i]
      BY <1>1, <3>1
    <3> QED
      BY <1>3, <2>1, <3>1, <3>2 DEF Speech
  <2>2. CASE j > Len(s) /\ j - Len(s) \in DOMAIN t /\ u[j] = t[j - Len(s)]
    <3>1. CASE s # <<>>
      BY <2>2, <3>1
    <3>2. CASE s = <<>>
      <4>1. Len(s) = 0
        BY <3>2
      <4>2. u[i] = t[i - Len(s)] /\ i - Len(s) \in DOMAIN t
        BY <1>1, <4>1
      <4>3. i - Len(s) < j - Len(s)
        BY <1>1, <1>3
      <4> QED
        BY <1>3, <2>2, <4>2, <4>3 DEF Speech
    <3> QED
      BY <3>1, <3>2
  <2> QED
    BY <1>1, <2>1, <2>2
<1> QED
  BY <1>2, <1>3 DEF Speech, u

\* The hub's clients are connections.
LEMMA HubConns == ASSUME WorldInv PROVE DOMAIN hubClients \subseteq DOMAIN toHub /\ 0 \notin DOMAIN hubClients
<1>1. 0 \notin DOMAIN toHub
  BY ConnFacts DEF WorldInv, Types
<1> QED
  BY <1>1 DEF WorldInv, Types, HubEnds, Linked

\* A step that changes nothing at the hub.
LEMMA SpokesSpeak ==
    ASSUME LeaversInv, StableInv', AllNumbered', UNCHANGED <<hubHistory, hubClients, client>>,
           DOMAIN toHub' = DOMAIN toHub, NEW n \in Nodes, Speaks(n)', Heeded(n) => Heeded(n)',
           \A m \in Nodes \ {n} : pc'[m] = pc[m],
           pc[n] = "dead" => pc'[n] = "dead",
           \A c \in DOMAIN toHub : c = client[n] \/ toHub'[c] = toHub[c]
    PROVE  LeaversInv'
<1>1. WorldInv
  BY DEF LeaversInv, StableInv
<1>2. \A x : Gone(x) => Gone(x)'
  BY DEF Gone
<1>3. \A m \in Nodes : client[m] \in {0} \cup DOMAIN toHub
  BY <1>1, SpokeFacts
<1>4. ASSUME NEW m \in Nodes \ {n} PROVE Speaks(m)' /\ (Heeded(m) => Heeded(m)')
  <2>1. Speaks(m)
    BY DEF LeaversInv
  <2>2. CASE client[m] = 0
    <3>1. 0 \notin DOMAIN toHub
      BY <1>1, SpokeFacts
    <3>2. 0 \notin DOMAIN hubClients
      BY <1>1, <3>1, HubConns
    <3> QED
      BY <2>2, <3>2 DEF Speaks, Heeded
  <2>3. CASE client[m] # 0
    <3>1. client[m] # client[n]
      BY <2>3 DEF LeaversInv, StableInv, OwnClients
    <3>2. toHub'[client[m]] = toHub[client[m]]
      BY <1>3, <2>3, <3>1
    <3>3. Heeded(m)' <=> Heeded(m)
      BY <3>2 DEF Heeded
    <3> QED
      BY <2>1, <3>2, <3>3 DEF Speaks
  <2> QED
    BY <2>2, <2>3
<1>5. \A m \in Nodes : Speaks(m)' /\ (Heeded(m) => Heeded(m)')
  BY <1>4
<1>6. Orphans'
  BY <1>2 DEF LeaversInv, Orphans
<1>7. JoinsHeeded' /\ LeavesGone'
  BY <1>2, <1>5 DEF LeaversInv, JoinsHeeded, LeavesGone
<1> QED
  BY <1>5, <1>6, <1>7 DEF LeaversInv

LEMMA SameNumbers ==
    ASSUME AllNumbered, UNCHANGED <<hubHistory, mHistory, toClient>>
    PROVE  AllNumbered'
BY DEF AllNumbered

\* Steps that move a spoke and send nothing.
LEMMA MoveSpeaks ==
    ASSUME LeaversInv, StableInv', AllNumbered', NEW n \in Nodes,
           UNCHANGED <<hubHistory, hubClients, client, toHub>>,
           \A m \in Nodes \ {n} : pc'[m] = pc[m], pc[n] = "dead" => pc'[n] = "dead",
           pc'[n] \in Spoken <=> pc[n] \in Spoken, pc'[n] = "introduce" => pc[n] = "introduce"
    PROVE  LeaversInv'
<1>1. Heeded(n) => Heeded(n)'
  BY DEF Heeded
<1>2. Speaks(n)'
  BY <1>1 DEF LeaversInv, Speaks
<1> QED
  BY <1>1, <1>2, SpokesSpeak

\* Steps that send.
LEMMA SendSpeaks ==
    ASSUME LeaversInv, StableInv', NEW n \in Nodes, client[n] # 0, NEW packets \in Seq(Messages),
           toHub' = Written(client[n], packets), Speech(packets, n),
           \E j \in DOMAIN packets : packets[j].seq = 0,
           pc[n] = "introduce" \/ \A j \in DOMAIN packets : packets[j].seq = 0,
           UNCHANGED <<hubHistory, hubClients, client, mHistory, toClient>>,
           \A m \in Nodes \ {n} : pc'[m] = pc[m], pc[n] # "dead", pc'[n] \in Spoken
    PROVE  LeaversInv'
<1>1. WorldInv /\ AtHome(n) /\ Speaks(n) /\ AllNumbered
  BY DEF LeaversInv, StableInv
<1> DEFINE c == client[n]
<1>2. c \in DOMAIN toHub /\ CanSend(c)
  BY <1>1, SpokeFacts DEF AtHome, CanSend
<1>3. toHub \in [DOMAIN toHub -> Seq(Messages)] /\ toHub[c] \in Seq(Messages)
  BY <1>1, <1>2, SpokeFacts
<1>4. /\ DOMAIN toHub' = DOMAIN toHub /\ toHub'[c] = toHub[c] \o packets
      /\ \A d \in DOMAIN toHub : d # c => toHub'[d] = toHub[d]
  BY <1>2, <1>3 DEF Written
<1>5. toHub[c] = <<>> \/ \A j \in DOMAIN packets : packets[j].seq = 0
  BY <1>1 DEF Speaks
<1>6. Speech(toHub'[c], n)
  BY <1>1, <1>3, <1>4, <1>5, SpeechGoesOn DEF Speaks
<1>7. /\ \A i \in DOMAIN (toHub[c] \o packets) :
            \/ \E j \in DOMAIN toHub[c] : (toHub[c] \o packets)[i] = toHub[c][j]
            \/ \E j \in DOMAIN packets : (toHub[c] \o packets)[i] = packets[j]
      /\ \A j \in DOMAIN packets : \E i \in DOMAIN (toHub[c] \o packets) : (toHub[c] \o packets)[i] = packets[j]
  BY <1>3, ConcatHolds
<1>8. \E i \in DOMAIN toHub'[c] : toHub'[c][i].seq = 0
  <2>1. PICK j \in DOMAIN packets : packets[j].seq = 0
    OBVIOUS
  <2>2. PICK i \in DOMAIN (toHub[c] \o packets) : (toHub[c] \o packets)[i] = packets[j]
    BY <1>7
  <2>3. i \in DOMAIN toHub'[c] /\ toHub'[c][i].seq = 0
    BY <1>4, <2>1, <2>2
  <2> QED
    BY <2>3
<1>9. Heeded(n) => Heeded(n)'
  <2> SUFFICES ASSUME Heeded(n) PROVE Heeded(n)'
    OBVIOUS
  <2>1. pc[n] # "introduce"
    BY DEF Heeded, Spoken
  <2>2. \A i \in DOMAIN toHub'[c] : toHub'[c][i].seq = 0
    BY <1>4, <1>7, <2>1 DEF Heeded
  <2> QED
    BY <2>2 DEF Heeded
<1>10. Speaks(n)'
  BY <1>6, <1>8 DEF Speaks, Spoken
<1>11. AllNumbered'
  BY <1>1, SameNumbers
<1> QED
  BY <1>4, <1>9, <1>10, <1>11, SpokesSpeak

LEMMA MovesSpeak ==
    ASSUME LeaversInv, StableInv', NEW n \in Nodes,
           \/ StartNode(n)
           \/ ((ConnectFails(n) \/ Attach(n) \/ Wait(n)) /\ UNCHANGED <<hubVars, epoch, called>>)
           \/ (ServeGroup(n) /\ hubHost \notin {NoHost, n})
    PROVE  LeaversInv'
<1>1. StableInv /\ WorldInv /\ LoopHolds /\ AllNumbered /\ AtHome(n)
  BY DEF LeaversInv, StableInv, WorldInv
<1>2. UNCHANGED <<hubHistory, hubClients, client, toHub, mHistory, toClient>>
  BY DEF StartNode, Start, ConnectFails, Attach, Wait, ServeGroup, Serve, connVars, viewVars, udsVars, hubVars
<1>3. pc[n] # "dead" /\ \E l \in {"connect", "serve", "flush", "wait"} :
         Goto(n, l) /\ (l \in {"flush", "wait"} <=> pc[n] \in Spoken)
  <2>1. CASE StartNode(n)
    BY <2>1 DEF StartNode, Start, Spoken
  <2>2. CASE ConnectFails(n)
    BY <1>1, <2>2, ContinueGoes DEF ConnectFails, Spoken
  <2>3. CASE Attach(n)
    BY <2>3 DEF Attach, Spoken
  <2>4. CASE Wait(n)
    <3>1. pc[n] = "flush" /\ mClient[n] # 0
      BY <1>1, <2>4, SpokeFacts DEF Wait, AtHome, Connected
    <3> QED
      BY <2>4, <3>1 DEF Wait, Spoken
  <2>5. CASE ServeGroup(n)
    BY <1>1, <2>5, ContinueGoes DEF ServeGroup, Serve, Spoken
  <2> QED
    BY <2>1, <2>2, <2>3, <2>4, <2>5
<1>4. pc \in [Nodes -> Labels]
  BY <1>1, SpokeFacts
<1>5. PICK l \in {"connect", "serve", "flush", "wait"} :
         pc' = [pc EXCEPT ![n] = l] /\ (l \in {"flush", "wait"} <=> pc[n] \in Spoken)
  BY <1>3 DEF Goto
<1>6. pc'[n] = l /\ \A m \in Nodes \ {n} : pc'[m] = pc[m]
  BY <1>4, <1>5
<1>7. pc'[n] \in Spoken <=> pc[n] \in Spoken
  BY <1>5, <1>6 DEF Spoken
<1>8. AllNumbered'
  BY <1>1, <1>2, SameNumbers
<1> QED
  BY <1>2, <1>3, <1>5, <1>6, <1>7, <1>8, MoveSpeaks

LEMMA ClientThreadSpeaks ==
    ASSUME LeaversInv, StableInv', NEW n \in Nodes, ClientThread(n)
    PROVE  LeaversInv'
<1>1. WorldInv /\ AllNumbered
  BY DEF LeaversInv, StableInv
<1>2. PICK c : c = client[n]
  OBVIOUS
<1>3. /\ UNCHANGED <<pc, client, hubHistory, hubClients, toHub>>
      /\ \/ UNCHANGED <<mHistory, toClient>>
         \/ /\ c \in DOMAIN toClient /\ toClient[c] # <<>>
            /\ mHistory' = [mHistory EXCEPT ![n] = Remembered(@, Head(toClient[c]))]
            /\ toClient' = [toClient EXCEPT ![c] = Tail(toClient[c])]
  BY <1>1, <1>2, ClientThreadDoes DEF ApplyUpdate, hubVars
<1>4. CASE UNCHANGED <<mHistory, toClient>>
  BY <1>1, <1>3, <1>4, SameNumbers, MoveSpeaks
<1>5. CASE /\ c \in DOMAIN toClient /\ toClient[c] # <<>>
           /\ mHistory' = [mHistory EXCEPT ![n] = Remembered(@, Head(toClient[c]))]
           /\ toClient' = [toClient EXCEPT ![c] = Tail(toClient[c])]
  <2> DEFINE K == {m \in Messages : m.seq # 0}
  <2>1. mHistory[n] \in Seq(K) /\ mHistory \in [Nodes -> Seq(Messages)]
    <3>1. mHistory \in [Nodes -> Seq(Messages)] /\ \A i \in DOMAIN mHistory[n] : mHistory[n][i] \in K
      BY <1>1 DEF WorldInv, Types, QueueTypes, AllNumbered
    <3> HIDE DEF K
    <3> QED
      BY <3>1
  <2>2. toClient[c] \in Seq(Messages) /\ toClient \in [DOMAIN toClient -> Seq(Messages)]
    BY <1>1, <1>5 DEF WorldInv, Types, Linked
  <2>3. /\ 1 \in DOMAIN toClient[c] /\ Head(toClient[c]) = toClient[c][1] /\ Head(toClient[c]) \in Messages
        /\ \A i \in DOMAIN Tail(toClient[c]) : i + 1 \in DOMAIN toClient[c]
                                               /\ Tail(toClient[c])[i] = toClient[c][i + 1]
    BY <1>5, <2>2
  <2>4. Head(toClient[c]) \in K
    BY <1>1, <1>5, <2>3 DEF AllNumbered
  <2>5. K \in SUBSET Messages /\ \A m \in K : m.seq # 0
    OBVIOUS
  <2> HIDE DEF K
  <2>6. Remembered(mHistory[n], Head(toClient[c])) \in Seq(K)
    BY <2>1, <2>4, <2>5, RememberedType
  <2>7. /\ mHistory'[n] = Remembered(mHistory[n], Head(toClient[c]))
        /\ \A m \in Nodes : m # n => mHistory'[m] = mHistory[m]
        /\ DOMAIN toClient' = DOMAIN toClient /\ toClient'[c] = Tail(toClient[c])
        /\ \A d \in DOMAIN toClient : d # c => toClient'[d] = toClient[d]
    BY <1>5, <2>1, <2>2
  <2>8. \A i \in DOMAIN mHistory'[n] : mHistory'[n][i].seq # 0
    BY <2>5, <2>6, <2>7
  <2>9. \A i \in DOMAIN toClient'[c] : toClient'[c][i].seq # 0
    BY <1>1, <1>5, <2>3, <2>7 DEF AllNumbered
  <2>10. AllNumbered'
    BY <1>1, <1>3, <2>7, <2>8, <2>9 DEF AllNumbered
  <2> QED
    BY <1>3, <2>10, MoveSpeaks
<1> QED
  BY <1>3, <1>4, <1>5

\* An introduction starts with the JOIN, and nobody introduces himself with a LEAVE.
LEMMA IntroductionSpoken ==
    ASSUME NEW n \in Nat, NEW e, NodeKnown(e),
           NEW pubOrder \in Orders(DOMAIN e.pubs), NEW subOrder \in Orders(e.subs)
    PROVE  /\ \A i \in DOMAIN Introduction(n, e.pubs, pubOrder, subOrder) :
                 ~IsLeave(Introduction(n, e.pubs, pubOrder, subOrder)[i])
           /\ 1 \in DOMAIN Introduction(n, e.pubs, pubOrder, subOrder)
<1> DEFINE lastMime == IF pubOrder = <<>> THEN "" ELSE e.pubs[pubOrder[Len(pubOrder)]]
           a == <<Message(0, 0, NodeChange("JOIN", n))>>
           b == [j \in DOMAIN pubOrder |->
                    Message(0, 0, TopicChange("ANNOUNCE", n, pubOrder[j], e.pubs[pubOrder[j]]))]
           c == [j \in DOMAIN subOrder |->
                    Message(0, 0, TopicChange("SUBSCRIBE", n, subOrder[j], lastMime))]
<1>1. pubOrder \in Seq(DOMAIN e.pubs) /\ subOrder \in Seq(e.subs)
  BY IntroductionType
<1>2. DOMAIN pubOrder = 1..Len(pubOrder) /\ Len(pubOrder) \in Nat
      /\ DOMAIN subOrder = 1..Len(subOrder) /\ Len(subOrder) \in Nat
  BY <1>1
<1> DEFINE T == {m \in {a[1]} \cup {b[j] : j \in DOMAIN pubOrder} \cup {c[j] : j \in DOMAIN subOrder} :
                     ~IsLeave(m)}
<1>3. ~IsLeave(a[1])
  BY DEF Message, NodeChange, IsLeave
<1>4. \A j \in DOMAIN pubOrder : ~IsLeave(b[j])
  BY DEF Message, TopicChange, IsLeave
<1>5. \A j \in DOMAIN subOrder : ~IsLeave(c[j])
  BY DEF Message, TopicChange, IsLeave
<1>6. a \in Seq(T) /\ Len(a) = 1
  BY <1>3
<1>7. b \in Seq(T) /\ c \in Seq(T)
  <2>1. b \in [1..Len(pubOrder) -> T] /\ c \in [1..Len(subOrder) -> T]
    BY <1>2, <1>4, <1>5
  <2> HIDE DEF a, b, c, T
  <2> QED
    BY <1>2, <2>1, FunctionIsSeq
<1>8. Introduction(n, e.pubs, pubOrder, subOrder) = a \o b \o c
  BY DEF Introduction
<1>9. \A m \in T : ~IsLeave(m)
  OBVIOUS
<1> HIDE DEF a, b, c, T
<1>10. a \o b \in Seq(T) /\ 1 \in DOMAIN (a \o b)
  BY <1>6, <1>7, ConcatElements
<1>11. (a \o b) \o c \in Seq(T) /\ 1 \in DOMAIN ((a \o b) \o c)
  BY <1>7, <1>10, ConcatElements
<1> QED
  BY <1>8, <1>9, <1>11

LEMMA IntroduceSpeaks ==
    ASSUME LeaversInv, StableInv', NEW n \in Nodes, IntroduceOurselves(n), UNCHANGED <<hubVars, epoch, called>>
    PROVE  LeaversInv'
<1>1. StableInv /\ WorldInv /\ AllNumbered /\ n \in Nat
  BY NodeFacts DEF LeaversInv, StableInv
<1>2. PICK e, pubOrder, subOrder :
         /\ NodeKnown(e) /\ pubOrder \in Orders(DOMAIN e.pubs) /\ subOrder \in Orders(e.subs)
         /\ Introduction(n, e.pubs, pubOrder, subOrder) \in Seq(Messages)
         /\ mHistory[n] \in Seq(Messages)
         /\ toHub' = Written(client[n], mHistory[n] \o Introduction(n, e.pubs, pubOrder, subOrder))
  BY <1>1, IntroductionOf, Zenon
<1> DEFINE intro == Introduction(n, e.pubs, pubOrder, subOrder)
           packets == mHistory[n] \o intro
<1>3. 1 \in DOMAIN intro /\ \A i \in DOMAIN intro :
         intro[i].seq = 0 /\ intro[i].body.node = n /\ ~IsLeave(intro[i])
  <2>1. n \in Nat /\ NodeKnown(e) /\ pubOrder \in Orders(DOMAIN e.pubs) /\ subOrder \in Orders(e.subs)
    BY <1>1, <1>2
  <2>2. 1 \in DOMAIN intro /\ \A i \in DOMAIN intro : ~IsLeave(intro[i])
    BY <2>1, IntroductionSpoken
  <2>3. \A i \in DOMAIN intro : intro[i].seq = 0 /\ intro[i].uid = 0 /\ intro[i].body.node = n
    BY <2>1, IntroductionUnnumbered
  <2> HIDE DEF intro
  <2> QED
    BY <2>2, <2>3
<1>4. intro \in Seq(Messages) /\ mHistory[n] \in Seq(Messages) /\ toHub' = Written(client[n], packets)
  BY <1>2
<1> HIDE DEF intro
<1>5. Speech(mHistory[n], n) /\ Speech(intro, n) /\ \A i \in DOMAIN intro : intro[i].seq = 0
  BY <1>1, <1>3 DEF AllNumbered, Speech
<1>6. Speech(packets, n) /\ packets \in Seq(Messages)
  BY <1>4, <1>5, SpeechGoesOn, ConcatElements
<1>7. \E j \in DOMAIN packets : packets[j].seq = 0
  <2>1. 1 \in DOMAIN intro
    BY <1>3
  <2>2. Len(mHistory[n]) + 1 \in DOMAIN packets /\ packets[Len(mHistory[n]) + 1] = intro[1]
    BY <1>4, <2>1, ConcatElements
  <2>3. packets[Len(mHistory[n]) + 1].seq = 0
    BY <1>5, <2>1, <2>2
  <2> QED
    BY <2>2, <2>3
<1> HIDE DEF packets
<1>8. /\ pc[n] = "introduce" /\ pc' = [pc EXCEPT ![n] = "attach"]
      /\ UNCHANGED <<client, mHistory, toClient, hubHistory, hubClients>>
  BY DEF IntroduceOurselves, Goto, connVars, viewVars, hubVars
<1>9. client[n] # 0 /\ pc'[n] = "attach" /\ \A m \in Nodes \ {n} : pc'[m] = pc[m]
  BY <1>1, <1>8, SpokeFacts DEF Connected
<1> QED
  BY <1>4, <1>6, <1>7, <1>8, <1>9, SendSpeaks DEF Spoken

\* A call on its way to the hub.
LEMMA CallIsSpeech ==
    ASSUME NEW n \in Nodes, NEW body \in Calls[n]
    PROVE  LET packets == <<Message(0, 0, body)>> IN
           /\ packets \in Seq(Messages) /\ Speech(packets, n)
           /\ \A j \in DOMAIN packets : packets[j].seq = 0
           /\ \E j \in DOMAIN packets : packets[j].seq = 0
<1> DEFINE msg == Message(0, 0, body)
<1>1. msg \in Messages /\ msg.seq = 0 /\ msg.body.node = n /\ ~IsLeave(msg)
  BY CallsAreMessages DEF Message, IsLeave
<1> HIDE DEF msg
<1>2. <<msg>> \in Seq(Messages) /\ DOMAIN <<msg>> = {1} /\ <<msg>>[1] = msg
  BY <1>1
<1>3. Speech(<<msg>>, n)
  BY <1>1, <1>2 DEF Speech
<1>4. (\A j \in DOMAIN <<msg>> : <<msg>>[j].seq = 0) /\ \E j \in DOMAIN <<msg>> : <<msg>>[j].seq = 0
  BY <1>1, <1>2
<1> QED
  BY <1>2, <1>3, <1>4 DEF msg

LEMMA CallsSpeak ==
    ASSUME LeaversInv, StableInv', NEW n \in Nodes,
           (\E body \in Calls[n] : CallOf(n, body))
           \/ (FlushBacklog(n) /\ UNCHANGED <<hubVars, epoch, called>>)
    PROVE  LeaversInv'
<1>1. StableInv /\ WorldInv /\ AllNumbered
  BY DEF LeaversInv, StableInv
<1>2. PICK body \in Calls[n] :
         /\ Send(n, Message(0, 0, body)) /\ pc[n] # "dead"
         /\ UNCHANGED <<pc, client, mHistory, toClient, hubHistory, hubClients>>
  <2>1. CASE FlushBacklog(n) /\ UNCHANGED <<hubVars, epoch, called>>
    <3>1. /\ pc[n] = "flush" /\ unsent[n] # <<>> /\ Send(n, Head(unsent[n]))
          /\ UNCHANGED <<pc, client, mHistory, toClient, hubHistory, hubClients>>
      BY <2>1 DEF FlushBacklog, viewVars, hubVars
    <3>2. unsent[n] \in Seq(Messages)
      BY <1>1, SpokeFacts
    <3>3. 1 \in DOMAIN unsent[n] /\ Head(unsent[n]) = unsent[n][1]
      BY <3>1, <3>2
    <3>4. PICK body \in Calls[n] : Head(unsent[n]) = Message(0, 0, body)
      BY <1>1, <3>3 DEF WorldInv, Backlogs, CallMessages
    <3> QED
      BY <3>1, <3>4
  <2>2. CASE \E body \in Calls[n] : CallOf(n, body)
    BY <2>2 DEF CallOf, Call, viewVars, hubVars, Running
  <2> QED
    BY <2>1, <2>2
<1>3. CASE pc[n] \in {"flush", "wait"}
  <2>1. client[n] # 0 /\ toHub' = Written(client[n], <<Message(0, 0, body)>>)
    BY <1>1, <1>2, <1>3, SendAtHome
  <2>2. /\ <<Message(0, 0, body)>> \in Seq(Messages) /\ Speech(<<Message(0, 0, body)>>, n)
        /\ \A j \in DOMAIN <<Message(0, 0, body)>> : <<Message(0, 0, body)>>[j].seq = 0
        /\ \E j \in DOMAIN <<Message(0, 0, body)>> : <<Message(0, 0, body)>>[j].seq = 0
    BY CallIsSpeech
  <2> QED
    BY <1>2, <1>3, <2>1, <2>2, SendSpeaks DEF Spoken
<1>4. CASE pc[n] \notin {"flush", "wait"}
  <2>1. toHub' = toHub
    BY <1>1, <1>2, <1>4, SendAtHome
  <2> QED
    BY <1>1, <1>2, <2>1, SameNumbers, MoveSpeaks
<1> QED
  BY <1>3, <1>4

\* A spoke whose connection a step leaves alone.
LEMMA StillSpeaks ==
    ASSUME WorldInv, NEW m \in Nodes, Speaks(m), client'[m] = client[m], pc'[m] = pc[m],
           client[m] # 0 =>
              /\ toHub'[client[m]] = toHub[client[m]]
              /\ client[m] \in DOMAIN hubClients =>
                    /\ client[m] \in DOMAIN hubClients'
                    /\ hubClients'[client[m]].nodeId = hubClients[client[m]].nodeId
    PROVE  Speaks(m)' /\ (Heeded(m) => Heeded(m)')
<1>1. CASE client[m] = 0
  <2>1. ~Heeded(m)
    BY <1>1, HubConns DEF Heeded
  <2> QED
    BY <1>1, <2>1 DEF Speaks
<1>2. CASE client[m] # 0
  <2>1. Heeded(m) => Heeded(m)'
    BY <1>2 DEF Heeded
  <2> QED
    BY <1>2, <2>1 DEF Speaks
<1> QED
  BY <1>1, <1>2

LEMMA ConnectSpeaks ==
    ASSUME LeaversInv, StableInv', NEW n \in Nodes, Connect(n), UNCHANGED <<hubVars, epoch, called>>
    PROVE  LeaversInv'
<1>1. StableInv /\ WorldInv /\ AllNumbered /\ Linked(Messages)
  BY DEF LeaversInv, StableInv, WorldInv, Types
<1>2. PICK d : d = NextConn
  OBVIOUS
<1>3. /\ pc[n] = "connect" /\ hubHost # NoHost /\ client' = [client EXCEPT ![n] = d]
      /\ OpenConnection(NextConn) /\ toHub' = With(toHub, d, <<>>)
      /\ hubEnd' = With(hubEnd, d, "backlog")
      /\ pc' = [pc EXCEPT ![n] = "introduce"]
      /\ UNCHANGED <<mHistory, toClient, hubHistory, hubClients>>
  BY <1>2 DEF Connect, Goto, viewVars, OpenConnection, hubVars
<1>4. d \notin DOMAIN toHub /\ d # 0 /\ DOMAIN toHub' = DOMAIN toHub \cup {d}
  BY <1>1, <1>2, <1>3, OpenConnectionKeeps, ConnFacts
<1>5. /\ client'[n] = d /\ pc'[n] = "introduce" /\ client[n] = 0 /\ pc[n] # "dead"
      /\ \A m \in Nodes \ {n} : client'[m] = client[m] /\ pc'[m] = pc[m]
  BY <1>1, <1>3, SpokeFacts DEF Connected
<1>6. toHub'[d] = <<>> /\ \A c \in DOMAIN toHub : toHub'[c] = toHub[c]
  BY <1>3, <1>4 DEF With
<1>7. \A m \in Nodes \ {n} : Speaks(m)' /\ (Heeded(m) => Heeded(m)')
  <2>1. \A m \in Nodes : Speaks(m) /\ client[m] \in {0} \cup DOMAIN toHub
    BY <1>1, SpokeFacts DEF LeaversInv
  <2> QED
    BY <1>1, <1>3, <1>5, <1>6, <2>1, StillSpeaks
<1>8. ~Heeded(n) /\ Speaks(n)'
  <2>1. ~Heeded(n)
    BY <1>3 DEF Heeded, Spoken
  <2>2. DOMAIN <<>> = {}
    OBVIOUS
  <2>3. Speech(<<>>, n)
    BY <2>2 DEF Speech
  <2> QED
    BY <1>5, <1>6, <2>1, <2>3 DEF Speaks, Spoken
<1>9. \A m \in Nodes : Speaks(m)' /\ (Heeded(m) => Heeded(m)')
  BY <1>7, <1>8
<1>10. \A x : Gone(x) => Gone(x)'
  BY <1>5 DEF Gone
<1>11. Orphans'
  <2> SUFFICES ASSUME NEW c \in DOMAIN toHub', \A m \in Nodes : client'[m] # c
               PROVE  /\ toHub'[c] = <<>>
                      /\ c \in DOMAIN hubClients' => Gone(hubClients[c].nodeId)'
    BY DEF Orphans
  <2>1. c \in DOMAIN toHub /\ c # 0
    BY <1>1, <1>4, <1>5, SpokeFacts
  <2>2. \A m \in Nodes : client[m] # c
    BY <1>5, <2>1
  <2>3. toHub[c] = <<>> /\ (c \in DOMAIN hubClients => Gone(hubClients[c].nodeId))
    BY <2>1, <2>2 DEF LeaversInv, Orphans
  <2> QED
    BY <1>3, <1>6, <1>10, <2>1, <2>3
<1>12. JoinsHeeded' /\ LeavesGone'
  BY <1>3, <1>9, <1>10 DEF LeaversInv, JoinsHeeded, LeavesGone
<1>13. AllNumbered'
  BY <1>1, <1>3, SameNumbers
<1> QED
  BY <1>9, <1>11, <1>12, <1>13 DEF LeaversInv

LEMMA ServeSpeaks ==
    ASSUME LeaversInv, StableInv', NEW n \in Nodes, ServeGroup(n), hubHost = NoHost
    PROVE  LeaversInv'
<1>1. StableInv /\ WorldInv /\ AllNumbered /\ \A m \in Nodes : AtHome(m)
  BY DEF LeaversInv, StableInv
<1>2. UNCHANGED <<client, mHistory, toHub, toClient>> /\ Hub!CreateServer(mHistory[n])
  BY NodeFacts DEF ServeGroup, Serve, connVars, viewVars, udsVars
<1>3. DOMAIN toHub = {} /\ \A m \in Nodes : client[m] = 0
  BY <1>1, SpokeFacts DEF StableInv, HubStays
<1>4. mHistory[n] = <<>> /\ DOMAIN <<>> = {}
  BY <1>1, <1>3 DEF AtHome
<1>5. hubHistory' = <<>> /\ hubClients' = <<>>
  BY <1>2, <1>4 DEF Hub!CreateServer
<1>6. \A m \in Nodes : Speaks(m)'
  BY <1>2, <1>3 DEF Speaks
<1>7. Orphans' /\ JoinsHeeded' /\ LeavesGone'
  BY <1>2, <1>3, <1>4, <1>5 DEF Orphans, JoinsHeeded, LeavesGone
<1>8. AllNumbered'
  BY <1>1, <1>2, <1>4, <1>5 DEF AllNumbered
<1> QED
  BY <1>6, <1>7, <1>8 DEF LeaversInv

\* A process is killed when the hub has read it to its end.
LEMMA DeathHeeded ==
    ASSUME HubMortal = FALSE, Abrupt = FALSE, LeaversInv, StableInv', NEW n \in Nodes,
           ProcessDies(n), Kill(n) \/ Abort(n)
    PROVE  LeaversInv'
<1>1. StableInv /\ WorldInv /\ AllNumbered /\ AtHome(n) /\ aborted = "no" /\ Speaks(n)
  BY DEF LeaversInv, StableInv, HubStays
<1>2. ~Abort(n)
  BY <1>1 DEF Abort, AtHome
<1>3. hubHost # n /\ Introduced(n)
  BY <1>2 DEF Kill
<1> DEFINE c == client[n]
<1>4. pc[n] \in Spoken /\ toHub[c] = <<>> /\ c # 0 /\ DOMAIN <<>> = {}
  BY <1>1, <1>3, SpokeFacts DEF Introduced, Spoken, Connected
<1>5. c \in DOMAIN hubClients /\ hubClients[c].nodeId = n
  BY <1>1, <1>4 DEF Speaks, Heeded
<1>6. /\ pc' = [pc EXCEPT ![n] = "dead"] /\ client' = [client EXCEPT ![n] = 0]
      /\ mHistory' = [mHistory EXCEPT ![n] = <<>>]
      /\ UNCHANGED <<toHub, toClient, hubHistory, hubClients>>
  BY <1>1, <1>3, DeathDoes DEF hubVars
<1>7. /\ pc'[n] = "dead" /\ client'[n] = 0 /\ mHistory'[n] = <<>>
      /\ \A m \in Nodes \ {n} : pc'[m] = pc[m] /\ client'[m] = client[m] /\ mHistory'[m] = mHistory[m]
  BY <1>1, <1>6, SpokeFacts
<1>8. \A m \in Nodes \ {n} : Speaks(m)' /\ (Heeded(m) => Heeded(m)')
  <2>1. \A m \in Nodes : Speaks(m)
    BY DEF LeaversInv
  <2> QED
    BY <1>1, <1>6, <1>7, <2>1, StillSpeaks
<1>9. Speaks(n)' /\ Gone(n)'
  BY <1>7 DEF Speaks, Gone
<1>10. \A x : Gone(x) => Gone(x)'
  BY <1>7 DEF Gone
<1>11. Orphans'
  <2> SUFFICES ASSUME NEW d \in DOMAIN toHub, \A m \in Nodes : client'[m] # d
               PROVE  /\ toHub[d] = <<>>
                      /\ d \in DOMAIN hubClients => Gone(hubClients[d].nodeId)'
    BY <1>6 DEF Orphans
  <2>1. CASE d = c
    BY <1>4, <1>5, <1>6, <1>9, <2>1
  <2>2. CASE d # c
    <3>1. \A m \in Nodes : client[m] # d
      BY <1>7, <2>2
    <3> QED
      BY <1>6, <1>10, <3>1 DEF LeaversInv, Orphans
  <2> QED
    BY <2>1, <2>2
<1>12. JoinsHeeded' /\ LeavesGone'
  <2>1. ASSUME NEW x \in Nodes, Heeded(x) PROVE Gone(x)' \/ Heeded(x)'
    BY <1>8, <1>9, <2>1
  <2> QED
    BY <1>6, <1>10, <2>1 DEF LeaversInv, JoinsHeeded, LeavesGone
<1>13. AllNumbered'
  BY <1>1, <1>4, <1>6, <1>7 DEF AllNumbered
<1> QED
  BY <1>8, <1>9, <1>11, <1>12, <1>13 DEF LeaversInv

LEMMA AcceptSpeaks ==
    ASSUME LeaversInv, StableInv', NEW c \in DOMAIN hubEnd, HubAccept(c)
    PROVE  LeaversInv'
<1>1. StableInv /\ WorldInv /\ AllNumbered
  BY DEF LeaversInv, StableInv
<1>2. /\ hubEnd[c] = "backlog" /\ Hub!OnConnect(c)
      /\ UNCHANGED <<pc, client, mHistory, toHub>>
  BY DEF HubAccept, HubCanAccept, managerVars, connVars, viewVars
<1>3. c \in Nat /\ c \in DOMAIN toHub /\ c \notin DOMAIN hubClients
  <2>1. c \in DOMAIN toHub /\ c \notin DOMAIN hubClients
    BY <1>1, <1>2, SpokeFacts DEF WorldInv, HubEnds, Types, Linked
  <2>2. c \in Nat
    BY <1>1, <2>1, ConnFacts DEF WorldInv, Types
  <2> QED
    BY <2>1, <2>2
<1>4. /\ UNCHANGED hubHistory
      /\ DOMAIN hubClients' = DOMAIN hubClients \cup {c}
      /\ hubClients'[c].nodeId = 0
      /\ \A f \in DOMAIN hubClients : hubClients'[f] = hubClients[f]
      /\ DOMAIN toClient' = DOMAIN toClient \cup {c} /\ toClient'[c] = hubHistory
      /\ \A f \in DOMAIN toClient : f # c => toClient'[f] = toClient[f]
  <2>1. /\ UNCHANGED hubHistory
        /\ DOMAIN hubClients' = DOMAIN hubClients \cup {c}
        /\ hubClients'[c] = [seq |-> LastSeq(hubHistory), nodeId |-> 0, history |-> {}]
        /\ \A f \in DOMAIN hubClients : f # c => hubClients'[f] = hubClients[f]
        /\ DOMAIN toClient' = DOMAIN toClient \cup {c} /\ toClient'[c] = hubHistory
        /\ \A f \in DOMAIN toClient : f # c => toClient'[f] = toClient[f]
    BY <1>1, <1>2, <1>3, OnConnectDoes
  <2> QED
    BY <1>3, <2>1
<1>5. \A m \in Nodes : Speaks(m)' /\ (Heeded(m) => Heeded(m)')
  <2>1. \A m \in Nodes : Speaks(m)
    BY DEF LeaversInv
  <2> QED
    BY <1>1, <1>2, <1>4, <2>1, StillSpeaks
<1>6. \A x : Gone(x)' <=> Gone(x)
  BY <1>2 DEF Gone
<1>7. Gone(0)
  BY NodesAssumption DEF Gone
<1>8. Orphans'
  BY <1>2, <1>4, <1>6, <1>7 DEF LeaversInv, Orphans
<1>9. JoinsHeeded' /\ LeavesGone'
  BY <1>4, <1>5, <1>6 DEF LeaversInv, JoinsHeeded, LeavesGone
<1>10. AllNumbered'
  <2>1. \A d \in DOMAIN toClient' : \A i \in DOMAIN toClient'[d] : toClient'[d][i].seq # 0
    <3>1. \A i \in DOMAIN toClient'[c] : toClient'[c][i].seq # 0
      BY <1>1, <1>4 DEF AllNumbered
    <3>2. \A d \in DOMAIN toClient : d # c => \A i \in DOMAIN toClient'[d] : toClient'[d][i].seq # 0
      BY <1>1, <1>4 DEF AllNumbered
    <3> QED
      BY <1>4, <3>1, <3>2
  <2> QED
    BY <1>1, <1>2, <1>4, <2>1 DEF AllNumbered
<1> QED
  BY <1>5, <1>8, <1>9, <1>10 DEF LeaversInv

\* What the hub adds to its history and broadcasts.
LEMMA HubSays ==
    ASSUME LeaversInv, StableInv', UNCHANGED managerVars,
           NEW news, NEW clients, NEW nextSeq, Settling(news, clients, nextSeq),
           \A i \in DOMAIN news :
              /\ IsLeave(news[i]) => Gone(news[i].body.node)
              /\ IsJoin(news[i]) => news[i].body.node \in Nodes /\ Heeded(news[i].body.node)',
           \A m \in Nodes : Speaks(m)' /\ (Heeded(m) => Heeded(m)'),
           Orphans'
    PROVE  LeaversInv'
<1>1. WorldInv /\ AllNumbered
  BY DEF LeaversInv, StableInv
<1>2. /\ \A k \in DOMAIN hubHistory' :
            \/ \E i \in DOMAIN hubHistory : hubHistory'[k] = hubHistory[i]
            \/ \E i \in DOMAIN news : hubHistory'[k] = news[i]
      /\ \A c \in DOMAIN toClient' : \A j \in DOMAIN toClient'[c] :
            \/ \E i \in DOMAIN toClient[c] : toClient'[c][j] = toClient[c][i]
            \/ \E k \in DOMAIN hubHistory' : toClient'[c][j] = hubHistory'[k]
      /\ DOMAIN toClient' = DOMAIN toClient
  BY <1>1, SettlingKnows, SettlingDoes
<1>3. \A i \in DOMAIN news : news[i].seq # 0
  <2>1. news \in Seq(Messages) /\ \A i \in DOMAIN news : LastSeq(hubHistory) < news[i].seq
    BY DEF Settling, Additions
  <2>2. LastSeq(hubHistory) \in Nat
    BY <1>1, HubFacts
  <2> QED
    BY <2>1, <2>2
<1>4. pc' = pc /\ mHistory' = mHistory
  BY DEF managerVars, viewVars
<1>5. \A x : Gone(x)' <=> Gone(x)
  BY <1>4 DEF Gone
<1>6. AllNumbered'
  <2>1. \A k \in DOMAIN hubHistory' : hubHistory'[k].seq # 0
    BY <1>1, <1>2, <1>3 DEF AllNumbered
  <2>2. \A c \in DOMAIN toClient' : \A j \in DOMAIN toClient'[c] : toClient'[c][j].seq # 0
    BY <1>1, <1>2, <2>1 DEF AllNumbered
  <2> QED
    BY <1>1, <1>4, <2>1, <2>2 DEF AllNumbered
<1>7. JoinsHeeded'
  BY <1>2, <1>5 DEF LeaversInv, JoinsHeeded
<1>8. LeavesGone'
  BY <1>2, <1>5 DEF LeaversInv, LeavesGone
<1> QED
  BY <1>6, <1>7, <1>8 DEF LeaversInv

\* The hub reads what the owner of the connection says of itself, or what it replays.
LEMMA ReadSpeaks ==
    ASSUME LeaversInv, StableInv', NEW c \in DOMAIN hubEnd, HubRead(c) \/ HubReadLast(c)
    PROVE  LeaversInv'
<1>1. StableInv /\ WorldInv /\ OnlyCopies /\ AllNumbered /\ OwnClients
  BY DEF LeaversInv, StableInv, HubStays
<1>2. PICK msg : msg = Head(toHub[c])
  OBVIOUS
<1>3. /\ c \in DOMAIN hubClients /\ c \in DOMAIN toHub /\ msg \in Messages
      /\ msg = toHub[c][1] /\ 1 \in DOMAIN toHub[c]
      /\ Hub!OnData(c, msg, epoch) /\ epoch \in Nat
      /\ UNCHANGED managerVars
      /\ toHub[c] \in Seq(Messages) /\ toHub[c] # <<>> /\ DOMAIN toHub' = DOMAIN toHub
      /\ toHub'[c] = Tail(toHub[c]) \/ (toHub'[c] = <<>> /\ cliEnd[c] # "open")
      /\ \A i \in DOMAIN toHub'[c] : i + 1 \in DOMAIN toHub[c] /\ toHub'[c][i] = toHub[c][i + 1]
      /\ \A d \in DOMAIN toHub : d # c => toHub'[d] = toHub[d]
  BY <1>1, <1>2, HubReadDoes
<1>4. PICK n \in Nodes : client[n] = c
  BY <1>3 DEF LeaversInv, Orphans
<1>5. c # 0 /\ AtHome(n) /\ Speaks(n) /\ pc[n] \in Connected
  BY <1>1, <1>3, <1>4, SpokeFacts DEF LeaversInv, StableInv
<1>6. pc[n] \in Spoken /\ Speech(toHub[c], n)
  BY <1>3, <1>4, <1>5 DEF Connected, Spoken, AtHome, Speaks
<1>7. UNCHANGED <<pc, client, mHistory>>
  BY <1>3 DEF managerVars, connVars, viewVars
<1>8. toHub'[c] = Tail(toHub[c]) /\ \A i \in DOMAIN toHub[c] :
         i # 1 => i - 1 \in DOMAIN toHub'[c] /\ toHub'[c][i - 1] = toHub[c][i]
  <2>1. toHub'[c] = Tail(toHub[c])
    BY <1>3, <1>4, <1>5 DEF AtHome
  <2> QED
    BY <1>3, <2>1
<1>9. Speech(toHub'[c], n)
  <2>1. \A i, j \in DOMAIN toHub'[c] : i < j => i + 1 < j + 1
    BY <1>3, <1>8
  <2> QED
    BY <1>3, <1>6, <2>1 DEF Speech
<1>10. \A x : Gone(x)' <=> Gone(x)
  BY <1>7 DEF Gone
\* What does not depend on the message: the other connections.
<1>11. ASSUME DOMAIN hubClients' = DOMAIN hubClients,
              \A d \in DOMAIN hubClients : d # c => hubClients'[d].nodeId = hubClients[d].nodeId
       PROVE  Orphans' /\ \A m \in Nodes \ {n} : Speaks(m)' /\ (Heeded(m) => Heeded(m)')
  <2>1. \A m \in Nodes : Speaks(m) /\ client[m] \in {0} \cup DOMAIN toHub
    BY <1>1, SpokeFacts DEF LeaversInv
  <2>2. ASSUME NEW m \in Nodes \ {n} PROVE Speaks(m)' /\ (Heeded(m) => Heeded(m)')
    <3>1. client[m] # c
      BY <1>1, <1>4, <1>5 DEF OwnClients
    <3>2. client[m] # 0 => toHub'[client[m]] = toHub[client[m]]
      BY <1>3, <2>1, <3>1
    <3> QED
      BY <1>1, <1>7, <1>11, <2>1, <3>1, <3>2, StillSpeaks
  <2>3. Orphans'
    BY <1>3, <1>4, <1>7, <1>10, <1>11 DEF LeaversInv, Orphans
  <2> QED
    BY <2>2, <2>3
<1>12. CASE msg.seq = 0
  <2>1. msg.body.node = n /\ ~IsLeave(msg) /\ n # 0
    BY <1>3, <1>6, <1>12, NodesAssumption DEF Speech
  <2>2. \A i \in DOMAIN toHub'[c] : toHub'[c][i].seq = 0
    <3>1. \A i \in DOMAIN toHub'[c] : 1 < i + 1
      BY <1>3, <1>8
    <3> QED
      BY <1>3, <1>6, <1>12, <3>1 DEF Speech
  <2>3. PICK news, clients, nextSeq :
           /\ Settling(news, clients, nextSeq) /\ Heard(c, msg, clients)
           /\ news = <<>> \/ news = <<Message(hubNextSeq, epoch, msg.body)>>
    BY <1>1, <1>3, <1>12, <2>1, OnDataSettles
  <2>4. /\ DOMAIN hubClients' = DOMAIN hubClients /\ hubClients'[c].nodeId = n
        /\ \A d \in DOMAIN hubClients : d # c => hubClients'[d].nodeId = hubClients[d].nodeId
    BY <1>1, <1>3, <2>1, <2>3, SettlingDoes DEF Heard
  <2>5. Heeded(n)' /\ Speaks(n)'
    BY <1>3, <1>4, <1>6, <1>7, <1>9, <2>2, <2>4 DEF Heeded, Speaks, Spoken
  <2>6. Orphans' /\ \A m \in Nodes : Speaks(m)' /\ (Heeded(m) => Heeded(m)')
    BY <1>11, <2>4, <2>5
  <2>7. ASSUME NEW i \in DOMAIN news PROVE news[i].body = msg.body
    <3>1. news = <<Message(hubNextSeq, epoch, msg.body)>> /\ i = 1
      BY <2>3, <2>7
    <3> QED
      BY <3>1 DEF Message
  <2>8. \A i \in DOMAIN news : ~IsLeave(news[i]) /\ news[i].body.node = n
    BY <2>1, <2>7 DEF IsLeave
  <2> QED
    BY <1>3, <2>3, <2>5, <2>6, <2>8, HubSays
<1>13. CASE msg.seq # 0
  <2>1. Copy(msg, hubHistory)
    BY <1>1, <1>3, <1>13 DEF OnlyCopies
  <2>2. ~(LastSeq(hubHistory) < msg.seq)
    <3>1. msg.seq \in Nat /\ LastSeq(hubHistory) \in Nat
      BY <1>1, <1>3, HubFacts DEF Messages
    <3> QED
      BY <2>1, <3>1 DEF Copy
  <2>3. ~Heeded(n)
    BY <1>3, <1>4, <1>13 DEF Heeded
  <2>4. \E i \in DOMAIN toHub'[c] : toHub'[c][i].seq = 0
    <3>1. PICK i \in DOMAIN toHub[c] : toHub[c][i].seq = 0
      BY <1>4, <1>5, <1>6, <2>3 DEF Speaks
    <3>2. i # 1
      BY <1>3, <1>13, <3>1
    <3> QED
      BY <1>8, <3>1, <3>2
  <2>5. Speaks(n)'
    BY <1>4, <1>6, <1>7, <1>9, <2>4 DEF Speaks, Spoken
  <2>6. CASE UNCHANGED <<hubHistory, hubClients, toClient>>
    <3>1. Orphans' /\ \A m \in Nodes : Speaks(m)' /\ (Heeded(m) => Heeded(m)')
      BY <1>11, <2>3, <2>5, <2>6
    <3>2. JoinsHeeded' /\ LeavesGone'
      BY <1>10, <2>6, <3>1 DEF LeaversInv, JoinsHeeded, LeavesGone
    <3>3. AllNumbered'
      BY <1>1, <1>7, <2>6, SameNumbers
    <3> QED
      BY <3>1, <3>2, <3>3 DEF LeaversInv
  <2>7. ASSUME NEW news, NEW clients, NEW nextSeq, Settling(news, clients, nextSeq),
               Heard(c, msg, clients), news = <<>>
        PROVE  LeaversInv'
    <3>1. /\ DOMAIN hubClients' = DOMAIN hubClients
          /\ \A d \in DOMAIN hubClients : d # c => hubClients'[d].nodeId = hubClients[d].nodeId
      BY <1>1, <1>3, <2>7, SettlingDoes DEF Heard
    <3>2. Orphans' /\ \A m \in Nodes : Speaks(m)' /\ (Heeded(m) => Heeded(m)')
      BY <1>11, <2>3, <2>5, <3>1
    <3>3. DOMAIN news = {}
      BY <2>7
    <3> QED
      BY <1>3, <2>7, <3>2, <3>3, HubSays
  <2> QED
    BY <1>1, <1>3, <1>13, <2>2, <2>6, <2>7, OnDataSettles
<1> QED
  BY <1>12, <1>13

\* A connection hangs up when its process is gone.
LEMMA HangupSpeaks ==
    ASSUME LeaversInv, StableInv', NEW c \in DOMAIN hubEnd, HubHangup(c)
    PROVE  LeaversInv'
<1>1. StableInv /\ WorldInv /\ HubEnds
  BY DEF LeaversInv, StableInv, WorldInv
<1>2. /\ Hub!OnDisconnect(c) /\ hubEnd[c] = "open" /\ cliEnd[c] # "open"
      /\ UNCHANGED <<managerVars, toHub, pc, client>>
  BY DEF HubHangup, HubSeesHangup, managerVars, connVars
<1>3. c \in DOMAIN hubClients /\ c \in DOMAIN toHub
  BY <1>1, <1>2 DEF HubEnds, WorldInv, Types, Linked
<1>4. PICK news, clients, nextSeq :
         /\ Settling(news, clients, nextSeq)
         /\ news = <<Message(hubNextSeq, 0, NodeChange("LEAVE", hubClients[c].nodeId))>>
         /\ DOMAIN clients = DOMAIN hubClients \ {c}
         /\ \A f \in DOMAIN clients : clients[f] = hubClients[f]
  BY <1>1, <1>2, <1>3, OnDisconnectSettles
<1>5. \A m \in Nodes : client[m] # c
  <2>1. \A m \in Nodes : client[m] # 0 => cliEnd[client[m]] = "open"
    BY <1>1 DEF StableInv, AtHome
  <2>2. c # 0
    BY <1>1, <1>3, HubConns
  <2> QED
    BY <1>2, <2>1, <2>2
<1>6. Gone(hubClients[c].nodeId)
  BY <1>3, <1>5 DEF LeaversInv, Orphans
<1>7. /\ DOMAIN hubClients' = DOMAIN hubClients \ {c}
      /\ \A d \in DOMAIN hubClients' : hubClients'[d].nodeId = hubClients[d].nodeId
  BY <1>1, <1>4, SettlingDoes
<1>8. \A m \in Nodes : Speaks(m)' /\ (Heeded(m) => Heeded(m)')
  <2>1. \A m \in Nodes : Speaks(m)
    BY DEF LeaversInv
  <2> QED
    BY <1>1, <1>2, <1>5, <1>7, <2>1, StillSpeaks
<1>9. Orphans'
  BY <1>2, <1>7 DEF LeaversInv, Orphans, Gone
<1>10. \A i \in DOMAIN news : news[i].body = NodeChange("LEAVE", hubClients[c].nodeId)
  <2>1. \A i \in DOMAIN news :
           news[i] = Message(hubNextSeq, 0, NodeChange("LEAVE", hubClients[c].nodeId))
    BY <1>4
  <2> QED
    BY <2>1 DEF Message
<1>11. \A i \in DOMAIN news : Gone(news[i].body.node) /\ ~IsJoin(news[i])
  <2> DEFINE body == NodeChange("LEAVE", hubClients[c].nodeId)
  <2>1. body.node = hubClients[c].nodeId /\ body.op # "JOIN"
    BY DEF NodeChange
  <2>2. \A i \in DOMAIN news : news[i].body = body
    BY <1>10
  <2> HIDE DEF body
  <2> QED
    BY <1>6, <2>1, <2>2 DEF Gone, IsJoin
<1> QED
  BY <1>2, <1>4, <1>8, <1>9, <1>11, HubSays

\* Who is active without a connection does not live.
LEMMA PurgeSpeaks ==
    ASSUME LeaversInv, StableInv', HubPurge
    PROVE  LeaversInv'
<1>1. WorldInv
  BY DEF LeaversInv, StableInv
<1>2. Hub!PurgeDisconnected /\ UNCHANGED <<managerVars, toHub, pc, client>>
  BY DEF HubPurge, managerVars, connVars
<1> DEFINE purgeable == HistoricallyActive(hubHistory) \ {hubClients[c].nodeId : c \in DOMAIN hubClients}
<1>3. PICK nextSeq : \E k \in Nat : \E order \in [1..k -> purgeable] :
               Settling(Leaves(hubNextSeq, k, order), hubClients, nextSeq)
  BY <1>1, <1>2, PurgeSettles
<1>4. PICK k \in Nat : \E order \in [1..k -> purgeable] :
               Settling(Leaves(hubNextSeq, k, order), hubClients, nextSeq)
  BY <1>3
<1>5. PICK order \in [1..k -> purgeable] : Settling(Leaves(hubNextSeq, k, order), hubClients, nextSeq)
  BY <1>4
<1>6. \A x \in purgeable : Gone(x)
  <2> SUFFICES ASSUME NEW x \in purgeable PROVE Gone(x)
    OBVIOUS
  <2>1. PICK i \in DOMAIN hubHistory : IsJoin(hubHistory[i]) /\ hubHistory[i].body.node = x
    BY DEF HistoricallyActive
  <2>2. ~(x \in Nodes /\ Heeded(x))
    BY DEF Heeded
  <2> QED
    BY <2>1, <2>2 DEF LeaversInv, JoinsHeeded
<1> HIDE DEF purgeable
<1> DEFINE news == Leaves(hubNextSeq, k, order)
<1>7. \A i \in DOMAIN news : Gone(news[i].body.node) /\ ~IsJoin(news[i])
  BY <1>5, <1>6 DEF Leaves, Message, NodeChange, IsJoin
<1>8. Settling(news, hubClients, nextSeq)
  BY <1>5
<1> HIDE DEF news
<1>9. /\ DOMAIN hubClients' = DOMAIN hubClients
      /\ \A d \in DOMAIN hubClients : hubClients'[d].nodeId = hubClients[d].nodeId
  BY <1>1, <1>8, SettlingDoes
<1>10. \A m \in Nodes : Speaks(m)' /\ (Heeded(m) => Heeded(m)')
  <2>1. \A m \in Nodes : Speaks(m)
    BY DEF LeaversInv
  <2> QED
    BY <1>1, <1>2, <1>9, <2>1, StillSpeaks
<1>11. Orphans'
  BY <1>2, <1>9 DEF LeaversInv, Orphans, Gone
<1> QED
  BY <1>2, <1>7, <1>8, <1>10, <1>11, HubSays

LEMMA InitLeavers == Init => LeaversInv
<1> SUFFICES ASSUME Init PROVE LeaversInv
  OBVIOUS
<1>1. StableInv
  BY InitStable
<1>2. DOMAIN <<>> = {}
  OBVIOUS
<1>3. /\ toHub = <<>> /\ toClient = <<>> /\ hubHistory = <<>>
      /\ client = [n \in Nodes |-> 0] /\ mHistory = [n \in Nodes |-> <<>>]
  BY DEF Init, ManagerInit, UDSInit
<1>4. DOMAIN toHub = {} /\ DOMAIN toClient = {} /\ DOMAIN hubHistory = {}
      /\ \A n \in Nodes : DOMAIN mHistory[n] = {} /\ client[n] = 0
  BY <1>2, <1>3
<1>6. AllNumbered
  BY <1>4 DEF AllNumbered
<1>7. Orphans /\ JoinsHeeded /\ LeavesGone
  BY <1>4 DEF Orphans, JoinsHeeded, LeavesGone
<1>5. \A n \in Nodes : Speaks(n)
  BY <1>4 DEF Speaks
<1> QED
  BY <1>1, <1>5, <1>6, <1>7 DEF LeaversInv

LEMMA NextKeepsLeavers ==
    ASSUME HubMortal = FALSE, Abrupt = FALSE, LeaversInv, ServesAnew, [Next]_vars
    PROVE  LeaversInv'
<1>1. StableInv /\ StableInv'
  BY NextKeepsStable DEF LeaversInv
<1>2. CASE UNCHANGED vars
  <2>1. UNCHANGED <<pc, client, mHistory, hubHistory, hubClients, toHub, toClient>>
    BY <1>2 DEF vars, managerVars, connVars, viewVars, udsVars, hubVars
  <2>2. \A n \in Nodes : Speaks(n)'
    BY <2>1 DEF LeaversInv, Speaks, Heeded
  <2>3. AllNumbered' /\ Orphans' /\ JoinsHeeded' /\ LeavesGone'
    BY <2>1 DEF LeaversInv, AllNumbered, Orphans, JoinsHeeded, LeavesGone, Heeded, Gone
  <2> QED
    BY <1>1, <2>2, <2>3 DEF LeaversInv
<1>3. ASSUME NEW n \in Nodes, MainLoop(n) /\ UNCHANGED <<hubVars, epoch, called>>
      PROVE  LeaversInv'
  <2>1. \/ Connect(n) \/ ConnectFails(n) \/ IntroduceOurselves(n)
        \/ Attach(n) \/ FlushBacklog(n) \/ Wait(n)
    BY <1>1, <1>3, WaitStays DEF MainLoop
  <2>2. CASE Connect(n)
    BY <1>1, <1>3, <2>2, ConnectSpeaks
  <2>3. CASE ConnectFails(n) \/ Attach(n) \/ Wait(n)
    BY <1>1, <1>3, <2>3, MovesSpeak
  <2>4. CASE IntroduceOurselves(n)
    BY <1>1, <1>3, <2>4, IntroduceSpeaks
  <2>5. CASE FlushBacklog(n)
    BY <1>1, <1>3, <2>5, CallsSpeak
  <2> QED
    BY <2>1, <2>2, <2>3, <2>4, <2>5
<1>4. ASSUME NEW n \in Nodes, ServeGroup(n) PROVE LeaversInv'
  <2>1. hubHost # n
    BY <1>4 DEF ServeGroup, Serve, ServesAnew
  <2> QED
    BY <1>1, <1>4, <2>1, MovesSpeak, ServeSpeaks
<1>5. ASSUME NEW n \in Nodes,
             ClientThread(n) \/ StartNode(n) \/ \E body \in Calls[n] : CallOf(n, body)
      PROVE  LeaversInv'
  BY <1>1, <1>5, ClientThreadSpeaks, MovesSpeak, CallsSpeak
<1>6. ASSUME NEW n \in Nodes, ProcessDies(n) /\ (Kill(n) \/ Abort(n)) PROVE LeaversInv'
  BY <1>1, <1>6, DeathHeeded
<1>7. ASSUME NEW c \in DOMAIN hubEnd, HubAccept(c) \/ HubRead(c) \/ HubReadLast(c) \/ HubHangup(c)
      PROVE  LeaversInv'
  BY <1>1, <1>7, AcceptSpeaks, ReadSpeaks, HangupSpeaks
<1>8. CASE HubPurge
  BY <1>1, <1>8, PurgeSpeaks
<1> QED
  BY <1>2, <1>3, <1>4, <1>5, <1>6, <1>7, <1>8, Steps

\* OnDisconnect and PurgeDisconnected declare left only nodes whose process is gone,
\* as long as the hub's lives and no process is killed before the hub has read what
\* it introduced itself with: OnData takes a client for the subject of its last
\* message, and every spoke ends what it replays with messages about itself.
THEOREM OnlyTheDeadLeave ==
    ASSUME HubMortal = FALSE, Abrupt = FALSE
    PROVE  Spec => []LeaveOnlyOfDead
<1>1. Init => LeaversInv /\ ServesAnew
  BY InitLeavers DEF Init, ManagerInit, ServesAnew
<1>2. LeaversInv /\ ServesAnew /\ [Next]_vars => LeaversInv' /\ ServesAnew'
  BY NextKeepsLeavers, NextKeepsServing DEF LeaversInv
<1>3. LeaversInv => LeaveOnlyOfDead
  <2> SUFFICES ASSUME LeaversInv, NEW x \in Hub!LeftNodes(hubHistory), x \in Live PROVE FALSE
    BY DEF LeaveOnlyOfDead
  <2>1. x \in LeftNodes(hubHistory)
    BY HubPrunes
  <2>2. PICK i \in DOMAIN hubHistory : IsLeave(hubHistory[i]) /\ hubHistory[i].body.node = x
    BY <2>1 DEF LeftNodes
  <2>3. Gone(x)
    BY <2>2 DEF LeaversInv, LeavesGone
  <2> QED
    BY <2>3 DEF Live, Gone
<1> QED
  BY <1>1, <1>2, <1>3, PTL DEF Spec
=============================================================================
