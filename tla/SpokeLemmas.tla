------------------------------ MODULE SpokeLemmas ------------------------------
(***************************************************************************)
(* Facts about the operators of TopologyManager, for any spoke: what a     *)
(* view consists of, what a spoke introduces itself with, what a step      *)
(* leaves of its connections, and what a view says of the messages that    *)
(* were applied to it, in the order of their numbers.                      *)
(***************************************************************************)
EXTENDS TopologyManager, HistoryLemmas

\* What the view knows of a node.
NodeKnown(e) ==
    /\ e = [pubs |-> e.pubs, subs |-> e.subs]
    /\ e.pubs \in [DOMAIN e.pubs -> STRING] /\ DOMAIN e.pubs \subseteq STRING
    /\ IsFiniteSet(DOMAIN e.pubs)
    /\ e.subs \subseteq STRING /\ IsFiniteSet(e.subs)

ViewKnown(view) ==
    view = [m \in DOMAIN view |-> view[m]] /\ \A m \in DOMAIN view : NodeKnown(view[m])

\* The view.
LEMMA WithoutFinite ==
    ASSUME NEW f, NEW x, IsFiniteSet(DOMAIN f)
    PROVE  DOMAIN Without(f, x) \subseteq DOMAIN f /\ IsFiniteSet(DOMAIN Without(f, x))
<1>1. DOMAIN Without(f, x) = DOMAIN f \ {x}
  BY DEF Without
<1> QED
  BY <1>1, FS_RemoveElement

LEMMA UpdatedKnown ==
    ASSUME NEW e, NodeKnown(e), NEW body \in Bodies, body.op \in TopicOps
    PROVE  NodeKnown(Updated(e, body))
<1>1. body.topic \in STRING /\ body.mime \in STRING
  BY DEF Bodies, TopicOps, NodeOps
<1>2. CASE body.op = "ANNOUNCE"
  <2> DEFINE f == With(e.pubs, body.topic, body.mime)
  <2>1. /\ DOMAIN f = DOMAIN e.pubs \cup {body.topic} /\ f \in [DOMAIN f -> STRING]
    BY <1>1 DEF NodeKnown, With
  <2>2. IsFiniteSet(DOMAIN f) /\ DOMAIN f \subseteq STRING
    BY <1>1, <2>1, FS_AddElement DEF NodeKnown
  <2> HIDE DEF f
  <2>3. Updated(e, body) = [pubs |-> f, subs |-> e.subs]
    BY <1>2 DEF Updated, NodeKnown, f
  <2> QED
    BY <2>1, <2>2, <2>3 DEF NodeKnown
<1>3. CASE body.op = "RETRACT"
  <2> DEFINE f == Without(e.pubs, body.topic)
  <2>1. DOMAIN f \subseteq DOMAIN e.pubs /\ IsFiniteSet(DOMAIN f)
    BY WithoutFinite DEF NodeKnown
  <2>2. f \in [DOMAIN f -> STRING]
    BY DEF NodeKnown, Without
  <2> HIDE DEF f
  <2>3. Updated(e, body) = [pubs |-> f, subs |-> e.subs]
    BY <1>3 DEF Updated, NodeKnown, f
  <2> QED
    BY <2>1, <2>2, <2>3 DEF NodeKnown
<1>4. CASE body.op = "SUBSCRIBE"
  <2>1. Updated(e, body) = [pubs |-> e.pubs, subs |-> e.subs \cup {body.topic}]
    BY <1>4 DEF Updated, NodeKnown
  <2>2. IsFiniteSet(e.subs \cup {body.topic})
    BY FS_AddElement DEF NodeKnown
  <2> QED
    BY <1>1, <2>1, <2>2 DEF NodeKnown
<1>5. CASE body.op = "UNSUBSCRIBE"
  <2>1. Updated(e, body) = [pubs |-> e.pubs, subs |-> e.subs \ {body.topic}]
    BY <1>5 DEF Updated, NodeKnown
  <2>2. IsFiniteSet(e.subs \ {body.topic})
    BY FS_RemoveElement DEF NodeKnown
  <2> QED
    BY <2>1, <2>2 DEF NodeKnown
<1> QED
  BY <1>2, <1>3, <1>4, <1>5 DEF TopicOps

LEMMA NewNodeKnown == NodeKnown(NewNode)
<1>1. DOMAIN <<>> = {} /\ IsFiniteSet({})
  BY FS_EmptySet
<1>2. NewNode.pubs = <<>> /\ NewNode.subs = {} /\ NewNode = [pubs |-> <<>>, subs |-> {}]
  BY DEF NewNode
<1>3. <<>> \in [DOMAIN <<>> -> STRING]
  BY <1>1
<1> QED
  BY <1>1, <1>2, <1>3 DEF NodeKnown

LEMMA ViewedKnown ==
    ASSUME NEW view, ViewKnown(view), NEW body \in Bodies
    PROVE  ViewKnown(Viewed(view, body))
<1>1. CASE body.op = "JOIN" /\ body.node \notin DOMAIN view
  <2>1. Viewed(view, body) = With(view, body.node, NewNode)
    BY <1>1 DEF Viewed
  <2> QED
    BY <2>1, NewNodeKnown DEF ViewKnown, With
<1>2. CASE body.op = "LEAVE"
  <2>1. ~(body.op = "JOIN" /\ body.node \notin DOMAIN view)
    BY <1>2
  <2>2. ~(body.op \in TopicOps /\ body.node \in DOMAIN view)
    BY <1>2 DEF TopicOps
  <2>3. Viewed(view, body) = Without(view, body.node)
    BY <1>2, <2>1, <2>2 DEF Viewed
  <2> QED
    BY <2>3 DEF ViewKnown, Without
<1>3. CASE body.op \in TopicOps /\ body.node \in DOMAIN view
  <2>1. Viewed(view, body) = [view EXCEPT ![body.node] = Updated(view[body.node], body)]
    BY <1>3 DEF Viewed, TopicOps
  <2>2. NodeKnown(Updated(view[body.node], body))
    BY <1>3, UpdatedKnown DEF ViewKnown
  <2> QED
    BY <1>3, <2>1, <2>2 DEF ViewKnown
<1>4. CASE /\ ~(body.op = "JOIN" /\ body.node \notin DOMAIN view) /\ body.op # "LEAVE"
           /\ ~(body.op \in TopicOps /\ body.node \in DOMAIN view)
  <2>1. Viewed(view, body) = view
    BY <1>4 DEF Viewed
  <2> QED
    BY <2>1
<1> QED
  BY <1>1, <1>2, <1>3, <1>4

\* A function on 1..n is a sequence.
LEMMA FunctionIsSeq ==
    ASSUME NEW n \in Nat, NEW T, NEW f \in [1..n -> T]
    PROVE  f \in Seq(T) /\ Len(f) = n /\ DOMAIN f = 1..n
OBVIOUS

LEMMA IntroductionType ==
    ASSUME NEW n \in Nat, NEW e, NodeKnown(e),
            NEW pubOrder \in Orders(DOMAIN e.pubs), NEW subOrder \in Orders(e.subs)
    PROVE  /\ Introduction(n, e.pubs, pubOrder, subOrder) \in Seq(Messages)
           /\ pubOrder \in Seq(DOMAIN e.pubs) /\ subOrder \in Seq(e.subs)
<1> DEFINE lastMime == IF pubOrder = <<>> THEN "" ELSE e.pubs[pubOrder[Len(pubOrder)]]
           join == Message(0, 0, NodeChange("JOIN", n))
           pubs == [i \in DOMAIN pubOrder |-> Message(0, 0, TopicChange("ANNOUNCE", n, pubOrder[i], e.pubs[pubOrder[i]]))]
           subs == [i \in DOMAIN subOrder |-> Message(0, 0, TopicChange("SUBSCRIBE", n, subOrder[i], lastMime))]
<1>1. PICK p \in Nat : p = Cardinality(DOMAIN e.pubs)
  BY FS_CardinalityType DEF NodeKnown
<1>2. PICK q \in Nat : q = Cardinality(e.subs)
  BY FS_CardinalityType DEF NodeKnown
<1>3. pubOrder \in [1..p -> DOMAIN e.pubs] /\ subOrder \in [1..q -> e.subs]
  BY <1>1, <1>2 DEF Orders
<1>4. pubOrder \in Seq(DOMAIN e.pubs) /\ Len(pubOrder) = p /\ subOrder \in Seq(e.subs)
  BY <1>3, FunctionIsSeq
<1>5. lastMime \in STRING
  <2>1. CASE pubOrder = <<>>
    BY <2>1, EmptyIsAString
  <2>2. CASE pubOrder # <<>>
    <3>1. Len(pubOrder) \in 1..p
      BY <1>4, <2>2
    <3>2. pubOrder[Len(pubOrder)] \in DOMAIN e.pubs
      BY <1>3, <3>1
    <3>3. e.pubs[pubOrder[Len(pubOrder)]] \in STRING
      BY <3>2 DEF NodeKnown
    <3> QED
      BY <2>2, <3>3
  <2> QED
    BY <2>1, <2>2
<1> HIDE DEF lastMime
<1>6. join \in Messages
  BY DEF Message, NodeChange, Messages, Bodies, NodeOps
<1>7. \A t, m \in STRING, op \in TopicOps : Message(0, 0, TopicChange(op, n, t, m)) \in Messages
  BY DEF Message, TopicChange, Messages, Bodies
<1>8. pubs \in [1..p -> Messages]
  <2>1. \A i \in 1..p : pubOrder[i] \in STRING /\ e.pubs[pubOrder[i]] \in STRING
    BY <1>3 DEF NodeKnown
  <2> QED
    BY <1>3, <1>7, <2>1 DEF TopicOps
<1>9. subs \in [1..q -> Messages]
  <2>1. \A i \in 1..q : subOrder[i] \in STRING
    BY <1>3 DEF NodeKnown
  <2> QED
    BY <1>3, <1>5, <1>7, <2>1 DEF TopicOps
<1> HIDE DEF join, pubs, subs
<1>10. pubs \in Seq(Messages) /\ subs \in Seq(Messages) /\ <<join>> \in Seq(Messages)
  BY <1>6, <1>8, <1>9, FunctionIsSeq
<1>11. <<join>> \o pubs \o subs \in Seq(Messages)
  BY <1>10
<1>12. Introduction(n, e.pubs, pubOrder, subOrder) = <<join>> \o pubs \o subs
  BY DEF Introduction, join, pubs, subs, lastMime
<1> QED
  BY <1>4, <1>11, <1>12

LEMMA RememberedType ==
    ASSUME NEW M \in SUBSET Messages, NEW h \in Seq(M), NEW msg \in M
    PROVE  Remembered(h, msg) \in Seq(M)
<1>1. h \in Seq(Messages)
  OBVIOUS
<1>2. msg.seq \in Nat
  BY DEF Messages
<1>3. LowerBound(h, msg.seq) \in 1..(Len(h) + 1)
  BY <1>1, <1>2, LowerBoundExists
<1> QED
  BY <1>3, InsertBeforeType DEF Remembered

-----------------------------------------------------------------------------
(* The state of the spokes.                                                *)

\* Where MainLoop has a client.
Connected == {"introduce", "attach", "flush", "wait", "null"}

ClientTypes ==
    client \in [Nodes -> {0} \cup DOMAIN toHub] /\ mClient \in [Nodes -> {0} \cup DOMAIN toHub]

ViewTypes == mNodes = [n \in Nodes |-> mNodes[n]] /\ \A n \in Nodes : ViewKnown(mNodes[n])

\* Connections are numbered from 1 on; hubs write messages of M.
Linked(M) ==
    /\ \E k \in 0..MaxConns : DOMAIN toHub = 1..k
    /\ toHub \in [DOMAIN toHub -> Seq(Messages)]
    /\ hubEnd \in [DOMAIN toHub -> {"backlog", "open", "closed"}]
    /\ cliEnd \in [DOMAIN toHub -> {"open", "closed", "reset"}]
    /\ DOMAIN toClient \subseteq DOMAIN toHub
    /\ toClient \in [DOMAIN toClient -> Seq(M)]

LEMMA ConnFacts ==
    ASSUME NEW M, Linked(M)
    PROVE  /\ DOMAIN toHub = 1..(NextConn - 1) /\ NextConn \in Nat /\ NextConn >= 1
           /\ DOMAIN hubEnd = DOMAIN toHub /\ DOMAIN cliEnd = DOMAIN toHub /\ 0 \notin DOMAIN toHub
<1>1. PICK k \in 0..MaxConns : DOMAIN toHub = 1..k
  BY DEF Linked
<1>2. k \in Nat /\ Cardinality(DOMAIN toHub) = k
  BY <1>1, MaxConnsAssumption, FS_Interval
<1>3. NextConn = k + 1
  BY <1>2 DEF NextConn
<1> QED
  BY <1>1, <1>2, <1>3 DEF Linked

\* A new connection.
LEMMA OpenConnectionKeeps ==
    ASSUME NEW M, Linked(M), OpenConnection(NextConn), toClient' = toClient
    PROVE  /\ Linked(M)'
           /\ DOMAIN toHub' = DOMAIN toHub \cup {NextConn} /\ NextConn \notin DOMAIN toHub /\ NextConn # 0
           /\ \A c \in DOMAIN toHub : toHub'[c] = toHub[c] /\ cliEnd'[c] = cliEnd[c]
           /\ toHub'[NextConn] = <<>>
           /\ DOMAIN cliEnd' = DOMAIN cliEnd \cup {NextConn}
<1> DEFINE k == NextConn - 1
           d == NextConn
<1>1. /\ d \in Conns /\ toHub' = With(toHub, d, <<>>) /\ hubEnd' = With(hubEnd, d, "backlog")
      /\ cliEnd' = With(cliEnd, d, "open")
  BY DEF OpenConnection
<1>2. /\ DOMAIN toHub = 1..k /\ d \in Nat /\ d >= 1 /\ k = d - 1
      /\ DOMAIN hubEnd = DOMAIN toHub /\ DOMAIN cliEnd = DOMAIN toHub
  BY ConnFacts
<1>3. d \in 1..MaxConns
  BY <1>1 DEF Conns
<1> HIDE DEF d, k
<1>4. /\ DOMAIN toHub' = DOMAIN toHub \cup {d} /\ toHub'[d] = <<>>
      /\ \A c \in DOMAIN toHub : c # d /\ toHub'[c] = toHub[c]
  BY <1>1, <1>2 DEF With
<1>5. /\ DOMAIN cliEnd' = DOMAIN cliEnd \cup {d} /\ \A c \in DOMAIN toHub : cliEnd'[c] = cliEnd[c]
  BY <1>1, <1>2 DEF With
<1>6. DOMAIN toHub' = 1..d
  BY <1>2, <1>4
<1>7. d \in 0..MaxConns
  BY <1>3, MaxConnsAssumption
<1>8. toHub' \in [DOMAIN toHub' -> Seq(Messages)]
  BY <1>1, <1>2 DEF With, Linked
<1>9. hubEnd' \in [DOMAIN toHub' -> {"backlog", "open", "closed"}]
  BY <1>1, <1>2, <1>4 DEF With, Linked
<1>10. cliEnd' \in [DOMAIN toHub' -> {"open", "closed", "reset"}]
  BY <1>1, <1>2, <1>4 DEF With, Linked
<1>11. DOMAIN toClient' \subseteq DOMAIN toHub' /\ toClient' \in [DOMAIN toClient' -> Seq(M)]
  BY <1>4 DEF Linked
<1>12. \E n \in 0..MaxConns : DOMAIN toHub' = 1..n
  BY <1>6, <1>7
<1>13. Linked(M)'
  BY <1>8, <1>9, <1>10, <1>11, <1>12 DEF Linked
<1>14. d # 0 /\ d \notin DOMAIN toHub
  BY <1>2
<1> QED
  BY <1>4, <1>5, <1>13, <1>14 DEF d

\* A spoke writes.
LEMMA WrittenKeeps ==
    ASSUME NEW M, Linked(M), NEW c \in DOMAIN toHub, NEW packets \in Seq(Messages),
           toHub' = Written(c, packets), UNCHANGED <<toClient, hubEnd, cliEnd>>
    PROVE  Linked(M)' /\ DOMAIN toHub' = DOMAIN toHub
<1>1. toHub[c] \o packets \in Seq(Messages)
  BY DEF Linked
<1>2. DOMAIN toHub' = DOMAIN toHub /\ toHub' \in [DOMAIN toHub -> Seq(Messages)]
  BY <1>1 DEF Linked, Written
<1> QED
  BY <1>2 DEF Linked

\* Whatever becomes of the ends of the connections that there are.
LEMMA EndsKeep ==
    ASSUME NEW M, Linked(M), toHub' = toHub,
           hubEnd' \in [DOMAIN toHub -> {"backlog", "open", "closed"}],
           cliEnd' \in [DOMAIN toHub -> {"open", "closed", "reset"}],
           \/ toClient' = toClient
           \/ \E c \in DOMAIN toClient : toClient[c] # <<>> /\ toClient' = [toClient EXCEPT ![c] = Tail(toClient[c])]
           \/ \E c \in DOMAIN toClient, msg \in M : toClient' = [toClient EXCEPT ![c] = Append(toClient[c], msg)]
           \/ \E c \in DOMAIN toHub : toClient' = With(toClient, c, <<>>)
    PROVE  Linked(M)'
<1>1. CASE toClient' = toClient
  BY <1>1 DEF Linked
<1>2. ASSUME NEW c \in DOMAIN toClient, toClient[c] # <<>>, toClient' = [toClient EXCEPT ![c] = Tail(toClient[c])]
      PROVE  Linked(M)'
  <2>1. Tail(toClient[c]) \in Seq(M)
    BY <1>2 DEF Linked
  <2>2. DOMAIN toClient' = DOMAIN toClient /\ toClient' \in [DOMAIN toClient -> Seq(M)]
    BY <1>2, <2>1 DEF Linked
  <2> QED
    BY <2>2 DEF Linked
<1>3. ASSUME NEW c \in DOMAIN toClient, NEW msg \in M,
             toClient' = [toClient EXCEPT ![c] = Append(toClient[c], msg)]
      PROVE  Linked(M)'
  <2>1. Append(toClient[c], msg) \in Seq(M)
    BY <1>3 DEF Linked
  <2>2. DOMAIN toClient' = DOMAIN toClient /\ toClient' \in [DOMAIN toClient -> Seq(M)]
    BY <1>3, <2>1 DEF Linked
  <2> QED
    BY <2>2 DEF Linked
<1>4. ASSUME NEW c \in DOMAIN toHub, toClient' = With(toClient, c, <<>>)
      PROVE  Linked(M)'
  <2>1. DOMAIN toClient' = DOMAIN toClient \cup {c} /\ toClient' \in [DOMAIN toClient' -> Seq(M)]
    BY <1>4 DEF Linked, With
  <2> QED
    BY <1>4, <2>1 DEF Linked
<1> QED
  BY <1>1, <1>2, <1>3, <1>4

LEMMA SameConns == ASSUME NEW M, Linked(M), UNCHANGED udsVars PROVE Linked(M)'
BY DEF Linked, udsVars

\* Send keeps the types of what it changes, and a client that failed is forgotten.
LEMMA SendKeeps ==
    ASSUME NEW M, Linked(M), ClientTypes, mBacklog \in [Nodes -> Seq(Messages)], NEW n \in Nodes,
           NEW msg \in Messages, Send(n, msg), UNCHANGED <<toClient, hubEnd, cliEnd>>
    PROVE  /\ Linked(M)' /\ DOMAIN toHub' = DOMAIN toHub
           /\ mClient' \in [Nodes -> {0} \cup DOMAIN toHub] /\ mClient'[n] \in {0, mClient[n]}
           /\ mBacklog' \in [Nodes -> Seq(Messages)]
<1>1. CASE mClient[n] # 0 /\ CanSend(mClient[n])
  <2>1. toHub' = Written(mClient[n], <<msg>>) /\ UNCHANGED <<mClient, mBacklog>>
    BY <1>1 DEF Send
  <2>2. mClient[n] \in DOMAIN toHub /\ <<msg>> \in Seq(Messages)
    BY <1>1 DEF ClientTypes
  <2>3. Linked(M)' /\ DOMAIN toHub' = DOMAIN toHub
    BY <2>1, <2>2, WrittenKeeps
  <2> QED
    BY <2>1, <2>3 DEF ClientTypes
<1>2. CASE ~(mClient[n] # 0 /\ CanSend(mClient[n]))
  <2>1. /\ mClient' = [mClient EXCEPT ![n] = 0] /\ toHub' = toHub
        /\ mBacklog' = [mBacklog EXCEPT ![n] = Append(mBacklog[n], msg)]
    BY <1>2 DEF Send
  <2>2. Linked(M)'
    BY <2>1, SameConns DEF udsVars
  <2>3. mBacklog' \in [Nodes -> Seq(Messages)]
    BY <2>1
  <2>4. mClient' \in [Nodes -> {0} \cup DOMAIN toHub] /\ mClient'[n] = 0
    BY <2>1 DEF ClientTypes
  <2> QED
    BY <2>1, <2>2, <2>3, <2>4
<1> QED
  BY <1>1, <1>2

-----------------------------------------------------------------------------
(* What a view says of a set of messages with different numbers.           *)

\* The nodes that have joined and not left.
ActiveIn(R) ==
    {m.body.node : m \in {x \in R : IsJoin(x)}} \ {m.body.node : m \in {x \in R : IsLeave(x)}}

PubOps == {"ANNOUNCE", "RETRACT"}
SubOps == {"SUBSCRIBE", "UNSUBSCRIBE"}

\* The last word on a topic of a node that had joined by then.
Decides(R, ops, m) ==
    /\ m.body.op \in ops
    /\ \E j \in R : IsJoin(j) /\ j.body.node = m.body.node /\ j.seq < m.seq
    /\ \A k \in R : k.body.op \in ops /\ k.body.node = m.body.node /\ k.body.topic = m.body.topic
                    => k.seq <= m.seq

Stand(R, ops, op, n) == {m \in R : Decides(R, ops, m) /\ m.body.op = op /\ m.body.node = n}

\* What is known of a node, if P and S are the last words on its topics.
Says(e, P, S) ==
    /\ DOMAIN e.pubs = {m.body.topic : m \in P}
    /\ \A m \in P : e.pubs[m.body.topic] = m.body.mime
    /\ e.subs = {m.body.topic : m \in S}

\* Who is there, and the last words on what each of them publishes and subscribes to.
Reads(view, R) ==
    /\ DOMAIN view = ActiveIn(R)
    /\ \A n \in ActiveIn(R) :
          Says(view[n], Stand(R, PubOps, "ANNOUNCE", n), Stand(R, SubOps, "SUBSCRIBE", n))

\* A view is determined by what it reads.
LEMMA ViewUnique ==
    ASSUME NEW R, NEW u, NEW v, ViewKnown(u), ViewKnown(v), Reads(u, R), Reads(v, R)
    PROVE  u = v
<1>1. DOMAIN u = DOMAIN v /\ DOMAIN u = ActiveIn(R)
  BY DEF Reads
<1>2. ASSUME NEW n \in DOMAIN u PROVE u[n] = v[n]
  <2>1. NodeKnown(u[n]) /\ NodeKnown(v[n])
    BY <1>1, <1>2 DEF ViewKnown
  <2>2. DOMAIN u[n].pubs = DOMAIN v[n].pubs /\ u[n].subs = v[n].subs
    BY <1>1, <1>2 DEF Reads, Says
  <2>3. ASSUME NEW t \in DOMAIN u[n].pubs PROVE u[n].pubs[t] = v[n].pubs[t]
    <3>1. PICK m \in Stand(R, PubOps, "ANNOUNCE", n) : m.body.topic = t
      BY <1>1, <1>2, <2>3 DEF Reads, Says
    <3>2. u[n].pubs[m.body.topic] = m.body.mime /\ v[n].pubs[m.body.topic] = m.body.mime
      BY <1>1, <1>2, <3>1 DEF Reads, Says
    <3> QED
      BY <3>1, <3>2
  <2>4. u[n].pubs = v[n].pubs
    <3>1. /\ u[n].pubs = [t \in DOMAIN u[n].pubs |-> u[n].pubs[t]]
          /\ v[n].pubs = [t \in DOMAIN v[n].pubs |-> v[n].pubs[t]]
      BY <2>1 DEF NodeKnown
    <3> QED
      BY <2>2, <2>3, <3>1
  <2> QED
    BY <2>1, <2>2, <2>4 DEF NodeKnown
<1>3. u = [n \in DOMAIN u |-> u[n]] /\ v = [n \in DOMAIN v |-> v[n]]
  BY DEF ViewKnown
<1> QED
  BY <1>1, <1>2, <1>3

\* JOINs of nodes that have left make no difference.
LEMMA ViewOfRest ==
    ASSUME NEW R, NEW Q \in SUBSET R, NEW view, Reads(view, R),
           \A m \in R : \/ m \in Q
                        \/ IsJoin(m) /\ \E l \in Q : IsLeave(l) /\ l.body.node = m.body.node
    PROVE  Reads(view, Q)
<1>1. ActiveIn(Q) = ActiveIn(R)
  <2>1. \A n : n \in ActiveIn(R) <=> /\ \E m \in R : IsJoin(m) /\ m.body.node = n
                                     /\ ~\E m \in R : IsLeave(m) /\ m.body.node = n
    BY DEF ActiveIn
  <2>2. \A n : n \in ActiveIn(Q) <=> /\ \E m \in Q : IsJoin(m) /\ m.body.node = n
                                     /\ ~\E m \in Q : IsLeave(m) /\ m.body.node = n
    BY DEF ActiveIn
  <2>3. \A m \in R : IsLeave(m) => m \in Q
    BY DEF IsJoin, IsLeave
  <2>4. \A n : n \in ActiveIn(Q) <=> n \in ActiveIn(R)
    BY <2>1, <2>2, <2>3
  <2> QED
    BY <2>4
<1>2. ASSUME NEW n \in ActiveIn(Q), NEW ops \in {PubOps, SubOps}, NEW op
      PROVE  Stand(Q, ops, op, n) = Stand(R, ops, op, n)
  <2>1. \A m \in R : m.body.node = n => m \in Q
    BY <1>2 DEF ActiveIn
  <2>2. \A m \in Q : m.body.node = n => (Decides(Q, ops, m) <=> Decides(R, ops, m))
    BY <2>1 DEF Decides
  <2> QED
    BY <2>1, <2>2 DEF Stand
<1> QED
  BY <1>1, <1>2 DEF Reads

\* m comes after all of R.
Newest(m, R) == \A x \in R : x.seq < m.seq

\* A message after all others leaves the last words on other topics alone...
LEMMA StandSame ==
    ASSUME NEW R \in SUBSET Messages, NEW m \in Messages, Newest(m, R),
           NEW ops, NEW op, NEW n, m.body.op \notin ops \/ m.body.node # n
    PROVE  Stand(R \cup {m}, ops, op, n) = Stand(R, ops, op, n)
<1> DEFINE Q == R \cup {m}
<1>1. m.seq \in Nat /\ \A x \in R : x.seq \in Nat /\ x.seq < m.seq
  BY DEF Messages, Newest
<1>2. ASSUME NEW x \in R, x.body.node = n
      PROVE  Decides(Q, ops, x) <=> Decides(R, ops, x)
  <2>1. ~(m.seq < x.seq)
    BY <1>1
  <2>2. \A y \in Q : y \in R \/ y = m
    OBVIOUS
  <2> HIDE DEF Q
  <2>3. R \subseteq Q /\ m \in Q
    BY DEF Q
  <2> QED
    BY <1>2, <2>1, <2>2, <2>3 DEF Decides
<1>3. ~(Decides(Q, ops, m) /\ m.body.node = n)
  BY DEF Decides
<1> QED
  BY <1>2, <1>3 DEF Stand

\* ...and is the last on its own topic, if its node is there.
Replaced(S, m, op) ==
    {x \in S : x.body.topic # m.body.topic} \cup {x \in {m} : x.body.op = op}

LEMMA StandNext ==
    ASSUME NEW R \in SUBSET Messages, NEW m \in Messages, Newest(m, R),
           NEW ops, NEW op, m.body.op \in ops, NEW n, m.body.node = n, n \in ActiveIn(R)
    PROVE  Stand(R \cup {m}, ops, op, n) = Replaced(Stand(R, ops, op, n), m, op)
<1> DEFINE Q == R \cup {m}
<1>1. m.seq \in Nat /\ (\A x \in R : x.seq \in Nat /\ x.seq < m.seq) /\ m \notin R
  BY DEF Messages, Newest
<1>2. PICK j \in R : IsJoin(j) /\ j.body.node = n
  BY DEF ActiveIn
<1>3. Decides(Q, ops, m)
  <2>1. m \in Q /\ j \in Q /\ j.seq < m.seq /\ \A k \in Q : k.seq <= m.seq
    BY <1>1
  <2> HIDE DEF Q
  <2> QED
    BY <1>2, <2>1 DEF Decides
<1>4. ASSUME NEW x \in R, x.body.node = n, x.body.op \in ops, x.body.topic # m.body.topic
      PROVE  Decides(Q, ops, x) <=> Decides(R, ops, x)
  <2>1. ~(m.seq < x.seq)
    BY <1>1
  <2>2. \A y \in Q : y \in R \/ y = m
    OBVIOUS
  <2> HIDE DEF Q
  <2>3. R \subseteq Q /\ m \in Q
    BY DEF Q
  <2> QED
    BY <1>4, <2>1, <2>2, <2>3 DEF Decides
<1>5. ASSUME NEW x \in R, x.body.node = n, x.body.topic = m.body.topic PROVE ~Decides(Q, ops, x)
  <2>1. ~(m.seq <= x.seq)
    BY <1>1
  <2> QED
    BY <1>5, <2>1 DEF Decides
<1>6. \A x \in R : Decides(R, ops, x) \/ Decides(Q, ops, x) => x.body.op \in ops
  BY DEF Decides
<1>7. \A x \in R : x \in Stand(Q, ops, op, n) <=>
                   x \in Stand(R, ops, op, n) /\ x.body.topic # m.body.topic
  BY <1>4, <1>5, <1>6 DEF Stand
<1>8. m \in Stand(Q, ops, op, n) <=> m.body.op = op
  BY <1>3 DEF Stand
<1>9. \A x : (x \in Stand(Q, ops, op, n) => x \in R \/ x = m) /\ (x \in Stand(R, ops, op, n) => x \in R)
  BY DEF Stand
<1> DEFINE S == Stand(Q, ops, op, n)
           T == Stand(R, ops, op, n)
<1>10. \A x : x \in S <=> (x \in T /\ x.body.topic # m.body.topic) \/ (x = m /\ m.body.op = op)
  BY <1>1, <1>7, <1>8, <1>9
<1> HIDE DEF S, T
<1>11. S = Replaced(T, m, op)
  BY <1>10 DEF Replaced
<1> QED
  BY <1>11 DEF S, T

\* Who is there after one more message.
LEMMA ActiveStep ==
    ASSUME NEW R, NEW m
    PROVE  /\ IsJoin(m) /\ (\A x \in R : IsLeave(x) => x.body.node # m.body.node) =>
                 ActiveIn(R \cup {m}) = ActiveIn(R) \cup {m.body.node}
           /\ IsLeave(m) => ActiveIn(R \cup {m}) = ActiveIn(R) \ {m.body.node}
           /\ ~IsJoin(m) /\ ~IsLeave(m) => ActiveIn(R \cup {m}) = ActiveIn(R)
<1> DEFINE Q == R \cup {m}
<1>1. \A n : n \in ActiveIn(R) <=> /\ \E x \in R : IsJoin(x) /\ x.body.node = n
                                   /\ ~\E x \in R : IsLeave(x) /\ x.body.node = n
  BY DEF ActiveIn
<1>2. \A n : n \in ActiveIn(Q) <=> /\ \E x \in Q : IsJoin(x) /\ x.body.node = n
                                   /\ ~\E x \in Q : IsLeave(x) /\ x.body.node = n
  BY DEF ActiveIn
<1>3. \A n : /\ (\E x \in Q : IsJoin(x) /\ x.body.node = n)
                   <=> (\E x \in R : IsJoin(x) /\ x.body.node = n) \/ (IsJoin(m) /\ m.body.node = n)
             /\ (\E x \in Q : IsLeave(x) /\ x.body.node = n)
                   <=> (\E x \in R : IsLeave(x) /\ x.body.node = n) \/ (IsLeave(m) /\ m.body.node = n)
  OBVIOUS
<1>4. ~(IsJoin(m) /\ IsLeave(m))
  BY DEF IsJoin, IsLeave
<1> HIDE DEF Q
<1>5. \A n : n \in ActiveIn(Q) <=>
             /\ n \in ActiveIn(R) \/ (/\ IsJoin(m) /\ m.body.node = n
                                      /\ ~\E x \in R : IsLeave(x) /\ x.body.node = n)
             /\ ~(IsLeave(m) /\ m.body.node = n)
  BY <1>1, <1>2, <1>3, <1>4
<1> QED
  BY <1>4, <1>5 DEF Q

\* The last words on what a node publishes after one more message about it...
LEMMA PubsNext ==
    ASSUME NEW R \in SUBSET Messages, NEW m \in Messages, Newest(m, R),
           m.body.node \in ActiveIn(R)
    PROVE  Stand(R \cup {m}, PubOps, "ANNOUNCE", m.body.node)
             = IF m.body.op \in PubOps
               THEN Replaced(Stand(R, PubOps, "ANNOUNCE", m.body.node), m, "ANNOUNCE")
               ELSE Stand(R, PubOps, "ANNOUNCE", m.body.node)
<1>1. CASE m.body.op \in PubOps
  <2>1. Stand(R \cup {m}, PubOps, "ANNOUNCE", m.body.node)
          = Replaced(Stand(R, PubOps, "ANNOUNCE", m.body.node), m, "ANNOUNCE")
    BY <1>1, StandNext
  <2> QED
    BY <1>1, <2>1
<1>2. CASE m.body.op \notin PubOps
  <2>1. Stand(R \cup {m}, PubOps, "ANNOUNCE", m.body.node) = Stand(R, PubOps, "ANNOUNCE", m.body.node)
    BY <1>2, StandSame
  <2> QED
    BY <1>2, <2>1
<1> QED
  BY <1>1, <1>2

\* ...and on what it subscribes to.
LEMMA SubsNext ==
    ASSUME NEW R \in SUBSET Messages, NEW m \in Messages, Newest(m, R),
           m.body.node \in ActiveIn(R)
    PROVE  Stand(R \cup {m}, SubOps, "SUBSCRIBE", m.body.node)
             = IF m.body.op \in SubOps
               THEN Replaced(Stand(R, SubOps, "SUBSCRIBE", m.body.node), m, "SUBSCRIBE")
               ELSE Stand(R, SubOps, "SUBSCRIBE", m.body.node)
<1>1. CASE m.body.op \in SubOps
  <2>1. Stand(R \cup {m}, SubOps, "SUBSCRIBE", m.body.node)
          = Replaced(Stand(R, SubOps, "SUBSCRIBE", m.body.node), m, "SUBSCRIBE")
    BY <1>1, StandNext
  <2> QED
    BY <1>1, <2>1
<1>2. CASE m.body.op \notin SubOps
  <2>1. Stand(R \cup {m}, SubOps, "SUBSCRIBE", m.body.node) = Stand(R, SubOps, "SUBSCRIBE", m.body.node)
    BY <1>2, StandSame
  <2> QED
    BY <1>2, <2>1
<1> QED
  BY <1>1, <1>2

\* What is known of one node after a message about one of its topics: P and S
\* are the last words before it, P2 and S2 those after.
LEMMA UpdatedReads ==
    ASSUME NEW m, m.body.op \in TopicOps, NEW e, NodeKnown(e), NEW P, NEW S, NEW P2, NEW S2,
           P2 = IF m.body.op \in PubOps THEN Replaced(P, m, "ANNOUNCE") ELSE P,
           S2 = IF m.body.op \in SubOps THEN Replaced(S, m, "SUBSCRIBE") ELSE S,
           Says(e, P, S)
    PROVE  Says(Updated(e, m.body), P2, S2)
<1> DEFINE f == Updated(e, m.body)
           t == m.body.topic
<1>1. e = [pubs |-> e.pubs, subs |-> e.subs]
  BY DEF NodeKnown
<1>2. /\ m.body.op \notin PubOps => P2 = P
      /\ m.body.op \in PubOps => P2 = Replaced(P, m, "ANNOUNCE")
  OBVIOUS
<1>3. /\ m.body.op \notin SubOps => S2 = S
      /\ m.body.op \in SubOps => S2 = Replaced(S, m, "SUBSCRIBE")
  OBVIOUS
<1> HIDE DEF f, Says
<1>4. /\ DOMAIN e.pubs = {x.body.topic : x \in P} /\ e.subs = {x.body.topic : x \in S}
      /\ \A x \in P : e.pubs[x.body.topic] = x.body.mime
  BY DEF Says
<1>5. CASE m.body.op = "ANNOUNCE"
  <2>1. f = [pubs |-> With(e.pubs, t, m.body.mime), subs |-> e.subs]
    BY <1>1, <1>5 DEF Updated, f
  <2>2. (\A x : x \in P2 <=> (x \in P /\ x.body.topic # t) \/ x = m) /\ S2 = S
    BY <1>2, <1>3, <1>5 DEF PubOps, SubOps, Replaced
  <2>3. /\ DOMAIN With(e.pubs, t, m.body.mime) = DOMAIN e.pubs \cup {t}
        /\ With(e.pubs, t, m.body.mime)[t] = m.body.mime
        /\ \A x \in DOMAIN e.pubs : x # t => With(e.pubs, t, m.body.mime)[x] = e.pubs[x]
    BY DEF With
  <2>4. DOMAIN f.pubs = {x.body.topic : x \in P2}
    BY <1>4, <2>1, <2>2, <2>3
  <2>5. ASSUME NEW x \in P2 PROVE f.pubs[x.body.topic] = x.body.mime
    <3>1. CASE x = m
      BY <2>1, <2>3, <3>1
    <3>2. CASE x \in P /\ x.body.topic # t
      <4>1. x.body.topic \in DOMAIN e.pubs
        BY <1>4, <3>2
      <4>2. f.pubs[x.body.topic] = e.pubs[x.body.topic]
        BY <2>1, <2>3, <3>2, <4>1
      <4> QED
        BY <1>4, <3>2, <4>2
    <3> QED
      BY <2>2, <3>1, <3>2
  <2>6. f.subs = {x.body.topic : x \in S2}
    BY <1>4, <2>1, <2>2
  <2> QED
    BY <2>4, <2>5, <2>6 DEF f, Says
<1>6. CASE m.body.op = "RETRACT"
  <2>1. f = [pubs |-> Without(e.pubs, t), subs |-> e.subs]
    BY <1>1, <1>6 DEF Updated, f
  <2>2. (\A x : x \in P2 <=> (x \in P /\ x.body.topic # t)) /\ S2 = S
    BY <1>2, <1>3, <1>6 DEF PubOps, SubOps, Replaced
  <2>3. /\ DOMAIN Without(e.pubs, t) = DOMAIN e.pubs \ {t}
        /\ \A x \in DOMAIN e.pubs : x # t => Without(e.pubs, t)[x] = e.pubs[x]
    BY DEF Without
  <2>4. DOMAIN f.pubs = {x.body.topic : x \in P2}
    BY <1>4, <2>1, <2>2, <2>3
  <2>5. \A x \in P2 : f.pubs[x.body.topic] = x.body.mime
    BY <1>4, <2>1, <2>2, <2>3
  <2>6. f.subs = {x.body.topic : x \in S2}
    BY <1>4, <2>1, <2>2
  <2> QED
    BY <2>4, <2>5, <2>6 DEF f, Says
<1>7. CASE m.body.op = "SUBSCRIBE"
  <2>1. f = [pubs |-> e.pubs, subs |-> e.subs \cup {t}]
    BY <1>1, <1>7 DEF Updated, f
  <2>2. P2 = P /\ \A x : x \in S2 <=> (x \in S /\ x.body.topic # t) \/ x = m
    BY <1>2, <1>3, <1>7 DEF PubOps, SubOps, Replaced
  <2>3. f.subs = {x.body.topic : x \in S2}
    BY <1>4, <2>1, <2>2
  <2>4. DOMAIN f.pubs = {x.body.topic : x \in P2} /\ \A x \in P2 : f.pubs[x.body.topic] = x.body.mime
    BY <1>4, <2>1, <2>2
  <2> QED
    BY <2>3, <2>4 DEF f, Says
<1>8. CASE m.body.op = "UNSUBSCRIBE"
  <2>1. f = [pubs |-> e.pubs, subs |-> e.subs \ {t}]
    BY <1>1, <1>8 DEF Updated, f
  <2>2. P2 = P /\ \A x : x \in S2 <=> (x \in S /\ x.body.topic # t)
    BY <1>2, <1>3, <1>8 DEF PubOps, SubOps, Replaced
  <2>3. f.subs = {x.body.topic : x \in S2}
    BY <1>4, <2>1, <2>2
  <2>4. DOMAIN f.pubs = {x.body.topic : x \in P2} /\ \A x \in P2 : f.pubs[x.body.topic] = x.body.mime
    BY <1>4, <2>1, <2>2
  <2> QED
    BY <2>3, <2>4 DEF f, Says
<1> QED
  BY <1>5, <1>6, <1>7, <1>8 DEF TopicOps

\* ApplyUpdate reads on: the view after the newest message is what the messages
\* say together with it.
LEMMA ViewedReads ==
    ASSUME NEW R \in SUBSET Messages, NEW m \in Messages, Newest(m, R),
           IsJoin(m) => \A x \in R : IsLeave(x) => x.body.node # m.body.node,
           NEW view, ViewKnown(view), Reads(view, R)
    PROVE  Reads(Viewed(view, m.body), R \cup {m})
<1> DEFINE Q == R \cup {m}
           k == m.body.node
           v == Viewed(view, m.body)
<1>1. DOMAIN view = ActiveIn(R)
  BY DEF Reads
<1>2. ASSUME NEW n, n # k \/ m.body.op \notin TopicOps
      PROVE  /\ Stand(Q, PubOps, "ANNOUNCE", n) = Stand(R, PubOps, "ANNOUNCE", n)
             /\ Stand(Q, SubOps, "SUBSCRIBE", n) = Stand(R, SubOps, "SUBSCRIBE", n)
  <2>1. n # k \/ (m.body.op \notin PubOps /\ m.body.op \notin SubOps)
    BY <1>2 DEF PubOps, SubOps, TopicOps
  <2>2. Stand(Q, PubOps, "ANNOUNCE", n) = Stand(R, PubOps, "ANNOUNCE", n)
    BY <2>1, StandSame
  <2>3. Stand(Q, SubOps, "SUBSCRIBE", n) = Stand(R, SubOps, "SUBSCRIBE", n)
    BY <2>1, StandSame
  <2> QED
    BY <2>2, <2>3
<1>3. ASSUME DOMAIN v = ActiveIn(Q),
             \A n \in DOMAIN v : n # k \/ m.body.op \notin TopicOps => n \in DOMAIN view /\ v[n] = view[n],
             m.body.op \in TopicOps /\ k \in DOMAIN v => k \in DOMAIN view /\ v[k] = Updated(view[k], m.body)
      PROVE  Reads(v, Q)
  <2>1. ASSUME NEW n \in DOMAIN v, n # k \/ m.body.op \notin TopicOps
        PROVE  Says(v[n], Stand(Q, PubOps, "ANNOUNCE", n), Stand(Q, SubOps, "SUBSCRIBE", n))
    <3>1. n \in ActiveIn(R) /\ v[n] = view[n]
      BY <1>1, <1>3, <2>1
    <3> HIDE DEF v, Q
    <3> QED
      BY <1>2, <2>1, <3>1 DEF Reads
  <2>2. ASSUME k \in DOMAIN v, m.body.op \in TopicOps
        PROVE  Says(v[k], Stand(Q, PubOps, "ANNOUNCE", k), Stand(Q, SubOps, "SUBSCRIBE", k))
    <3>1. k \in ActiveIn(R) /\ v[k] = Updated(view[k], m.body) /\ NodeKnown(view[k])
      BY <1>1, <1>3, <2>2 DEF ViewKnown
    <3>2. Says(view[k], Stand(R, PubOps, "ANNOUNCE", k), Stand(R, SubOps, "SUBSCRIBE", k))
      BY <3>1 DEF Reads
    <3>3. Says(Updated(view[k], m.body), Stand(Q, PubOps, "ANNOUNCE", k), Stand(Q, SubOps, "SUBSCRIBE", k))
      <4>1. /\ Stand(Q, PubOps, "ANNOUNCE", k)
                 = IF m.body.op \in PubOps
                   THEN Replaced(Stand(R, PubOps, "ANNOUNCE", k), m, "ANNOUNCE")
                   ELSE Stand(R, PubOps, "ANNOUNCE", k)
            /\ Stand(Q, SubOps, "SUBSCRIBE", k)
                 = IF m.body.op \in SubOps
                   THEN Replaced(Stand(R, SubOps, "SUBSCRIBE", k), m, "SUBSCRIBE")
                   ELSE Stand(R, SubOps, "SUBSCRIBE", k)
        BY <3>1, PubsNext, SubsNext
      <4> HIDE DEF Q, k
      <4> QED
        BY <2>2, <3>1, <3>2, <4>1, UpdatedReads DEF k
    <3> HIDE DEF v, Q
    <3> QED
      BY <3>1, <3>3
  <2> HIDE DEF v, Q
  <2> QED
    BY <1>3, <2>1, <2>2 DEF Reads
<1>4. CASE IsJoin(m) /\ k \notin DOMAIN view
  <2>1. v = With(view, k, NewNode) /\ m.body.op \notin TopicOps
    BY <1>4 DEF Viewed, IsJoin, TopicOps
  <2>2. DOMAIN v = ActiveIn(Q) /\ DOMAIN v = DOMAIN view \cup {k}
    BY <1>1, <1>4, <2>1, ActiveStep DEF With
  <2>3. v[k].pubs = <<>> /\ v[k].subs = {}
    BY <2>1 DEF With, NewNode
  <2>4. \A x \in R : ~(IsJoin(x) /\ x.body.node = k)
    BY <1>1, <1>4 DEF ActiveIn
  <2>5. Stand(Q, PubOps, "ANNOUNCE", k) = {} /\ Stand(Q, SubOps, "SUBSCRIBE", k) = {}
    <3>1. Stand(R, PubOps, "ANNOUNCE", k) = {} /\ Stand(R, SubOps, "SUBSCRIBE", k) = {}
      BY <2>4 DEF Stand, Decides
    <3> QED
      BY <1>2, <2>1, <3>1
  <2>6. \A n \in ActiveIn(R) : v[n] = view[n]
    BY <1>1, <1>4, <2>1 DEF With
  <2>7. DOMAIN <<>> = {}
    OBVIOUS
  <2> HIDE DEF v, Q
  <2>8. ASSUME NEW n \in ActiveIn(Q)
        PROVE  Says(v[n], Stand(Q, PubOps, "ANNOUNCE", n), Stand(Q, SubOps, "SUBSCRIBE", n))
    <3>1. CASE n = k
      BY <2>3, <2>5, <2>7, <3>1 DEF Says
    <3>2. CASE n # k
      <4>1. n \in ActiveIn(R)
        BY <1>1, <2>2, <2>8, <3>2
      <4> QED
        BY <1>2, <2>6, <3>2, <4>1 DEF Reads
    <3> QED
      BY <3>1, <3>2
  <2>9. Reads(v, Q)
    BY <2>2, <2>8 DEF Reads
  <2> QED
    BY <2>9 DEF v, Q
<1>5. CASE IsLeave(m)
  <2>1. v = Without(view, k) /\ m.body.op \notin TopicOps
    BY <1>5 DEF Viewed, IsLeave, TopicOps
  <2>2. DOMAIN v = ActiveIn(Q)
    BY <1>1, <1>5, <2>1, ActiveStep DEF Without
  <2>3. \A n \in DOMAIN v : n \in DOMAIN view /\ v[n] = view[n]
    BY <2>1 DEF Without
  <2> QED
    BY <1>3, <2>1, <2>2, <2>3
<1>6. CASE m.body.op \in TopicOps /\ k \in DOMAIN view
  <2>1. v = [view EXCEPT ![k] = Updated(view[k], m.body)] /\ ~IsJoin(m) /\ ~IsLeave(m)
    BY <1>6 DEF Viewed, IsJoin, IsLeave, TopicOps
  <2>2. DOMAIN v = ActiveIn(Q)
    BY <1>1, <2>1, ActiveStep
  <2>3. v[k] = Updated(view[k], m.body) /\ \A n \in DOMAIN v : n # k => v[n] = view[n]
    BY <1>6, <2>1
  <2>4. DOMAIN v = DOMAIN view
    BY <2>1
  <2> QED
    BY <1>3, <1>6, <2>2, <2>3, <2>4
<1>7. CASE /\ ~(IsJoin(m) /\ k \notin DOMAIN view) /\ ~IsLeave(m)
           /\ ~(m.body.op \in TopicOps /\ k \in DOMAIN view)
  <2>1. v = view
    BY <1>7 DEF Viewed, IsJoin, IsLeave
  <2>2. ActiveIn(Q) = ActiveIn(R)
    <3>1. CASE IsJoin(m)
      <4>1. k \in ActiveIn(R)
        BY <1>1, <1>7, <3>1
      <4>2. ActiveIn(Q) = ActiveIn(R) \cup {k}
        BY <3>1, ActiveStep
      <4> QED
        BY <4>1, <4>2
    <3>2. CASE ~IsJoin(m)
      BY <1>7, <3>2, ActiveStep
    <3> QED
      BY <3>1, <3>2
  <2> QED
    BY <1>1, <1>3, <1>7, <2>1, <2>2
<1> QED
  BY <1>4, <1>5, <1>6, <1>7

=============================================================================
