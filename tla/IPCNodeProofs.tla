---------------------------- MODULE IPCNodeProofs ----------------------------
(***************************************************************************)
(* Proofs about IPCNode, for any nodes, topics, lengths of the queues, and *)
(* whatever the applications and handlers do: the type invariant, that the *)
(* table of a node agrees with its view of the group, and that receivers   *)
(* are sent what they asked for, once and in order.                        *)
(***************************************************************************)
EXTENDS IPCNode, TLAPS

-----------------------------------------------------------------------------
(* The inductive invariant.                                                *)

Publications == [at : {"publish"}, left : SUBSET Nodes, msg : Messages]

AppTasks ==
    {Idle} \cup [at : {"register"}, topic : Topics] \cup Publications \cup [at : {"join", "manager"}]

ReaderTasks ==
    {Idle} \cup [at : {"handle"}, msg : Messages] \cup [at : {"reply"}, topic : Topics]
    \cup Publications \cup [at : {"ended"}]

\* The types of the variables, those of the tables left out.
TaskTypes ==
    /\ task \in [Nodes -> [Threads -> AppTasks \cup ReaderTasks]]
    /\ \A n \in Nodes : task[n]["app"] \in AppTasks /\ task[n]["reader"] \in ReaderTasks

OtherTypes ==
    /\ status \in [Nodes -> {"off", "up", "dead"}] /\ padded \in [Nodes -> BOOLEAN]
    /\ mSubscriptions \in [Nodes -> SUBSET Topics]
    /\ mMtx \in [Nodes -> {"free"} \cup Threads]
    /\ refused \in [Nodes -> SUBSET Nodes]

LogTypes ==
    /\ log \in Seq(Events)
    /\ applied \in [Nodes -> Nat] /\ \A n \in Nodes : applied[n] <= Len(log)

CountTypes ==
    /\ published \in [Nodes -> Nat]
    /\ said \in [Nodes -> Nat] /\ \A n \in Nodes : said[n] <= MaxPublished[n]

QueueTypes == inbox \in [Nodes -> Seq(Messages)] /\ delivered \in [Nodes -> Seq(Messages)]

Types == TaskTypes /\ OtherTypes /\ LogTypes /\ CountTypes /\ QueueTypes

\* The log of the group: a node joins once, before its other events, and leaves last,
\* when it is dead.
TopicsLawful ==
    \A i \in DOMAIN log : IF log[i].op = "SUBSCRIBE" THEN log[i].topic \in Topics ELSE log[i].topic = ""
JoinsOnce ==
    \A i, j \in DOMAIN log :
        log[i].op = "JOIN" /\ log[j].op = "JOIN" /\ log[i].node = log[j].node => i = j
JoinsFirst ==
    \A j \in DOMAIN log : log[j].op # "JOIN" =>
        \E i \in DOMAIN log : i < j /\ log[i] = Event("JOIN", log[j].node, "")
LeavesLast ==
    \A i, j \in DOMAIN log : i < j /\ log[i].op = "LEAVE" => log[j].node # log[i].node
StartedOnly == \A i \in DOMAIN log : status[log[i].node] # "off"
DeadLeave   == \A i \in DOMAIN log : log[i].op = "LEAVE" => status[log[i].node] = "dead"
AllJoined   == \A n \in Nodes : status[n] # "off" => \E i \in DOMAIN log : log[i] = Event("JOIN", n, "")

LogLawful ==
    TopicsLawful /\ JoinsOnce /\ JoinsFirst /\ LeavesLast /\ StartedOnly /\ DeadLeave /\ AllJoined

Asked(n, topic) == \E i \in DOMAIN log : log[i] = Event("SUBSCRIBE", n, topic)

\* What a node that has applied the first k events has in its table.
View(k) ==
    [m \in Joined(k) |->
        [path |-> TRUE, subs |-> {t \in Topics : \E i \in 1..k : log[i] = Event("SUBSCRIBE", m, t)}]]

TablesFollow == mNodeById = [n \in Nodes |-> View(applied[n])]

\* The lock is held by the thread that publishes, which sends the last message its node
\* has published, to nodes that asked for it.
SendsLast(n, th) ==
    /\ task[n][th].msg.from = n
    /\ task[n][th].msg.serial = published[n]
    /\ \A m \in task[n][th].left : Asked(m, task[n][th].msg.topic)

LockHeldBy(n, th) ==
    /\ Doing(n, th) = "publish" <=> mMtx[n] = th
    /\ Doing(n, th) = "publish" => SendsLast(n, th)

LockHeld == \A n \in Nodes, th \in Threads : LockHeldBy(n, th)

\* A message a node was sent is one that was published, that it asked for, and not of
\* the publication under way if that is still to be sent to it.
Lawful(n, d) ==
    /\ d.serial <= published[d.from]
    /\ Asked(n, d.topic)
    /\ \A th \in Threads :
          Doing(d.from, th) = "publish" /\ n \in task[d.from][th].left => d.serial < published[d.from]

ReceivedLawfully == \A n \in Nodes : \A i \in DOMAIN Received(n) : Lawful(n, Received(n)[i])

NodeInv ==
    /\ Types /\ LogLawful /\ TablesFollow /\ LockHeld
    /\ ReceivedLawfully /\ OnceInOrder

-----------------------------------------------------------------------------
(* The types.                                                              *)

TasksOf(th) == IF th = "app" THEN AppTasks ELSE ReaderTasks

LEMMA GoesTo ==
    ASSUME TaskTypes, NEW n \in Nodes, NEW th \in Threads, NEW t \in TasksOf(th), Goto(n, th, t)
    PROVE  /\ TaskTypes'
           /\ task'[n][th] = t
           /\ \A m \in Nodes, o \in Threads : m # n \/ o # th => task'[m][o] = task[m][o]
<1>1. /\ task' = [task EXCEPT ![n] = [task[n] EXCEPT ![th] = t]]
      /\ t \in AppTasks \cup ReaderTasks
      BY DEF Goto, TasksOf
<1>2. task[n] \in [Threads -> AppTasks \cup ReaderTasks]
      BY DEF TaskTypes
<1>3. [task[n] EXCEPT ![th] = t] \in [Threads -> AppTasks \cup ReaderTasks]
      BY <1>1, <1>2
<1>4. task' \in [Nodes -> [Threads -> AppTasks \cup ReaderTasks]]
      BY <1>1, <1>3 DEF TaskTypes
<1>5. /\ task'[n][th] = t
      /\ \A m \in Nodes, o \in Threads : m # n \/ o # th => task'[m][o] = task[m][o]
      BY <1>1, <1>2 DEF TaskTypes
<1>6. \A m \in Nodes : task'[m]["app"] \in AppTasks /\ task'[m]["reader"] \in ReaderTasks
      BY <1>5 DEF TaskTypes, TasksOf, Threads
<1>7. QED
      BY <1>4, <1>5, <1>6 DEF TaskTypes

LEMMA RestIsTask ==
    ASSUME NEW n, NEW th \in Threads
    PROVE  Rest(n, th) \in TasksOf(th) /\ Rest(n, th).at \notin {"publish", "handle"}
BY DEF Rest, TasksOf, AppTasks, ReaderTasks, Idle, Threads

LEMMA TaskShapes ==
    ASSUME TaskTypes, NEW n \in Nodes
    PROVE  /\ \A th \in Threads : Doing(n, th) = "publish" =>
                 task[n][th].left \in SUBSET Nodes /\ task[n][th].msg \in Messages
                 /\ task[n][th] \in Publications
           /\ Doing(n, "app") = "register" => task[n]["app"].topic \in Topics
           /\ Doing(n, "reader") = "reply" => task[n]["reader"].topic \in Topics
           /\ Doing(n, "reader") = "handle" => task[n]["reader"].msg \in Messages
           /\ Doing(n, "app") # "handle"
<1>1. task[n]["app"] \in AppTasks /\ task[n]["reader"] \in ReaderTasks
      BY DEF TaskTypes
<1>2. /\ Doing(n, "app") = "publish" => task[n]["app"] \in Publications
      /\ Doing(n, "app") = "register" => task[n]["app"].topic \in Topics
      /\ Doing(n, "app") # "handle"
      BY <1>1 DEF AppTasks, Publications, Doing, Idle
<1>3. /\ Doing(n, "reader") = "publish" => task[n]["reader"] \in Publications
      /\ Doing(n, "reader") = "reply" => task[n]["reader"].topic \in Topics
      /\ Doing(n, "reader") = "handle" => task[n]["reader"].msg \in Messages
      BY <1>1 DEF ReaderTasks, Publications, Doing, Idle
<1>4. QED
      BY <1>2, <1>3 DEF Publications, Threads

LEMMA LogAppended ==
    ASSUME LogTypes, NEW e \in Events, log' = Append(log, e)
    PROVE  /\ log' \in Seq(Events) /\ Len(log') = Len(log) + 1 /\ DOMAIN log' = 1..Len(log')
           /\ DOMAIN log = 1..Len(log) /\ Len(log) \in Nat
           /\ \A i \in DOMAIN log : i \in DOMAIN log' /\ log'[i] = log[i] /\ log[i] \in Events
           /\ log'[Len(log) + 1] = e
           /\ \A i \in DOMAIN log' : i \in DOMAIN log \/ i = Len(log) + 1
BY DEF LogTypes


\* A step that changes a variable at one node or not at all keeps its type.
LEMMA OtherKept ==
    ASSUME Types, NEW n \in Nodes,
           status' = status \/ \E x \in {"up", "dead"} : status' = [status EXCEPT ![n] = x],
           padded' = padded \/ \E x \in BOOLEAN : padded' = [padded EXCEPT ![n] = x],
           \/ mSubscriptions' = mSubscriptions
           \/ \E x \in Topics : mSubscriptions' = [mSubscriptions EXCEPT ![n] = @ \cup {x}],
           mMtx' = mMtx \/ \E x \in {"free"} \cup Threads : mMtx' = [mMtx EXCEPT ![n] = x],
           refused' = refused \/ \E m \in Nodes : refused' = [refused EXCEPT ![n] = @ \cup {m}]
    PROVE  OtherTypes'
<1>1. status' \in [Nodes -> {"off", "up", "dead"}]
      BY DEF Types, OtherTypes
<1>2. padded' \in [Nodes -> BOOLEAN]
      BY DEF Types, OtherTypes
<1>3. mSubscriptions' \in [Nodes -> SUBSET Topics]
      BY DEF Types, OtherTypes
<1>4. mMtx' \in [Nodes -> {"free"} \cup Threads]
      BY DEF Types, OtherTypes
<1>5. refused' \in [Nodes -> SUBSET Nodes]
      BY DEF Types, OtherTypes
<1>6. QED
      BY <1>1, <1>2, <1>3, <1>4, <1>5 DEF OtherTypes

LEMMA LogKept ==
    ASSUME Types, applied' = applied, log' = log \/ \E e \in Events : log' = Append(log, e)
    PROVE  LogTypes'
<1>1. CASE log' = log
      BY <1>1 DEF Types, LogTypes
<1>2. ASSUME NEW e \in Events, log' = Append(log, e)
      PROVE  LogTypes'
  <2>1. Len(log') = Len(log) + 1 /\ log' \in Seq(Events) /\ Len(log) \in Nat
        BY <1>2, LogAppended DEF Types
  <2>2. QED
        BY <2>1 DEF Types, LogTypes
<1>3. QED
      BY <1>1, <1>2

LEMMA CountsKept == ASSUME Types, UNCHANGED <<published, said>> PROVE CountTypes'
BY DEF Types, CountTypes

LEMMA QueuesKept ==
    ASSUME Types, NEW n \in Nodes,
           \/ inbox' = inbox
           \/ \E s \in Seq(Messages) : inbox' = [inbox EXCEPT ![n] = s],
           \/ delivered' = delivered
           \/ \E d \in Messages : delivered' = [delivered EXCEPT ![n] = Append(delivered[n], d)]
    PROVE  QueueTypes'
<1>1. inbox' \in [Nodes -> Seq(Messages)]
      BY DEF Types, QueueTypes
<1>2. delivered' \in [Nodes -> Seq(Messages)]
  <2>1. ASSUME NEW d \in Messages
        PROVE  Append(delivered[n], d) \in Seq(Messages)
        BY DEF Types, QueueTypes
  <2>2. QED
        BY <2>1 DEF Types, QueueTypes
<1>3. QED
      BY <1>1, <1>2 DEF QueueTypes

\* The conjunct of TypeOK about the tables.
TableTypes ==
    \A n \in Nodes : DOMAIN mNodeById[n] \subseteq Nodes /\ mNodeById[n] \in
        [DOMAIN mNodeById[n] -> [path : BOOLEAN, subs : SUBSET Topics]]

LEMMA TablesTyped ==
    ASSUME LogTypes, TablesFollow
    PROVE  TableTypes
<1> SUFFICES ASSUME NEW n \in Nodes
             PROVE  DOMAIN mNodeById[n] \subseteq Nodes /\ mNodeById[n] \in
                        [DOMAIN mNodeById[n] -> [path : BOOLEAN, subs : SUBSET Topics]]
    BY DEF TableTypes
<1> DEFINE k == applied[n]
<1>1. k \in Nat /\ k <= Len(log) /\ mNodeById[n] = View(k)
      BY DEF LogTypes, TablesFollow
<1>2. \A j \in 1..k : log[j].node \in Nodes
  <2>1. \A j \in 1..k : j \in 1..Len(log)
        BY <1>1 DEF LogTypes
  <2>2. \A j \in 1..Len(log) : log[j] \in Events
        BY DEF LogTypes
  <2>3. QED
        BY <2>1, <2>2 DEF Events
<1>3. Joined(k) \subseteq Nodes
      BY <1>2 DEF Joined
<1>4. DOMAIN View(k) = Joined(k) /\ View(k) \in [Joined(k) -> [path : BOOLEAN, subs : SUBSET Topics]]
      BY DEF View
<1>5. QED
      BY <1>1, <1>3, <1>4

LEMMA PublishTypes ==
    ASSUME Types, TableTypes, NEW n \in Nodes, NEW th \in Threads, NEW topic \in Topics,
           Publish(n, th, topic)
    PROVE  /\ Goto(n, th, Publishing(n, topic, Receivers(n, topic)))
           /\ Publishing(n, topic, Receivers(n, topic)) \in Publications
           /\ Publishing(n, topic, Receivers(n, topic)).at = "publish"
           /\ Publishing(n, topic, Receivers(n, topic)).left = Receivers(n, topic)
           /\ Publishing(n, topic, Receivers(n, topic)).msg =
                 [from |-> n, topic |-> topic, serial |-> published[n] + 1]
           /\ TaskTypes' /\ OtherTypes' /\ LogTypes' /\ QueueTypes'
           /\ published' \in [Nodes -> Nat]
<1>1. Receivers(n, topic) \subseteq Nodes
      BY DEF Receivers, TableTypes
<1>2. published[n] + 1 \in Nat
      BY DEF Types, CountTypes
<1>3. /\ Publishing(n, topic, Receivers(n, topic)) \in Publications
      /\ Publishing(n, topic, Receivers(n, topic)).at = "publish"
      /\ Publishing(n, topic, Receivers(n, topic)).left = Receivers(n, topic)
      /\ Publishing(n, topic, Receivers(n, topic)).msg =
            [from |-> n, topic |-> topic, serial |-> published[n] + 1]
      BY <1>1, <1>2 DEF Publishing, Publications, Messages
<1>4. /\ Goto(n, th, Publishing(n, topic, Receivers(n, topic)))
      /\ published' = [published EXCEPT ![n] = @ + 1] /\ mMtx' = [mMtx EXCEPT ![n] = th]
      /\ UNCHANGED <<status, padded, log, applied, mSubscriptions, inbox, delivered, refused>>
      BY DEF Publish, tableVars
<1>5. TaskTypes'
  <2>1. Publishing(n, topic, Receivers(n, topic)) \in TasksOf(th)
        BY <1>3 DEF TasksOf, AppTasks, ReaderTasks
  <2>2. QED
        BY <1>4, <2>1, GoesTo DEF Types
<1>6. OtherTypes'
      BY <1>4, OtherKept
<1>7. LogTypes' /\ QueueTypes'
      BY <1>4, LogKept, QueuesKept
<1>8. published' \in [Nodes -> Nat]
      BY <1>2, <1>4 DEF Types, CountTypes
<1>9. QED
      BY <1>3, <1>4, <1>5, <1>6, <1>7, <1>8

LEMMA SendtoTypes ==
    ASSUME Types, NEW n \in Nodes, NEW th \in Threads, NEW m \in Nodes, Sendto(n, th, m)
    PROVE  /\ Goto(n, th, [task[n][th] EXCEPT !.left = task[n][th].left \ {m}])
           /\ [task[n][th] EXCEPT !.left = task[n][th].left \ {m}] \in Publications
           /\ [task[n][th] EXCEPT !.left = task[n][th].left \ {m}].at = "publish"
           /\ [task[n][th] EXCEPT !.left = task[n][th].left \ {m}].left = task[n][th].left \ {m}
           /\ [task[n][th] EXCEPT !.left = task[n][th].left \ {m}].msg = task[n][th].msg
           /\ task[n][th].msg \in Messages
           /\ Types'
<1>1. task[n][th] \in Publications /\ task[n][th].msg \in Messages
      BY TaskShapes DEF Types, Sendto
<1>2. /\ [task[n][th] EXCEPT !.left = task[n][th].left \ {m}] \in Publications
      /\ [task[n][th] EXCEPT !.left = task[n][th].left \ {m}].at = "publish"
      /\ [task[n][th] EXCEPT !.left = task[n][th].left \ {m}].left = task[n][th].left \ {m}
      /\ [task[n][th] EXCEPT !.left = task[n][th].left \ {m}].msg = task[n][th].msg
      BY <1>1 DEF Publications
<1>3. /\ Goto(n, th, [task[n][th] EXCEPT !.left = task[n][th].left \ {m}])
      /\ \/ inbox' = [inbox EXCEPT ![m] = Append(inbox[m], task[n][th].msg)]
         \/ inbox' = inbox
      /\ refused' = refused \/ refused' = [refused EXCEPT ![n] = @ \cup {m}]
      /\ UNCHANGED <<status, padded, log, applied, mSubscriptions, mMtx, published, said, delivered>>
      BY DEF Sendto, Goto, tableVars
<1>4. TaskTypes'
  <2>1. [task[n][th] EXCEPT !.left = task[n][th].left \ {m}] \in TasksOf(th)
        BY <1>2 DEF TasksOf, AppTasks, ReaderTasks
  <2>2. QED
        BY <1>3, <2>1, GoesTo DEF Types
<1>5. OtherTypes'
      BY <1>3, OtherKept
<1>6. LogTypes' /\ CountTypes'
      BY <1>3, LogKept, CountsKept
<1>7. QueueTypes'
  <2>1. Append(inbox[m], task[n][th].msg) \in Seq(Messages)
        BY <1>1 DEF Types, QueueTypes
  <2>2. QED
        BY <1>3, <2>1, QueuesKept
<1>8. QED
      BY <1>1, <1>2, <1>3, <1>4, <1>5, <1>6, <1>7 DEF Types

LEMMA TypesStep ==
    ASSUME Types, TableTypes, [Next]_vars
    PROVE  Types'
<1>1. ASSUME NEW n \in Nodes, Create(n) \/ Leave(n)
      PROVE  Types'
  <2>1. /\ log' = Append(log, Event("JOIN", n, "")) \/ log' = Append(log, Event("LEAVE", n, ""))
        /\ status' = status \/ status' = [status EXCEPT ![n] = "up"]
        /\ padded' = padded \/ \E zeros \in BOOLEAN : padded' = [padded EXCEPT ![n] = zeros]
        /\ UNCHANGED <<applied, mSubscriptions, mMtx, task, published, said, inbox, delivered, refused>>
        BY <1>1 DEF Create, Leave, tableVars
  <2>2. LogTypes'
    <3>1. Event("JOIN", n, "") \in Events /\ Event("LEAVE", n, "") \in Events
          BY DEF Event, Events
    <3>2. QED
          BY <2>1, <3>1, LogKept
  <2>3. OtherTypes'
        BY <2>1, OtherKept
  <2>4. TaskTypes' /\ CountTypes' /\ QueueTypes'
        BY <2>1, CountsKept, QueuesKept DEF Types, TaskTypes
  <2>5. QED
        BY <2>2, <2>3, <2>4 DEF Types
<1>2. ASSUME NEW n \in Nodes, Kill(n)
      PROVE  Types'
  <2>1. /\ status' = [status EXCEPT ![n] = "dead"] /\ mMtx' = [mMtx EXCEPT ![n] = "free"]
        /\ task' = [task EXCEPT ![n] = [th \in Threads |-> Idle]]
        /\ inbox' = [inbox EXCEPT ![n] = <<>>]
        /\ UNCHANGED <<padded, log, applied, mSubscriptions, published, said, delivered, refused>>
        BY <1>2 DEF Kill, tableVars
  <2>2. TaskTypes'
    <3>1. [th \in Threads |-> Idle] \in [Threads -> AppTasks \cup ReaderTasks]
          BY DEF AppTasks
    <3>2. \A m \in Nodes : task'[m] = IF m = n THEN [th \in Threads |-> Idle] ELSE task[m]
          BY <2>1 DEF Types, TaskTypes
    <3>3. task' \in [Nodes -> [Threads -> AppTasks \cup ReaderTasks]]
          BY <2>1, <3>1 DEF Types, TaskTypes
    <3>4. \A m \in Nodes : task'[m]["app"] \in AppTasks /\ task'[m]["reader"] \in ReaderTasks
          BY <3>2 DEF Types, TaskTypes, Threads, AppTasks, ReaderTasks
    <3>5. QED
          BY <3>3, <3>4 DEF TaskTypes
  <2>3. OtherTypes'
        BY <2>1, OtherKept
  <2>4. LogTypes' /\ CountTypes'
        BY <2>1, LogKept, CountsKept
  <2>5. QueueTypes'
    <3>1. <<>> \in Seq(Messages)
          OBVIOUS
    <3>2. QED
          BY <2>1, <3>1, QueuesKept
  <2>6. QED
        BY <2>2, <2>3, <2>4, <2>5 DEF Types
<1>3. ASSUME NEW n \in Nodes, Apply(n)
      PROVE  Types'
  <2>1. /\ UNCHANGED <<status, padded, log, mSubscriptions, mMtx, task, published, said, inbox,
                       delivered, refused>>
        /\ applied[n] < Len(log) /\ applied' = [applied EXCEPT ![n] = @ + 1]
        BY <1>3 DEF Apply
  <2>2. TaskTypes' /\ OtherTypes' /\ CountTypes' /\ QueueTypes'
        BY <2>1, OtherKept, CountsKept, QueuesKept DEF Types, TaskTypes
  <2>3. LogTypes'
        BY <2>1 DEF Types, LogTypes
  <2>4. QED
        BY <2>2, <2>3 DEF Types
<1>4. ASSUME NEW n \in Nodes, NEW topic \in Wants[n], Subscribe(n, topic)
      PROVE  Types'
  <2>1. topic \in Topics
        BY IPCAssumption
  <2>2. /\ log' = Append(log, Event("SUBSCRIBE", n, topic))
        /\ Goto(n, "app", [at |-> "register", topic |-> topic])
        /\ UNCHANGED <<status, padded, applied, mSubscriptions, mMtx, published, said, inbox,
                       delivered, refused>>
        BY <1>4 DEF Subscribe, tableVars
  <2>3. LogTypes'
    <3>1. Event("SUBSCRIBE", n, topic) \in Events
          BY <2>1 DEF Event, Events
    <3>2. QED
          BY <2>2, <3>1, LogKept
  <2>4. TaskTypes'
    <3>1. [at |-> "register", topic |-> topic] \in TasksOf("app")
          BY <2>1 DEF TasksOf, AppTasks
    <3>2. QED
          BY <2>2, <3>1, GoesTo DEF Types, Threads
  <2>5. OtherTypes' /\ CountTypes' /\ QueueTypes'
        BY <2>2, OtherKept, CountsKept, QueuesKept
  <2>6. QED
        BY <2>3, <2>4, <2>5 DEF Types
<1>5. ASSUME NEW n \in Nodes, Register(n)
      PROVE  Types'
  <2>1. task[n]["app"].topic \in Topics
        BY <1>5, TaskShapes DEF Types, Register
  <2>2. /\ Goto(n, "app", Idle)
        /\ mSubscriptions' = [mSubscriptions EXCEPT ![n] = @ \cup {task[n]["app"].topic}]
        /\ UNCHANGED <<status, padded, log, applied, mMtx, published, said, inbox, delivered, refused>>
        BY <1>5 DEF Register
  <2>3. TaskTypes'
    <3>1. Idle \in TasksOf("app")
          BY DEF TasksOf, AppTasks
    <3>2. QED
          BY <2>2, <3>1, GoesTo DEF Types, Threads
  <2>4. OtherTypes'
        BY <2>1, <2>2, OtherKept
  <2>5. LogTypes' /\ CountTypes' /\ QueueTypes'
        BY <2>2, LogKept, CountsKept, QueuesKept
  <2>6. QED
        BY <2>3, <2>4, <2>5 DEF Types
<1>6. ASSUME NEW n \in Nodes, NEW topic \in Says[n], Say(n, topic)
      PROVE  Types'
  <2>1. topic \in Topics
        BY IPCAssumption
  <2>2. TaskTypes' /\ OtherTypes' /\ LogTypes' /\ QueueTypes' /\ published' \in [Nodes -> Nat]
        BY <1>6, <2>1, PublishTypes DEF Say, Threads
  <2>3. said' = [said EXCEPT ![n] = @ + 1] /\ said[n] < MaxPublished[n]
        BY <1>6 DEF Say
  <2>4. said' \in [Nodes -> Nat] /\ \A m \in Nodes : said'[m] <= MaxPublished[m]
    <3>1. said[n] \in Nat /\ said[n] + 1 <= MaxPublished[n] /\ said[n] + 1 \in Nat
      <4>1. said[n] \in Nat /\ MaxPublished[n] \in Nat
            BY IPCAssumption DEF Types, CountTypes
      <4>2. QED
            BY <2>3, <4>1
    <3>2. \A m \in Nodes : said'[m] = IF m = n THEN said[n] + 1 ELSE said[m]
          BY <2>3 DEF Types, CountTypes
    <3>3. said' \in [Nodes -> Nat]
          BY <2>3, <3>1 DEF Types, CountTypes
    <3>4. QED
          BY <3>1, <3>2, <3>3 DEF Types, CountTypes
  <2>5. QED
        BY <2>2, <2>4 DEF Types, CountTypes
<1>7. ASSUME NEW n \in Nodes, Reply(n)
      PROVE  Types'
  <2>1. task[n]["reader"].topic \in Topics
        BY <1>7, TaskShapes DEF Types, Reply
  <2>2. TaskTypes' /\ OtherTypes' /\ LogTypes' /\ QueueTypes' /\ published' \in [Nodes -> Nat]
        BY <1>7, <2>1, PublishTypes DEF Reply, Threads
  <2>3. said' = said
        BY <1>7 DEF Reply
  <2>4. QED
        BY <2>2, <2>3 DEF Types, CountTypes
<1>8. ASSUME NEW n \in Nodes, NEW th \in Threads, PublishEnds(n, th)
      PROVE  Types'
  <2>1. /\ Goto(n, th, Rest(n, th)) /\ mMtx' = [mMtx EXCEPT ![n] = "free"]
        /\ UNCHANGED <<status, padded, log, applied, mSubscriptions, published, said, inbox,
                       delivered, refused>>
        BY <1>8 DEF PublishEnds, tableVars
  <2>2. TaskTypes'
        BY <2>1, RestIsTask, GoesTo DEF Types
  <2>3. OtherTypes'
        BY <2>1, OtherKept
  <2>4. LogTypes' /\ CountTypes' /\ QueueTypes'
        BY <2>1, LogKept, CountsKept, QueuesKept
  <2>5. QED
        BY <2>2, <2>3, <2>4 DEF Types
<1>9. ASSUME NEW n \in Nodes, Read(n)
      PROVE  Types'
  <2>1. Head(inbox[n]) \in Messages /\ Tail(inbox[n]) \in Seq(Messages)
        BY <1>9 DEF Read, Types, QueueTypes
  <2>2. /\ Goto(n, "reader", [at |-> "handle", msg |-> Head(inbox[n])])
        /\ inbox' = [inbox EXCEPT ![n] = Tail(inbox[n])]
        /\ UNCHANGED <<status, padded, log, applied, mSubscriptions, mMtx, published, said,
                       delivered, refused>>
        BY <1>9 DEF Read, tableVars
  <2>3. TaskTypes'
    <3>1. [at |-> "handle", msg |-> Head(inbox[n])] \in TasksOf("reader")
          BY <2>1 DEF TasksOf, ReaderTasks
    <3>2. QED
          BY <2>2, <3>1, GoesTo DEF Types, Threads
  <2>4. QueueTypes'
        BY <2>1, <2>2, QueuesKept
  <2>5. OtherTypes' /\ LogTypes' /\ CountTypes'
        BY <2>2, OtherKept, LogKept, CountsKept
  <2>6. QED
        BY <2>3, <2>4, <2>5 DEF Types
<1>10. ASSUME NEW n \in Nodes, OnData(n)
       PROVE  Types'
  <2> DEFINE msg == task[n]["reader"].msg
  <2>1. msg \in Messages /\ msg.topic \in Topics
        BY <1>10, TaskShapes DEF Types, OnData, Messages
  <2>2. PICK t \in TasksOf("reader") : Goto(n, "reader", t)
    <3>1. CASE msg.topic \in mSubscriptions[n] /\ msg.topic \in DOMAIN Replies[n]
      <4>1. [at |-> "reply", topic |-> Replies[n][msg.topic]] \in TasksOf("reader")
            BY <2>1, <3>1, IPCAssumption DEF TasksOf, ReaderTasks
      <4>2. QED
            BY <1>10, <3>1, <4>1 DEF OnData
    <3>2. CASE ~(msg.topic \in mSubscriptions[n] /\ msg.topic \in DOMAIN Replies[n])
      <4>1. Goto(n, "reader", Rest(n, "reader"))
            BY <1>10, <3>2 DEF OnData
      <4>2. QED
            BY <4>1, RestIsTask DEF Threads
    <3>3. QED
          BY <3>1, <3>2
  <2>3. /\ inbox' = inbox
        /\ delivered' = delivered \/ delivered' = [delivered EXCEPT ![n] = Append(delivered[n], msg)]
        /\ UNCHANGED <<status, padded, log, applied, mSubscriptions, mMtx, published, said, refused>>
        BY <1>10 DEF OnData, tableVars
  <2>4. TaskTypes'
        BY <2>2, GoesTo DEF Types, Threads
  <2>5. QueueTypes'
        BY <2>1, <2>3, QueuesKept
  <2>6. OtherTypes' /\ LogTypes' /\ CountTypes'
        BY <2>3, OtherKept, LogKept, CountsKept
  <2>7. QED
        BY <2>4, <2>5, <2>6 DEF Types
<1>11. ASSUME NEW n \in Nodes, Destroy(n) \/ ReaderEnds(n) \/ CloseSockets(n)
       PROVE  Types'
  <2>1. TaskTypes'
    <3>1. [at |-> "join"] \in TasksOf("app") /\ [at |-> "manager"] \in TasksOf("app")
          BY DEF TasksOf, AppTasks
    <3>2. "app" \in Threads /\ "reader" \in Threads /\ Rest(n, "reader") \in TasksOf("reader")
          BY RestIsTask DEF Threads
    <3>3. CASE Destroy(n) \/ CloseSockets(n)
          BY <3>1, <3>2, <3>3, GoesTo DEF Types, Destroy, CloseSockets
    <3>4. CASE ReaderEnds(n)
          BY <3>2, <3>4, GoesTo DEF Types, ReaderEnds
    <3>5. QED
          BY <1>11, <3>3, <3>4
  <2>2. /\ inbox' = inbox \/ inbox' = [inbox EXCEPT ![n] = <<>>]
        /\ UNCHANGED <<status, padded, log, applied, mSubscriptions, mMtx, published, said,
                       delivered, refused>>
        BY <1>11 DEF Destroy, ReaderEnds, CloseSockets, tableVars
  <2>3. QueueTypes'
    <3>1. <<>> \in Seq(Messages)
          OBVIOUS
    <3>2. QED
          BY <2>2, <3>1, QueuesKept
  <2>4. OtherTypes' /\ LogTypes' /\ CountTypes'
        BY <2>2, OtherKept, LogKept, CountsKept
  <2>5. QED
        BY <2>1, <2>3, <2>4 DEF Types
<1>12. CASE UNCHANGED vars
  <2>1. UNCHANGED <<status, padded, log, applied, mSubscriptions, mMtx, task, published, said, inbox,
                    delivered, refused>>
        BY <1>12 DEF vars, tableVars
  <2>2. TaskTypes' /\ LogTypes' /\ CountTypes'
        BY <2>1, LogKept, CountsKept DEF Types, TaskTypes
  <2>3. OtherTypes' /\ QueueTypes'
        BY <2>1 DEF Types, OtherTypes, QueueTypes
  <2>4. QED
        BY <2>2, <2>3 DEF Types
<1>13. QED
       BY <1>1, <1>2, <1>3, <1>4, <1>5, <1>6, <1>7, <1>8, <1>9, <1>10, <1>11, <1>12, SendtoTypes
       DEF Next, System, Environment

-----------------------------------------------------------------------------
(* The log and the tables.                                                 *)

\* What a step does to the log, and to the processes.
LEMMA LogChanges ==
    ASSUME [Next]_vars
    PROVE  \/ log' = log /\ status' = status
           \/ \E n \in Nodes : /\ log' = log
                               /\ status[n] = "up" /\ status' = [status EXCEPT ![n] = "dead"]
           \/ \E n \in Nodes : /\ log' = Append(log, Event("JOIN", n, ""))
                               /\ status[n] = "off" /\ status' = [status EXCEPT ![n] = "up"]
           \/ \E n \in Nodes : /\ log' = Append(log, Event("LEAVE", n, ""))
                               /\ \A i \in DOMAIN log : log[i] # Event("LEAVE", n, "")
                               /\ status[n] = "dead" /\ status' = status
           \/ \E n \in Nodes, t \in Topics : /\ log' = Append(log, Event("SUBSCRIBE", n, t))
                                             /\ status[n] = "up" /\ status' = status
<1>1. ASSUME NEW n \in Nodes, Create(n) \/ Kill(n) \/ Leave(n)
      PROVE  \/ /\ log' = log
                /\ status[n] = "up" /\ status' = [status EXCEPT ![n] = "dead"]
             \/ /\ log' = Append(log, Event("JOIN", n, ""))
                /\ status[n] = "off" /\ status' = [status EXCEPT ![n] = "up"]
             \/ /\ log' = Append(log, Event("LEAVE", n, ""))
                /\ \A i \in DOMAIN log : log[i] # Event("LEAVE", n, "")
                /\ status[n] = "dead" /\ status' = status
      BY <1>1 DEF Create, Kill, Leave
<1>2. ASSUME NEW n \in Nodes, NEW topic \in Wants[n], Subscribe(n, topic)
      PROVE  /\ topic \in Topics /\ log' = Append(log, Event("SUBSCRIBE", n, topic))
             /\ status[n] = "up" /\ status' = status
      BY <1>2, IPCAssumption DEF Subscribe
<1>3. ASSUME NEW n \in Nodes, NEW th \in Threads,
             \/ Apply(n) \/ Register(n) \/ Read(n) \/ OnData(n) \/ ReaderEnds(n)
             \/ CloseSockets(n) \/ Destroy(n) \/ PublishEnds(n, th)
      PROVE  log' = log /\ status' = status
      BY <1>3 DEF Apply, Register, Read, OnData, ReaderEnds, CloseSockets, Destroy, PublishEnds
<1>4. ASSUME NEW n \in Nodes, NEW th \in Threads, NEW m \in Nodes, Sendto(n, th, m)
      PROVE  log' = log /\ status' = status
      BY <1>4 DEF Sendto
<1>5. ASSUME NEW n \in Nodes, NEW topic, Reply(n) \/ Say(n, topic)
      PROVE  log' = log /\ status' = status
      BY <1>5 DEF Reply, Say, Publish
<1>6. CASE UNCHANGED vars
      BY <1>6 DEF vars
<1>7. "app" \in Threads
      BY DEF Threads
<1>8. QED
      BY <1>1, <1>2, <1>3, <1>4, <1>5, <1>6, <1>7 DEF Next, System, Environment

LEMMA LogExtended ==
    ASSUME LogTypes, NEW e \in Events, log' = Append(log, e)
    PROVE  \E last \in Nat :
              /\ DOMAIN log' = (DOMAIN log) \cup {last} /\ log'[last] = e
              /\ \A i \in DOMAIN log : i \in Nat /\ i < last /\ log'[i] = log[i]
<1>1. /\ DOMAIN log' = 1..Len(log') /\ Len(log') = Len(log) + 1
      /\ DOMAIN log = 1..Len(log) /\ Len(log) \in Nat /\ log'[Len(log) + 1] = e
      /\ \A i \in DOMAIN log : log'[i] = log[i]
      BY LogAppended
<1>2. DOMAIN log' = (DOMAIN log) \cup {Len(log) + 1} /\ \A i \in DOMAIN log : i \in Nat /\ i < Len(log) + 1
      BY <1>1
<1>3. QED
      BY <1>1, <1>2

LEMMA LoggedAreEvents ==
    ASSUME LogTypes
    PROVE  \A i \in DOMAIN log : /\ log[i] \in Events /\ log[i].node \in Nodes
                                 /\ log[i].op \in {"JOIN", "LEAVE", "SUBSCRIBE"}
<1>1. \A i \in DOMAIN log : log[i] \in Events
      BY DEF LogTypes
<1>2. QED
      BY <1>1 DEF Events

LEMMA EventForm ==
    ASSUME NEW e \in Events
    PROVE  e = Event(e.op, e.node, e.topic)
BY DEF Event, Events

LEMMA LogStep ==
    ASSUME Types, LogLawful, [Next]_vars
    PROVE  LogLawful'
<1>1. CASE log' = log /\ status' = status
  <2>1. TopicsLawful' /\ JoinsOnce' /\ JoinsFirst'
        BY <1>1 DEF LogLawful, TopicsLawful, JoinsOnce, JoinsFirst
  <2>2. LeavesLast' /\ StartedOnly' /\ DeadLeave' /\ AllJoined'
        BY <1>1 DEF LogLawful, LeavesLast, StartedOnly, DeadLeave, AllJoined
  <2>3. QED
        BY <2>1, <2>2 DEF LogLawful
<1>2. ASSUME NEW n \in Nodes, log' = log, status[n] = "up", status' = [status EXCEPT ![n] = "dead"]
      PROVE  LogLawful'
  <2>1. \A m \in Nodes : status'[m] = IF m = n THEN "dead" ELSE status[m]
        BY <1>2 DEF Types, OtherTypes
  <2>2. \A i \in DOMAIN log : log[i].node \in Nodes
        BY LoggedAreEvents DEF Types
  <2>3. TopicsLawful' /\ JoinsOnce' /\ JoinsFirst'
        BY <1>2 DEF LogLawful, TopicsLawful, JoinsOnce, JoinsFirst
  <2>4. LeavesLast' /\ StartedOnly' /\ DeadLeave'
        BY <1>2, <2>1, <2>2 DEF LogLawful, LeavesLast, StartedOnly, DeadLeave
  <2>5. AllJoined'
        BY <1>2, <2>1 DEF LogLawful, AllJoined
  <2>6. QED
        BY <2>3, <2>4, <2>5 DEF LogLawful
<1>3. ASSUME NEW n \in Nodes, log' = Append(log, Event("JOIN", n, "")),
             status[n] = "off", status' = [status EXCEPT ![n] = "up"]
      PROVE  LogLawful'
  <2> DEFINE e == Event("JOIN", n, "")
  <2>1. e \in Events /\ e.op = "JOIN" /\ e.node = n /\ e.topic = ""
        BY DEF Event, Events
  <2>2. PICK last \in Nat :
            /\ DOMAIN log' = (DOMAIN log) \cup {last} /\ log'[last] = e
            /\ \A i \in DOMAIN log : i \in Nat /\ i < last /\ log'[i] = log[i]
        BY <1>3, <2>1, LogExtended DEF Types
  <2>3. \A m \in Nodes : status'[m] = IF m = n THEN "up" ELSE status[m]
        BY <1>3 DEF Types, OtherTypes
  <2>4. \A i \in DOMAIN log : log[i] \in Events /\ log[i].node \in Nodes
        BY LoggedAreEvents DEF Types
  <2> HIDE DEF e
  <2>5. TopicsLawful'
        BY <2>1, <2>2 DEF LogLawful, TopicsLawful
  <2>6. \A i \in DOMAIN log : log[i].node # n
        BY <1>3 DEF LogLawful, StartedOnly
  <2>7. JoinsOnce'
        BY <2>1, <2>2, <2>6 DEF LogLawful, JoinsOnce
  <2>8. JoinsFirst'
    <3> SUFFICES ASSUME NEW k \in DOMAIN log', log'[k].op # "JOIN"
                 PROVE  \E i \in DOMAIN log' : i < k /\ log'[i] = Event("JOIN", log'[k].node, "")
        BY DEF JoinsFirst
    <3>1. k \in DOMAIN log
          BY <2>1, <2>2
    <3>2. QED
          BY <2>2, <3>1 DEF LogLawful, JoinsFirst
  <2>9. LeavesLast'
        BY <2>1, <2>2, <2>6 DEF LogLawful, LeavesLast
  <2>10. StartedOnly'
         BY <2>1, <2>2, <2>3, <2>4 DEF LogLawful, StartedOnly
  <2>11. DeadLeave'
         BY <2>1, <2>2, <2>3, <2>4, <2>6 DEF LogLawful, DeadLeave
  <2>12. AllJoined'
    <3>1. log'[last] = Event("JOIN", n, "")
          BY <2>2 DEF e
    <3>2. QED
          BY <2>2, <2>3, <3>1 DEF LogLawful, AllJoined
  <2>13. QED
         BY <2>5, <2>7, <2>8, <2>9, <2>10, <2>11, <2>12 DEF LogLawful
<1>4. ASSUME NEW n \in Nodes, log' = Append(log, Event("LEAVE", n, "")),
             \A i \in DOMAIN log : log[i] # Event("LEAVE", n, ""), status[n] = "dead", status' = status
      PROVE  LogLawful'
  <2> DEFINE e == Event("LEAVE", n, "")
  <2>1. e \in Events /\ e.op = "LEAVE" /\ e.node = n /\ e.topic = ""
        BY DEF Event, Events
  <2>2. PICK last \in Nat :
            /\ DOMAIN log' = (DOMAIN log) \cup {last} /\ log'[last] = e
            /\ \A i \in DOMAIN log : i \in Nat /\ i < last /\ log'[i] = log[i]
        BY <1>4, <2>1, LogExtended DEF Types
  <2>3. \A m \in Nodes : status'[m] = status[m]
        BY <1>4 DEF Types, OtherTypes
  <2>4. \A i \in DOMAIN log : log[i] \in Events /\ log[i].node \in Nodes
        BY LoggedAreEvents DEF Types
  <2> HIDE DEF e
  <2>5. TopicsLawful'
        BY <2>1, <2>2 DEF LogLawful, TopicsLawful
  <2>6. PICK j \in DOMAIN log : log[j] = Event("JOIN", n, "")
        BY <1>4 DEF LogLawful, AllJoined
  <2>7. \A i \in DOMAIN log : log[i].op = "LEAVE" => log[i].node # n
    <3> SUFFICES ASSUME NEW i \in DOMAIN log, log[i].op = "LEAVE", log[i].node = n
                 PROVE  FALSE
        OBVIOUS
    <3>1. log[i].topic = "" /\ log[i] \in Events
          BY <2>4 DEF LogLawful, TopicsLawful
    <3>2. log[i] = Event("LEAVE", n, "")
      <4>1. log[i] = Event(log[i].op, log[i].node, log[i].topic)
            BY <3>1, EventForm
      <4>2. QED
            BY <3>1, <4>1
    <3>3. QED
          BY <1>4, <3>2
  <2>8. JoinsOnce'
        BY <2>1, <2>2 DEF LogLawful, JoinsOnce
  <2>9. JoinsFirst'
    <3> SUFFICES ASSUME NEW k \in DOMAIN log', log'[k].op # "JOIN"
                 PROVE  \E i \in DOMAIN log' : i < k /\ log'[i] = Event("JOIN", log'[k].node, "")
        BY DEF JoinsFirst
    <3>1. CASE k \in DOMAIN log
          BY <2>2, <3>1 DEF LogLawful, JoinsFirst
    <3>2. CASE k = last
          BY <2>1, <2>2, <2>6, <3>2
    <3>3. QED
          BY <2>2, <3>1, <3>2
  <2>10. LeavesLast'
    <3> SUFFICES ASSUME NEW i \in DOMAIN log', NEW k \in DOMAIN log', i < k, log'[i].op = "LEAVE"
                 PROVE  log'[k].node # log'[i].node
        BY DEF LeavesLast
    <3>1. CASE k \in DOMAIN log
      <4>1. i \in DOMAIN log
            BY <2>2, <3>1
      <4>2. QED
            BY <2>2, <3>1, <4>1 DEF LogLawful, LeavesLast
    <3>2. CASE k = last
      <4>1. i \in DOMAIN log
            BY <2>2, <3>2
      <4>2. QED
            BY <2>1, <2>2, <2>7, <3>2, <4>1
    <3>3. QED
          BY <2>2, <3>1, <3>2
  <2>11. StartedOnly'
    <3>1. \A i \in DOMAIN log : status'[log'[i].node] # "off"
          BY <2>2, <2>3, <2>4 DEF LogLawful, StartedOnly
    <3>2. status'[log'[last].node] # "off"
          BY <1>4, <2>1, <2>2
    <3>3. QED
          BY <2>2, <3>1, <3>2 DEF StartedOnly
  <2>12. DeadLeave'
    <3>1. \A i \in DOMAIN log : log'[i].op = "LEAVE" => status'[log'[i].node] = "dead"
          BY <2>2, <2>3, <2>4 DEF LogLawful, DeadLeave
    <3>2. log'[last].op = "LEAVE" => status'[log'[last].node] = "dead"
          BY <1>4, <2>1, <2>2
    <3>3. QED
          BY <2>2, <3>1, <3>2 DEF DeadLeave
  <2>13. AllJoined'
         BY <2>2, <2>3 DEF LogLawful, AllJoined
  <2>14. QED
         BY <2>5, <2>8, <2>9, <2>10, <2>11, <2>12, <2>13 DEF LogLawful
<1>5. ASSUME NEW n \in Nodes, NEW t \in Topics, log' = Append(log, Event("SUBSCRIBE", n, t)),
             status[n] = "up", status' = status
      PROVE  LogLawful'
  <2> DEFINE e == Event("SUBSCRIBE", n, t)
  <2>1. e \in Events /\ e.op = "SUBSCRIBE" /\ e.node = n /\ e.topic = t
        BY DEF Event, Events
  <2>2. PICK last \in Nat :
            /\ DOMAIN log' = (DOMAIN log) \cup {last} /\ log'[last] = e
            /\ \A i \in DOMAIN log : i \in Nat /\ i < last /\ log'[i] = log[i]
        BY <1>5, <2>1, LogExtended DEF Types
  <2>3. \A m \in Nodes : status'[m] = status[m]
        BY <1>5 DEF Types, OtherTypes
  <2>4. \A i \in DOMAIN log : log[i] \in Events /\ log[i].node \in Nodes
        BY LoggedAreEvents DEF Types
  <2> HIDE DEF e
  <2>5. TopicsLawful'
        BY <2>1, <2>2 DEF LogLawful, TopicsLawful
  <2>6. PICK j \in DOMAIN log : log[j] = Event("JOIN", n, "")
        BY <1>5 DEF LogLawful, AllJoined
  <2>7. \A i \in DOMAIN log : log[i].op = "LEAVE" => log[i].node # n
        BY <1>5 DEF LogLawful, DeadLeave
  <2>8. JoinsOnce'
        BY <2>1, <2>2 DEF LogLawful, JoinsOnce
  <2>9. JoinsFirst'
    <3> SUFFICES ASSUME NEW k \in DOMAIN log', log'[k].op # "JOIN"
                 PROVE  \E i \in DOMAIN log' : i < k /\ log'[i] = Event("JOIN", log'[k].node, "")
        BY DEF JoinsFirst
    <3>1. CASE k \in DOMAIN log
          BY <2>2, <3>1 DEF LogLawful, JoinsFirst
    <3>2. CASE k = last
          BY <2>1, <2>2, <2>6, <3>2
    <3>3. QED
          BY <2>2, <3>1, <3>2
  <2>10. LeavesLast'
    <3> SUFFICES ASSUME NEW i \in DOMAIN log', NEW k \in DOMAIN log', i < k, log'[i].op = "LEAVE"
                 PROVE  log'[k].node # log'[i].node
        BY DEF LeavesLast
    <3>1. CASE k \in DOMAIN log
      <4>1. i \in DOMAIN log
            BY <2>2, <3>1
      <4>2. QED
            BY <2>2, <3>1, <4>1 DEF LogLawful, LeavesLast
    <3>2. CASE k = last
      <4>1. i \in DOMAIN log
            BY <2>2, <3>2
      <4>2. QED
            BY <2>1, <2>2, <2>7, <3>2, <4>1
    <3>3. QED
          BY <2>2, <3>1, <3>2
  <2>11. StartedOnly'
    <3>1. \A i \in DOMAIN log : status'[log'[i].node] # "off"
          BY <2>2, <2>3, <2>4 DEF LogLawful, StartedOnly
    <3>2. status'[log'[last].node] # "off"
          BY <1>5, <2>1, <2>2
    <3>3. QED
          BY <2>2, <3>1, <3>2 DEF StartedOnly
  <2>12. DeadLeave'
    <3>1. \A i \in DOMAIN log : log'[i].op = "LEAVE" => status'[log'[i].node] = "dead"
          BY <2>2, <2>3, <2>4 DEF LogLawful, DeadLeave
    <3>2. log'[last].op = "LEAVE" => status'[log'[last].node] = "dead"
          BY <1>5, <2>1, <2>2
    <3>3. QED
          BY <2>2, <3>1, <3>2 DEF DeadLeave
  <2>13. AllJoined'
         BY <2>2, <2>3 DEF LogLawful, AllJoined
  <2>14. QED
         BY <2>5, <2>8, <2>9, <2>10, <2>11, <2>12, <2>13 DEF LogLawful
<1>6. QED
      BY <1>1, <1>2, <1>3, <1>4, <1>5, LogChanges

\* What is logged stays: a view of events that were there does not change.
LEMMA LogGrows ==
    ASSUME Types, [Next]_vars
    PROVE  \A i \in DOMAIN log : i \in DOMAIN log' /\ log'[i] = log[i]
<1>1. CASE log' = log
      BY <1>1
<1>2. ASSUME NEW e \in Events, log' = Append(log, e)
      PROVE  \A i \in DOMAIN log : i \in DOMAIN log' /\ log'[i] = log[i]
      BY <1>2, LogAppended DEF Types
<1>3. \A op \in {"JOIN", "LEAVE"}, n \in Nodes : Event(op, n, "") \in Events
      BY DEF Event, Events
<1>4. \A n \in Nodes, t \in Topics : Event("SUBSCRIBE", n, t) \in Events
      BY DEF Event, Events
<1>5. QED
      BY <1>1, <1>2, <1>3, <1>4, LogChanges

LEMMA AskedGrows ==
    ASSUME Types, [Next]_vars, NEW n, NEW t, Asked(n, t)
    PROVE  Asked(n, t)'
BY LogGrows DEF Asked, Event

LEMMA ViewKept ==
    ASSUME Types, [Next]_vars, NEW k \in Nat, k <= Len(log)
    PROVE  View(k)' = View(k)
<1>1. \A i \in 1..k : log'[i] = log[i]
  <2>1. \A i \in 1..k : i \in DOMAIN log
        BY DEF Types, LogTypes
  <2>2. QED
        BY <2>1, LogGrows
<1>2. Joined(k)' = Joined(k)
  <2>1. \A j \in 1..k : \A l \in (j + 1)..k : l \in 1..k
        OBVIOUS
  <2>2. {j \in 1..k : log'[j].op = "JOIN" /\ \A l \in (j + 1)..k : log'[l] # Event("LEAVE", log'[j].node, "")}
        = {j \in 1..k : log[j].op = "JOIN" /\ \A l \in (j + 1)..k : log[l] # Event("LEAVE", log[j].node, "")}
        BY <1>1, <2>1
  <2>3. QED
        BY <1>1, <2>2 DEF Joined, Event
<1>3. \A m, t : (\E i \in 1..k : log'[i] = Event("SUBSCRIBE", m, t))
                <=> (\E i \in 1..k : log[i] = Event("SUBSCRIBE", m, t))
      BY <1>1
<1>4. \A m : {t \in Topics : \E i \in 1..k : log'[i] = Event("SUBSCRIBE", m, t)}
                = {t \in Topics : \E i \in 1..k : log[i] = Event("SUBSCRIBE", m, t)}
      BY <1>3
<1>5. View(k)' = [m \in Joined(k)' |-> [path |-> TRUE,
                    subs |-> {t \in Topics : \E i \in 1..k : log'[i] = Event("SUBSCRIBE", m, t)}]]
      BY DEF View, Event
<1>6. QED
      BY <1>2, <1>4, <1>5 DEF View

\* The view after one event more.
JoinedBy(m, k) == \E j \in 1..k : log[j].op = "JOIN" /\ log[j].node = m
LeftBy(m, k)   == \E j \in 1..k : log[j].op = "LEAVE" /\ log[j].node = m

LEMMA JoinedMeans ==
    ASSUME Types, LogLawful, NEW k \in Nat, k <= Len(log), NEW m
    PROVE  m \in Joined(k) <=> JoinedBy(m, k) /\ ~LeftBy(m, k)
<1>1. DOMAIN log = 1..Len(log) /\ Len(log) \in Nat /\ \A j \in 1..k : j \in DOMAIN log
      BY DEF Types, LogTypes
<1>2. ASSUME NEW l \in 1..k, NEW x
      PROVE  log[l] = Event("LEAVE", x, "") <=> log[l].op = "LEAVE" /\ log[l].node = x
  <2>1. log[l] \in Events
        BY <1>1, LoggedAreEvents DEF Types
  <2>2. log[l].op = "LEAVE" => log[l].topic = ""
        BY <1>1 DEF LogLawful, TopicsLawful
  <2>3. log[l] = Event(log[l].op, log[l].node, log[l].topic)
        BY <2>1, EventForm
  <2>4. Event("LEAVE", x, "").op = "LEAVE" /\ Event("LEAVE", x, "").node = x
        BY DEF Event
  <2>5. QED
        BY <2>1, <2>2, <2>3, <2>4
<1>3. m \in Joined(k) <=> \E j \in 1..k : /\ log[j].op = "JOIN" /\ log[j].node = m
                                          /\ \A l \in (j + 1)..k : log[l] # Event("LEAVE", m, "")
      BY DEF Joined
<1>4. ASSUME NEW j \in 1..k, log[j].op = "JOIN", log[j].node = m, NEW l \in 1..k,
             log[l].op = "LEAVE", log[l].node = m
      PROVE  l \in (j + 1)..k
  <2>1. j # l /\ j \in Nat /\ l \in Nat
        BY <1>4
  <2>2. ~(l < j)
        BY <1>1, <1>4 DEF LogLawful, LeavesLast
  <2>3. QED
        BY <2>1, <2>2
<1>5. \A j \in 1..k : \A l \in (j + 1)..k : l \in 1..k
      OBVIOUS
<1>6. ASSUME m \in Joined(k)
      PROVE  JoinedBy(m, k) /\ ~LeftBy(m, k)
  <2>1. PICK j \in 1..k : /\ log[j].op = "JOIN" /\ log[j].node = m
                          /\ \A l \in (j + 1)..k : log[l] # Event("LEAVE", m, "")
        BY <1>3, <1>6
  <2>2. ASSUME NEW l \in 1..k, log[l].op = "LEAVE", log[l].node = m
        PROVE  FALSE
        BY <1>2, <1>4, <2>1, <2>2
  <2>3. QED
        BY <2>1, <2>2 DEF JoinedBy, LeftBy
<1>7. ASSUME JoinedBy(m, k), ~LeftBy(m, k)
      PROVE  m \in Joined(k)
  <2>1. PICK j \in 1..k : log[j].op = "JOIN" /\ log[j].node = m
        BY <1>7 DEF JoinedBy
  <2>2. ASSUME NEW l \in (j + 1)..k
        PROVE  log[l] # Event("LEAVE", m, "")
        BY <1>2, <1>5, <1>7 DEF LeftBy
  <2>3. QED
        BY <1>3, <2>1, <2>2
<1>8. QED
      BY <1>6, <1>7

Subs(m, k) == {t \in Topics : \E i \in 1..k : log[i] = Event("SUBSCRIBE", m, t)}

LEMMA CallbackFollows ==
    ASSUME Types, LogLawful, NEW n \in Nodes, NEW k \in Nat, k = applied[n], k < Len(log),
           mNodeById[n] = View(k)
    PROVE  Callback(n) = View(k + 1)
<1> DEFINE e == log[k + 1]
           x == e.node
           table == View(k)
<1>1. /\ DOMAIN log = 1..Len(log) /\ Len(log) \in Nat /\ k + 1 \in DOMAIN log
      /\ \A j \in 1..k : j \in DOMAIN log /\ j \in 1..(k + 1) /\ j < k + 1
      /\ \A j \in 1..(k + 1) : j \in 1..k \/ j = k + 1
      /\ k + 1 \in 1..(k + 1) /\ k + 1 \in Nat /\ k + 1 <= Len(log) /\ k <= Len(log)
      BY DEF Types, LogTypes
<1>2. e \in Events /\ e.op \in {"JOIN", "LEAVE", "SUBSCRIBE"}
      BY <1>1, LoggedAreEvents DEF Types
<1>3. \A m : /\ JoinedBy(m, k + 1) <=> JoinedBy(m, k) \/ (e.op = "JOIN" /\ x = m)
             /\ LeftBy(m, k + 1) <=> LeftBy(m, k) \/ (e.op = "LEAVE" /\ x = m)
      BY <1>1 DEF JoinedBy, LeftBy
<1>4. \A m : /\ m \in Joined(k) <=> JoinedBy(m, k) /\ ~LeftBy(m, k)
             /\ m \in Joined(k + 1) <=> JoinedBy(m, k + 1) /\ ~LeftBy(m, k + 1)
      BY <1>1, JoinedMeans
<1>5. ~LeftBy(x, k)
      BY <1>1 DEF LeftBy, LogLawful, LeavesLast
<1>6. e.op = "JOIN" => ~JoinedBy(x, k)
      BY <1>1 DEF JoinedBy, LogLawful, JoinsOnce
<1>7. e.op # "JOIN" => JoinedBy(x, k)
  <2> SUFFICES ASSUME e.op # "JOIN" PROVE JoinedBy(x, k)
      OBVIOUS
  <2>1. PICK i \in DOMAIN log : i < k + 1 /\ log[i] = Event("JOIN", x, "")
        BY <1>1 DEF LogLawful, JoinsFirst
  <2>2. i \in 1..k
    <3>1. i \in 1..Len(log) /\ i < k + 1
          BY <1>1, <2>1
    <3>2. QED
          BY <3>1
  <2>3. log[i].op = "JOIN" /\ log[i].node = x
    <3>1. Event("JOIN", x, "").op = "JOIN" /\ Event("JOIN", x, "").node = x
          BY DEF Event
    <3>2. QED
          BY <2>1, <3>1
  <2>4. QED
        BY <2>2, <2>3 DEF JoinedBy
<1>8. ASSUME NEW m, m # x \/ e.op # "SUBSCRIBE"
      PROVE  Subs(m, k + 1) = Subs(m, k)
  <2>1. \A t : e # Event("SUBSCRIBE", m, t)
        BY <1>8 DEF Event
  <2>2. QED
        BY <1>1, <2>1 DEF Subs
<1>9. e.op = "SUBSCRIBE" => Subs(x, k + 1) = Subs(x, k) \cup {e.topic}
  <2> SUFFICES ASSUME e.op = "SUBSCRIBE" PROVE Subs(x, k + 1) = Subs(x, k) \cup {e.topic}
      OBVIOUS
  <2>1. e.topic \in Topics
        BY <1>1 DEF LogLawful, TopicsLawful
  <2>2. \A t : e = Event("SUBSCRIBE", x, t) <=> t = e.topic
    <3>1. e = Event(e.op, e.node, e.topic)
          BY <1>2, EventForm
    <3>2. \A t : Event("SUBSCRIBE", x, t).topic = t
          BY DEF Event
    <3>3. QED
          BY <3>1, <3>2
  <2>3. QED
        BY <1>1, <2>1, <2>2 DEF Subs
<1>10. \A j \in {k, k + 1} : View(j) = [m \in Joined(j) |-> [path |-> TRUE, subs |-> Subs(m, j)]]
       BY DEF View, Subs
<1>11. \A m \in Joined(k) : m \in DOMAIN table /\ table[m] = [path |-> TRUE, subs |-> Subs(m, k)]
       BY <1>10
<1>12. DOMAIN table = Joined(k)
       BY <1>10
<1>13. Callback(n) = CASE e.op = "JOIN" /\ x \notin Joined(k)     -> OnJoin(table, x)
                       [] e.op = "LEAVE" /\ x \in Joined(k)     -> OnLeave(table, x)
                       [] e.op = "SUBSCRIBE" /\ x \in Joined(k) -> OnSubscribe(table, x, e.topic)
                       [] OTHER -> table
       BY DEF Callback
<1> HIDE DEF e, x, table
<1>14. CASE e.op = "JOIN"
  <2>1. x \notin Joined(k) /\ Joined(k + 1) = Joined(k) \cup {x}
        BY <1>3, <1>4, <1>5, <1>6, <1>14
  <2>2. Callback(n) = OnJoin(table, x)
        BY <1>13, <1>14, <2>1
  <2>3. Subs(x, k) = {}
    <3> SUFFICES ASSUME NEW t \in Topics, NEW i \in 1..k, log[i] = Event("SUBSCRIBE", x, t)
                 PROVE  FALSE
        BY DEF Subs
    <3>1. log[i].op = "SUBSCRIBE" /\ log[i].node = x
          BY DEF Event
    <3>2. PICK j \in DOMAIN log : j < i /\ log[j] = Event("JOIN", x, "")
          BY <1>1, <3>1 DEF LogLawful, JoinsFirst
    <3>3. j \in 1..k
      <4>1. j \in 1..Len(log) /\ j < i
            BY <1>1, <3>2
      <4>2. QED
            BY <4>1
    <3>4. JoinedBy(x, k)
      <4>1. log[j].op = "JOIN" /\ log[j].node = x
        <5>1. Event("JOIN", x, "").op = "JOIN" /\ Event("JOIN", x, "").node = x
              BY DEF Event
        <5>2. QED
              BY <3>2, <5>1
      <4>2. QED
            BY <3>3, <4>1 DEF JoinedBy
    <3>5. QED
          BY <1>6, <1>14, <3>4
  <2>4. Subscribers(table, x) = {}
        BY <1>12, <2>1 DEF Subscribers
  <2>5. OnJoin(table, x) = [m \in Joined(k) \cup {x} |->
                               IF m = x THEN [path |-> TRUE, subs |-> {}] ELSE table[m]]
        BY <1>12, <2>4 DEF OnJoin, Put
  <2>6. \A m \in Joined(k) \cup {x} :
            (IF m = x THEN [path |-> TRUE, subs |-> {}] ELSE table[m])
            = [path |-> TRUE, subs |-> Subs(m, k + 1)]
        BY <1>8, <1>11, <1>14, <2>3
  <2>7. View(k + 1) = [m \in Joined(k) \cup {x} |-> [path |-> TRUE, subs |-> Subs(m, k + 1)]]
        BY <1>10, <2>1
  <2>8. QED
        BY <2>2, <2>5, <2>6, <2>7
<1>15. CASE e.op = "LEAVE"
  <2>1. x \in Joined(k) /\ Joined(k + 1) = Joined(k) \ {x}
        BY <1>3, <1>4, <1>5, <1>7, <1>15
  <2>2. Callback(n) = OnLeave(table, x)
        BY <1>13, <1>15, <2>1
  <2>3. OnLeave(table, x) = [m \in Joined(k) \ {x} |-> table[m]]
        BY <1>12 DEF OnLeave
  <2>4. \A m \in Joined(k) \ {x} : table[m] = [path |-> TRUE, subs |-> Subs(m, k + 1)]
        BY <1>8, <1>11, <1>15
  <2>5. View(k + 1) = [m \in Joined(k) \ {x} |-> [path |-> TRUE, subs |-> Subs(m, k + 1)]]
        BY <1>10, <2>1
  <2>6. QED
        BY <2>2, <2>3, <2>4, <2>5
<1>16. CASE e.op = "SUBSCRIBE"
  <2>1. x \in Joined(k) /\ Joined(k + 1) = Joined(k)
        BY <1>3, <1>4, <1>5, <1>7, <1>16
  <2>2. Callback(n) = OnSubscribe(table, x, e.topic)
        BY <1>13, <1>16, <2>1
  <2>3. table[x] = [path |-> TRUE, subs |-> Subs(x, k)] /\ x \in DOMAIN table
        BY <1>11, <2>1
  <2>4. Subscribers(table, x) = Subs(x, k)
        BY <2>3 DEF Subscribers
  <2>5. (x \in DOMAIN table /\ table[x].path) = TRUE
        BY <2>3
  <2>6. OnSubscribe(table, x, e.topic) = [m \in (DOMAIN table) \cup {x} |->
            IF m = x THEN [path |-> TRUE, subs |-> Subs(x, k) \cup {e.topic}] ELSE table[m]]
        BY <2>4, <2>5 DEF OnSubscribe, Put
  <2>7. (DOMAIN table) \cup {x} = Joined(k + 1)
        BY <1>12, <2>1
  <2>8. \A m \in Joined(k + 1) :
            (IF m = x THEN [path |-> TRUE, subs |-> Subs(x, k) \cup {e.topic}] ELSE table[m])
            = [path |-> TRUE, subs |-> Subs(m, k + 1)]
        BY <1>8, <1>9, <1>11, <1>16, <2>1
  <2>9. View(k + 1) = [m \in Joined(k + 1) |-> [path |-> TRUE, subs |-> Subs(m, k + 1)]]
        BY <1>10
  <2>10. OnSubscribe(table, x, e.topic) = [m \in Joined(k + 1) |->
            IF m = x THEN [path |-> TRUE, subs |-> Subs(x, k) \cup {e.topic}] ELSE table[m]]
        BY <2>6, <2>7
  <2>11. QED
        BY <2>2, <2>8, <2>9, <2>10
<1>17. QED
       BY <1>2, <1>14, <1>15, <1>16

LEMMA TableChanges ==
    ASSUME [Next]_vars
    PROVE  \/ UNCHANGED <<mNodeById, applied>>
           \/ \E n \in Nodes :
                 /\ log' = log /\ applied[n] < Len(log)
                 /\ mNodeById' = [mNodeById EXCEPT ![n] = Callback(n)]
                 /\ applied' = [applied EXCEPT ![n] = @ + 1]
<1>1. ASSUME NEW n \in Nodes, Create(n) \/ Kill(n) \/ Leave(n) \/ \E topic \in Wants[n] : Subscribe(n, topic)
      PROVE  UNCHANGED <<mNodeById, applied>>
      BY <1>1 DEF Create, Kill, Leave, Subscribe, tableVars
<1>2. ASSUME NEW n \in Nodes, Apply(n)
      PROVE  /\ log' = log /\ applied[n] < Len(log)
             /\ mNodeById' = [mNodeById EXCEPT ![n] = Callback(n)]
             /\ applied' = [applied EXCEPT ![n] = @ + 1]
      BY <1>2 DEF Apply
<1>3. ASSUME NEW n \in Nodes, NEW th \in Threads,
             \/ Register(n) \/ Read(n) \/ OnData(n) \/ ReaderEnds(n)
             \/ CloseSockets(n) \/ Destroy(n) \/ PublishEnds(n, th)
      PROVE  UNCHANGED <<mNodeById, applied>>
      BY <1>3 DEF Register, Read, OnData, ReaderEnds, CloseSockets, Destroy, PublishEnds, tableVars
<1>4. ASSUME NEW n \in Nodes, NEW th \in Threads, NEW m \in Nodes, Sendto(n, th, m)
      PROVE  UNCHANGED <<mNodeById, applied>>
      BY <1>4 DEF Sendto, tableVars
<1>5. ASSUME NEW n \in Nodes, NEW topic, Reply(n) \/ Say(n, topic)
      PROVE  UNCHANGED <<mNodeById, applied>>
      BY <1>5 DEF Reply, Say, Publish, tableVars
<1>6. CASE UNCHANGED vars
      BY <1>6 DEF vars, tableVars
<1>7. "app" \in Threads
      BY DEF Threads
<1>8. QED
      BY <1>1, <1>2, <1>3, <1>4, <1>5, <1>6, <1>7 DEF Next, System, Environment

LEMMA TablesStep ==
    ASSUME Types, LogLawful, TablesFollow, [Next]_vars
    PROVE  TablesFollow'
<1>1. \A n \in Nodes : applied[n] \in Nat /\ applied[n] <= Len(log)
      BY DEF Types, LogTypes
<1>2. ASSUME NEW m \in Nodes, mNodeById'[m] = mNodeById[m], applied'[m] = applied[m]
      PROVE  (mNodeById[m] = View(applied[m]))'
  <2>1. PICK k \in Nat : k = applied[m]
        BY <1>1
  <2>2. k <= Len(log) /\ mNodeById[m] = View(k)
        BY <1>1, <2>1 DEF TablesFollow
  <2>3. View(k)' = View(k)
        BY <2>2, ViewKept
  <2>4. View(applied[m])' = View(k)'
        BY <1>2, <2>1
  <2>5. QED
        BY <1>2, <2>2, <2>3, <2>4
<1> DEFINE Domain == mNodeById = [m \in Nodes |-> mNodeById[m]]
<1> SUFFICES Domain' /\ \A m \in Nodes : (mNodeById[m] = View(applied[m]))'
    BY DEF TablesFollow
<1>3. Domain
      BY DEF TablesFollow
<1>4. CASE UNCHANGED <<mNodeById, applied>>
      BY <1>3, <1>2, <1>4
<1>5. ASSUME NEW n \in Nodes, log' = log, applied[n] < Len(log),
             mNodeById' = [mNodeById EXCEPT ![n] = Callback(n)],
             applied' = [applied EXCEPT ![n] = @ + 1]
      PROVE  Domain' /\ \A m \in Nodes : (mNodeById[m] = View(applied[m]))'
  <2>1. PICK k \in Nat : k = applied[n] /\ k < Len(log) /\ mNodeById[n] = View(k)
        BY <1>1, <1>5 DEF TablesFollow
  <2>2. Callback(n) = View(k + 1)
        BY <2>1, CallbackFollows
  <2>3. (mNodeById[n] = View(applied[n]))'
    <3>1. mNodeById'[n] = View(k + 1) /\ applied'[n] = k + 1 /\ k + 1 \in Nat /\ k + 1 <= Len(log)
          BY <1>3, <1>5, <2>1, <2>2 DEF Types, LogTypes
    <3>2. View(k + 1)' = View(k + 1)
          BY <3>1, ViewKept
    <3>3. QED
          BY <3>1, <3>2
  <2>4. \A m \in Nodes : m # n => mNodeById'[m] = mNodeById[m] /\ applied'[m] = applied[m]
        BY <1>3, <1>5 DEF Types, LogTypes
  <2>5. Domain'
        BY <1>3, <1>5
  <2>6. QED
        BY <1>2, <2>3, <2>4, <2>5
<1>6. QED
      BY <1>4, <1>5, TableChanges

-----------------------------------------------------------------------------
(* What nodes receive.                                                     *)

\* t is what is left of s.
LeftOf(s, t) ==
    \E f \in [DOMAIN t -> DOMAIN s] :
        /\ \A i \in DOMAIN t : t[i] = s[f[i]]
        /\ \A i, j \in DOMAIN t : i < j => f[i] < f[j]

LEMMA ConcatParts ==
    ASSUME NEW a \in Seq(Messages), NEW b \in Seq(Messages)
    PROVE  /\ a \o b \in Seq(Messages) /\ Len(a \o b) = Len(a) + Len(b)
           /\ DOMAIN (a \o b) = 1..(Len(a) + Len(b))
           /\ DOMAIN a = 1..Len(a) /\ DOMAIN b = 1..Len(b) /\ Len(a) \in Nat /\ Len(b) \in Nat
           /\ \A i \in 1..Len(a) : (a \o b)[i] = a[i]
           /\ \A i \in 1..Len(b) : (a \o b)[Len(a) + i] = b[i]
OBVIOUS

LEMMA AllIsLeft == ASSUME NEW s \in Seq(Messages) PROVE LeftOf(s, s)
<1> DEFINE f == [i \in DOMAIN s |-> i]
<1>1. f \in [DOMAIN s -> DOMAIN s] /\ \A i \in DOMAIN s : f[i] = i
      OBVIOUS
<1>2. QED
      BY <1>1 DEF LeftOf

LEMMA PartsAreLeft ==
    ASSUME NEW a \in Seq(Messages), NEW h \in Seq(Messages), NEW b \in Seq(Messages)
    PROVE  LeftOf((a \o h) \o b, a \o b) /\ LeftOf((a \o h) \o b, a)
<1> DEFINE s == (a \o h) \o b
<1>1. /\ DOMAIN s = 1..(Len(a) + Len(h) + Len(b)) /\ DOMAIN a = 1..Len(a)
      /\ DOMAIN (a \o b) = 1..(Len(a) + Len(b))
      /\ Len(a) \in Nat /\ Len(h) \in Nat /\ Len(b) \in Nat
  <2>1. a \o h \in Seq(Messages) /\ Len(a \o h) = Len(a) + Len(h)
        BY ConcatParts
  <2>2. QED
        BY <2>1, ConcatParts
<1>2. \A i \in 1..Len(a) : s[i] = a[i] /\ (a \o b)[i] = a[i]
  <2>1. a \o h \in Seq(Messages) /\ Len(a \o h) = Len(a) + Len(h)
        BY ConcatParts
  <2>2. \A i \in 1..Len(a) : i \in 1..Len(a \o h)
        BY <1>1, <2>1
  <2>3. \A i \in 1..Len(a \o h) : s[i] = (a \o h)[i]
        BY <2>1, ConcatParts
  <2>4. \A i \in 1..Len(a) : (a \o h)[i] = a[i] /\ (a \o b)[i] = a[i]
        BY ConcatParts
  <2>5. QED
        BY <2>2, <2>3, <2>4
<1>3. \A i \in 1..Len(b) : s[Len(a) + Len(h) + i] = b[i] /\ (a \o b)[Len(a) + i] = b[i]
  <2>1. a \o h \in Seq(Messages) /\ Len(a \o h) = Len(a) + Len(h)
        BY ConcatParts
  <2>2. QED
        BY <2>1, ConcatParts
<1> HIDE DEF s
<1>4. LeftOf(s, a)
  <2> DEFINE f == [i \in DOMAIN a |-> i]
  <2>1. f \in [DOMAIN a -> DOMAIN s] /\ \A i \in DOMAIN a : f[i] = i
        BY <1>1
  <2>2. QED
        BY <1>1, <1>2, <2>1 DEF LeftOf
<1>5. LeftOf(s, a \o b)
  <2> DEFINE f == [i \in 1..(Len(a) + Len(b)) |-> IF i <= Len(a) THEN i ELSE i + Len(h)]
  <2>1. f \in [DOMAIN (a \o b) -> DOMAIN s]
        BY <1>1
  <2>2. \A i \in 1..(Len(a) + Len(b)) : f[i] = IF i <= Len(a) THEN i ELSE i + Len(h)
        OBVIOUS
  <2> HIDE DEF f
  <2>3. \A i, j \in DOMAIN (a \o b) : i < j => f[i] < f[j]
        BY <1>1, <2>2
  <2>4. ASSUME NEW i \in DOMAIN (a \o b)
        PROVE  (a \o b)[i] = s[f[i]]
    <3>1. CASE i <= Len(a)
          BY <1>1, <1>2, <2>2, <3>1
    <3>2. CASE i > Len(a)
      <4>1. PICK k \in 1..Len(b) : i = Len(a) + k
        <5>1. i - Len(a) \in 1..Len(b) /\ i = Len(a) + (i - Len(a))
              BY <1>1, <3>2
        <5>2. QED
              BY <5>1
      <4>2. f[i] = Len(a) + Len(h) + k
            BY <1>1, <2>2, <3>2, <4>1
      <4>3. QED
            BY <1>3, <4>1, <4>2
    <3>3. QED
          BY <1>1, <3>1, <3>2
  <2>5. QED
        BY <2>1, <2>3, <2>4 DEF LeftOf
<1>6. QED
      BY <1>4, <1>5 DEF s

\* A message moves from one part to the part before it.
LEMMA HeadMoves ==
    ASSUME NEW a \in Seq(Messages), NEW b \in Seq(Messages), b # <<>>
    PROVE  (a \o <<Head(b)>>) \o Tail(b) = (a \o <<>>) \o b
OBVIOUS

LEMMA AppendsOne ==
    ASSUME NEW a \in Seq(Messages), NEW d \in Messages
    PROVE  Append(a, d) \o <<>> = a \o <<d>>
OBVIOUS

LEMMA AppendsLast ==
    ASSUME NEW a \in Seq(Messages), NEW h \in Seq(Messages), NEW b \in Seq(Messages), NEW d \in Messages
    PROVE  (a \o h) \o Append(b, d) = Append((a \o h) \o b, d)
OBVIOUS

\* The message a node's reader is about to handle.
Handling(n) == IF Doing(n, "reader") = "handle" THEN <<task[n]["reader"].msg>> ELSE <<>>

LEMMA ReceivedTypes ==
    ASSUME Types, NEW n \in Nodes
    PROVE  /\ Received(n) = (delivered[n] \o Handling(n)) \o inbox[n]
           /\ delivered[n] \in Seq(Messages) /\ Handling(n) \in Seq(Messages)
           /\ inbox[n] \in Seq(Messages) /\ Received(n) \in Seq(Messages)
<1>1. Received(n) = (delivered[n] \o Handling(n)) \o inbox[n]
      BY DEF Received, Handling
<1>2. delivered[n] \in Seq(Messages) /\ inbox[n] \in Seq(Messages)
      BY DEF Types, QueueTypes
<1>3. Handling(n) \in Seq(Messages)
  <2>1. Doing(n, "reader") = "handle" => task[n]["reader"].msg \in Messages
        BY TaskShapes DEF Types
  <2>2. QED
        BY <2>1 DEF Handling
<1>4. QED
      BY <1>1, <1>2, <1>3, ConcatParts

\* A step that leaves alone what n was sent.
LEMMA SameReceived ==
    ASSUME Types, NEW n \in Nodes, delivered'[n] = delivered[n], Handling(n)' = Handling(n),
           inbox'[n] = inbox[n]
    PROVE  LeftOf(Received(n), Received(n)')
<1>1. Received(n)' = (delivered'[n] \o Handling(n)') \o inbox'[n]
      BY DEF Received, Handling
<1>2. Received(n)' = Received(n)
      BY <1>1, ReceivedTypes
<1>3. QED
      BY <1>2, AllIsLeft, ReceivedTypes

\* A thread goes on with something that is not reading a message.
LEMMA GoesElsewhere ==
    ASSUME Types, NEW n \in Nodes, NEW a \in Nodes, NEW th \in Threads, NEW t \in TasksOf(th),
           Goto(a, th, t), th = "reader" => t.at # "handle" /\ Doing(a, th) # "handle",
           delivered'[n] = delivered[n], inbox'[n] = inbox[n]
    PROVE  LeftOf(Received(n), Received(n)')
<1>1. task'[a][th] = t /\ \A m \in Nodes, o \in Threads : m # a \/ o # th => task'[m][o] = task[m][o]
      BY GoesTo DEF Types
<1>2. Handling(n)' = Handling(n)
  <2>1. CASE n = a /\ th = "reader"
        BY <1>1, <2>1 DEF Handling, Doing
  <2>2. CASE ~(n = a /\ th = "reader")
    <3>1. task'[n]["reader"] = task[n]["reader"]
          BY <1>1, <2>2 DEF Threads
    <3>2. QED
          BY <3>1 DEF Handling, Doing
  <2>3. QED
        BY <2>1, <2>2
<1>3. QED
      BY <1>2, SameReceived

LEMMA ReceivedStep ==
    ASSUME Types, TableTypes, [Next]_vars, NEW n \in Nodes
    PROVE  \/ LeftOf(Received(n), Received(n)')
           \/ \E a \in Nodes, th \in Threads :
                 Sendto(a, th, n) /\ Received(n)' = Append(Received(n), task[a][th].msg)
<1>1. CASE UNCHANGED <<task, inbox, delivered>>
      BY <1>1, SameReceived DEF Handling, Doing
<1>2. ASSUME NEW a \in Nodes, Create(a) \/ Leave(a) \/ Apply(a)
      PROVE  LeftOf(Received(n), Received(n)')
  <2>1. UNCHANGED <<task, inbox, delivered>>
        BY <1>2 DEF Create, Leave, Apply
  <2>2. QED
        BY <2>1, SameReceived DEF Handling, Doing
<1>3. ASSUME NEW a \in Nodes, Kill(a)
      PROVE  LeftOf(Received(n), Received(n)')
  <2>1. /\ task' = [task EXCEPT ![a] = [th \in Threads |-> Idle]]
        /\ inbox' = [inbox EXCEPT ![a] = <<>>] /\ delivered' = delivered
        BY <1>3 DEF Kill
  <2>2. CASE n # a
    <3>1. task'[n] = task[n] /\ inbox'[n] = inbox[n]
          BY <2>1, <2>2 DEF Types, TaskTypes, QueueTypes
    <3>2. Handling(n)' = Handling(n) /\ delivered'[n] = delivered[n]
          BY <2>1, <3>1 DEF Handling, Doing
    <3>3. QED
          BY <3>1, <3>2, SameReceived
  <2>3. CASE n = a
    <3>1. task'[n]["reader"].at = "idle" /\ inbox'[n] = <<>>
          BY <2>1, <2>3 DEF Types, TaskTypes, QueueTypes, Threads, Idle
    <3>2. Handling(n)' = <<>>
          BY <3>1 DEF Handling, Doing
    <3>3. Received(n)' = (delivered[n] \o <<>>) \o <<>>
          BY <2>1, <3>1, <3>2 DEF Received, Handling
    <3>4. Received(n)' = delivered[n]
          BY <3>3, ReceivedTypes
    <3>5. QED
          BY <3>4, ReceivedTypes, PartsAreLeft
  <2>4. QED
        BY <2>2, <2>3
<1>4. ASSUME NEW a \in Nodes, NEW topic \in Wants[a], Subscribe(a, topic)
      PROVE  LeftOf(Received(n), Received(n)')
  <2>1. [at |-> "register", topic |-> topic] \in TasksOf("app")
        BY IPCAssumption DEF TasksOf, AppTasks
  <2>2. QED
        BY <1>4, <2>1, GoesElsewhere DEF Subscribe, Threads
<1>5. ASSUME NEW a \in Nodes, Register(a)
      PROVE  LeftOf(Received(n), Received(n)')
  <2>1. Idle \in TasksOf("app")
        BY DEF TasksOf, AppTasks
  <2>2. QED
        BY <1>5, <2>1, GoesElsewhere DEF Register, Threads
<1>6. ASSUME NEW a \in Nodes, NEW th \in Threads, NEW topic \in Topics, Publish(a, th, topic),
             th = "reader" => Doing(a, th) = "reply"
      PROVE  LeftOf(Received(n), Received(n)')
  <2> DEFINE t == Publishing(a, topic, Receivers(a, topic))
  <2>1. Goto(a, th, t) /\ t \in Publications /\ t.at = "publish"
        BY <1>6, PublishTypes
  <2>2. t \in TasksOf(th)
        BY <2>1 DEF TasksOf, AppTasks, ReaderTasks
  <2>3. inbox' = inbox /\ delivered' = delivered
        BY <1>6 DEF Publish
  <2> HIDE DEF t
  <2>4. QED
        BY <1>6, <2>1, <2>2, <2>3, GoesElsewhere
<1>7. ASSUME NEW a \in Nodes, NEW th \in Threads, PublishEnds(a, th)
      PROVE  LeftOf(Received(n), Received(n)')
      BY <1>7, RestIsTask, GoesElsewhere DEF PublishEnds
<1>8. ASSUME NEW a \in Nodes, Destroy(a) \/ ReaderEnds(a)
      PROVE  LeftOf(Received(n), Received(n)')
  <2>1. [at |-> "join"] \in TasksOf("app")
        BY DEF TasksOf, AppTasks
  <2>2. CASE Destroy(a)
        BY <2>1, <2>2, GoesElsewhere DEF Destroy, Threads
  <2>3. CASE ReaderEnds(a)
        BY <2>3, RestIsTask, GoesElsewhere DEF ReaderEnds, Threads
  <2>4. QED
        BY <1>8, <2>2, <2>3
<1>9. ASSUME NEW a \in Nodes, CloseSockets(a)
      PROVE  LeftOf(Received(n), Received(n)')
  <2>1. /\ Goto(a, "app", [at |-> "manager"]) /\ Doing(a, "reader") = "ended"
        /\ inbox' = [inbox EXCEPT ![a] = <<>>] /\ delivered' = delivered
        BY <1>9 DEF CloseSockets
  <2>2. [at |-> "manager"] \in TasksOf("app")
        BY DEF TasksOf, AppTasks
  <2>3. CASE n # a
    <3>1. inbox'[n] = inbox[n]
          BY <2>1, <2>3 DEF Types, QueueTypes
    <3>2. QED
          BY <2>1, <2>2, <3>1, GoesElsewhere DEF Threads
  <2>4. CASE n = a
    <3>1. task'[n]["reader"] = task[n]["reader"] /\ inbox'[n] = <<>>
          BY <2>1, <2>2, <2>4, GoesTo DEF Types, QueueTypes, Threads
    <3>2. Handling(n)' = <<>>
          BY <2>1, <2>4, <3>1 DEF Handling, Doing
    <3>3. Received(n)' = (delivered[n] \o <<>>) \o <<>>
          BY <2>1, <3>1, <3>2 DEF Received, Handling
    <3>4. Received(n)' = delivered[n]
          BY <3>3, ReceivedTypes
    <3>5. QED
          BY <3>4, ReceivedTypes, PartsAreLeft
  <2>5. QED
        BY <2>3, <2>4
<1>10. ASSUME NEW a \in Nodes, Read(a)
       PROVE  LeftOf(Received(n), Received(n)')
  <2> DEFINE t == [at |-> "handle", msg |-> Head(inbox[a])]
  <2>1. /\ Goto(a, "reader", t) /\ Doing(a, "reader") = "idle" /\ inbox[a] # <<>>
        /\ inbox' = [inbox EXCEPT ![a] = Tail(inbox[a])] /\ delivered' = delivered
        BY <1>10 DEF Read
  <2>2. inbox[a] \in Seq(Messages) /\ Head(inbox[a]) \in Messages /\ Tail(inbox[a]) \in Seq(Messages)
        BY <2>1 DEF Types, QueueTypes
  <2>3. t \in TasksOf("reader") /\ t.at = "handle" /\ t.msg = Head(inbox[a])
        BY <2>2 DEF TasksOf, ReaderTasks
  <2> HIDE DEF t
  <2>4. /\ task'[a]["reader"] = t
        /\ \A m \in Nodes : m # a => task'[m]["reader"] = task[m]["reader"]
        BY <2>1, <2>3, GoesTo DEF Types, Threads
  <2>5. CASE n # a
    <3>1. task'[n]["reader"] = task[n]["reader"] /\ inbox'[n] = inbox[n]
          BY <2>1, <2>4, <2>5 DEF Types, QueueTypes
    <3>2. QED
          BY <2>1, <3>1, SameReceived DEF Handling, Doing
  <2>6. CASE n = a
    <3>1. Handling(n) = <<>> /\ Handling(n)' = <<Head(inbox[n])>> /\ inbox'[n] = Tail(inbox[n])
          BY <2>1, <2>3, <2>4, <2>6 DEF Handling, Doing, Types, QueueTypes
    <3>2. Received(n)' = (delivered[n] \o <<Head(inbox[n])>>) \o Tail(inbox[n])
          BY <2>1, <3>1 DEF Received, Handling
    <3>3. Received(n) = (delivered[n] \o <<>>) \o inbox[n] /\ delivered[n] \in Seq(Messages)
          BY <3>1, ReceivedTypes
    <3>4. Received(n)' = Received(n)
          BY <2>1, <2>2, <2>6, <3>2, <3>3, HeadMoves
    <3>5. QED
          BY <3>4, AllIsLeft, ReceivedTypes
  <2>7. QED
        BY <2>5, <2>6
<1>11. ASSUME NEW a \in Nodes, OnData(a)
       PROVE  LeftOf(Received(n), Received(n)')
  <2> DEFINE msg == task[a]["reader"].msg
             heard == msg.topic \in mSubscriptions[a]
             t == IF heard /\ msg.topic \in DOMAIN Replies[a]
                  THEN [at |-> "reply", topic |-> Replies[a][msg.topic]] ELSE Rest(a, "reader")
  <2>1. /\ Goto(a, "reader", t) /\ Doing(a, "reader") = "handle" /\ inbox' = inbox
        /\ IF heard THEN delivered' = [delivered EXCEPT ![a] = Append(delivered[a], msg)]
                    ELSE delivered' = delivered
        BY <1>11 DEF OnData
  <2>2. t \in TasksOf("reader") /\ t.at # "handle"
    <3>1. msg.topic \in Topics
          BY <2>1, TaskShapes DEF Types, Messages
    <3>2. msg.topic \in DOMAIN Replies[a] => Replies[a][msg.topic] \in Topics
          BY <3>1, IPCAssumption
    <3>3. Rest(a, "reader") \in TasksOf("reader") /\ Rest(a, "reader").at # "handle"
          BY RestIsTask DEF Threads
    <3>4. QED
          BY <3>2, <3>3 DEF TasksOf, ReaderTasks
  <2>3. delivered[a] \in Seq(Messages) /\ msg \in Messages
        BY <2>1, TaskShapes DEF Types, QueueTypes
  <2> HIDE DEF t, heard
  <2>4. /\ task'[a]["reader"] = t
        /\ \A m \in Nodes : m # a => task'[m]["reader"] = task[m]["reader"]
        BY <2>1, <2>2, GoesTo DEF Types, Threads
  <2>5. CASE n # a
    <3>1. Handling(n)' = Handling(n)
          BY <2>4, <2>5 DEF Handling, Doing
    <3>2. delivered'[n] = delivered[n] /\ inbox'[n] = inbox[n]
          BY <2>1, <2>5 DEF Types, QueueTypes
    <3>3. QED
          BY <3>1, <3>2, SameReceived
  <2>6. CASE n = a
    <3>1. Handling(n) = <<msg>> /\ Handling(n)' = <<>>
          BY <2>1, <2>2, <2>4, <2>6 DEF Handling, Doing
    <3>2. /\ Received(n) = (delivered[n] \o <<msg>>) \o inbox[n]
          /\ Received(n)' = (delivered'[n] \o <<>>) \o inbox'[n]
          BY <3>1, ReceivedTypes DEF Received, Handling
    <3>3. inbox[n] \in Seq(Messages) /\ inbox'[n] = inbox[n] /\ <<msg>> \in Seq(Messages)
          BY <2>1, <2>3 DEF Types, QueueTypes
    <3>4. CASE heard
      <4>1. delivered'[n] = Append(delivered[n], msg)
            BY <2>1, <2>6, <3>4 DEF Types, QueueTypes
      <4>2. delivered'[n] \o <<>> = delivered[n] \o <<msg>>
            BY <2>3, <2>6, <4>1, AppendsOne
      <4>3. QED
            BY <3>2, <3>3, <4>2, AllIsLeft, ReceivedTypes
    <3>5. CASE ~heard
      <4>1. delivered'[n] \o <<>> = delivered[n]
            BY <2>1, <2>3, <2>6, <3>5
      <4>2. QED
            BY <2>3, <2>6, <3>2, <3>3, <4>1, PartsAreLeft
    <3>6. QED
          BY <3>4, <3>5
  <2>7. QED
        BY <2>5, <2>6
<1>12. ASSUME NEW a \in Nodes, NEW th \in Threads, NEW m \in Nodes, Sendto(a, th, m)
       PROVE  \/ LeftOf(Received(n), Received(n)')
              \/ m = n /\ Received(n)' = Append(Received(n), task[a][th].msg)
  <2> DEFINE t == [task[a][th] EXCEPT !.left = task[a][th].left \ {m}]
  <2>1. /\ Goto(a, th, t) /\ t \in Publications /\ t.at = "publish" /\ task[a][th].msg \in Messages
        BY <1>12, SendtoTypes
  <2>2. /\ Doing(a, th) = "publish" /\ delivered' = delivered
        /\ \/ inbox' = [inbox EXCEPT ![m] = Append(inbox[m], task[a][th].msg)]
           \/ inbox' = inbox
        BY <1>12 DEF Sendto
  <2>3. t \in TasksOf(th)
        BY <2>1 DEF TasksOf, AppTasks, ReaderTasks
  <2> HIDE DEF t
  <2>4. CASE inbox'[n] = inbox[n]
        BY <2>1, <2>2, <2>3, <2>4, GoesElsewhere
  <2>5. CASE inbox'[n] # inbox[n]
    <3>1. m = n /\ inbox'[n] = Append(inbox[n], task[a][th].msg)
          BY <2>2, <2>5 DEF Types, QueueTypes
    <3>2. Handling(n)' = Handling(n)
      <4>1. /\ task'[a][th] = t
            /\ \A b \in Nodes, o \in Threads : b # a \/ o # th => task'[b][o] = task[b][o]
            BY <2>1, <2>3, GoesTo DEF Types
      <4>2. CASE n = a /\ th = "reader"
            BY <2>1, <2>2, <4>1, <4>2 DEF Handling, Doing
      <4>3. CASE ~(n = a /\ th = "reader")
        <5>1. task'[n]["reader"] = task[n]["reader"]
              BY <4>1, <4>3 DEF Threads
        <5>2. QED
              BY <5>1 DEF Handling, Doing
      <4>4. QED
            BY <4>2, <4>3
    <3>3. Received(n)' = (delivered[n] \o Handling(n)) \o Append(inbox[n], task[a][th].msg)
          BY <2>2, <3>1, <3>2 DEF Received, Handling
    <3>4. (delivered[n] \o Handling(n)) \o Append(inbox[n], task[a][th].msg)
             = Append((delivered[n] \o Handling(n)) \o inbox[n], task[a][th].msg)
      <4>1. /\ delivered[n] \in Seq(Messages) /\ Handling(n) \in Seq(Messages)
            /\ inbox[n] \in Seq(Messages) /\ task[a][th].msg \in Messages
            BY <2>1, ReceivedTypes
      <4>2. QED
            BY <4>1, AppendsLast, Zenon
    <3>5. Received(n) = (delivered[n] \o Handling(n)) \o inbox[n]
          BY ReceivedTypes
    <3>6. QED
          BY <3>1, <3>3, <3>4, <3>5
  <2>6. QED
        BY <2>4, <2>5
<1>13. CASE UNCHANGED vars
       BY <1>1, <1>13 DEF vars
<1>14. ASSUME NEW a \in Nodes, Reply(a)
       PROVE  LeftOf(Received(n), Received(n)')
  <2>1. /\ Doing(a, "reader") = "reply" /\ task[a]["reader"].topic \in Topics
        /\ Publish(a, "reader", task[a]["reader"].topic)
        BY <1>14, TaskShapes DEF Reply, Types
  <2>2. QED
        BY <1>6, <2>1 DEF Threads
<1>15. ASSUME NEW a \in Nodes, NEW topic \in Says[a], Say(a, topic)
       PROVE  LeftOf(Received(n), Received(n)')
  <2>1. topic \in Topics /\ Publish(a, "app", topic)
        BY <1>15, IPCAssumption DEF Say
  <2>2. QED
        BY <1>6, <2>1 DEF Threads
<1>16. QED
       BY <1>2, <1>3, <1>4, <1>5, <1>7, <1>8, <1>9, <1>10, <1>11, <1>12, <1>13, <1>14, <1>15
       DEF Next, System, Environment

-----------------------------------------------------------------------------
(* Publications.                                                           *)

\* A step that neither begins nor ends nor goes on with a publication of n.
Quiet(n) ==
    /\ mMtx'[n] = mMtx[n] /\ published'[n] = published[n]
    /\ \A th \in Threads :
          task'[n][th] = task[n][th] \/ (Doing(n, th) # "publish" /\ task'[n][th].at # "publish")

LEMMA QuietGoto ==
    ASSUME Types, NEW n \in Nodes, NEW a \in Nodes, NEW th \in Threads, NEW t \in TasksOf(th),
           Goto(a, th, t), Doing(a, th) # "publish", t.at # "publish", UNCHANGED <<mMtx, published>>
    PROVE  Quiet(n)
<1>1. task'[a][th] = t /\ \A m \in Nodes, o \in Threads : m # a \/ o # th => task'[m][o] = task[m][o]
      BY GoesTo DEF Types
<1>2. QED
      BY <1>1 DEF Quiet

LEMMA PublicationSteps ==
    ASSUME Types, [Next]_vars, NEW n \in Nodes
    PROVE  \/ Quiet(n)
           \/ Kill(n)
           \/ \E th \in Threads : \/ PublishEnds(n, th)
                                  \/ \E m \in Nodes : Sendto(n, th, m)
                                  \/ \E topic \in Topics : Publish(n, th, topic)
<1>1. CASE UNCHANGED <<mMtx, published, task>>
      BY <1>1 DEF Quiet
<1>2. ASSUME NEW a \in Nodes, Create(a) \/ Leave(a) \/ Apply(a)
      PROVE  UNCHANGED <<mMtx, published, task>>
      BY <1>2 DEF Create, Leave, Apply
<1>3. ASSUME NEW a \in Nodes, a # n,
             mMtx' = mMtx \/ \E x : mMtx' = [mMtx EXCEPT ![a] = x],
             published' = published \/ \E x : published' = [published EXCEPT ![a] = x],
             \E x : task' = [task EXCEPT ![a] = x]
      PROVE  Quiet(n)
      BY <1>3 DEF Quiet, Types, TaskTypes, OtherTypes, CountTypes
<1>4. ASSUME NEW a \in Nodes, Kill(a)
      PROVE  Quiet(n) \/ Kill(n)
      BY <1>3, <1>4 DEF Kill
<1>5. ASSUME NEW a \in Nodes, NEW th \in Threads, NEW topic \in Topics, Publish(a, th, topic)
      PROVE  Quiet(n) \/ Publish(n, th, topic)
      BY <1>3, <1>5 DEF Publish, Goto
<1>6. ASSUME NEW a \in Nodes, NEW th \in Threads, PublishEnds(a, th)
      PROVE  Quiet(n) \/ PublishEnds(n, th)
      BY <1>3, <1>6 DEF PublishEnds, Goto
<1>7. ASSUME NEW a \in Nodes, NEW th \in Threads, NEW m \in Nodes, Sendto(a, th, m)
      PROVE  Quiet(n) \/ Sendto(n, th, m)
      BY <1>3, <1>7 DEF Sendto
<1>8. ASSUME NEW a \in Nodes, NEW topic \in Wants[a], Subscribe(a, topic)
      PROVE  Quiet(n)
  <2>1. [at |-> "register", topic |-> topic] \in TasksOf("app")
        BY IPCAssumption DEF TasksOf, AppTasks
  <2>2. QED
        BY <1>8, <2>1, QuietGoto DEF Subscribe, Threads
<1>9. ASSUME NEW a \in Nodes, Register(a)
      PROVE  Quiet(n)
  <2>1. Idle \in TasksOf("app") /\ Idle.at # "publish"
        BY DEF TasksOf, AppTasks, Idle
  <2>2. QED
        BY <1>9, <2>1, QuietGoto DEF Register, Threads
<1>10. ASSUME NEW a \in Nodes, Read(a)
       PROVE  Quiet(n)
  <2> DEFINE t == [at |-> "handle", msg |-> Head(inbox[a])]
  <2>1. /\ Goto(a, "reader", t) /\ Doing(a, "reader") = "idle" /\ inbox[a] # <<>>
        /\ UNCHANGED <<mMtx, published>>
        BY <1>10 DEF Read
  <2>2. Head(inbox[a]) \in Messages
        BY <2>1 DEF Types, QueueTypes
  <2>3. t \in TasksOf("reader") /\ t.at = "handle"
        BY <2>2 DEF TasksOf, ReaderTasks
  <2> HIDE DEF t
  <2>4. QED
        BY <2>1, <2>3, QuietGoto DEF Threads
<1>11. ASSUME NEW a \in Nodes, OnData(a)
       PROVE  Quiet(n)
  <2> DEFINE msg == task[a]["reader"].msg
             t == IF msg.topic \in mSubscriptions[a] /\ msg.topic \in DOMAIN Replies[a]
                  THEN [at |-> "reply", topic |-> Replies[a][msg.topic]] ELSE Rest(a, "reader")
  <2>1. Goto(a, "reader", t) /\ Doing(a, "reader") = "handle" /\ UNCHANGED <<mMtx, published>>
        BY <1>11 DEF OnData
  <2>2. t \in TasksOf("reader") /\ t.at # "publish"
    <3>1. msg.topic \in Topics
          BY <2>1, TaskShapes DEF Types, Messages
    <3>2. msg.topic \in DOMAIN Replies[a] => Replies[a][msg.topic] \in Topics
          BY <3>1, IPCAssumption
    <3>3. Rest(a, "reader") \in TasksOf("reader") /\ Rest(a, "reader").at # "publish"
          BY RestIsTask DEF Threads
    <3>4. QED
          BY <3>2, <3>3 DEF TasksOf, ReaderTasks
  <2> HIDE DEF t
  <2>3. QED
        BY <2>1, <2>2, QuietGoto DEF Threads
<1>12. ASSUME NEW a \in Nodes, Destroy(a) \/ CloseSockets(a)
       PROVE  Quiet(n)
  <2>1. [at |-> "join"] \in TasksOf("app") /\ [at |-> "manager"] \in TasksOf("app")
        BY DEF TasksOf, AppTasks
  <2>2. QED
        BY <1>12, <2>1, QuietGoto DEF Destroy, CloseSockets, Threads
<1>13. ASSUME NEW a \in Nodes, ReaderEnds(a)
       PROVE  Quiet(n)
       BY <1>13, RestIsTask, QuietGoto DEF ReaderEnds, Threads
<1>14. CASE UNCHANGED vars
       BY <1>1, <1>14 DEF vars
<1>15. ASSUME NEW a \in Nodes, Reply(a) \/ \E topic \in Says[a] : Say(a, topic)
       PROVE  Quiet(n) \/ \E th \in Threads, topic \in Topics : Publish(n, th, topic)
  <2>1. CASE Reply(a)
    <3>1. task[a]["reader"].topic \in Topics /\ Publish(a, "reader", task[a]["reader"].topic)
          BY <2>1, TaskShapes DEF Reply, Types
    <3>2. QED
          BY <1>5, <3>1 DEF Threads
  <2>2. ASSUME NEW topic \in Says[a], Say(a, topic)
        PROVE  Quiet(n) \/ \E th \in Threads, o \in Topics : Publish(n, th, o)
    <3>1. topic \in Topics /\ Publish(a, "app", topic)
          BY <2>2, IPCAssumption DEF Say
    <3>2. QED
          BY <1>5, <3>1 DEF Threads
  <2>3. QED
        BY <1>15, <2>1, <2>2
<1>16. QED
       BY <1>1, <1>2, <1>4, <1>6, <1>7, <1>8, <1>9, <1>10, <1>11, <1>12, <1>13, <1>14, <1>15
       DEF Next, System, Environment

\* What becomes of a publication of n.
LEMMA PublicationKept ==
    ASSUME Types, TableTypes, TablesFollow, LockHeld, [Next]_vars, NEW n \in Nodes, NEW th \in Threads
    PROVE  /\ published[n] <= published'[n]
           /\ Doing(n, th)' = "publish" =>
                 \/ published'[n] = published[n] + 1
                 \/ /\ Doing(n, th) = "publish" /\ published'[n] = published[n]
                    /\ task'[n][th].left \subseteq task[n][th].left
           /\ LockHeldBy(n, th)'
<1>1. LockHeldBy(n, th) /\ \A o \in Threads : mMtx[n] # o => Doing(n, o) # "publish"
      BY DEF LockHeld, LockHeldBy
<1>2. published[n] \in Nat /\ "free" \notin Threads
      BY DEF Types, CountTypes, Threads
<1>3. \A m, topic : Asked(m, topic) => Asked(m, topic)'
      BY AskedGrows
<1>4. CASE Quiet(n)
  <2>1. /\ mMtx'[n] = mMtx[n] /\ published'[n] = published[n]
        /\ task'[n][th] = task[n][th] \/ (Doing(n, th) # "publish" /\ task'[n][th].at # "publish")
        BY <1>4 DEF Quiet
  <2>2. CASE task'[n][th] = task[n][th]
        BY <1>1, <1>2, <1>3, <2>1, <2>2 DEF LockHeldBy, SendsLast, Doing
  <2>3. CASE Doing(n, th) # "publish" /\ task'[n][th].at # "publish"
        BY <1>1, <1>2, <2>1, <2>3 DEF LockHeldBy, Doing
  <2>4. QED
        BY <2>1, <2>2, <2>3
<1>5. CASE Kill(n)
  <2>1. task'[n][th].at = "idle" /\ mMtx'[n] = "free" /\ published' = published
        BY <1>5 DEF Kill, Idle, Types, TaskTypes, OtherTypes
  <2>2. QED
        BY <1>2, <2>1 DEF LockHeldBy, Doing
<1>6. ASSUME NEW o \in Threads, PublishEnds(n, o)
      PROVE  Doing(n, th)' # "publish" /\ mMtx'[n] # th /\ published' = published
  <2>1. Goto(n, o, Rest(n, o)) /\ mMtx' = [mMtx EXCEPT ![n] = "free"] /\ published' = published
        /\ Doing(n, o) = "publish"
        BY <1>6 DEF PublishEnds
  <2>2. task'[n][o].at # "publish" /\ (th # o => task'[n][th] = task[n][th])
        BY <2>1, RestIsTask, GoesTo DEF Types
  <2>3. mMtx[n] = o /\ mMtx'[n] = "free"
        BY <2>1 DEF LockHeld, LockHeldBy, Types, OtherTypes
  <2>4. QED
        BY <1>1, <1>2, <2>1, <2>2, <2>3 DEF Doing
<1>7. ASSUME NEW o \in Threads, NEW m \in Nodes, Sendto(n, o, m)
      PROVE  /\ published' = published
             /\ Doing(n, th)' = "publish" =>
                   Doing(n, th) = "publish" /\ task'[n][th].left \subseteq task[n][th].left
             /\ LockHeldBy(n, th)'
  <2> DEFINE t == [task[n][o] EXCEPT !.left = task[n][o].left \ {m}]
  <2>1. /\ Goto(n, o, t) /\ t \in Publications /\ t.at = "publish"
        /\ t.left = task[n][o].left \ {m} /\ t.msg = task[n][o].msg
        BY <1>7, SendtoTypes
  <2>2. Doing(n, o) = "publish" /\ mMtx' = mMtx /\ published' = published
        BY <1>7 DEF Sendto
  <2>3. t \in TasksOf(o)
        BY <2>1 DEF TasksOf, AppTasks, ReaderTasks
  <2> HIDE DEF t
  <2>4. task'[n][o] = t /\ (th # o => task'[n][th] = task[n][th])
        BY <2>1, <2>3, GoesTo DEF Types
  <2>5. CASE th = o
        BY <1>1, <1>3, <2>1, <2>2, <2>4, <2>5 DEF LockHeldBy, SendsLast, Doing
  <2>6. CASE th # o
        BY <1>1, <1>3, <2>2, <2>4, <2>6 DEF LockHeldBy, SendsLast, Doing
  <2>7. QED
        BY <2>2, <2>5, <2>6
<1>8. ASSUME NEW o \in Threads, NEW topic \in Topics, Publish(n, o, topic)
      PROVE  published'[n] = published[n] + 1 /\ LockHeldBy(n, th)'
  <2> DEFINE t == Publishing(n, topic, Receivers(n, topic))
  <2>1. /\ Goto(n, o, t) /\ t \in Publications /\ t.at = "publish" /\ t.left = Receivers(n, topic)
        /\ t.msg = [from |-> n, topic |-> topic, serial |-> published[n] + 1]
        BY <1>8, PublishTypes
  <2>2. /\ mMtx[n] = "free" /\ mMtx'[n] = o /\ published'[n] = published[n] + 1
        BY <1>8 DEF Publish, Free, Types, OtherTypes, CountTypes
  <2>3. t \in TasksOf(o)
        BY <2>1 DEF TasksOf, AppTasks, ReaderTasks
  <2>4. \A m \in Receivers(n, topic) : Asked(m, topic)
    <3>1. applied[n] \in Nat /\ applied[n] <= Len(log) /\ DOMAIN log = 1..Len(log) /\ Len(log) \in Nat
          BY DEF Types, LogTypes
    <3>2. mNodeById[n] = View(applied[n])
          BY DEF TablesFollow
    <3>3. \A m \in Receivers(n, topic) :
             m \in Joined(applied[n]) /\ topic \in View(applied[n])[m].subs
          BY <3>2 DEF Receivers, View
    <3>4. \A m \in Receivers(n, topic) : \E i \in 1..applied[n] : log[i] = Event("SUBSCRIBE", m, topic)
          BY <3>3 DEF View
    <3>5. QED
          BY <3>1, <3>4 DEF Asked
  <2> HIDE DEF t
  <2>5. task'[n][o] = t /\ (th # o => task'[n][th] = task[n][th])
        BY <2>1, <2>3, GoesTo DEF Types
  <2>6. CASE th = o
    <3>1. SendsLast(n, th)'
          BY <1>3, <2>1, <2>2, <2>4, <2>5, <2>6 DEF SendsLast
    <3>2. QED
          BY <2>1, <2>2, <2>5, <2>6, <3>1 DEF LockHeldBy, Doing
  <2>7. CASE th # o
        BY <1>1, <1>2, <2>2, <2>5, <2>7 DEF LockHeldBy, Doing
  <2>8. QED
        BY <2>2, <2>6, <2>7
<1>9. QED
  <2>1. CASE \E o \in Threads : PublishEnds(n, o)
        BY <1>2, <1>6, <2>1 DEF LockHeldBy
  <2>2. CASE \E o \in Threads, m \in Nodes : Sendto(n, o, m)
        BY <1>2, <1>7, <2>2
  <2>3. CASE \E o \in Threads, topic \in Topics : Publish(n, o, topic)
        BY <1>2, <1>8, <2>3
  <2>4. QED
        BY <1>4, <1>5, <2>1, <2>2, <2>3, PublicationSteps

LEMMA LawfulKept ==
    ASSUME Types, TableTypes, TablesFollow, LockHeld, [Next]_vars,
           NEW n \in Nodes, NEW d \in Messages, Lawful(n, d)
    PROVE  Lawful(n, d)'
<1>1. d.from \in Nodes /\ d.serial \in Nat
      BY DEF Messages
<1>2. published[d.from] \in Nat /\ published'[d.from] \in Nat
      BY <1>1, TypesStep DEF Types, CountTypes
<1>3. /\ published[d.from] <= published'[d.from]
      /\ \A th \in Threads : Doing(d.from, th)' = "publish" =>
            \/ published'[d.from] = published[d.from] + 1
            \/ /\ Doing(d.from, th) = "publish" /\ published'[d.from] = published[d.from]
               /\ task'[d.from][th].left \subseteq task[d.from][th].left
      BY <1>1, PublicationKept DEF Threads
<1>4. d.serial <= published[d.from] /\ Asked(n, d.topic)
      BY DEF Lawful
<1>5. d.serial <= published'[d.from] /\ Asked(n, d.topic)'
      BY <1>1, <1>2, <1>3, <1>4, AskedGrows
<1>6. ASSUME NEW th \in Threads, Doing(d.from, th)' = "publish", n \in task'[d.from][th].left
      PROVE  d.serial < published'[d.from]
  <2>1. CASE published'[d.from] = published[d.from] + 1
        BY <1>1, <1>2, <1>4, <2>1
  <2>2. CASE /\ Doing(d.from, th) = "publish" /\ published'[d.from] = published[d.from]
             /\ task'[d.from][th].left \subseteq task[d.from][th].left
        BY <1>6, <2>2 DEF Lawful
  <2>3. QED
        BY <1>3, <1>6, <2>1, <2>2
<1>7. QED
      BY <1>5, <1>6 DEF Lawful, Doing

\* A message that has just been sent.
LEMMA SentLawfully ==
    ASSUME Types, TableTypes, TablesFollow, LockHeld, [Next]_vars, NEW n \in Nodes,
           NEW a \in Nodes, NEW th \in Threads, Sendto(a, th, n), NEW d \in Messages, d = task[a][th].msg
    PROVE  Lawful(n, d)'
<1> DEFINE t == [task[a][th] EXCEPT !.left = task[a][th].left \ {n}]
<1>1. /\ Doing(a, th) = "publish" /\ n \in task[a][th].left
      /\ mMtx' = mMtx /\ published' = published
      BY DEF Sendto
<1>2. /\ Goto(a, th, t) /\ t \in Publications /\ t.left = task[a][th].left \ {n}
      BY SendtoTypes
<1>3. d.from = a /\ d.serial = published[a] /\ Asked(n, d.topic) /\ mMtx[a] = th
      BY <1>1 DEF LockHeld, LockHeldBy, SendsLast
<1>4. t \in TasksOf(th)
      BY <1>2 DEF TasksOf, AppTasks, ReaderTasks
<1> HIDE DEF t
<1>5. task'[a][th] = t /\ n \notin task'[a][th].left
      BY <1>2, <1>4, GoesTo DEF Types
<1>6. ASSUME NEW o \in Threads, Doing(a, o)' = "publish"
      PROVE  o = th
  <2>1. LockHeldBy(a, o)'
        BY PublicationKept
  <2>2. QED
        BY <1>1, <1>3, <1>6, <2>1 DEF LockHeldBy
<1>7. Asked(n, d.topic)'
      BY <1>3, AskedGrows
<1>8. d.serial \in Nat
      BY DEF Messages
<1>9. QED
      BY <1>1, <1>3, <1>5, <1>6, <1>7, <1>8 DEF Lawful

LEMMA ReceivedLawfullyStep ==
    ASSUME Types, TableTypes, TablesFollow, LockHeld, ReceivedLawfully, [Next]_vars
    PROVE  ReceivedLawfully'
<1> SUFFICES ASSUME NEW n \in Nodes, NEW i \in DOMAIN Received(n)'
             PROVE  Lawful(n, Received(n)[i])'
    BY DEF ReceivedLawfully
<1>1. Received(n) \in Seq(Messages) /\ \A j \in DOMAIN Received(n) : Lawful(n, Received(n)[j])
      BY ReceivedTypes DEF ReceivedLawfully
<1>2. ASSUME NEW j \in DOMAIN Received(n), Received(n)'[i] = Received(n)[j]
      PROVE  Lawful(n, Received(n)[i])'
  <2>1. PICK d \in Messages : d = Received(n)[j]
        BY <1>1
  <2>2. Lawful(n, d)
        BY <1>1, <2>1
  <2>3. Lawful(n, d)'
        BY <2>2, LawfulKept
  <2>4. QED
        BY <1>2, <2>1, <2>3
<1>3. CASE LeftOf(Received(n), Received(n)')
      BY <1>2, <1>3 DEF LeftOf
<1>4. ASSUME NEW a \in Nodes, NEW th \in Threads, Sendto(a, th, n),
             Received(n)' = Append(Received(n), task[a][th].msg)
      PROVE  Lawful(n, Received(n)[i])'
  <2>1. PICK d \in Messages : d = task[a][th].msg
        BY <1>4, SendtoTypes
  <2>2. Lawful(n, d)'
        BY <1>4, <2>1, SentLawfully
  <2>3. \/ i \in DOMAIN Received(n) /\ Received(n)'[i] = Received(n)[i]
        \/ Received(n)'[i] = d
        BY <1>1, <1>4, <2>1
  <2>4. CASE i \in DOMAIN Received(n) /\ Received(n)'[i] = Received(n)[i]
        BY <1>2, <2>4
  <2>5. CASE Received(n)'[i] = d
        BY <2>2, <2>5
  <2>6. QED
        BY <2>3, <2>4, <2>5
<1>5. QED
      BY <1>3, <1>4, ReceivedStep

LEMMA OnceInOrderStep ==
    ASSUME Types, TableTypes, LockHeld, ReceivedLawfully, OnceInOrder, [Next]_vars
    PROVE  OnceInOrder'
<1> SUFFICES ASSUME NEW n \in Nodes, NEW i \in DOMAIN Received(n)', NEW j \in DOMAIN Received(n)',
                    i < j, Received(n)'[i].from = Received(n)'[j].from
             PROVE  Received(n)'[i].serial < Received(n)'[j].serial
    BY DEF OnceInOrder
<1>1. Received(n) \in Seq(Messages)
      BY ReceivedTypes
<1>2. \A k, l \in DOMAIN Received(n) : k < l /\ Received(n)[k].from = Received(n)[l].from
                                       => Received(n)[k].serial < Received(n)[l].serial
      BY DEF OnceInOrder
<1>3. CASE LeftOf(Received(n), Received(n)')
      BY <1>2, <1>3 DEF LeftOf
<1>4. ASSUME NEW a \in Nodes, NEW th \in Threads, Sendto(a, th, n),
             Received(n)' = Append(Received(n), task[a][th].msg)
      PROVE  Received(n)'[i].serial < Received(n)'[j].serial
  <2>1. /\ Doing(a, th) = "publish" /\ n \in task[a][th].left
        BY <1>4 DEF Sendto
  <2>2. task[a][th].msg.from = a /\ task[a][th].msg.serial = published[a]
        BY <2>1 DEF LockHeld, LockHeldBy, SendsLast
  <2>3. \A k \in DOMAIN Received(n) : Received(n)[k].from = a => Received(n)[k].serial < published[a]
        BY <2>1 DEF ReceivedLawfully, Lawful
  <2>4. /\ i \in DOMAIN Received(n) /\ Received(n)'[i] = Received(n)[i]
        /\ \/ j \in DOMAIN Received(n) /\ Received(n)'[j] = Received(n)[j]
           \/ Received(n)'[j] = task[a][th].msg
        BY <1>1, <1>4
  <2>5. QED
        BY <1>2, <2>2, <2>3, <2>4
<1>5. QED
      BY <1>3, <1>4, ReceivedStep

-----------------------------------------------------------------------------
(* The invariant and the properties.                                       *)

LEMMA InitInv == Init => NodeInv
<1> SUFFICES ASSUME Init
             PROVE  NodeInv
    OBVIOUS
<1>1. TaskTypes
      BY DEF Init, TaskTypes, AppTasks, ReaderTasks, Threads
<1>2. OtherTypes /\ CountTypes /\ QueueTypes
      BY IPCAssumption DEF Init, OtherTypes, CountTypes, QueueTypes
<1>3. log = <<>> /\ applied = [n \in Nodes |-> 0] /\ LogTypes
      BY DEF Init, LogTypes
<1>4. LogLawful
  <2>1. DOMAIN log = {} /\ \A n \in Nodes : status[n] = "off"
        BY <1>3 DEF Init
  <2>2. TopicsLawful /\ JoinsOnce /\ JoinsFirst /\ LeavesLast
        BY <2>1 DEF TopicsLawful, JoinsOnce, JoinsFirst, LeavesLast
  <2>3. StartedOnly /\ DeadLeave /\ AllJoined
        BY <2>1 DEF StartedOnly, DeadLeave, AllJoined
  <2>4. QED
        BY <2>2, <2>3 DEF LogLawful
<1>5. TablesFollow
  <2>1. Joined(0) = {}
        BY DEF Joined
  <2>2. View(0) = <<>>
        BY <2>1 DEF View
  <2>3. QED
        BY <1>3, <2>2 DEF TablesFollow, Init
<1>6. LockHeld
      BY DEF Init, LockHeld, LockHeldBy, Doing, Idle, Threads
<1>7. \A n \in Nodes : DOMAIN Received(n) = {}
  <2>1. \A n \in Nodes : Received(n) = <<>>
        BY DEF Init, Received, Doing, Idle, Threads
  <2>2. QED
        BY <2>1
<1>8. ReceivedLawfully /\ OnceInOrder
      BY <1>7 DEF ReceivedLawfully, OnceInOrder
<1>9. QED
      BY <1>1, <1>2, <1>3, <1>4, <1>5, <1>6, <1>8 DEF NodeInv, Types

LEMMA InvStep == NodeInv /\ [Next]_vars => NodeInv'
<1> SUFFICES ASSUME NodeInv, [Next]_vars
             PROVE  NodeInv'
    OBVIOUS
<1>1. Types /\ LogLawful /\ TablesFollow /\ LockHeld /\ ReceivedLawfully /\ OnceInOrder
      BY DEF NodeInv
<1>2. TableTypes
      BY <1>1, TablesTyped DEF Types
<1>3. Types'
      BY <1>1, <1>2, TypesStep
<1>4. LogLawful'
      BY <1>1, LogStep
<1>5. TablesFollow'
      BY <1>1, TablesStep
<1>6. LockHeld'
      BY <1>1, <1>2, PublicationKept DEF LockHeld
<1>7. ReceivedLawfully' /\ OnceInOrder'
      BY <1>1, <1>2, ReceivedLawfullyStep, OnceInOrderStep
<1>8. QED
      BY <1>3, <1>4, <1>5, <1>6, <1>7 DEF NodeInv

\* The invariant of the nodes, which the theorems below weaken: the lock of a node is held by
\* the thread that publishes, tables follow the log, and only lawful messages are received.
THEOREM NodeInvariant == Spec => []NodeInv
BY InitInv, InvStep, PTL DEF Spec

LEMMA InvTypes == NodeInv => TypeOK
<1> SUFFICES ASSUME NodeInv
             PROVE  TypeOK
    OBVIOUS
<1>1. TaskTypes /\ OtherTypes /\ LogTypes /\ CountTypes /\ QueueTypes /\ TablesFollow /\ LockHeld
      BY DEF NodeInv, Types
<1>2. TableTypes
      BY <1>1, TablesTyped
<1>3. log \in Seq(Events) /\ applied \in [Nodes -> 0..Len(log)]
      BY <1>1 DEF LogTypes
<1>4. \A n \in Nodes : mMtx[n] # "free" => Doing(n, mMtx[n]) = "publish"
      BY <1>1 DEF OtherTypes, LockHeld, LockHeldBy
<1>5. \A n \in Nodes, th \in Threads :
          Doing(n, th) \in {"idle", "register", "handle", "reply", "publish", "join", "ended", "manager"}
      BY <1>1 DEF TaskTypes, AppTasks, ReaderTasks, Publications, Doing, Idle, Threads
<1>6. published \in [Nodes -> Nat] /\ \A n \in Nodes : said[n] \in 0..MaxPublished[n]
      BY <1>1, IPCAssumption DEF CountTypes
<1>7. QED
      BY <1>1, <1>2, <1>3, <1>4, <1>5, <1>6 DEF TypeOK, OtherTypes, QueueTypes, TableTypes

\* Every variable of a node keeps its type, and who holds the lock is publishing.
THEOREM NodeTypesOK == Spec => []TypeOK
BY NodeInvariant, InvTypes, PTL

\* A node's table agrees at every moment with the events that it was called back for.
THEOREM TablesFollowView == Spec => []NeighboursFollowView
<1>1. NodeInv => NeighboursFollowView
      BY DEF NodeInv, TablesFollow, View, NeighboursFollowView, Up
<1>2. QED
      BY <1>1, NodeInvariant, PTL

\* However the threads of the nodes interleave, and whoever dies, nobody is sent a
\* message twice, or two of a publisher in the wrong order.
THEOREM PublicationsInOrder == Spec => []OnceInOrder
<1>1. NodeInv => OnceInOrder
      BY DEF NodeInv
<1>2. QED
      BY <1>1, NodeInvariant, PTL

\* A node that is sent a message has asked for its topic.
THEOREM OnlySubscribersHear == Spec => []NobodyElseHears
<1>1. NodeInv => NobodyElseHears
      BY DEF NodeInv, ReceivedLawfully, Lawful, Asked, NobodyElseHears
<1>2. QED
      BY <1>1, NodeInvariant, PTL
=============================================================================
