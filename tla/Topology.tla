------------------------------- MODULE Topology -------------------------------
(***************************************************************************)
(* The group: the spokes of TopologyManager, the hub of TopologyServer in  *)
(* the process that owns the announce address, and the connections of UDS  *)
(* between them.  When the hub's process dies the spokes race to bind the  *)
(* address again; the winner's history becomes the new hub's digest.       *)
(*                                                                         *)
(* uids are random numbers, so that messages of different hubs differ in   *)
(* them: the uid of a message is here the number of the hub that minted it *)
(* (epoch).                                                                *)
(***************************************************************************)
EXTENDS TopologyManager

CONSTANTS
    Calls,      \* Calls[n]: the bodies the application at n announces etc.
    Mortal,     \* the nodes whose process may be killed
    HubMortal,  \* may the process that runs the hub be killed
    Abrupt      \* may a process be killed before the hub knows who it is

(* An application calls the manager of its own node.  Nobody calls         *)
(* Unsubscribe, which never returns.                                       *)
ASSUME CallsAssumption ==
    \A n \in Nodes :
        Calls[n] \subseteq [op : {"ANNOUNCE", "RETRACT", "SUBSCRIBE"}, node : {n},
                            topic : STRING, mime : STRING]

VARIABLES
    hubHistory, hubNextSeq, hubClients, aborted, purged,
    epoch,      \* the number of hubs created
    called      \* called[n]: the bodies already passed to n's manager

Hub == INSTANCE TopologyServer WITH
    Fds <- Conns, Digests <- {}, Inbound <- [c \in Conns |-> {}], Uids <- {},
    mHistory <- hubHistory, mNextSeq <- hubNextSeq, mClients <- hubClients,
    wire <- toClient

hubVars == <<hubHistory, hubNextSeq, hubClients, aborted, purged>>
vars    == <<managerVars, udsVars, hubVars, epoch, called>>

NoHub ==
    /\ hubHistory' = <<>>
    /\ hubNextSeq' = 1
    /\ hubClients' = <<>>
    /\ aborted' = "no"
    /\ purged' = TRUE

Init ==
    /\ ManagerInit
    /\ hubHistory = <<>> /\ hubNextSeq = 1 /\ hubClients = <<>>
    /\ aborted = "no" /\ purged = TRUE
    /\ epoch = 0
    /\ called = [n \in Nodes |-> {}]

-----------------------------------------------------------------------------
(* The hub's threads: the UDSServer loop and the purge thread.             *)

HubAccept(c) ==
    /\ HubCanAccept(c)
    /\ Hub!OnConnect(c)
    /\ hubEnd' = [hubEnd EXCEPT ![c] = "open"]
    /\ UNCHANGED <<managerVars, toHub, cliEnd, epoch, called>>

HubRead(c) ==
    /\ HubCanRead(c)
    /\ Hub!OnData(c, Head(toHub[c]), epoch)
    /\ toHub' = [toHub EXCEPT ![c] = Tail(@)]
    /\ UNCHANGED <<managerVars, hubEnd, cliEnd, epoch, called>>

HubReadLast(c) ==
    /\ HubCanReadLast(c)
    /\ Hub!OnData(c, Head(toHub[c]), epoch)
    /\ toHub' = [toHub EXCEPT ![c] = <<>>]
    /\ UNCHANGED <<managerVars, hubEnd, cliEnd, epoch, called>>

HubHangup(c) ==
    /\ HubSeesHangup(c)
    /\ Hub!OnDisconnect(c)
    /\ hubEnd' = [hubEnd EXCEPT ![c] = "closed"]
    /\ UNCHANGED <<managerVars, toHub, cliEnd, epoch, called>>

HubPurge ==
    /\ Hub!PurgeDisconnected
    /\ UNCHANGED <<managerVars, toHub, hubEnd, cliEnd, epoch, called>>

HubThread(c) == HubAccept(c) \/ HubRead(c) \/ HubReadLast(c) \/ HubHangup(c)

-----------------------------------------------------------------------------
(* The spokes' steps, and what they do to the hub.                         *)

\* The history is passed to the new server as its digest.
ServeGroup(n) ==
    /\ Serve(n)
    /\ IF hubHost = NoHost
       THEN Hub!CreateServer(mHistory[n]) /\ epoch' = epoch + 1
       ELSE /\ IF hubHost = n THEN NoHub ELSE UNCHANGED hubVars
            /\ UNCHANGED epoch
    /\ UNCHANGED called

MainThread(n) ==
    \/ /\ MainLoop(n)
       /\ UNCHANGED <<hubVars, epoch, called>>
    \/ ServeGroup(n)

ClientThread(n) ==
    /\ ClientRead(n) \/ ClientHangup(n)
    /\ UNCHANGED <<hubVars, epoch, called>>

StartNode(n) == Start(n) /\ UNCHANGED <<hubVars, epoch, called>>

\* The application calls n's manager.
CallOf(n, body) ==
    /\ Call(n, body)
    /\ body \notin called[n]
    /\ called' = [called EXCEPT ![n] = @ \cup {body}]
    /\ UNCHANGED <<hubVars, epoch>>

ProcessDies(n) ==
    /\ Die(n)
    /\ IF hubHost = n THEN NoHub ELSE UNCHANGED hubVars
    /\ UNCHANGED <<epoch, called>>

\* The hub has read all that n introduced itself with.
Introduced(n) == pc[n] \in {"flush", "wait"} /\ toHub[client[n]] = <<>>

\* Somebody kills the process.
Kill(n) ==
    /\ n \in Mortal
    /\ Abrupt \/ Introduced(n)
    /\ hubHost = n => HubMortal
    /\ ProcessDies(n)

\* A failed assert, or a call through the null mClient.
Abort(n) ==
    /\ \/ hubHost = n /\ aborted # "no"
       \/ pc[n] = "null"
    /\ ProcessDies(n)

-----------------------------------------------------------------------------

\* What the program does of its own accord.
System ==
    \/ \E n \in Nodes : MainThread(n) \/ ClientThread(n) \/ Abort(n)
    \/ \E c \in DOMAIN hubEnd : HubThread(c)
    \/ HubPurge

\* What its users do.
Environment ==
    \E n \in Nodes : \/ StartNode(n)
                     \/ Kill(n)
                     \/ \E body \in Calls[n] : CallOf(n, body)

Next == System \/ Environment

(* As long as some thread can go on, some thread does: the main loops, the *)
(* client threads, the hub's poll loop and its purge thread run on a       *)
(* preemptive scheduler and wait for nothing but what the guards say.      *)
(* This is less than fairness to each thread, and it is enough.  Nobody    *)
(* has to be started, to call or to be killed.                             *)
Spec == Init /\ [][Next]_vars /\ WF_vars(System)

-----------------------------------------------------------------------------
(* Properties.                                                             *)

Live == {n \in Nodes : pc[n] \notin {"off", "dead"}}

Attached(n) ==
    /\ pc[n] = "wait"
    /\ hubEnd[client[n]] = "open"

\* Every variable has its type, the hub's as in TopologyServer.
TypeOK ==
    /\ Hub!TypeOK
    /\ pc \in [Nodes -> {"off", "connect", "introduce", "attach", "flush", "wait",
                         "null", "serve", "dead"}]
    /\ client \in [Nodes -> {0} \cup Conns] /\ mClient \in [Nodes -> {0} \cup Conns]
    /\ unsent \in [Nodes -> Seq(Messages)] /\ mBacklog \in [Nodes -> Seq(Messages)]
    /\ mHistory \in [Nodes -> Seq(Messages)]
    /\ \A n \in Nodes : \A m \in DOMAIN mNodes[n] :
          mNodes[n][m] \in [pubs : [DOMAIN mNodes[n][m].pubs -> STRING], subs : SUBSET STRING]
    /\ stuck \in [Nodes -> BOOLEAN]
    /\ owner \in [Nodes -> {"uses", "gone"}]
    /\ hubHost \in Nodes \cup {NoHost}
    /\ toHub \in [DOMAIN toHub -> Seq(Messages)]
    /\ hubEnd \in [DOMAIN toHub -> {"backlog", "open", "closed"}]
    /\ cliEnd \in [DOMAIN toHub -> {"open", "closed", "reset"}]
    /\ epoch \in Nat
    /\ called \in [Nodes -> SUBSET Bodies]

\* Nothing is under way: all messages are read, all descriptors accepted and
\* all hangups handled.
Quiescent ==
    /\ \A n \in Live : Attached(n) /\ mBacklog[n] = <<>>
    /\ \A c \in DOMAIN hubEnd :
          hubEnd[c] # "closed" => cliEnd[c] = "open" /\ toHub[c] = <<>> /\ toClient[c] = <<>>

\* Whenever nothing is under way all views are the same, whatever digests,
\* broadcasts and prunings they were built from, and when.
QuiescentAgreement == Quiescent => \A m, n \in Live : mNodes[m] = mNodes[n]

\* The messages of n that wait somewhere: in its backlog, in MainLoop's copy of
\* it or in the socket, or that the hub has taken from n's connection.
Kept(n) ==
    {mBacklog[n][i].body : i \in DOMAIN mBacklog[n]}
    \cup {unsent[n][i].body : i \in DOMAIN unsent[n]}
    \cup (IF client[n] = 0 THEN {}
          ELSE {toHub[client[n]][i].body : i \in DOMAIN toHub[client[n]]}
               \cup (IF client[n] \in DOMAIN hubClients
                     THEN hubClients[client[n]].history ELSE {}))

\* No call of the application is lost between the API, the backlog, the flush
\* and the socket while the hub lives.
NoCallLost == \A n \in Live : called[n] \subseteq Kept(n)

\* No spoke gets a message twice or loses one of those before it: its history
\* and what is on its way continue each other, in strict order.
OneOrderedStream ==
    \A n \in Live : client[n] # 0 =>
        StrictlySortedBySeq(mHistory[n] \o Pending(client[n]))

\* With a hub that stays, every view ends up as: exactly the running nodes, with
\* the topics each of them was told to announce and to subscribe to.
Expected == [n \in Live |->
    [pubs |-> [t \in {b.topic : b \in {x \in called[n] : x.op = "ANNOUNCE"}} |->
                  (CHOOSE b \in called[n] : b.op = "ANNOUNCE" /\ b.topic = t).mime],
     subs |-> {b.topic : b \in {x \in called[n] : x.op = "SUBSCRIBE"}}]]

ViewsConverge == <>[](\A n \in Live : Attached(n) /\ mNodes[n] = Expected)

\* The asserts of the hub about numbers and descriptors never fail, whatever
\* histories its spokes bring along from the hubs before it.
HubAssertionsHold == Hub!SequenceAssertionsHold

\* All messages known anywhere.
KnownMessages ==
    {hubHistory[i] : i \in DOMAIN hubHistory}
    \cup (UNION {{mHistory[n][i] : i \in DOMAIN mHistory[n]} : n \in Nodes})
    \cup (UNION {{toClient[c][i] : i \in DOMAIN toClient[c]} : c \in DOMAIN toClient})
    \cup (UNION {{toHub[c][i] : i \in DOMAIN toHub[c]} : c \in DOMAIN toHub})

\* The pair of seq and uid identifies a minted message across all hubs: this is
\* what AddOldMessage relies on when it takes a replayed message for one it has.
MintedIdentity ==
    LET minted == {m \in KnownMessages : m.seq # 0 /\ m.uid # 0}
    IN  Cardinality({<<m.seq, m.uid>> : m \in minted}) = Cardinality(minted)

\* lower_bound finds its place in every spoke's history: it stays sorted, over
\* all the hubs the spoke has heard, and is a lawful digest for the next hub.
SpokesSorted == \A n \in Nodes : SortedBySeq(mHistory[n])

\* Whoever lives is in the end connected to one hub that stays: hubs that die
\* are replaced, and no spoke is left with a hub that is gone. 
AllAttached == <>[](\A n \in Live : Attached(n))

\* The hub declares left only nodes whose process is gone.
LeaveOnlyOfDead == Hub!LeftNodes(hubHistory) \cap Live = {}

\* A live spoke that is attached stays in, or gets back into, the views of all:
\* the hub learns of it from what it sends when it reconnects.
LiveNodesKnown == <>[](\A m, n \in Live : Attached(n) /\ m \in DOMAIN mNodes[n])

\* The main loop outlives the loss of its client at any moment.
LossOfClientSurvived == \A n \in Nodes : pc[n] # "null"
=============================================================================
