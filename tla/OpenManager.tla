---------------------------- MODULE OpenManager ----------------------------
(***************************************************************************)
(* A TopologyManager in an open world: some hub, of this or of another     *)
(* process, accepts its connections, reads what it sends when it likes,    *)
(* writes any messages it likes, and may die at any moment.  All calls of  *)
(* the interface are made, in any order.  What holds here holds for a      *)
(* spoke whatever the hubs do.                                             *)
(***************************************************************************)
EXTENDS TopologyManager

CONSTANTS
    Self,       \* the node under test
    Other,      \* a node whose process may own the announce address
    FromHub,    \* messages hubs may write
    Topics,     \* topics of the calls
    Mimes,      \* mimes of the announcements
    MaxCalls,   \* calls of Announce, Retract and Subscribe in the instance
    MaxReceived \* messages the spoke receives in the instance

ASSUME OpenAssumption ==
    /\ {Self, Other} \subseteq Nodes /\ Self # Other
    /\ FromHub \subseteq Messages
    /\ Topics \subseteq STRING /\ Mimes \subseteq STRING

VARIABLES
    called,     \* the bodies the interface has passed to Send, each once
    taken       \* how often hubs have read each of them

vars == <<managerVars, udsVars, called, taken>>

CallBodies ==
    [op : {"ANNOUNCE"}, node : {Self}, topic : Topics, mime : Mimes]
    \cup [op : {"RETRACT", "SUBSCRIBE"}, node : {Self}, topic : Topics, mime : {""}]

OpenInit == ManagerInit /\ called = {} /\ taken = [body \in CallBodies |-> 0]

-----------------------------------------------------------------------------
(* The world.                                                              *)

HubAppears ==
    /\ hubHost = NoHost
    /\ hubHost' = Other
    /\ UNCHANGED <<pc, connVars, viewVars, objVars, udsVars, called, taken>>

HubDisappears ==
    /\ hubHost = Other
    /\ hubHost' = NoHost
    /\ HubCloses
    /\ UNCHANGED <<pc, connVars, viewVars, objVars, called, taken>>

AHubReads(c) ==
    /\ HubReads(c)
    /\ taken' = [body \in CallBodies |->
          taken[body] + (IF Head(toHub[c]).body = body THEN 1 ELSE 0)]
    /\ UNCHANGED <<managerVars, called>>

AHubWrites(c, msg) ==
    /\ HubWrites(c, msg)
    /\ Len(mHistory[Self]) + Len(toClient[c]) < MaxReceived
    /\ UNCHANGED <<managerVars, called, taken>>

-----------------------------------------------------------------------------
(* The interface.                                                          *)

Calling(body) ==
    /\ body \notin called
    /\ Cardinality(called) < MaxCalls
    /\ called' = called \cup {body}
    /\ UNCHANGED taken

Interface ==
    \/ \E t \in Topics, m \in Mimes :
          Announce(Self, t, m) /\ Calling(TopicChange("ANNOUNCE", Self, t, m))
    \/ \E t \in Topics :
          \/ Retract(Self, t) /\ Calling(TopicChange("RETRACT", Self, t, ""))
          \/ Subscribe(Self, t) /\ Calling(TopicChange("SUBSCRIBE", Self, t, ""))
    \/ Unsubscribe(Self) /\ UNCHANGED <<called, taken>>

Process ==
    /\ \/ Start(Self)
       \/ MainLoop(Self) \/ Serve(Self)
       \/ ClientRead(Self) \/ ClientHangup(Self)
       \/ Destroy(Self) \/ DropClient(Self) \/ DestroyServer(Self) \/ Joined(Self)
       \/ Die(Self)
    /\ UNCHANGED <<called, taken>>

OpenNext ==
    \/ HubAppears \/ HubDisappears
    \/ \E c \in DOMAIN hubEnd :
          \/ HubAccepts(c) /\ UNCHANGED <<managerVars, called, taken>>
          \/ AHubReads(c)
          \/ \E msg \in FromHub : AHubWrites(c, msg)
    \/ Interface
    \/ Process

OpenSpec == OpenInit /\ [][OpenNext]_vars

-----------------------------------------------------------------------------
(* Properties.                                                             *)

\* Every variable of the manager and of its connections has its type.
OpenTypeOK ==
    /\ pc \in [Nodes -> {"off", "connect", "introduce", "attach", "flush", "wait",
                         "null", "serve", "ended", "dead"}]
    /\ client \in [Nodes -> {0} \cup DOMAIN toHub]
    /\ mClient \in [Nodes -> {0} \cup DOMAIN toHub]
    /\ unsent \in [Nodes -> Seq(Messages)] /\ mBacklog \in [Nodes -> Seq(Messages)]
    /\ mHistory \in [Nodes -> Seq(Messages)]
    /\ stuck \in [Nodes -> BOOLEAN] /\ owner \in [Nodes -> {"uses", "destroys", "joins", "gone"}]
    /\ hubHost \in Nodes \cup {NoHost}
    /\ DOMAIN toHub \subseteq Conns
    /\ toHub \in [DOMAIN toHub -> Seq(Messages)]
    /\ DOMAIN toClient \subseteq DOMAIN toHub
    /\ toClient \in [DOMAIN toClient -> Seq(Messages)]
    /\ hubEnd \in [DOMAIN toHub -> {"backlog", "open", "closed"}]
    /\ cliEnd \in [DOMAIN toHub -> {"open", "closed", "reset"}]

\* How often a body occurs in a sequence of messages.
Occurrences(s, body) == Cardinality({i \in DOMAIN s : s[i].body = body})

\* How often a body is in a socket, or has been read from one.
HandedOver(body) ==
    taken[body] + Cardinality(UNION {{<<c, i>> : i \in {k \in DOMAIN toHub[c] :
                      toHub[c][k].body = body}} : c \in DOMAIN toHub})

\* A call is neither lost nor doubled on its way to a socket: as long as the
\* process lives, every message of the interface is once in the backlog, in
\* MainLoop's copy of it, or handed to a socket that took it.
EachCallOnce ==
    pc[Self] # "dead" => \A body \in CallBodies :
        Occurrences(mBacklog[Self], body) + Occurrences(unsent[Self], body)
        + HandedOver(body) = IF body \in called THEN 1 ELSE 0

\* A destructor that returns leaves nothing behind, although it clears the client
\* without the lock while MainLoop may be attaching: no connection the manager made
\* is open, nothing refers to one, and the address is free again.
DestroyedCleanly ==
    owner[Self] = "gone" =>
        /\ mClient[Self] = 0 /\ client[Self] = 0
        /\ hubHost # Self
        /\ \A c \in DOMAIN cliEnd : cliEnd[c] # "open"

\* While MainLoop has no client to wait for, messages are kept in the backlog:
\* nobody sends through a client of an earlier connection.
ClientIsCurrent == mClient[Self] # 0 => mClient[Self] = client[Self]
=============================================================================
