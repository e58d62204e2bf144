---------------------------- MODULE SocketLoops ----------------------------
(***************************************************************************)
(* The poll loops of UDSServer and UDSClient: one server, and clients in   *)
(* processes of their own.  A loop takes a snapshot of what is ready and   *)
(* works it off while the other ends go on; the callbacks of the server    *)
(* write to clients and block on full sockets; other threads send, wait    *)
(* and destroy.  The connections themselves are those of UDS: this module  *)
(* shows that the loops do to them only what UDS says, and that threads    *)
(* that wait for each other come to an end.                                *)
(*                                                                         *)
(* A socket that was reset has a pending error, which the next read or     *)
(* write of its owner reports and clears.  A descriptor number is not      *)
(* reused while somebody still goes by it.                                 *)
(***************************************************************************)
EXTENDS UDS

CONSTANTS
    Packets,        \* what may be sent
    QueueLength,    \* packets a socket holds in each direction
    MaxSends,       \* calls of Send in the instance
    MaxWritten,     \* writes of the server in the instance
    Mortal,         \* clients whose process may be killed
    Owned           \* clients some thread waits for and destroys

ASSUME SocketLoopsAssumption ==
    /\ QueueLength \in Nat \ {0} /\ MaxSends \in Nat /\ MaxWritten \in Nat
    /\ Mortal \cup Owned \subseteq Conns

VARIABLES
    srv,        \* the UDSServer
    cli,        \* the UDSClient of every connection
    errors,     \* pending errors: <<connection, "hub" or "spoke">>
    sends       \* calls of UDSClient::Send so far

sockVars == <<udsVars, srv, cli, errors, sends>>

(* loop: where MainLoop is.  todo: the snapshot of poll, connection ->      *)
(* {"in"}, {"in", "hup"} or {"hup"}.  target: the connection a handler      *)
(* writes to, or 0.  event: mShutdownFd is signalled.  owner: it runs,      *)
(* joins (in the destructor) or is gone.  written: writes so far.           *)
NewServer == [loop |-> "poll", todo |-> <<>>, target |-> 0, event |-> FALSE,
              owner |-> "runs", written |-> 0]

(* loop: where MainLoop is; none before Create, and dead when the process   *)
(* is.  snap: what poll has set for mFd.  owner: it runs, has fetched       *)
(* mShutdownFd in Wait, polls it, joins or is gone.  sender: a thread in    *)
(* Send is idle or has checked mFd.                                         *)
NewClient == [loop |-> "none", snap |-> {}, event |-> FALSE, owner |-> "runs", sender |-> "idle"]

Init ==
    /\ UDSInit
    /\ srv = NewServer
    /\ cli = [c \in Conns |-> NewClient]
    /\ errors = {} /\ sends = 0

\* UDSServer::mClients.
mClients == {c \in DOMAIN hubEnd : hubEnd[c] = "open"}

Backlog == {c \in DOMAIN hubEnd : hubEnd[c] = "backlog"}

\* What poll reports of a connection with something to read, or a peer that is gone.
Revents(readable, gone) ==
    (IF readable \/ gone THEN {"in"} ELSE {}) \cup (IF gone THEN {"hup"} ELSE {})

-----------------------------------------------------------------------------
(* UDSServer::MainLoop.                                                    *)

Snapshot ==
    LET revents(c) == Revents(toHub[c] # <<>>, cliEnd[c] # "open")
    IN  [c \in {d \in mClients : revents(d) # {}} |-> revents(c)]

Poll ==
    /\ srv.loop = "poll" /\ srv.target = 0
    /\ \/ /\ srv.event
          /\ srv' = [srv EXCEPT !.loop = "exit"]
       \/ /\ ~srv.event
          /\ Backlog # {} \/ Snapshot # <<>>
          /\ srv' = [srv EXCEPT !.loop = IF Backlog # {} THEN "accept" ELSE "serve",
                                !.todo = Snapshot]
    /\ UNCHANGED <<udsVars, cli, errors, sends>>

\* Deviation: a handler may write to a connection that was hung up on.
WriteToAll == DOMAIN hubEnd

\* What a handler may write to, now that the connections have changed.
WriteTo == {c \in DOMAIN hubEnd : hubEnd'[c] = "open"}

\* The server (in state r) after a handler, TopologyServer's, that may have begun
\* to write a packet to one of the clients.
Handler(r) ==
    {[r EXCEPT !.target = c] :
        c \in {0} \cup (IF r.written < MaxWritten THEN WriteTo ELSE {})}

\* accept() fails for want of descriptors, which ends the loop.
AcceptFails ==
    /\ srv.loop = "accept"
    /\ srv' = [srv EXCEPT !.loop = "exit", !.todo = <<>>]
    /\ UNCHANGED <<udsVars, cli, errors, sends>>

AcceptClient(c) ==
    /\ srv.loop = "accept"
    /\ HubAccepts(c)
    /\ srv' \in Handler([srv EXCEPT !.loop = "serve"])
    /\ UNCHANGED <<cli, errors, sends>>

\* The loop is at c: no other connection is half done.
At(c) ==
    /\ srv.loop = "serve" /\ srv.target = 0
    /\ c \in DOMAIN srv.todo
    /\ \A d \in DOMAIN srv.todo : srv.todo[d] = {"hup"} => d = c

\* The server when it has worked off what was set for c.
Past(c) == [srv EXCEPT !.todo = [d \in DOMAIN srv.todo \ {c} |-> srv.todo[d]]]

\* POLLIN: one read, and OnData with what it brings.
ReadClient(c) ==
    LET hup  == "hup" \in srv.todo[c]
        next == IF hup THEN [srv EXCEPT !.todo[c] = {"hup"}] ELSE Past(c)
    IN  /\ At(c)
        /\ "in" \in srv.todo[c]
        /\ IF toHub[c] # <<>> /\ <<c, "hub">> \notin errors
           THEN /\ IF hup THEN HubReadsLast(c) ELSE HubReads(c)
                /\ srv' \in Handler(next)
           ELSE srv' = next /\ UNCHANGED udsVars
        /\ errors' = errors \ {<<c, "hub">>}
        /\ UNCHANGED <<cli, sends>>

\* Deviation: the hangup is handled before the last packet is read.
HupFirst(c) == "hup" \in srv.todo[c]

\* POLLIN, if it was set, has been handled.
OnlyHup(c) == srv.todo[c] = {"hup"}

\* POLLHUP: OnDisconnect, and c is erased; its descriptor is not closed.
Hangup(c) ==
    /\ At(c)
    /\ OnlyHup(c)
    /\ hubEnd' = [hubEnd EXCEPT ![c] = "closed"]
    /\ srv' \in Handler(Past(c))
    /\ UNCHANGED <<toHub, toClient, cliEnd, cli, errors, sends>>

Served ==
    /\ srv.loop = "serve" /\ srv.target = 0
    /\ srv.todo = <<>>
    /\ srv' = [srv EXCEPT !.loop = "poll"]
    /\ UNCHANGED <<udsVars, cli, errors, sends>>

\* Deviation: waits for room even if the client is gone.
NeverGone(c) == FALSE

\* A write to c fails.
Gone(c) == cliEnd[c] # "open"

\* A write of a handler, which may go on to the next client.  It blocks while the
\* socket is full; it fails, and clears a pending error, if the client is gone.
Write ==
    LET c == srv.target IN
    /\ c # 0
    /\ \/ /\ Gone(c)
          /\ errors' = errors \ {<<c, "hub">>}
          /\ UNCHANGED udsVars
       \/ /\ ~Gone(c)
          /\ Len(toClient[c]) < QueueLength
          /\ \E packet \in Packets : HubWrites(c, packet)
          /\ UNCHANGED errors
    /\ srv' \in Handler([srv EXCEPT !.written = @ + 1])
    /\ UNCHANGED <<cli, sends>>

\* After the loop those who Wait are told, and all descriptors are closed.  Clients
\* that were not accepted, or whose packets were not read, are reset.
Close ==
    /\ srv.loop = "exit"
    /\ srv' = [srv EXCEPT !.loop = "ended", !.event = TRUE]
    /\ HubCloses
    /\ errors' = errors \cup
          {<<c, "spoke">> : c \in Backlog \cup {d \in mClients : toHub[d] # <<>>}}
    /\ UNCHANGED <<cli, sends>>

ServerLoop ==
    \/ Poll \/ AcceptFails \/ Served \/ Write \/ Close
    \/ \E c \in DOMAIN hubEnd : AcceptClient(c) \/ ReadClient(c) \/ Hangup(c)

-----------------------------------------------------------------------------
(* UDSClient::MainLoop.                                                    *)

\* The client of c changes to r.
ClientBecomes(c, r) == cli' = [cli EXCEPT ![c] = r] /\ UNCHANGED <<srv, sends>>

CliPoll(c) ==
    LET revents == Revents(Pending(c) # <<>>, hubEnd[c] = "closed") IN
    /\ cli[c].loop = "poll"
    /\ \/ /\ cli[c].event
          /\ ClientBecomes(c, [cli[c] EXCEPT !.loop = "exit"])
       \/ /\ ~cli[c].event
          /\ revents # {}
          /\ ClientBecomes(c, [cli[c] EXCEPT !.loop = "read", !.snap = revents])
    /\ UNCHANGED <<udsVars, errors>>

\* POLLIN, then POLLERR or POLLHUP.
CliRead(c) ==
    /\ cli[c].loop = "read"
    /\ ClientBecomes(c, [cli[c] EXCEPT !.snap = {},
                                       !.loop = IF "hup" \in cli[c].snap THEN "exit" ELSE "poll"])
    /\ IF Pending(c) # <<>> /\ <<c, "spoke">> \notin errors
       THEN SpokeReads(c) ELSE UNCHANGED udsVars
    /\ errors' = errors \ {<<c, "spoke">>}

\* Deviation: those who wait are not told.
Untold(r) == r

Told(r) == [r EXCEPT !.event = TRUE]

CliExit(c) ==
    /\ cli[c].loop = "exit"
    /\ ClientBecomes(c, Told([cli[c] EXCEPT !.loop = "close"]))
    /\ UNCHANGED <<udsVars, errors>>

\* The socket is closed; the server's end is reset if something was unread.
CloseSocket(c) ==
    IF cliEnd[c] = "open"
    THEN /\ SpokeCloses(c)
         /\ errors' = IF Pending(c) # <<>> THEN errors \cup {<<c, "hub">>} ELSE errors
    ELSE UNCHANGED <<udsVars, errors>>

CliClose(c) ==
    /\ cli[c].loop = "close"
    /\ ClientBecomes(c, [cli[c] EXCEPT !.loop = "ended"])
    /\ CloseSocket(c)

ClientLoop(c) == CliPoll(c) \/ CliRead(c) \/ CliExit(c) \/ CliClose(c)

-----------------------------------------------------------------------------
(* The other threads of the processes.                                     *)

Alive(c) == cli[c].loop \notin {"none", "dead"}

Create(c) ==
    /\ srv.loop # "ended"
    /\ SpokeOpens(c)
    /\ ClientBecomes(c, [cli[c] EXCEPT !.loop = "poll"])
    /\ UNCHANGED errors

\* Send looks at mFd under the lock ...
SendChecks(c) ==
    /\ Alive(c) /\ cli[c].loop # "ended"
    /\ cli[c].sender = "idle" /\ cli[c].owner \notin {"joins", "gone"}
    /\ sends < MaxSends
    /\ sends' = sends + 1
    /\ cli' = [cli EXCEPT ![c].sender = "checked"]
    /\ UNCHANGED <<udsVars, srv, errors>>

\* ... and uses it without: by now either end may be closed, then it fails and
\* clears a pending error.  It blocks while the socket is full.
Sends(c) ==
    /\ cli[c].sender = "checked"
    /\ ClientBecomes(c, [cli[c] EXCEPT !.sender = "idle"])
    /\ \/ /\ CanSend(c)
          /\ Len(toHub[c]) < QueueLength
          /\ \E packet \in Packets : SpokeSends(c, packet)
          /\ UNCHANGED errors
       \/ /\ ~CanSend(c)
          /\ errors' = errors \ {<<c, "spoke">>}
          /\ UNCHANGED udsVars

\* The owner's next call, from one state to another.
Owner(c, from, to) ==
    /\ Alive(c)
    /\ cli[c].owner = from
    /\ ClientBecomes(c, [cli[c] EXCEPT !.owner = to])
    /\ UNCHANGED <<udsVars, errors>>

\* Wait fetches mShutdownFd under the lock and polls it without; polling a
\* descriptor that was closed in between returns at once.
CliWait(c)        == c \in Owned /\ cli[c].loop # "ended" /\ Owner(c, "runs", "fetched")
CliWaits(c)       == Owner(c, "fetched", IF cli[c].loop = "ended" THEN "runs" ELSE "polls")
CliWaitReturns(c) == cli[c].event /\ Owner(c, "polls", "runs")

\* ~UDSClient: Shutdown, Wait, join.  Nobody uses the object any more.
CliDestroy(c) ==
    /\ c \in Owned /\ Alive(c)
    /\ cli[c].sender = "idle" /\ cli[c].owner = "runs"
    /\ ClientBecomes(c, [cli[c] EXCEPT !.owner = "joins", !.event = TRUE])
    /\ UNCHANGED <<udsVars, errors>>

CliJoined(c) == cli[c].loop = "ended" /\ Owner(c, "joins", "gone")

ClientThreads(c) == Sends(c) \/ CliWaits(c) \/ CliWaitReturns(c) \/ CliJoined(c)

\* The client's process is killed.
Kill(c) ==
    /\ c \in Mortal /\ Alive(c)
    /\ ClientBecomes(c, [cli[c] EXCEPT !.loop = "dead", !.owner = "gone", !.sender = "idle"])
    /\ CloseSocket(c)

\* ~UDSServer: Shutdown, Wait, join.  Nobody else waits for a server.
SrvDestroy ==
    /\ srv.owner = "runs"
    /\ srv' = [srv EXCEPT !.owner = "joins", !.event = TRUE]
    /\ UNCHANGED <<udsVars, cli, errors, sends>>

SrvJoined ==
    /\ srv.owner = "joins" /\ srv.loop = "ended"
    /\ srv' = [srv EXCEPT !.owner = "gone"]
    /\ UNCHANGED <<udsVars, cli, errors, sends>>

-----------------------------------------------------------------------------

Next ==
    \/ ServerLoop \/ SrvJoined \/ SrvDestroy
    \/ \E c \in Conns :
          \/ ClientLoop(c) \/ ClientThreads(c)
          \/ Create(c) \/ SendChecks(c) \/ CliWait(c) \/ CliDestroy(c) \/ Kill(c)

(* Every thread runs unless it waits for what its guard says; the handlers *)
(* return.  Nobody has to connect, to send, to wait, to destroy or to die. *)
Spec == /\ Init /\ [][Next]_sockVars
        /\ WF_sockVars(ServerLoop) /\ WF_sockVars(SrvJoined)
        /\ \A c \in Conns : WF_sockVars(ClientLoop(c)) /\ WF_sockVars(ClientThreads(c))

-----------------------------------------------------------------------------
(* Properties.                                                             *)

\* Every variable has its type (UDSServer.h, UDSClient.h), sockets hold no more than
\* they can, handlers write to clients only, and only a connection that was closed
\* unread has an error pending.
TypeOK ==
    /\ toHub \in [DOMAIN toHub -> Seq(Packets)] /\ toClient \in [DOMAIN toClient -> Seq(Packets)]
    /\ DOMAIN toHub \subseteq Conns /\ DOMAIN toClient \subseteq DOMAIN toHub
    /\ \A c \in DOMAIN toHub : Len(toHub[c]) <= QueueLength /\ Len(Pending(c)) <= QueueLength
    /\ hubEnd \in [DOMAIN toHub -> {"backlog", "open", "closed"}]
    /\ cliEnd \in [DOMAIN toHub -> {"open", "closed", "reset"}]
    /\ srv.loop \in {"poll", "accept", "serve", "exit", "ended"}
    /\ srv.todo \in [DOMAIN srv.todo -> {{"in"}, {"in", "hup"}, {"hup"}}]
    /\ srv.target \in {0} \cup mClients
    /\ srv.event \in BOOLEAN /\ srv.owner \in {"runs", "joins", "gone"}
    /\ srv.written \in 0..MaxWritten
    /\ cli \in [Conns ->
          [loop : {"none", "poll", "read", "exit", "close", "ended", "dead"},
           snap : {{}, {"in"}, {"in", "hup"}}, event : BOOLEAN,
           owner : {"runs", "fetched", "polls", "joins", "gone"}, sender : {"idle", "checked"}]]
    /\ \A e \in errors : \/ e[2] = "hub" /\ cliEnd[e[1]] = "reset"
                         \/ e[2] = "spoke" /\ hubEnd[e[1]] = "closed"
    /\ sends \in 0..MaxSends

\* The loops do to the connections what UDS says, on which the models of the group
\* rest: snapshots that are out of date, errors that an earlier call has cleared and
\* checks made before a close lead to nothing else.  In particular a hangup is
\* handled once, and not before the last packet was read or could not be.
ImplementsUDS == UDSInit /\ [][UDSNext(Packets)]_udsVars

\* A destructor returns: Shutdown reaches a loop that polls, serves, or whose
\* handler is blocked on a client that is itself on its way out.
DestructorsReturn ==
    /\ srv.owner = "joins" ~> srv.owner = "gone"
    /\ \A c \in Owned : cli[c].owner = "joins" ~> cli[c].owner = "gone"

\* Calls return.  Wait does when the loop ends, for whatever reason, also if it ends
\* while Wait is between fetching the descriptor and polling it; Send does although
\* it blocks on a full socket, which the server may be late to read because a handler
\* is itself blocked on a client.
CallsReturn ==
    \A c \in Conns :
        /\ cli[c].owner \in {"fetched", "polls"} /\ cli[c].loop = "ended"
              ~> cli[c].owner \notin {"fetched", "polls"}
        /\ cli[c].sender = "checked" ~> cli[c].sender = "idle"

\* When one side of a connection ends the other learns of it: the clients of a
\* server whose loop has ended, because accept failed for instance, end too, those
\* that were never accepted included; and a server that goes on hangs up on clients
\* that are gone.
OtherEndLearns ==
    \A c \in Conns :
        /\ srv.loop = "ended" ~> cli[c].loop \in {"none", "ended", "dead"}
        /\ cli[c].loop \in {"ended", "dead"} ~> c \in DOMAIN hubEnd /\ hubEnd[c] = "closed"
=============================================================================
