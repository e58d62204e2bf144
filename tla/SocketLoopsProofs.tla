-------------------------- MODULE SocketLoopsProofs --------------------------
(***************************************************************************)
(* Proofs about SocketLoops, for any number of connections, any packets,   *)
(* any length of the sockets' queues: the type invariant, and that the     *)
(* poll loops of UDSServer and UDSClient do to the connections what UDS    *)
(* says, and nothing else.                                                 *)
(*                                                                         *)
(* The second does not follow from the types: a loop acts on a snapshot    *)
(* poll made, a thread on a check it made, and both may be out of date.    *)
(* LoopInv says what of them stays true.                                   *)
(***************************************************************************)
EXTENDS SocketLoops, FiniteSetTheorems, TLAPS

-----------------------------------------------------------------------------
(* The inductive invariant.                                                *)

\* The connections made so far are numbered without gaps; only one that was accepted
\* is open at the hub, and sockets hold no more than they can.
Connections ==
    /\ \E k \in 0..MaxConns : DOMAIN toHub = 1..k
    /\ toHub \in [DOMAIN toHub -> Seq(Packets)] /\ toClient \in [DOMAIN toClient -> Seq(Packets)]
    /\ DOMAIN toClient \subseteq DOMAIN toHub
    /\ \A c \in DOMAIN toHub : Len(toHub[c]) <= QueueLength
    /\ \A c \in DOMAIN toClient : Len(toClient[c]) <= QueueLength
    /\ hubEnd \in [DOMAIN toHub -> {"backlog", "open", "closed"}]
    /\ cliEnd \in [DOMAIN toHub -> {"open", "closed", "reset"}]
    /\ \A c \in DOMAIN toHub : hubEnd[c] = "open" => c \in DOMAIN toClient

\* The fields of the server and what it is doing: a handler that writes does so while
\* the loop works off its snapshot, and may still write.
ServerFields ==
    /\ DOMAIN srv = {"loop", "todo", "target", "event", "owner", "written"}
    /\ srv.loop \in {"poll", "accept", "serve", "exit", "ended"}
    /\ srv.todo \in [DOMAIN srv.todo -> {{"in"}, {"in", "hup"}, {"hup"}}]
    /\ srv.event \in BOOLEAN /\ srv.owner \in {"runs", "joins", "gone"}
    /\ srv.written \in 0..MaxWritten
    /\ srv.target # 0 => srv.loop = "serve" /\ srv.written < MaxWritten

\* What stays true of the server's snapshot, while the other ends go on: the
\* connections in it are clients, one that was hung up on is, and one whose last
\* packet has been read has nothing more to be read, or was reset.
SnapshotHolds ==
    /\ srv.target # 0 => srv.target \in DOMAIN toHub /\ hubEnd[srv.target] = "open"
    /\ srv.loop \notin {"accept", "serve"} => DOMAIN srv.todo = {}
    /\ \A d \in DOMAIN srv.todo :
          /\ d \in DOMAIN toHub /\ hubEnd[d] = "open"
          /\ "hup" \in srv.todo[d] => cliEnd[d] # "open"
          /\ srv.todo[d] = {"hup"} => cliEnd[d] = "reset" \/ toHub[d] = <<>>

ClientStates ==
    [loop : {"none", "poll", "read", "exit", "close", "ended", "dead"},
     snap : {{}, {"in"}, {"in", "hup"}}, event : BOOLEAN,
     owner : {"runs", "fetched", "polls", "joins", "gone"}, sender : {"idle", "checked"}]

\* The loop of a client has its socket until it closes it or dies; a thread that is in
\* Send is one of a process that lives.
LoopsHoldSockets ==
    /\ cli \in [Conns -> ClientStates]
    /\ \A c \in Conns :
          /\ cli[c].loop = "none" <=> c \notin DOMAIN toHub
          /\ c \in DOMAIN toHub =>
                (cliEnd[c] = "open" <=> cli[c].loop \in {"poll", "read", "exit", "close"})
          /\ cli[c].sender = "checked" => cli[c].loop # "none"

\* Only a connection that was closed unread has an error pending.
ErrorsReal ==
    \A e \in errors :
        /\ e \in (DOMAIN toHub) \X {"hub", "spoke"}
        /\ \/ e[2] = "hub" /\ cliEnd[e[1]] = "reset"
           \/ e[2] = "spoke" /\ hubEnd[e[1]] = "closed"

LoopInv ==
    /\ Connections /\ ServerFields /\ SnapshotHolds /\ LoopsHoldSockets /\ ErrorsReal
    /\ sends \in 0..MaxSends

-----------------------------------------------------------------------------
(* What the operations of UDS do to the connections.                       *)

USE MaxConnsAssumption, SocketLoopsAssumption

LEMMA Opens ==
    ASSUME Connections, NEW c, SpokeOpens(c)
    PROVE  /\ Connections'
           /\ c \in Conns /\ c \notin DOMAIN toHub
           /\ DOMAIN toHub' = (DOMAIN toHub) \cup {c}
           /\ cliEnd'[c] = "open" /\ toHub'[c] = <<>>
           /\ \A d \in DOMAIN toHub :
                 toHub'[d] = toHub[d] /\ hubEnd'[d] = hubEnd[d] /\ cliEnd'[d] = cliEnd[d]
<1>1. PICK k \in 0..MaxConns : DOMAIN toHub = 1..k
      BY DEF Connections
<1>2. Cardinality(1..k) = k
      BY FS_Interval
<1>3. c = k + 1 /\ c \in 1..MaxConns
      BY <1>1, <1>2 DEF SpokeOpens, OpenConnection, NextConn, Conns
<1>4. c \notin DOMAIN toHub /\ c \in Conns
      BY <1>1, <1>3 DEF Conns
<1>5. DOMAIN hubEnd = DOMAIN toHub /\ DOMAIN cliEnd = DOMAIN toHub
      BY DEF Connections
<1>6. /\ toHub' = [d \in (DOMAIN toHub) \cup {c} |-> IF d = c THEN <<>> ELSE toHub[d]]
      /\ hubEnd' = [d \in (DOMAIN toHub) \cup {c} |-> IF d = c THEN "backlog" ELSE hubEnd[d]]
      /\ cliEnd' = [d \in (DOMAIN toHub) \cup {c} |-> IF d = c THEN "open" ELSE cliEnd[d]]
      /\ toClient' = toClient
      BY <1>5 DEF SpokeOpens, OpenConnection, With
<1>7. (DOMAIN toHub) \cup {c} = 1..(k + 1) /\ k + 1 \in 0..MaxConns
      BY <1>1, <1>3
<1>8. <<>> \in Seq(Packets) /\ Len(<<>>) = 0
      OBVIOUS
<1>9. Connections'
      <2>1. DOMAIN toHub' = 1..(k + 1) /\ DOMAIN toHub' = (DOMAIN toHub) \cup {c}
            BY <1>6, <1>7
      <2>2. /\ toHub' \in [DOMAIN toHub' -> Seq(Packets)]
            /\ \A d \in DOMAIN toHub' : Len(toHub'[d]) <= QueueLength
            BY <1>6, <1>8 DEF Connections
      <2>3. /\ hubEnd' \in [DOMAIN toHub' -> {"backlog", "open", "closed"}]
            /\ cliEnd' \in [DOMAIN toHub' -> {"open", "closed", "reset"}]
            BY <1>6 DEF Connections
      <2>4. /\ toClient' \in [DOMAIN toClient' -> Seq(Packets)] /\ DOMAIN toClient' \subseteq DOMAIN toHub'
            /\ \A d \in DOMAIN toClient' : Len(toClient'[d]) <= QueueLength
            BY <1>6 DEF Connections
      <2>5. \A d \in DOMAIN toHub' : hubEnd'[d] = "open" => d \in DOMAIN toClient'
            BY <1>6 DEF Connections
      <2>6. QED
            BY <1>7, <2>1, <2>2, <2>3, <2>4, <2>5 DEF Connections
<1>10. QED
      BY <1>4, <1>6, <1>9

LEMMA Sent ==
    ASSUME Connections, NEW c \in DOMAIN toHub, NEW packet \in Packets,
           Len(toHub[c]) < QueueLength, SpokeSends(c, packet)
    PROVE  /\ Connections' /\ DOMAIN toHub' = DOMAIN toHub /\ hubEnd' = hubEnd /\ cliEnd' = cliEnd
           /\ \A d \in DOMAIN toHub : d # c => toHub'[d] = toHub[d]
<1>1. toHub' = [toHub EXCEPT ![c] = toHub[c] \o <<packet>>]
      BY DEF SpokeSends, Written
<1>2. /\ toHub[c] \in Seq(Packets) /\ toHub[c] \o <<packet>> \in Seq(Packets)
      /\ Len(toHub[c] \o <<packet>>) = Len(toHub[c]) + 1
      BY DEF Connections
<1>3. UNCHANGED <<toClient, hubEnd, cliEnd>>
      BY DEF SpokeSends
<1>4. QED
      BY <1>1, <1>2, <1>3 DEF Connections

LEMMA ReadBySpoke ==
    ASSUME Connections, NEW c \in DOMAIN toHub, SpokeReads(c)
    PROVE  /\ Connections'
           /\ toHub' = toHub /\ hubEnd' = hubEnd /\ cliEnd' = cliEnd
<1>1. c \in DOMAIN toClient /\ toClient[c] # <<>>
      BY DEF SpokeReads, ClientCanRead, Pending
<1>2. toClient' = [toClient EXCEPT ![c] = Tail(toClient[c])] /\ UNCHANGED <<toHub, hubEnd, cliEnd>>
      BY DEF SpokeReads
<1>3. /\ toClient[c] \in Seq(Packets) /\ Tail(toClient[c]) \in Seq(Packets)
      /\ Len(Tail(toClient[c])) = Len(toClient[c]) - 1
      BY <1>1 DEF Connections
<1>4. QED
      BY <1>1, <1>2, <1>3 DEF Connections

LEMMA ClosedBySpoke ==
    ASSUME Connections, NEW c \in DOMAIN toHub, SpokeCloses(c)
    PROVE  /\ Connections'
           /\ toHub' = toHub /\ hubEnd' = hubEnd
           /\ cliEnd[c] = "open"
           /\ cliEnd' = [cliEnd EXCEPT ![c] = IF Pending(c) = <<>> THEN "closed" ELSE "reset"]
<1>1. DOMAIN cliEnd = DOMAIN toHub
      BY DEF Connections
<1>2. cliEnd' = [cliEnd EXCEPT ![c] = IF Pending(c) = <<>> THEN "closed" ELSE "reset"]
      BY <1>1 DEF SpokeCloses, ClosedByDeath
<1>3. UNCHANGED <<toHub, toClient, hubEnd>> /\ cliEnd[c] = "open"
      BY DEF SpokeCloses
<1>4. QED
      BY <1>2, <1>3 DEF Connections

LEMMA Accepted ==
    ASSUME Connections, NEW c \in DOMAIN toHub, HubAccepts(c)
    PROVE  /\ Connections'
           /\ hubEnd' = [hubEnd EXCEPT ![c] = "open"] /\ toHub' = toHub /\ cliEnd' = cliEnd
           /\ hubEnd[c] = "backlog"
<1>1. /\ toClient' = [d \in (DOMAIN toClient) \cup {c} |-> IF d = c THEN <<>> ELSE toClient[d]]
      /\ hubEnd' = [hubEnd EXCEPT ![c] = "open"] /\ UNCHANGED <<toHub, cliEnd>>
      /\ hubEnd[c] = "backlog"
      BY DEF HubAccepts, With, HubCanAccept
<1>2. <<>> \in Seq(Packets) /\ Len(<<>>) = 0
      OBVIOUS
<1>3. QED
      BY <1>1, <1>2 DEF Connections

LEMMA WrittenByHub ==
    ASSUME Connections, NEW c \in DOMAIN toHub, NEW packet \in Packets,
           c \in DOMAIN toClient, Len(toClient[c]) < QueueLength, HubWrites(c, packet)
    PROVE  Connections' /\ toHub' = toHub /\ hubEnd' = hubEnd /\ cliEnd' = cliEnd
<1>1. /\ toClient' = [toClient EXCEPT ![c] = Append(toClient[c], packet)]
      /\ UNCHANGED <<toHub, hubEnd, cliEnd>>
      BY DEF HubWrites
<1>2. /\ toClient[c] \in Seq(Packets) /\ Append(toClient[c], packet) \in Seq(Packets)
      /\ Len(Append(toClient[c], packet)) = Len(toClient[c]) + 1
      BY DEF Connections
<1>3. QED
      BY <1>1, <1>2 DEF Connections

LEMMA ReadByHub ==
    ASSUME Connections, NEW c \in DOMAIN toHub, HubReads(c) \/ HubReadsLast(c)
    PROVE  /\ Connections' /\ DOMAIN toHub' = DOMAIN toHub /\ hubEnd' = hubEnd /\ cliEnd' = cliEnd
           /\ \A d \in DOMAIN toHub : d # c => toHub'[d] = toHub[d]
           /\ HubReadsLast(c) => toHub'[c] = <<>>
<1>1. toHub[c] # <<>> /\ UNCHANGED <<toClient, hubEnd, cliEnd>>
      BY DEF HubReads, HubReadsLast, HubCanRead, HubCanReadLast
<1>2. PICK s \in {Tail(toHub[c]), <<>>} :
          toHub' = [toHub EXCEPT ![c] = s] /\ (HubReadsLast(c) => s = <<>>)
      BY DEF HubReads, HubReadsLast
<1>3. toHub[c] \in Seq(Packets) /\ Len(toHub[c]) <= QueueLength
      BY DEF Connections
<1>4. s \in Seq(Packets) /\ Len(s) <= QueueLength
      <2>1. CASE s = <<>>
            BY <2>1
      <2>2. CASE s = Tail(toHub[c])
            BY <2>2, <1>1, <1>3
      <2>3. QED
            BY <2>1, <2>2
<1>5. QED
      BY <1>1, <1>2, <1>4 DEF Connections

-----------------------------------------------------------------------------
(* The server's loop and its destructor.                                   *)

Refines == UDSNext(Packets) \/ UNCHANGED udsVars

\* A connection that was hung up on and read to its end stays so.
HungUp(c) == cliEnd[c] = "reset" \/ toHub[c] = <<>>

LEMMA HandlerWrites ==
    ASSUME NEW r, DOMAIN r = DOMAIN srv, ServerFields, srv' \in Handler(r)
    PROVE  \E t \in {0} \cup DOMAIN hubEnd :
              /\ srv' = [r EXCEPT !.target = t]
              /\ DOMAIN srv' = DOMAIN srv /\ srv'.target = t
              /\ t # 0 => hubEnd'[t] = "open" /\ r.written < MaxWritten
              /\ \A f \in DOMAIN srv : f # "target" => srv'[f] = r[f]
<1>1. PICK t \in {0} \cup (IF r.written < MaxWritten THEN WriteTo ELSE {}) :
          srv' = [r EXCEPT !.target = t]
      BY DEF Handler
<1>2. t # 0 => r.written < MaxWritten /\ t \in WriteTo
      BY <1>1
<1>3. t \in {0} \cup DOMAIN hubEnd /\ (t # 0 => hubEnd'[t] = "open")
      BY <1>1, <1>2 DEF WriteTo
<1>4. QED
      BY <1>1, <1>2, <1>3 DEF ServerFields

LEMMA OnlyServerChanges ==
    ASSUME LoopInv, UNCHANGED <<udsVars, cli, errors, sends>>, ServerFields', SnapshotHolds'
    PROVE  LoopInv' /\ Refines
<1>1. UNCHANGED <<toHub, toClient, hubEnd, cliEnd, cli, errors, sends>>
      BY DEF udsVars
<1>2. Connections'
      BY <1>1 DEF LoopInv, Connections
<1>3. LoopsHoldSockets'
      BY <1>1 DEF LoopInv, LoopsHoldSockets
<1>4. ErrorsReal'
      BY <1>1 DEF LoopInv, ErrorsReal
<1>5. QED
      BY <1>1, <1>2, <1>3, <1>4 DEF LoopInv, Refines

LEMMA PollKeeps ==
    ASSUME LoopInv, Poll
    PROVE  LoopInv' /\ Refines
<1>1. UNCHANGED <<udsVars, cli, errors, sends>>
      BY DEF Poll
<1>2. CASE srv' = [srv EXCEPT !.loop = "exit"] /\ srv.loop = "poll" /\ srv.target = 0
  <2>1. ServerFields'
        BY <1>2 DEF LoopInv, ServerFields
  <2>2. srv'.todo = srv.todo /\ srv'.target = srv.target /\ DOMAIN srv.todo = {}
        BY <1>2 DEF LoopInv, ServerFields, SnapshotHolds
  <2>3. SnapshotHolds'
        BY <1>1, <1>2, <2>2 DEF SnapshotHolds
  <2>4. QED
        BY <1>1, <2>1, <2>3, OnlyServerChanges
<1>3. CASE /\ srv' = [srv EXCEPT !.loop = IF Backlog # {} THEN "accept" ELSE "serve",
                                !.todo = Snapshot]
           /\ srv.loop = "poll" /\ srv.target = 0
  <2>1. /\ DOMAIN srv' = DOMAIN srv /\ srv'.loop \in {"accept", "serve"} /\ srv'.todo = Snapshot
        /\ srv'.target = 0 /\ srv'.event = srv.event /\ srv'.owner = srv.owner
        /\ srv'.written = srv.written
        BY <1>3 DEF LoopInv, ServerFields
  <2>2. /\ DOMAIN Snapshot \subseteq mClients
        /\ \A d \in DOMAIN Snapshot : Snapshot[d] = Revents(toHub[d] # <<>>, cliEnd[d] # "open")
        /\ \A d \in DOMAIN Snapshot : Snapshot[d] # {}
        /\ Snapshot = [d \in DOMAIN Snapshot |-> Snapshot[d]]
        BY DEF Snapshot
  <2>3. \A d \in DOMAIN Snapshot :
            /\ Snapshot[d] \in {{"in"}, {"in", "hup"}, {"hup"}}
            /\ "hup" \in Snapshot[d] => cliEnd[d] # "open"
            /\ Snapshot[d] # {"hup"}
    <3>1. ASSUME NEW a \in BOOLEAN, NEW b \in BOOLEAN
          PROVE  /\ Revents(a, b) \in {{}, {"in"}, {"in", "hup"}}
                 /\ "hup" \in Revents(a, b) => b
      <4>1. "hup" # "in"
            OBVIOUS
      <4>2. CASE a /\ ~b
            BY <4>1, <4>2 DEF Revents
      <4>3. CASE b
            BY <4>3 DEF Revents
      <4>4. CASE ~a /\ ~b
            BY <4>4 DEF Revents
      <4>5. QED
            BY <4>2, <4>3, <4>4
    <3>2. {"hup"} # {"in"} /\ {"hup"} # {"in", "hup"}
          OBVIOUS
    <3>3. QED
          BY <2>2, <3>1, <3>2
  <2>4. ServerFields'
        BY <2>1, <2>2, <2>3 DEF LoopInv, ServerFields
  <2>5. SnapshotHolds'
        BY <1>1, <2>1, <2>2, <2>3 DEF LoopInv, SnapshotHolds, mClients, udsVars, Connections
  <2>6. QED
        BY <1>1, <2>4, <2>5, OnlyServerChanges
<1>4. QED
      BY <1>2, <1>3 DEF Poll

LEMMA ServerStepKeeps ==
    ASSUME LoopInv, AcceptFails \/ Served \/ SrvDestroy \/ SrvJoined
    PROVE  LoopInv' /\ Refines
<1>1. UNCHANGED <<udsVars, cli, errors, sends>>
      BY DEF AcceptFails, Served, SrvDestroy, SrvJoined
<1>2. CASE AcceptFails
  <2>1. ServerFields'
        BY <1>2 DEF AcceptFails, LoopInv, ServerFields
  <2>2. SnapshotHolds'
        BY <1>1, <1>2 DEF AcceptFails, LoopInv, ServerFields, SnapshotHolds, udsVars
  <2>3. QED
        BY <1>1, <2>1, <2>2, OnlyServerChanges
<1>3. CASE Served
  <2>1. ServerFields'
        BY <1>3 DEF Served, LoopInv, ServerFields
  <2>2. SnapshotHolds'
        BY <1>1, <1>3 DEF Served, LoopInv, ServerFields, SnapshotHolds, udsVars
  <2>3. QED
        BY <1>1, <2>1, <2>2, OnlyServerChanges
<1>4. CASE SrvDestroy
  <2>1. ServerFields'
        BY <1>4 DEF SrvDestroy, LoopInv, ServerFields
  <2>2. SnapshotHolds'
        BY <1>1, <1>4 DEF SrvDestroy, LoopInv, ServerFields, SnapshotHolds, udsVars
  <2>3. QED
        BY <1>1, <2>1, <2>2, OnlyServerChanges
<1>5. CASE SrvJoined
  <2>1. ServerFields'
        BY <1>5 DEF SrvJoined, LoopInv, ServerFields
  <2>2. SnapshotHolds'
        BY <1>1, <1>5 DEF SrvJoined, LoopInv, ServerFields, SnapshotHolds, udsVars
  <2>3. QED
        BY <1>1, <2>1, <2>2, OnlyServerChanges
<1>6. QED
      BY <1>2, <1>3, <1>4, <1>5

LEMMA AcceptKeeps ==
    ASSUME LoopInv, NEW c \in DOMAIN hubEnd, AcceptClient(c)
    PROVE  LoopInv' /\ Refines
<1> DEFINE r == [srv EXCEPT !.loop = "serve"]
<1>1. DOMAIN hubEnd = DOMAIN toHub /\ c \in DOMAIN toHub
      BY DEF LoopInv, Connections
<1>2. /\ Connections' /\ hubEnd' = [hubEnd EXCEPT ![c] = "open"]
      /\ toHub' = toHub /\ cliEnd' = cliEnd /\ hubEnd[c] = "backlog"
      BY <1>1, Accepted DEF LoopInv, AcceptClient
<1>3. PICK t \in {0} \cup DOMAIN hubEnd :
          /\ DOMAIN srv' = DOMAIN srv /\ srv'.target = t
          /\ t # 0 => hubEnd'[t] = "open" /\ r.written < MaxWritten
          /\ \A f \in DOMAIN srv : f # "target" => srv'[f] = r[f]
      BY HandlerWrites DEF LoopInv, AcceptClient
<1>4. /\ srv'.loop = "serve" /\ srv'.todo = srv.todo /\ srv'.event = srv.event
      /\ srv'.owner = srv.owner /\ srv'.written = srv.written /\ r.written = srv.written
      BY <1>3 DEF LoopInv, ServerFields
<1>5. ServerFields'
      BY <1>3, <1>4 DEF LoopInv, ServerFields
<1>6. SnapshotHolds'
      BY <1>1, <1>2, <1>3, <1>4 DEF LoopInv, SnapshotHolds, Connections
<1>7. LoopsHoldSockets' /\ sends' \in 0..MaxSends
      BY <1>2 DEF LoopInv, LoopsHoldSockets, AcceptClient
<1>8. ErrorsReal'
      BY <1>1, <1>2 DEF LoopInv, ErrorsReal, AcceptClient, Connections
<1>9. Refines
      BY DEF Refines, UDSNext, AcceptClient
<1>10. QED
      BY <1>2, <1>5, <1>6, <1>7, <1>8, <1>9 DEF LoopInv

\* The server has worked off what was set for c.
LEMMA PastKeeps ==
    ASSUME LoopInv, NEW c, c \in DOMAIN srv.todo
    PROVE  /\ DOMAIN Past(c) = DOMAIN srv
           /\ DOMAIN Past(c).todo = DOMAIN srv.todo \ {c}
           /\ \A d \in DOMAIN srv.todo \ {c} : Past(c).todo[d] = srv.todo[d]
           /\ Past(c).todo = [d \in DOMAIN Past(c).todo |-> Past(c).todo[d]]
           /\ \A f \in DOMAIN srv : f # "todo" => Past(c)[f] = srv[f]
BY DEF Past, LoopInv, ServerFields

LEMMA HangupKeeps ==
    ASSUME LoopInv, NEW c \in DOMAIN hubEnd, Hangup(c)
    PROVE  LoopInv' /\ Refines
<1>1. /\ c \in DOMAIN srv.todo /\ srv.loop = "serve" /\ srv.target = 0 /\ srv.todo[c] = {"hup"}
      /\ hubEnd' = [hubEnd EXCEPT ![c] = "closed"] /\ srv' \in Handler(Past(c))
      /\ toHub' = toHub /\ toClient' = toClient /\ cliEnd' = cliEnd
      /\ cli' = cli /\ errors' = errors /\ sends' = sends
      BY DEF Hangup, At, OnlyHup
<1>2. /\ DOMAIN hubEnd = DOMAIN toHub /\ c \in DOMAIN toHub
      /\ hubEnd[c] = "open" /\ cliEnd[c] # "open" /\ HungUp(c)
      BY <1>1 DEF LoopInv, Connections, SnapshotHolds, HungUp
<1>3. PICK t \in {0} \cup DOMAIN hubEnd :
          /\ DOMAIN srv' = DOMAIN srv /\ srv'.target = t
          /\ t # 0 => hubEnd'[t] = "open" /\ Past(c).written < MaxWritten
          /\ \A f \in DOMAIN srv : f # "target" => srv'[f] = Past(c)[f]
  <2>1. DOMAIN Past(c) = DOMAIN srv /\ ServerFields /\ srv' \in Handler(Past(c))
        BY <1>1, PastKeeps DEF LoopInv
  <2>2. QED
        BY <2>1, HandlerWrites
<1>4. /\ srv'.loop = "serve" /\ srv'.event = srv.event
      /\ srv'.owner = srv.owner /\ srv'.written = srv.written /\ Past(c).written = srv.written
      /\ srv'.todo = Past(c).todo
  <2>1. \A f \in DOMAIN srv : f # "todo" => Past(c)[f] = srv[f]
        BY <1>1, PastKeeps
  <2>2. DOMAIN srv = {"loop", "todo", "target", "event", "owner", "written"}
        BY DEF LoopInv, ServerFields
  <2>3. QED
        BY <1>1, <1>3, <2>1, <2>2
<1>5. /\ DOMAIN srv'.todo = DOMAIN srv.todo \ {c}
      /\ \A d \in DOMAIN srv.todo \ {c} : srv'.todo[d] = srv.todo[d]
      /\ srv'.todo = [d \in DOMAIN srv'.todo |-> srv'.todo[d]]
      BY <1>1, <1>4, PastKeeps
<1>6. ServerFields'
  <2>1. srv'.todo \in [DOMAIN srv'.todo -> {{"in"}, {"in", "hup"}, {"hup"}}]
        BY <1>5 DEF LoopInv, ServerFields
  <2>2. srv'.target # 0 => srv'.loop = "serve" /\ srv'.written < MaxWritten
        BY <1>3, <1>4
  <2>3. QED
        BY <1>3, <1>4, <2>1, <2>2 DEF LoopInv, ServerFields
<1>7. SnapshotHolds'
  <2>1. /\ srv'.target # 0 => srv'.target \in DOMAIN toHub' /\ hubEnd'[srv'.target] = "open"
        /\ srv'.loop \notin {"accept", "serve"} => DOMAIN srv'.todo = {}
        BY <1>1, <1>2, <1>3, <1>4
  <2>2. ASSUME NEW d \in DOMAIN srv'.todo
        PROVE  /\ d \in DOMAIN toHub' /\ hubEnd'[d] = "open"
               /\ "hup" \in srv'.todo[d] => cliEnd'[d] # "open"
               /\ srv'.todo[d] = {"hup"} => cliEnd'[d] = "reset" \/ toHub'[d] = <<>>
    <3>1. d \in DOMAIN srv.todo /\ d # c /\ srv'.todo[d] = srv.todo[d]
          BY <1>5
    <3>2. d \in DOMAIN hubEnd /\ hubEnd'[d] = hubEnd[d]
          BY <1>1, <1>2, <3>1 DEF LoopInv, SnapshotHolds
    <3>3. QED
          BY <1>1, <1>2, <3>1, <3>2 DEF LoopInv, SnapshotHolds
  <2>3. QED
        BY <2>1, <2>2 DEF SnapshotHolds
<1>8. Connections'
      BY <1>1, <1>2 DEF LoopInv, Connections
<1>9. LoopsHoldSockets' /\ sends' \in 0..MaxSends
      BY <1>1 DEF LoopInv, LoopsHoldSockets
<1>10. ErrorsReal'
      BY <1>1, <1>2 DEF LoopInv, ErrorsReal, Connections
<1>11. Refines
  <2>1. HubSeesHangup(c)
        BY <1>1, <1>2 DEF HubSeesHangup, HungUp, LoopInv, Connections
  <2>2. HubHangsUp(c)
        BY <1>1, <2>1 DEF HubHangsUp
  <2>3. QED
        BY <2>2 DEF Refines, UDSNext
<1>12. QED
      BY <1>6, <1>7, <1>8, <1>9, <1>10, <1>11 DEF LoopInv

\* POLLIN leaves c with only its hangup to be handled, or done.
LEMMA ReadKeeps ==
    ASSUME LoopInv, NEW c \in DOMAIN hubEnd, ReadClient(c)
    PROVE  LoopInv' /\ Refines
<1> DEFINE hup   == "hup" \in srv.todo[c]
           next  == IF hup THEN [srv EXCEPT !.todo[c] = {"hup"}] ELSE Past(c)
           reads == toHub[c] # <<>> /\ <<c, "hub">> \notin errors
<1>1. /\ c \in DOMAIN srv.todo /\ srv.loop = "serve" /\ srv.target = 0
      /\ IF reads THEN (IF hup THEN HubReadsLast(c) ELSE HubReads(c)) /\ srv' \in Handler(next)
                  ELSE srv' = next /\ UNCHANGED udsVars
      /\ errors' = errors \ {<<c, "hub">>} /\ cli' = cli /\ sends' = sends
      BY DEF ReadClient, At
<1>2. DOMAIN hubEnd = DOMAIN toHub /\ c \in DOMAIN toHub /\ hubEnd[c] = "open"
      BY <1>1 DEF LoopInv, Connections, SnapshotHolds
<1>3. /\ DOMAIN next = DOMAIN srv
      /\ DOMAIN next.todo = IF hup THEN DOMAIN srv.todo ELSE DOMAIN srv.todo \ {c}
      /\ \A d \in DOMAIN next.todo : next.todo[d] = IF d = c THEN {"hup"} ELSE srv.todo[d]
      /\ next.todo = [d \in DOMAIN next.todo |-> next.todo[d]]
      /\ \A f \in DOMAIN srv : f # "todo" => next[f] = srv[f]
  <2>1. CASE hup
        BY <1>1, <2>1 DEF LoopInv, ServerFields
  <2>2. CASE ~hup
        BY <1>1, <2>2, PastKeeps
  <2>3. QED
        BY <2>1, <2>2
<1> HIDE DEF next
<1>4. PICK t \in {0} \cup DOMAIN hubEnd :
          /\ DOMAIN srv' = DOMAIN srv /\ srv'.target = t
          /\ t # 0 => hubEnd'[t] = "open" /\ next.written < MaxWritten
          /\ \A f \in DOMAIN srv : f # "target" => srv'[f] = next[f]
  <2>1. CASE reads
        BY <1>1, <1>3, <2>1, HandlerWrites DEF LoopInv
  <2>2. CASE ~reads
        BY <1>1, <1>3, <2>2 DEF LoopInv, ServerFields
  <2>3. QED
        BY <2>1, <2>2
<1>5. /\ srv'.loop = "serve" /\ srv'.event = srv.event
      /\ srv'.owner = srv.owner /\ srv'.written = srv.written /\ next.written = srv.written
      /\ srv'.todo = next.todo
      BY <1>1, <1>3, <1>4 DEF LoopInv, ServerFields
<1>6. ServerFields'
      BY <1>3, <1>4, <1>5 DEF LoopInv, ServerFields
<1>7. /\ Connections' /\ DOMAIN toHub' = DOMAIN toHub /\ hubEnd' = hubEnd /\ cliEnd' = cliEnd
      /\ \A d \in DOMAIN toHub : d # c => toHub'[d] = toHub[d]
      /\ hup => cliEnd[c] = "reset" \/ toHub'[c] = <<>>
  <2>1. CASE reads
        BY <1>1, <1>2, <2>1, ReadByHub DEF LoopInv
  <2>2. CASE ~reads
    <3>1. Connections' /\ UNCHANGED <<toHub, toClient, hubEnd, cliEnd>>
          BY <1>1, <2>2 DEF LoopInv, Connections, udsVars
    <3>2. toHub[c] = <<>> \/ cliEnd[c] = "reset"
          BY <2>2 DEF LoopInv, ErrorsReal
    <3>3. QED
          BY <3>1, <3>2
  <2>3. QED
        BY <2>1, <2>2
<1>8. SnapshotHolds'
      BY <1>1, <1>2, <1>3, <1>4, <1>5, <1>7 DEF LoopInv, SnapshotHolds
<1>9. LoopsHoldSockets' /\ sends' \in 0..MaxSends
      BY <1>1, <1>7 DEF LoopInv, LoopsHoldSockets
<1>10. ErrorsReal'
      BY <1>1, <1>7 DEF LoopInv, ErrorsReal
<1>11. Refines
      BY <1>1 DEF Refines, UDSNext
<1>12. QED
      BY <1>6, <1>7, <1>8, <1>9, <1>10, <1>11 DEF LoopInv

LEMMA WriteKeeps ==
    ASSUME LoopInv, Write
    PROVE  LoopInv' /\ Refines
<1> DEFINE c == srv.target
           r == [srv EXCEPT !.written = srv.written + 1]
<1>1. /\ c # 0 /\ srv' \in Handler(r) /\ cli' = cli /\ sends' = sends
      /\ \/ errors' = errors \ {<<c, "hub">>} /\ UNCHANGED udsVars
         \/ /\ Len(toClient[c]) < QueueLength /\ errors' = errors
            /\ \E packet \in Packets : HubWrites(c, packet)
      BY DEF Write, Gone, Handler
<1>2. /\ DOMAIN hubEnd = DOMAIN toHub /\ c \in DOMAIN toHub /\ hubEnd[c] = "open"
      /\ c \in DOMAIN toClient /\ srv.loop = "serve" /\ srv.written < MaxWritten
      /\ srv.written \in 0..MaxWritten
      BY <1>1 DEF LoopInv, Connections, SnapshotHolds, ServerFields
<1>3. /\ DOMAIN r = DOMAIN srv /\ r.written = srv.written + 1
      /\ \A f \in DOMAIN srv : f # "written" => r[f] = srv[f]
      BY DEF LoopInv, ServerFields
<1>4. PICK t \in {0} \cup DOMAIN hubEnd :
          /\ DOMAIN srv' = DOMAIN srv /\ srv'.target = t
          /\ t # 0 => hubEnd'[t] = "open" /\ r.written < MaxWritten
          /\ \A f \in DOMAIN srv : f # "target" => srv'[f] = r[f]
      BY <1>1, <1>3, HandlerWrites DEF LoopInv
<1>5. /\ srv'.loop = "serve" /\ srv'.event = srv.event
      /\ srv'.owner = srv.owner /\ srv'.written = srv.written + 1 /\ r.written = srv.written + 1
      /\ srv'.todo = srv.todo
      BY <1>2, <1>3, <1>4 DEF LoopInv, ServerFields
<1>6. ServerFields'
      BY <1>2, <1>3, <1>4, <1>5 DEF LoopInv, ServerFields
<1>7. Connections' /\ toHub' = toHub /\ hubEnd' = hubEnd /\ cliEnd' = cliEnd
  <2>1. CASE UNCHANGED udsVars
        BY <2>1 DEF LoopInv, Connections, udsVars
  <2>2. CASE /\ Len(toClient[c]) < QueueLength
             /\ \E packet \in Packets : HubWrites(c, packet)
        BY <1>2, <2>2, WrittenByHub DEF LoopInv
  <2>3. QED
        BY <1>1, <2>1, <2>2
<1>8. SnapshotHolds'
      BY <1>2, <1>4, <1>5, <1>7 DEF LoopInv, SnapshotHolds
<1>9. LoopsHoldSockets' /\ sends' \in 0..MaxSends
      BY <1>1, <1>7 DEF LoopInv, LoopsHoldSockets
<1>10. ErrorsReal'
      BY <1>1, <1>7 DEF LoopInv, ErrorsReal
<1>11. Refines
      BY <1>1, <1>2 DEF Refines, UDSNext
<1>12. QED
      BY <1>6, <1>7, <1>8, <1>9, <1>10, <1>11 DEF LoopInv

LEMMA CloseKeeps ==
    ASSUME LoopInv, Close
    PROVE  LoopInv' /\ Refines
<1>1. /\ srv.loop = "exit" /\ srv' = [srv EXCEPT !.loop = "ended", !.event = TRUE]
      /\ hubEnd' = [c \in DOMAIN hubEnd |-> "closed"]
      /\ toHub' = toHub /\ toClient' = toClient /\ cliEnd' = cliEnd
      /\ cli' = cli /\ sends' = sends
      BY DEF Close, HubCloses
<1>2. DOMAIN hubEnd = DOMAIN toHub
      BY DEF LoopInv, Connections
<1>3. ServerFields'
      BY <1>1 DEF LoopInv, ServerFields
<1>4. srv'.todo = srv.todo /\ srv'.target = 0 /\ DOMAIN srv.todo = {}
      BY <1>1 DEF LoopInv, ServerFields, SnapshotHolds
<1>5. SnapshotHolds'
      BY <1>4 DEF SnapshotHolds
<1>6. Connections'
      BY <1>1, <1>2 DEF LoopInv, Connections
<1>7. LoopsHoldSockets' /\ sends' \in 0..MaxSends
      BY <1>1 DEF LoopInv, LoopsHoldSockets
<1>8. ErrorsReal'
  <2> SUFFICES ASSUME NEW e \in errors'
               PROVE  /\ e \in (DOMAIN toHub') \X {"hub", "spoke"}
                      /\ \/ e[2] = "hub" /\ cliEnd'[e[1]] = "reset"
                         \/ e[2] = "spoke" /\ hubEnd'[e[1]] = "closed"
      BY DEF ErrorsReal
  <2>1. CASE e \in errors
        BY <1>1, <1>2, <2>1 DEF LoopInv, ErrorsReal
  <2>2. CASE e \notin errors
    <3>1. PICK c \in DOMAIN hubEnd : e = <<c, "spoke">>
          BY <2>2 DEF Close, Backlog, mClients
    <3>2. QED
          BY <1>1, <1>2, <3>1
  <2>3. QED
        BY <2>1, <2>2
<1>9. Refines
      BY DEF Refines, UDSNext, Close
<1>10. QED
      BY <1>3, <1>5, <1>6, <1>7, <1>8, <1>9 DEF LoopInv

-----------------------------------------------------------------------------
(* The clients' loops and the other threads.                               *)

\* A step that leaves the connections, the errors and the server alone.
LEMMA OnlyClientsChange ==
    ASSUME LoopInv, UNCHANGED <<udsVars, srv, errors>>, LoopsHoldSockets', sends' \in 0..MaxSends
    PROVE  LoopInv' /\ Refines
<1>1. UNCHANGED <<toHub, toClient, hubEnd, cliEnd, srv, errors>>
      BY DEF udsVars
<1>2. Connections' /\ ErrorsReal'
      BY <1>1 DEF LoopInv, Connections, ErrorsReal
<1>3. ServerFields' /\ SnapshotHolds'
      BY <1>1 DEF LoopInv, ServerFields, SnapshotHolds
<1>4. QED
      BY <1>1, <1>2, <1>3 DEF LoopInv, Refines

HasSocket == {"poll", "read", "exit", "close"}

\* A client changes that keeps its socket.
LEMMA ClientChanges ==
    ASSUME LoopInv, NEW c \in Conns, NEW r \in ClientStates, ClientBecomes(c, r),
           DOMAIN toHub' = DOMAIN toHub, cliEnd' = cliEnd,
           r.sender \in {"idle", cli[c].sender},
           \/ r.loop = cli[c].loop
           \/ {r.loop, cli[c].loop} \subseteq HasSocket
           \/ r.loop = "ended" /\ cli[c].loop \notin HasSocket \cup {"none"}
    PROVE  LoopsHoldSockets' /\ sends' \in 0..MaxSends /\ srv' = srv
<1>1. cli' = [cli EXCEPT ![c] = r] /\ srv' = srv /\ sends' = sends
      BY DEF ClientBecomes
<1>2. /\ r.loop = "none" <=> cli[c].loop = "none"
      /\ r.loop \in HasSocket <=> cli[c].loop \in HasSocket
      BY DEF LoopInv, LoopsHoldSockets, HasSocket
<1>3. cli' \in [Conns -> ClientStates] /\ cli'[c] = r /\ \A d \in Conns : d # c => cli'[d] = cli[d]
      BY <1>1 DEF LoopInv, LoopsHoldSockets
<1>4. QED
      BY <1>1, <1>2, <1>3 DEF LoopInv, LoopsHoldSockets, HasSocket

LEMMA ClientActsAlone ==
    ASSUME LoopInv, NEW c \in Conns,
           \/ CliPoll(c) \/ CliExit(c)
           \/ CliWait(c) \/ CliWaits(c) \/ CliWaitReturns(c) \/ CliJoined(c) \/ CliDestroy(c)
    PROVE  LoopInv' /\ Refines
<1>1. cli[c] \in ClientStates
      BY DEF LoopInv, LoopsHoldSockets
<1>2. UNCHANGED <<udsVars, errors>>
      BY DEF CliPoll, CliExit, CliWait, CliWaits, CliWaitReturns, CliJoined, CliDestroy, Owner
<1>3. UNCHANGED <<toHub, cliEnd>>
      BY <1>2 DEF udsVars
<1> SUFFICES \E r \in ClientStates :
                /\ ClientBecomes(c, r) /\ r.sender = cli[c].sender
                /\ \/ r.loop = cli[c].loop
                   \/ {r.loop, cli[c].loop} \subseteq HasSocket
      BY <1>2, <1>3, ClientChanges, OnlyClientsChange
<1>4. CASE CliPoll(c)
  <2>1. Revents(Pending(c) # <<>>, hubEnd[c] = "closed") \in {{}, {"in"}, {"in", "hup"}}
        BY DEF Revents
  <2>2. PICK r \in {[cli[c] EXCEPT !.loop = "exit"],
                   [cli[c] EXCEPT !.loop = "read",
                                  !.snap = Revents(Pending(c) # <<>>, hubEnd[c] = "closed")]} :
            ClientBecomes(c, r)
        BY <1>4 DEF CliPoll
  <2>3. r \in ClientStates /\ r.sender = cli[c].sender /\ r.loop \in HasSocket
        BY <1>1, <2>1 DEF ClientStates, HasSocket
  <2>4. cli[c].loop \in HasSocket
        BY <1>4 DEF CliPoll, HasSocket
  <2>5. QED
        BY <2>2, <2>3, <2>4
<1>5. CASE CliExit(c)
  <2> DEFINE r == [cli[c] EXCEPT !.loop = "close", !.event = TRUE]
  <2>1. ClientBecomes(c, r) /\ cli[c].loop \in HasSocket
        BY <1>1, <1>5 DEF CliExit, Told, ClientStates, HasSocket
  <2>2. r \in ClientStates /\ r.sender = cli[c].sender /\ r.loop \in HasSocket
        BY <1>1 DEF ClientStates, HasSocket
  <2>3. QED
        BY <2>1, <2>2
<1>6. CASE CliWait(c) \/ CliWaits(c) \/ CliWaitReturns(c) \/ CliJoined(c)
  <2>1. PICK to \in {"runs", "fetched", "polls", "gone"} :
            ClientBecomes(c, [cli[c] EXCEPT !.owner = to])
        BY <1>6 DEF CliWait, CliWaits, CliWaitReturns, CliJoined, Owner
  <2>2. /\ [cli[c] EXCEPT !.owner = to] \in ClientStates
        /\ [cli[c] EXCEPT !.owner = to].sender = cli[c].sender
        /\ [cli[c] EXCEPT !.owner = to].loop = cli[c].loop
        BY <1>1 DEF ClientStates
  <2>3. QED
        BY <2>1, <2>2
<1>7. CASE CliDestroy(c)
  <2> DEFINE r == [cli[c] EXCEPT !.owner = "joins", !.event = TRUE]
  <2>1. r \in ClientStates /\ r.sender = cli[c].sender /\ r.loop = cli[c].loop
        BY <1>1 DEF ClientStates
  <2>2. QED
        BY <1>7, <2>1 DEF CliDestroy
<1>8. QED
      BY <1>4, <1>5, <1>6, <1>7

LEMMA CliReadKeeps ==
    ASSUME LoopInv, NEW c \in Conns, CliRead(c)
    PROVE  LoopInv' /\ Refines
<1> DEFINE r == [cli[c] EXCEPT !.snap = {}, !.loop = IF "hup" \in cli[c].snap THEN "exit" ELSE "poll"]
<1>1. cli[c] \in ClientStates
      BY DEF LoopInv, LoopsHoldSockets
<1>2. r \in ClientStates /\ r.sender = cli[c].sender /\ r.loop \in HasSocket
      BY <1>1 DEF ClientStates, HasSocket
<1>3. /\ ClientBecomes(c, r) /\ cli[c].loop = "read" /\ errors' = errors \ {<<c, "spoke">>}
      /\ SpokeReads(c) \/ UNCHANGED udsVars
      BY DEF CliRead
<1>4. c \in DOMAIN toHub
      BY <1>3 DEF LoopInv, LoopsHoldSockets
<1>5. Connections' /\ toHub' = toHub /\ hubEnd' = hubEnd /\ cliEnd' = cliEnd
  <2>1. CASE UNCHANGED udsVars
        BY <2>1 DEF LoopInv, Connections, udsVars
  <2>2. CASE SpokeReads(c)
        BY <1>4, <2>2, ReadBySpoke DEF LoopInv
  <2>3. QED
        BY <1>3, <2>1, <2>2
<1>6. LoopsHoldSockets' /\ sends' \in 0..MaxSends /\ srv' = srv
  <2>1. cli[c].loop \in HasSocket
        BY <1>3 DEF HasSocket
  <2>2. QED
        BY <1>2, <1>3, <1>5, <2>1, ClientChanges
<1>7. ServerFields' /\ SnapshotHolds'
      BY <1>5, <1>6 DEF LoopInv, ServerFields, SnapshotHolds
<1>8. ErrorsReal'
      BY <1>3, <1>5 DEF LoopInv, ErrorsReal
<1>9. Refines
  <2>1. c \in DOMAIN hubEnd
        BY <1>4 DEF LoopInv, Connections
  <2>2. QED
        BY <1>3, <2>1 DEF Refines, UDSNext
<1>10. QED
      BY <1>5, <1>6, <1>7, <1>8, <1>9 DEF LoopInv

\* The socket of a client is closed, by its loop or because its process died.
LEMMA SocketCloses ==
    ASSUME LoopInv, NEW c \in Conns, cli[c].loop # "none", NEW r \in ClientStates,
           ClientBecomes(c, r), r.loop \in {"ended", "dead"}, r.sender \in {"idle", cli[c].sender},
           CloseSocket(c)
    PROVE  LoopInv' /\ Refines
<1>1. c \in DOMAIN toHub /\ DOMAIN hubEnd = DOMAIN toHub /\ DOMAIN cliEnd = DOMAIN toHub
      BY DEF LoopInv, LoopsHoldSockets, Connections
<1>2. cli' = [cli EXCEPT ![c] = r] /\ srv' = srv /\ sends' = sends
      BY DEF ClientBecomes
<1>3. /\ Connections' /\ toHub' = toHub /\ hubEnd' = hubEnd
      /\ cliEnd'[c] # "open" /\ \A d \in DOMAIN toHub : d # c => cliEnd'[d] = cliEnd[d]
      /\ cliEnd[c] # "open" => cliEnd' = cliEnd
      /\ \A e \in errors' : e \in errors \/ (e = <<c, "hub">> /\ cliEnd'[c] = "reset")
      /\ Refines
  <2>1. CASE cliEnd[c] = "open"
    <3>1. SpokeCloses(c) /\ errors' = IF Pending(c) # <<>> THEN errors \cup {<<c, "hub">>} ELSE errors
          BY <2>1 DEF CloseSocket
    <3>2. /\ Connections' /\ toHub' = toHub /\ hubEnd' = hubEnd
          /\ cliEnd' = [cliEnd EXCEPT ![c] = IF Pending(c) = <<>> THEN "closed" ELSE "reset"]
          BY <1>1, <3>1, ClosedBySpoke DEF LoopInv
    <3>3. Refines
          BY <1>1, <3>1 DEF Refines, UDSNext
    <3>4. /\ cliEnd'[c] # "open" /\ \A d \in DOMAIN toHub : d # c => cliEnd'[d] = cliEnd[d]
          /\ cliEnd[c] # "open" => cliEnd' = cliEnd
          BY <1>1, <2>1, <3>2
    <3>5. \A e \in errors' : e \in errors \/ (e = <<c, "hub">> /\ cliEnd'[c] = "reset")
          BY <1>1, <3>1, <3>2
    <3>6. QED
          BY <3>2, <3>3, <3>4, <3>5
  <2>2. CASE cliEnd[c] # "open"
    <3>1. UNCHANGED <<toHub, toClient, hubEnd, cliEnd, errors>>
          BY <2>2 DEF CloseSocket, udsVars
    <3>2. Connections'
          BY <3>1 DEF LoopInv, Connections
    <3>3. Refines
          BY <2>2 DEF CloseSocket, Refines
    <3>4. /\ cliEnd'[c] # "open" /\ \A d \in DOMAIN toHub : d # c => cliEnd'[d] = cliEnd[d]
          /\ cliEnd[c] # "open" => cliEnd' = cliEnd
          BY <2>2, <3>1
    <3>5. \A e \in errors' : e \in errors \/ (e = <<c, "hub">> /\ cliEnd'[c] = "reset")
          BY <3>1
    <3>6. QED
          BY <3>1, <3>2, <3>3, <3>4, <3>5
  <2>3. QED
        BY <2>1, <2>2
<1>4. ServerFields'
      BY <1>2 DEF LoopInv, ServerFields
<1>5. SnapshotHolds'
  <2>1. \A d \in DOMAIN toHub : /\ cliEnd[d] # "open" => cliEnd'[d] # "open"
                                /\ cliEnd[d] = "reset" => cliEnd'[d] = "reset"
        BY <1>3
  <2>2. QED
        BY <1>2, <1>3, <2>1 DEF LoopInv, SnapshotHolds
<1>6. LoopsHoldSockets' /\ sends' \in 0..MaxSends
  <2>1. cli' \in [Conns -> ClientStates] /\ cli'[c] = r /\ \A d \in Conns : d # c => cli'[d] = cli[d]
        BY <1>2 DEF LoopInv, LoopsHoldSockets
  <2>2. QED
        BY <1>1, <1>2, <1>3, <2>1 DEF LoopInv, LoopsHoldSockets
<1>7. ErrorsReal'
  <2> SUFFICES ASSUME NEW e \in errors'
               PROVE  /\ e \in (DOMAIN toHub') \X {"hub", "spoke"}
                      /\ \/ e[2] = "hub" /\ cliEnd'[e[1]] = "reset"
                         \/ e[2] = "spoke" /\ hubEnd'[e[1]] = "closed"
      BY DEF ErrorsReal
  <2>1. CASE e = <<c, "hub">> /\ cliEnd'[c] = "reset"
        BY <1>1, <1>3, <2>1
  <2>2. CASE e \in errors
        BY <1>3, <2>2 DEF LoopInv, ErrorsReal
  <2>3. QED
        BY <1>3, <2>1, <2>2
<1>8. QED
      BY <1>3, <1>4, <1>5, <1>6, <1>7 DEF LoopInv

LEMMA CloseOrKillKeeps ==
    ASSUME LoopInv, NEW c \in Conns, CliClose(c) \/ Kill(c)
    PROVE  LoopInv' /\ Refines
<1>1. cli[c] \in ClientStates
      BY DEF LoopInv, LoopsHoldSockets
<1>2. CASE CliClose(c)
  <2> DEFINE r == [cli[c] EXCEPT !.loop = "ended"]
  <2>1. r \in ClientStates /\ r.sender = cli[c].sender /\ r.loop = "ended"
        BY <1>1 DEF ClientStates
  <2>2. ClientBecomes(c, r) /\ CloseSocket(c) /\ cli[c].loop # "none"
        BY <1>2 DEF CliClose
  <2>3. QED
        BY <2>1, <2>2, SocketCloses
<1>3. CASE Kill(c)
  <2> DEFINE r == [cli[c] EXCEPT !.loop = "dead", !.owner = "gone", !.sender = "idle"]
  <2>1. r \in ClientStates /\ r.sender = "idle" /\ r.loop = "dead"
        BY <1>1 DEF ClientStates
  <2>2. ClientBecomes(c, r) /\ CloseSocket(c) /\ cli[c].loop # "none"
        BY <1>3 DEF Kill, Alive
  <2>3. QED
        BY <2>1, <2>2, SocketCloses
<1>4. QED
      BY <1>2, <1>3

LEMMA CreateKeeps ==
    ASSUME LoopInv, NEW c \in Conns, Create(c)
    PROVE  LoopInv' /\ Refines
<1> DEFINE r == [cli[c] EXCEPT !.loop = "poll"]
<1>1. /\ cli' = [cli EXCEPT ![c] = r] /\ srv' = srv /\ sends' = sends /\ errors' = errors
      /\ SpokeOpens(c)
      BY DEF Create, ClientBecomes
<1>2. /\ Connections'
      /\ c \notin DOMAIN toHub
      /\ DOMAIN toHub' = (DOMAIN toHub) \cup {c}
      /\ cliEnd'[c] = "open" /\ toHub'[c] = <<>>
      /\ \A d \in DOMAIN toHub :
            toHub'[d] = toHub[d] /\ hubEnd'[d] = hubEnd[d] /\ cliEnd'[d] = cliEnd[d]
      BY <1>1, Opens DEF LoopInv
<1>3. ServerFields'
      BY <1>1 DEF LoopInv, ServerFields
<1>4. SnapshotHolds'
      BY <1>1, <1>2 DEF LoopInv, SnapshotHolds
<1>5. LoopsHoldSockets' /\ sends' \in 0..MaxSends
  <2>1. cli[c] \in ClientStates /\ r \in ClientStates /\ r.loop = "poll"
        BY DEF LoopInv, LoopsHoldSockets, ClientStates
  <2>2. cli' \in [Conns -> ClientStates] /\ cli'[c] = r /\ \A d \in Conns : d # c => cli'[d] = cli[d]
        BY <1>1, <2>1 DEF LoopInv, LoopsHoldSockets
  <2>3. QED
        BY <1>1, <1>2, <2>1, <2>2 DEF LoopInv, LoopsHoldSockets
<1>6. ErrorsReal'
      BY <1>1, <1>2 DEF LoopInv, ErrorsReal
<1>7. Refines
      BY <1>1 DEF Refines, UDSNext
<1>8. QED
      BY <1>2, <1>3, <1>4, <1>5, <1>6, <1>7 DEF LoopInv

LEMMA SendChecksKeeps ==
    ASSUME LoopInv, NEW c \in Conns, SendChecks(c)
    PROVE  LoopInv' /\ Refines
<1> DEFINE r == [cli[c] EXCEPT !.sender = "checked"]
<1>1. /\ cli' = [cli EXCEPT ![c] = r] /\ sends' = sends + 1 /\ sends < MaxSends
      /\ UNCHANGED <<udsVars, srv, errors>> /\ cli[c].loop # "none"
      BY DEF SendChecks, Alive
<1>2. UNCHANGED <<toHub, cliEnd>>
      BY <1>1 DEF udsVars
<1>3. cli[c] \in ClientStates /\ r \in ClientStates /\ r.loop = cli[c].loop
      BY DEF LoopInv, LoopsHoldSockets, ClientStates
<1>4. cli' \in [Conns -> ClientStates] /\ cli'[c] = r /\ \A d \in Conns : d # c => cli'[d] = cli[d]
      BY <1>1, <1>3 DEF LoopInv, LoopsHoldSockets
<1>5. LoopsHoldSockets'
      BY <1>1, <1>2, <1>3, <1>4 DEF LoopInv, LoopsHoldSockets
<1>6. sends' \in 0..MaxSends
      BY <1>1 DEF LoopInv
<1>7. QED
      BY <1>1, <1>5, <1>6, OnlyClientsChange

LEMMA SendsKeeps ==
    ASSUME LoopInv, NEW c \in Conns, Sends(c)
    PROVE  LoopInv' /\ Refines
<1> DEFINE r == [cli[c] EXCEPT !.sender = "idle"]
<1>1. /\ ClientBecomes(c, r) /\ cli[c].sender = "checked"
      /\ \/ /\ Len(toHub[c]) < QueueLength /\ CanSend(c) /\ errors' = errors
            /\ \E packet \in Packets : SpokeSends(c, packet)
         \/ errors' = errors \ {<<c, "spoke">>} /\ UNCHANGED udsVars
      BY DEF Sends
<1>2. c \in DOMAIN toHub /\ c \in DOMAIN hubEnd
      BY <1>1 DEF LoopInv, LoopsHoldSockets, Connections
<1>3. r \in ClientStates /\ r.loop = cli[c].loop /\ r.sender = "idle"
      BY DEF LoopInv, LoopsHoldSockets, ClientStates
<1>4. /\ Connections' /\ DOMAIN toHub' = DOMAIN toHub /\ hubEnd' = hubEnd /\ cliEnd' = cliEnd
      /\ \A d \in DOMAIN toHub : d # c \/ cliEnd[d] # "open" => toHub'[d] = toHub[d]
  <2>1. CASE UNCHANGED udsVars
        BY <2>1 DEF LoopInv, Connections, udsVars
  <2>2. ASSUME NEW packet \in Packets, SpokeSends(c, packet), Len(toHub[c]) < QueueLength, CanSend(c)
        PROVE  /\ Connections' /\ DOMAIN toHub' = DOMAIN toHub /\ hubEnd' = hubEnd /\ cliEnd' = cliEnd
               /\ cliEnd[c] = "open"
               /\ \A d \in DOMAIN toHub : d # c => toHub'[d] = toHub[d]
        BY <1>2, <2>2, Sent DEF LoopInv, CanSend
  <2>3. QED
        BY <1>1, <2>1, <2>2
<1>5. LoopsHoldSockets' /\ sends' \in 0..MaxSends /\ srv' = srv
      BY <1>1, <1>3, <1>4, ClientChanges
<1>6. ServerFields'
      BY <1>5 DEF LoopInv, ServerFields
<1>7. SnapshotHolds'
  <2>1. \A d \in DOMAIN srv.todo : srv.todo[d] = {"hup"} => "hup" \in srv.todo[d]
        OBVIOUS
  <2>2. \A d \in DOMAIN srv.todo : srv.todo[d] = {"hup"} => cliEnd[d] # "open" /\ d \in DOMAIN toHub
        BY <2>1 DEF LoopInv, SnapshotHolds
  <2>3. QED
        BY <1>4, <1>5, <2>2 DEF LoopInv, SnapshotHolds
<1>8. ErrorsReal'
      BY <1>1, <1>4 DEF LoopInv, ErrorsReal
<1>9. Refines
      BY <1>1, <1>2 DEF Refines, UDSNext
<1>10. QED
      BY <1>4, <1>5, <1>6, <1>7, <1>8, <1>9 DEF LoopInv

-----------------------------------------------------------------------------
(* The theorems.                                                           *)

LEMMA LoopInvInit == Init => LoopInv
<1> SUFFICES ASSUME Init PROVE LoopInv
    OBVIOUS
<1>1. /\ toHub = <<>> /\ toClient = <<>> /\ hubEnd = <<>> /\ cliEnd = <<>>
      /\ srv = NewServer /\ cli = [c \in Conns |-> NewClient] /\ errors = {} /\ sends = 0
      BY DEF Init, UDSInit
<1>2. Connections
  <2>1. 0 \in 0..MaxConns /\ DOMAIN toHub = 1..0
        BY <1>1
  <2>2. QED
        BY <1>1, <2>1 DEF Connections
<1>3. ServerFields /\ SnapshotHolds
      BY <1>1 DEF ServerFields, SnapshotHolds, NewServer
<1>4. LoopsHoldSockets
      BY <1>1 DEF LoopsHoldSockets, NewClient, ClientStates
<1>5. ErrorsReal /\ sends \in 0..MaxSends
      BY <1>1 DEF ErrorsReal
<1>6. QED
      BY <1>2, <1>3, <1>4, <1>5 DEF LoopInv

LEMMA LoopStep ==
    ASSUME LoopInv, [Next]_sockVars
    PROVE  LoopInv' /\ Refines
<1>1. CASE ServerLoop
      BY <1>1, PollKeeps, ServerStepKeeps, AcceptKeeps, ReadKeeps, HangupKeeps, WriteKeeps, CloseKeeps
      DEF ServerLoop
<1>2. CASE SrvJoined \/ SrvDestroy
      BY <1>2, ServerStepKeeps
<1>3. ASSUME NEW c \in Conns, ClientLoop(c) \/ ClientThreads(c)
      PROVE  LoopInv' /\ Refines
      BY <1>3, ClientActsAlone, CliReadKeeps, CloseOrKillKeeps, SendsKeeps
      DEF ClientLoop, ClientThreads
<1>4. ASSUME NEW c \in Conns,
             Create(c) \/ SendChecks(c) \/ CliWait(c) \/ CliDestroy(c) \/ Kill(c)
      PROVE  LoopInv' /\ Refines
      BY <1>4, CreateKeeps, SendChecksKeeps, ClientActsAlone, CloseOrKillKeeps
<1>5. CASE UNCHANGED sockVars
  <2>1. UNCHANGED <<udsVars, srv, cli, errors, sends>>
        BY <1>5 DEF sockVars
  <2>2. ServerFields' /\ SnapshotHolds'
        BY <2>1 DEF LoopInv, ServerFields, SnapshotHolds, udsVars
  <2>3. QED
        BY <2>1, <2>2, OnlyServerChanges
<1>6. QED
      BY <1>1, <1>2, <1>3, <1>4, <1>5 DEF Next

LEMMA LoopInvTypes == LoopInv => TypeOK
<1> SUFFICES ASSUME LoopInv PROVE TypeOK
    OBVIOUS
<1>1. /\ DOMAIN toHub \subseteq Conns
      /\ \A c \in DOMAIN toHub : Len(toHub[c]) <= QueueLength /\ Len(Pending(c)) <= QueueLength
  <2>1. DOMAIN toHub \subseteq Conns
        BY DEF LoopInv, Connections, Conns
  <2>2. Len(<<>>) <= QueueLength
        OBVIOUS
  <2>3. QED
        BY <2>1, <2>2 DEF LoopInv, Connections, Pending
<1>2. srv.target \in {0} \cup mClients
      BY DEF LoopInv, SnapshotHolds, Connections, mClients
<1>3. QED
      BY <1>1, <1>2
      DEF TypeOK, LoopInv, Connections, ServerFields, LoopsHoldSockets, ClientStates, ErrorsReal

\* Every variable of the loops has its type (UDSServer.h, UDSClient.h): sockets hold no
\* more than they can, a handler of the server writes only to connections it has not
\* hung up on, and only a connection that was closed unread has an error pending.
THEOREM SocketTypesOK == Spec => []TypeOK
<1>1. Spec => []LoopInv
      BY LoopInvInit, LoopStep, PTL DEF Spec
<1>2. QED
      BY <1>1, LoopInvTypes, PTL

\* The poll loops of UDSServer and UDSClient do to the connections what UDS says: a
\* snapshot of poll that is out of date, an error an earlier call has cleared and a check
\* of Send made before a close lead to nothing else.
THEOREM LoopsImplementUDS == Spec => ImplementsUDS
<1>1. Init => UDSInit
      BY DEF Init
<1>2. LoopInv /\ [Next]_sockVars => LoopInv' /\ [UDSNext(Packets)]_udsVars
      BY LoopStep DEF Refines
<1>3. QED
      BY <1>1, <1>2, LoopInvInit, PTL DEF Spec, ImplementsUDS
=============================================================================
