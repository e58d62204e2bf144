# A TLA+ model of ipc-pubsub

ipc-pubsub lets the processes of one machine publish and subscribe to topics.
Who takes part, and who announces or subscribes to what, is the *topology*. It
is kept by a hub and spokes protocol over Unix sockets: this is the part of the
library where threads, processes and failures meet, and it is what most of these
modules model. Paths below are relative to the repository (`src/`).

## The system

| Part | State | Operations | Talks to |
|---|---|---|---|
| **TopologyServer**, the hub (`lib/TopologyServer.cc`) | `mHistory`, the events of the group; `mNextSeq`; per client descriptor the last number sent, the node's id and what it sent | constructor with a digest, `OnConnect`, `OnData`, `OnDisconnect`, one `PurgeDisconnected` after 200 ms | called by its UDSServer's thread and its purge thread, all under one mutex; writes to the clients' sockets |
| **TopologyManager**, a spoke (`lib/TopologyManager.cc`) | `mHistory`, `mNodes` (the view), `mBacklog`, `mClient` | `Announce`, `Retract`, `Subscribe`, `Unsubscribe` for the application; `MainLoop`; `ApplyUpdate`; the destructor | connects through UDSClient, creates a TopologyServer when it cannot connect; calls IPCNode's callbacks |
| **UDSServer / UDSClient** (`lib/UDS*.cc`) | descriptors, an eventfd for shutdown | `Create`, a poll loop each (accept, read, hangup), `Send`, `Wait`, `Shutdown`, destructors | the kernel's `SOCK_SEQPACKET` sockets |
| **IPCNode** (`lib/IPCNode.cc`) | neighbours by id, handlers by topic | `Publish`, `Subscribe`, …, callbacks of the topology, a loop that reads datagrams, the destructor | TopologyManager; datagrams to the neighbours |
| **Publisher** (`lib/Publisher.cc`) | the descriptors of its clients | an accepting thread, `Send` | passes a descriptor of a shared memory segment to every Subscriber |
| **Subscriber, IPCMessage** (`lib/Subscriber.cc`, `lib/IPCMessage.cc`) | a socket, an eventfd; a mapped segment per message | a reading thread that calls back, `WaitForShutdown`, the destructors | the Publisher; independent of the topology |
| **Utils**, `cmd/`, build files | – | – | – |

Every process runs a spoke. The spoke that binds the *announce address* also runs
the hub and connects to itself. A spoke sends messages without a number; the hub
mints a number (`seq`) and a random `uid`, appends the message to its history and
broadcasts it. A new connection is first sent the whole history. When the hub's
process dies all spokes race to bind the address again; the winner's history is
the digest of the new hub, and everybody replays his own history to it and
introduces himself anew.

What makes it hard: three threads per spoke share the client, the backlog and the
history; the hub serves connections, data, hangups and its purge in any order; a
message reaches a client by the digest or by a broadcast; hubs die with packets in
flight; histories of several hubs, each with holes, are merged by number alone;
poll loops work off snapshots while the other end goes on, and threads block on
full sockets that others have to read.

What makes each part correct:

* hub: clients receive every event once, in order; numbers are never reused;
  nobody who lives is declared left as long as it stays; its asserts hold;
* spoke: its history stays sorted (it may be the next digest); no call is lost or
  doubled between the API and the socket; the loop always gets back to a hub; the
  destructor leaves nothing behind;
* connections: a packet is read at most once, a hangup handled once, each end
  learns of the other's, and who waits returns;
* group: all views agree when nothing is under way and end up as the running
  nodes with their topics; a dead hub is replaced;
* node: the table of neighbours follows the view; a sender's messages arrive in
  order, only where they were asked for; `Publish` and the destructor return;
* shared memory: segments are released, every client gets a message once and in
  order, `Send` returns, the publisher's end is noticed.

## Modules

| Module | Models | How |
|---|---|---|
| `TopologyMessages` | `protos/index.proto`; `lower_bound`, insert, `PruneRemoved`, the walk of `PurgeDisconnected` | messages are records `[seq, uid, body]`, a history is a sequence; what of it `Broadcast` still has to send (`Unsent`); no state |
| `TopologyServer` | the hub | a handler is one step (it holds `mMtx` throughout) with its `PruneRemoved` and `Broadcast`; a failed assert ends the process (`aborted`) |
| `OrderedBroadcast` | what the hub promises, without saying how | one log; who joins gets it, members get each addition |
| `UDS` | the connections | packets in flight in both directions and the state of both ends; guards say what each poll loop can see; `UDSNext` what may happen at all |
| `SocketLoops` | UDSServer and UDSClient themselves | poll, its snapshot and each thing done with it are steps of their own; bounded sockets; implements `UDS` |
| `TopologyManager` | the spokes | a step is what a thread does between taking and giving back `mMtx`, or one unlocked access; `pc` is MainLoop's place, `owner` the destructor's |
| `OpenManager` | one spoke in an open world | hubs appear, die, read and write anything at any time |
| `Topology` | the group | spokes, hub (`INSTANCE TopologyServer`) and connections; processes start, call, get killed |
| `IPCNode` | the nodes: tables of neighbours, Publish, the datagrams, handlers, the destructor | three threads per node that share `mMtx`; the topology is one log of events that every node applies at its pace |
| `SharedMemory` | Publisher, Subscriber, IPCMessage | the accepting thread, Send and, per subscriber's process, the reading thread and the thread that owns it |
| `HistoryLemmas` | – | lemmas about histories: searching, inserting, pruning, extending |
| `SpokeLemmas` | – | lemmas about spokes: their connections, and what a view says of the messages applied to it |
| `TopologyServerProofs` | – | theorems about the hub: asserts, delivery, refinement |
| `TopologyProofs` | – | theorems about the group |
| `SocketLoopsProofs` | – | the loops implement `UDS` |
| `OpenManagerProofs` | – | theorems about the spoke in an open world |
| `IPCNodeProofs`, `SharedMemoryProofs` | – | theorems about the nodes and the shared-memory path |
| `MC_*` | – | instances for TLC |

Which rests on which: `Topology` composes `TopologyServer`, `TopologyManager` and
`UDS`; `OpenManager` puts `TopologyManager` and `UDS` into an open world.
`SocketLoops` shows that the real loops do to the connections only what `UDS` says
(*ImplementsUDS*), so that the models of the group may use `UDS`. `TopologyServer`
implements `OrderedBroadcast` (*KeepsPromise*), whose one log is the topology
`IPCNode` assumes.

Definitions marked *Deviation* are plausible mistakes (a dropped guard, an off by
one). No specification uses them: substituted for the definition that follows
them, each makes a run fail, which shows that the property it is meant for
depends on the code.

### Correspondence and abstractions

* `TopologyServer`: `mHistory`, `mNextSeq`, `mClients` are the members of these
  names. `wire[fd]` is what was written to a client. A client's own history is
  kept as the set of its bodies, because only `IsRedundant` reads it. The order in
  which `PurgeDisconnected` walks its unordered set is arbitrary.
* `TopologyManager`: the variables are functions of the node. `client` and
  `unsent` are MainLoop's locals `client` and `backlog`. `owner` is where the
  destructor is: `mShutdown` is set as soon as it no longer "uses" the manager. The
  view keeps for each node its publications with their mime and its subscriptions;
  names and addresses never change while a node lives.
* A node's id is a random number; a restarted process is a new node. Ids in the
  instances start at 2, since `PruneRemoved` treats id 1 specially by mistake.
* `IntroduceOurselves` is one step: it holds `mMtx`, and the peer may read in
  between only what a later reader also finds in the socket. That the process dies
  before it has sent all is covered by what is lost at a hangup.
* `Serve`: a node that already hosts the hub constructs the new server first and then
  destroys the old one, which frees the address the new one should have
  (`TopologyManager.cc:264`); the group is then without a hub (`NoHub`). The runs do not
  reach this branch, since a node that hosts the hub stays connected to it until it dies
  (`ServesAnew` in `TopologyProofs` proves it while the hub is not killed).
* A connection's descriptor is never reused: the hub does not close the
  descriptors of clients that hang up. In `SocketLoops`, too, a number is not given
  to another file while somebody still goes by it.
* What a loop reads at a hangup: poll reports data and hangup together, the loop
  reads one packet and then gives up the connection, the rest is lost. If the
  closing side left packets unread the kernel resets the connection: the next read
  or write of the other side reports and clears the error. On Linux a send to a
  closed `SOCK_SEQPACKET` peer fails without a signal.
* In `TopologyServer`, `Topology` and `OpenManager` sockets have unbounded buffers,
  so writes do not block. In `SocketLoops`, `IPCNode` and `SharedMemory` they are
  bounded and writes block.
* The 200 ms of the purge thread and the 1 ms sleep are not timed: the purge comes
  at any moment after the hub's creation.
* `SocketLoops`: `srv` and `cli[c]` are the two objects with their loops, what poll
  has set, their eventfd and their owner. The callbacks of the server are any
  sequence of writes to its clients (TopologyServer's are of this kind).
* `IPCNode`: `task` is what the application's and the reading thread are doing;
  `mMtx` is held from the moment Publish picks its receivers to its last `sendto`,
  which waits while the receiver's queue is full. A callback or `OnData` needs the
  lock free. `padded` stands for the bytes of the bound address that `Create` leaves
  uninitialised. A payload is a number, the publisher's count of its own messages;
  payloads are never empty (`OnData` drops empty ones).
* `SharedMemory`: the message of the k-th Send is segment k; a segment is there
  while a name, a descriptor or a packet refers to it. `Send` walks `mClients`
  without the lock: an append that reallocates the vector (`Full`) makes the rest of
  the walk read arbitrary descriptors, of which the model keeps the clients' and one
  that is nobody's; that it may crash instead is `PublisherDies`.
* `uid`s are random; in `Topology` the uid is the number of the hub (`epoch`),
  which is what random numbers give with probability nearly 1.

## Runs

Runs that pass:

* **server** (`MC_TopologyServer.cfg`, 390,114 states) – three connections, one each,
  to a hub that starts from an empty history, from a digest with a hole, a topic and
  a LEAVE, or from one that misses what its clients know. Clients send novel
  messages, repeat them, send one without an id, and replay an old history: one all of
  it, messages about other nodes and a LEAVE included, another a message about a
  neighbour (`IntroduceOurselves` sends all that the spoke remembers). So a client's
  `nodeId` is overwritten, LEAVEs name neighbours, and the asserts about uids may fail.
  *SequenceAssertionsHold*, *HistoryInOrder*, *EveryoneHasHistory*,
  *DeliveredInOrder*, *OneMessagePerSeq*: the digest and the broadcasts together give
  everyone every surviving message, once, in order. *KeepsPromise*: the handlers implement `OrderedBroadcast`. Three
  connections are enough to have one client that stays, one that leaves and one that
  comes late, with the purge at any point between them.
* **stable** (`MC_Topology_stable.cfg`, 59,847 states) – two nodes that race to create
  the hub, announce and subscribe at any moment; the one without the hub may be killed
  once introduced. *NoCallLost*, *OneOrderedStream*, *QuiescentAgreement*,
  *LeaveOnlyOfDead* and, as liveness, *ViewsConverge*. A spoke whose callback has applied
  the digest before `IntroduceOurselves` runs replays it, so the hub takes it for other
  nodes until it has read the introduction. The kill waits for that, because before it
  the group goes wrong (run wrongleave).
* **failover** (`MC_Topology_failover.cfg`, 128,429 states) – two nodes, the hub killed
  at any moment, a call at any moment. Bound: four connections, enough for both nodes
  to connect to the first hub, and for the survivor to reconnect. *HubAssertionsHold*,
  *MintedIdentity*, *SpokesSorted* and, as liveness, *AllAttached*.
* **manager** (`MC_OpenManager.cfg`, 1,100,111 states) – one spoke, two connections, two
  calls, one received message, the destructor at any moment. *EachCallOnce*, *ClientIsCurrent*,
  *DestroyedCleanly*: the destructor clears `mClient` without the lock
  while MainLoop may be publishing a new one, and yet nothing is left of it when it
  returns.
* **sockets** (`MC_SocketLoops.cfg`, 173,648 states) – one server and two clients, room
  for one packet per direction, two sends, two writes by handlers; one client may be
  killed, the other waits and is destroyed, accept may fail, the server may be
  destroyed. *ImplementsUDS*, *OtherEndLearns*, *CallsReturn*, *DestructorsReturn*.
  With room for one packet the second write already blocks, with two clients the
  server has one to block on and one to neglect.
* **nodes** (`MC_IPCNode.cfg`, 195,230 states) – three nodes, queues of one datagram: 3
  publishes twice to 2, whose handler replies with another topic, as `cmd/ponger.cc`
  does; 2 publishes that topic itself too, and may be destroyed at any moment; 4 joins,
  subscribes, listens and may be killed at any moment. The start (`MCInit`) is a
  reachable state in which 2 and 3 know each other. *NeighboursFollowView*,
  *OnceInOrder*, *NobodyElseHears* and, as liveness, *PublishReturns*, *LoopEnds* and
  *TablesConverge*: 3 waits for 2, 2 for 4, each with its own lock held, and yet all
  calls return, because 4's loop gets 4's lock, and so does the destructor's join.
  This depends on the group having no cycle of publishers: with two nodes that
  publish to each other and full queues both can hold their lock in `sendto` while
  their reading threads wait for it, and a node that publishes to itself can wait
  for itself. The run does not cover such groups.
* **shm** (`MC_SharedMemory.cfg`, 450,506 states) – a publisher that sends twice and two
  subscribers that connect at any moment, with room for one packet each. shm_open,
  write and recvmsg may fail, in one subscriber a received descriptor may not be seekable
  or mapped, the publisher and one subscriber may die at any moment,
  callbacks may keep messages, subscribers wait or are destroyed. *SegmentsReleased*
  (which names the descriptors that `Create` drops as the one leak),
  *ExactlyOnceInOrder*, *SendReturns*, *EndIsNoticed*. The vector reallocates at each
  of the two appends, so every interleaving of a walk with a reallocation occurs.

Runs that show a disagreement of the code with what the repository says of it;
each checks one property, and PROJECT.json quotes the lines:

* **leaveuid** – a replayed LEAVE has no uid; `assert(msg.uid() != 0)` ends the hub
  (`TopologyServer.cc:160`).
* **wrongleave** – `OnData` takes the node of a replayed message for the client's id
  (`:203`); if the client dies then, a live neighbour is declared left.
* **rejoin** – the new hub purges a spoke that is slow to reconnect; its JOIN is then
  pruned before it is broadcast (`:55`), and it stays unknown for ever.
* **nullwait** – the hub dies during the flush of a backlog; MainLoop calls
  `mClient->Wait()` through the pointer that `Send` has cleared
  (`TopologyManager.cc:256`).
* **address** – `Create` binds all of a `sockaddr_un` whose tail it never initialised
  (`IPCNode.cc:163`, `:185`). The name is abstract, so all bytes count, and senders,
  who fill the tail with zeros, miss it unless the stack happened to be clean.

Deadlock is not checked: a group at rest, or a process that has ended, has nothing
to do. That nothing stops *before* its work is done is what the liveness
properties say.

### Known disagreements without a run

These need no interleaving to be seen. The models contain the steps as the code has
them.

* `TopologyServer.cc:63`: a misplaced parenthesis makes `PruneRemoved` ask whether node
  1 has left for the topic changes of every node, against the comments at `:52` and
  `:64`: topic changes of nodes that left stay in the history.
* `Subscriber.cc:81`: when `recvmsg` fails the thread returns from inside the loop and
  skips the notification that the comment at `:91` announces; a publisher that dies
  before it has accepted a connection leaves `WaitForShutdown` waiting.
* `TopologyManager.cc:54`: "Destroying the client should be sufficient to trigger its
  shutdown", but MainLoop's own copy of the pointer keeps the client alive: the join
  waits until the hub goes. `DropClient` and `Joined` are the two steps.
* `TopologyManager.cc:211`: `Unsubscribe` locks `mMtx` twice (`stuck`).
* `TopologyServer.cc:126`: `IsRedundant` compares with all a client ever sent: ANNOUNCE,
  RETRACT, ANNOUNCE on one connection ends with the topic retracted.
* `TopologyManager.cc:222`: what a hub's socket took but the hub did not read when it
  died is lost; nothing sends it again.
* `IPCMessage.cc:51` and `:57`: `Create` has copied the descriptor from the packet when
  it finds that it cannot seek or map; it returns `nullptr` and nobody closes the
  descriptor, so the segment stays as long as the subscriber's process (`lost` in
  `SharedMemory`).
* `TopologyManager.cc:140`: spokes replay the JOINs of nodes that died. One that
  reconnects after the new hub's only purge (`TopologyServer.cc:273-277`) can bring such
  a JOIN back, and nothing removes it any more: the dead node stays in the views.
* `TopologyServer.cc:94`: a client that hangs up before it has said who it is is declared
  left as node 0.
* `TopologyServer.cc:80`: `Broadcast` blocks with the hub's lock held, `Send` and
  `IntroduceOurselves` with the spoke's, which `ApplyUpdate` needs: with full sockets
  both wait for each other. *CallsReturn* and *DestructorsReturn* of `SocketLoops` hold
  because there the client's callback takes no lock.

### Bounds

`MaxConns` caps connections (a spoke that needs one more waits; *AllAttached* shows
that none has to in the instances), `MaxCalls` and `MaxReceived` cap calls and
received messages in OpenManager, and `Calls` gives each application of Topology a
set of bodies, each passed once. Numbers minted are bounded by these.
`MaxPublished[n]` caps the publications of the application at n, `MaxSends` the calls
of Send in SocketLoops and SharedMemory and `MaxWritten` the handlers' writes.
`QueueLength` is the length of a socket's queue: with one place the second packet
already waits. In `SharedMemory` a walk whose vector has moved crosses at most as many
elements as there are clients when it reads `end()`; in the code it may go on.

### Fairness

`Topology!Spec` has one weak fairness condition, on `System`: as long as some
thread can go on, some thread does. The loops run on a preemptive scheduler and
block only where the guards say. It is weaker than fairness to each thread, and
enough here because the system's own steps, with the environment's bounded, come
to an end. `IPCNode!Spec` has the same condition. `SocketLoops` and `SharedMemory`
have weak fairness per thread (a loop, a Send under way, a waiting owner), because
there one thread's waiting depends on another's progress; a blocked write is not
enabled, so fairness does not help it unless somebody reads. Starting, connecting,
calling, destroying and killing are not fair, nor is being accepted by a Publisher.

## Proofs

The provers check what follows for every value of the constants. Each section names
the inductive invariant: the property itself seldom is one. TLC checked every
invariant on the run of its module before it was proved.

### The hub: `TopologyServerProofs`

For any set of clients, messages they send, uids and digests:

| Theorem | States |
|---|---|
| `ServerTypeCorrect`, `HistoryStaysInOrder`, `AssertionsNeverFail` | `[]TypeOK`, `[]HistoryInOrder`, `[]SequenceAssertionsHold` |
| `NobodyMissesHistory` | `[]EveryoneHasHistory` |
| `NumbersMeanOneMessage` | `[]OneMessagePerSeq` |
| `DeliveryInOrder` | `[]DeliveredInOrder`, if no number occurs twice in a digest |
| `ClientsHoldDigests` | what a client was sent is a digest the hub may start from |
| `ServerKeepsPromise` | `KeepsPromise`: the hub implements `OrderedBroadcast` |

The asserts are not inductive: that the next `Broadcast` finds nothing at or above
`mNextSeq`, and the next `OnConnect` nothing out of order, has to be known before. The
first invariant is `IInv == TypeOK /\ HistoryInOrder /\ SequenceAssertionsHold`. Each
handler but `OnConnect` hands `Settle` a sorted history below the next number it passes
along, and pruning only leaves messages out (`PruneKeepsOrder` in `HistoryLemmas`).

Delivery needs `DInv`, five conjuncts on top. `Broadcast` decides by a client's number
alone whether it has a message, so a connected client's number must be that of the last
message of the history (`ClientsCurrent`). Pruning must not lower that number: a LEAVE
that prunes the last message comes after it and stays, and nothing that an earlier LEAVE
prunes comes later (`LeavesLast`). And a new message must be new to everybody who was
ever sent anything, connected or not (`WiresFollow`). With this every handler settles a
history `old \o news` of which a client that has `old` is sent exactly the survivors of
`news`; the refinement of `OrderedBroadcast` is read off the same step
(`NextDelivers`).

Assumptions: digests are sorted (`DigestsAssumption`; `TopologyProofs` proves
*SpokesSorted*), copies of a message are the same and nothing follows a LEAVE that it
would prune (`DigestsLawful`); clients send messages, uids are numbers. `DigestsLawful`
is what `ClientsHoldDigests` proves of everything a client of one hub holds, so a hub
whose spoke was the client of one such hub starts lawfully. A spoke that has lived under
several hubs merges their histories by number and may break it, and its digest may
have a number twice: these theorems do not cover such hubs, and what is left of them
is in the section on the group. Nothing is assumed of what clients say: they may replay
any messages about any node. Whom the hub declares left depends on what they say, so
this, too, is a theorem about the group (`OnlyTheDeadLeave`).

### The connections: `SocketLoopsProofs`

For any number of connections, packets, length of the queues, sends and writes:
`SocketTypesOK` (`[]TypeOK`) and `LoopsImplementUDS` (`ImplementsUDS`): the poll loops do
to the connections what `UDS` says, which is what lets the models of the group use `UDS`.
The invariant `LoopInv` says what stays true of a snapshot of poll and of a check made
before a write while the other end goes on: the connections in the snapshot are clients
still, one that was reported hung up is, and when its last packet has been read it has
nothing more to be read or was reset (`SnapshotHolds`); a client's loop has its socket
until it closes it (`LoopsHoldSockets`); an error is pending only on a connection that
was closed unread (`ErrorsReal`).

### The spoke: `OpenManagerProofs`

For any messages that hubs may write, any number of connections and any calls:

* `OpenTypesHold` (`[]OpenTypeOK`), `NoOldClient` (`[]ClientIsCurrent`),
  `DestructorCleansUp` (`[]DestroyedCleanly`), by `OpenInv`. MainLoop has a client exactly
  between `Connect` and the return of `Wait`, no other connection is open, and an owner
  that is gone has joined the loop or died with it (`LoopHolds`, `OwnerKnows`). So it does
  no harm that the destructor clears `mClient` without the lock.
* `CallsHandedOverOnce` (`[]EachCallOnce`), by `CallsInv`: every step that takes a message
  out of the backlog, of MainLoop's copy or of a socket puts it into the next of these or
  counts it as read. The theorem assumes `ToldApart`, that hubs write nothing of the node
  itself about the topics that the calls are counted for: the spoke repeats what it is
  told of itself when it introduces itself to the next hub, and the repetition of a call
  looks like the call. The history it replays is set apart for the same reason. The
  assumption distinguishes the messages that are counted; it restricts nothing else, and
  the instance of the run manager satisfies it with the topics `t` and `x`.

### The nodes: `IPCNodeProofs`

For any nodes, topics, handlers that reply, lengths of the queues, deaths:
`NodeTypesOK` (`[]TypeOK`), `TablesFollowView` (`[]NeighboursFollowView`),
`PublicationsInOrder` (`[]OnceInOrder`) and `OnlySubscribersHear` (`[]NobodyElseHears`).
The invariant is `NodeInv`: events of the group are lawful (a node joins once, first,
and leaves last), a table is what the applied events make it, the lock is held by the
thread that publishes and is sending its node's last message to nodes that asked for it
(`LockHeld`), and a message received is not of the publication under way to those it
still has to be sent to (`ReceivedLawfully`). The last two are why the publications of
two threads of a node do not overtake each other. Assumed of the constants: replies are
about topics (`IPCAssumption`). The theorems are about `Spec`; the run starts in
a state on the way, which they cover.

### The shared-memory path: `SharedMemoryProofs`

For any set of subscribers, mortal or keeping messages or not, any length of their
queues and any number of Sends: `SharedMemoryTypeCorrect` (`[]TypeOK`),
`SegmentsAreReleased` (`[]SegmentsReleased`: what is left of a segment is its Send, its
packets, its messages or descriptors that `Create` dropped) and `MessagesArriveOnceInOrder`
(`[]ExactlyOnceInOrder`).

A segment that nobody sends any more is released because every return of `Send` passes
both scope guards, so that only the segment of the Send under way has a name and only in
its course are descriptors open, and because in a subscriber a descriptor and its message
come and go together (`Owned`). That a client is listed once, which is part of the type
invariant, needs the course of a connection: it waits in the backlog at one place, is not
listed while it waits, and whoever has no thread yet waits nowhere (`Registered`). That is
`IInv == TypeOK /\ Registered /\ Owned`. Delivery adds `Delivering`: who is open is listed
(`OpenListed`), and during a walk over a vector that has not moved, whoever has the
message is behind it (`WalkedOnce`) and whoever is to have it has it or is ahead
(`WalkReaches`). The only assumption is on the constants (`SharedMemoryAssumption`).

### The group: `TopologyProofs`

For any nodes, calls, mortal nodes and number of connections. The hub's own theorems
cannot be cited here: they are about clients that send anything, but digests that are
lawful, and a hub that takes over may have an unlawful one. So the proofs look at a
handler from outside: it takes a history and some additions, and prunes (`Settling`);
`HistoryLemmas` says what that leaves of a history others hold a copy of.

| Theorem | States | If |
|---|---|---|
| `WorldInvariant`, `GroupTypeCorrect` | `[]WorldInv`, `[]TypeOK` | |
| `HubsNeverAbortOnNumbers` | `[]HubAssertionsHold` | |
| `HistoriesStaySorted` | `[]SpokesSorted` | |
| `MintedInvariant`, `MintedMessagesIdentified` | `[]MintedInv`, `[]MintedIdentity` | `Nodes` is finite (for the second) |
| `StableInvariant`, `CallsAreKept`, `StreamsAreOrdered` | `[]StableInv`, `[]NoCallLost`, `[]OneOrderedStream` | the hub's process is not killed |
| `ViewsAgree` | `[]QuiescentAgreement` | also, no node has the id 1 |
| `OnlyTheDeadLeave` | `[]LeaveOnlyOfDead` | the hub's process is not killed, and no other before the hub has read its introduction |

Five invariants, each on top of the one before:

* `WorldInv` ties the parts together. The hub's clients are exactly the connections it
  has accepted and not closed (`HubEnds`), MainLoop has a client exactly where its label
  says (`LoopHolds`), what waits in a backlog is a call (`Backlogs`), the hub's history is
  sorted below its next number (`HubInOrder`) and so is every spoke's, although it merges
  those of several hubs: `lower_bound` and insert keep the order (`InsertKeepsOrder`).
  That is what the next hub's asserts need of the digest it starts from.
* `MintedInv` adds what numbers mean over all hubs. Within one hub a number must not be
  used twice, and `mNextSeq` is set anew from every message that arrives: so whatever
  the hub has minted, wherever a copy of it is, lies below the newest message of its
  history (`MintedBelow`). Pruning could take that message away; it does not, because the
  pruned history begins with nothing to prune (`Pruned`) and what is appended later is
  pruned by nothing but a later LEAVE. `GroupNodes` says whose nodes messages are about.
* `StableInv` holds while the process of the hub is not killed. Every spoke has one
  connection for its life and no other spoke's; what it has got and what is on its way,
  joined (`Stream`), strictly increases, contains all of the hub's history, and besides
  only copies of what the hub minted and pruned (`Carries`); nothing follows a LEAVE in
  it that the LEAVE would prune. Every call is in the backlog, in MainLoop's copy of it,
  in the socket or with the hub (`NovelKept`), in every interleaving of the flush with
  calls of the application. No assert fails and no null client is called: the runs
  nullwait and leaveuid need a hub that dies.
* `ViewsRead` says that a view is what the messages applied to it say, read as a set:
  who has joined and not left, and the last word on each of their topics (`Reads` in
  `SpokeLemmas`). `ViewedReads` proves that `ApplyUpdate` keeps this for the next message
  of a stream; it is why a view does not depend on what else its spoke was told.
* `LeaversInv`, on top of `StableInv`, says whom the hub takes its clients for. What is on
  the way from a spoke is first what it replays, numbered, about anybody, and then, without
  numbers, what it says of itself (`Speech`). Once introduced it is either taken for
  itself and replays no more (`Heeded`) or still has something to say of itself on its
  way (`Speaks`). A JOIN in the history is of a node that is heeded or gone
  (`JoinsHeeded`), which is why the purge finds only nodes that are gone; and a connection
  without a spoke was read to its end and is taken for a node that is gone (`Orphans`),
  which is why a hangup names only such nodes. The last needs that nobody is killed
  before the hub has read what it introduced itself with.

`ViewsAgree` follows: when nothing is under way a spoke has the hub's history and
besides it the JOINs of nodes whose LEAVE is there too, which change nothing that is
read (`ViewOfRest`), and what is read determines the view (`ViewUnique`). Here id 1
matters: the misplaced parenthesis in `PruneRemoved` (`TopologyServer.cc:63`) drops the
topics of *all* nodes once a node 1 has left, and whoever was told of them before keeps
them. Ids are random 64-bit numbers, so the assumption is nearly always true.

The first four rows hold for hubs that die at any moment; the run failover checks them.
The others have the assumption of the run stable, `HubMortal = FALSE`, and
`OnlyTheDeadLeave` that run's `Abrupt = FALSE` too; the run wrongleave shows that it is
needed. Without a hub that stays, calls
*are* lost (see the known disagreements). The other assumptions are those that the
modules name: an application calls its own node's manager about its own node
(`CallsAssumption`), ids are positive (`NodesAssumption`). As everywhere here, the steps
of `Topology` leave out `Unsubscribe` and the destructor.

### Only model-checked

Every invariant and every action property that a run checks is stated by a theorem, and
so are the two refinements. What is left to TLC:

* All liveness, and what needs ENABLED, is out of the prover's reach: *ViewsConverge*,
  *AllAttached*, *OtherEndLearns*, *CallsReturn*, *DestructorsReturn*, *PublishReturns*,
  *LoopEnds*, *TablesConverge*, *SendReturns*, *EndIsNoticed*.
* Nothing is proved by induction over data, and no module with a theorem declares a
  recursive operator: the provers support neither. `EmptyIsAString` in
  `TopologyMessages` states what they do not know of a string literal.

Of the five runs that expect a violation four state what nothing proves: the code
violates it. The fifth, wrongleave, drops the assumption under which `OnlyTheDeadLeave`
is proved.

## Not modelled

* **Blocking writes in the group.** See the last of the known disagreements; the
  composition of TopologyManager's lock with bounded sockets is left out.
* **Unsubscribe** locks `mMtx` twice; the models have the step (`stuck`), and the
  calls of the group and of the nodes leave it out, and with it `OnUnsubscribe`.
* **Descriptors** as numbers that are closed and reused: `UDSClient::Send` uses `mFd`
  after it has given up the lock, and `~TopologyManager` may destroy the client a
  Send is using.
* **IPCNode**: what a failing `socket` or `bind` leaves behind, and `~TopologyManager`
  inside `~IPCNode` beyond its waiting for the hub (that is in `OpenManager`).
* **Shared memory**: several threads in one `Send`, the limit of the listen queue, and a
  mapping that fails with `MAP_FAILED`: `IPCMessage.cc:57` compares with `nullptr`, so the
  callback would get the pointer.
* Utils, `cmd/unix_dgram_*` (experiments with sockets that use nothing of the
  library), logging and the build.

## Plan

Done: messages, hub, connections, spokes with their destructor, the spoke in an open
world, the group, the poll loops, the nodes, the shared-memory path, the two
refinements, and theorems about all of them. What is left, in this order:

1. What stays of *NoCallLost* and *QuiescentAgreement* when the hub dies: a
   weaker statement about the calls the hub had read, to be found with TLC first.
2. `Topology` with repeated calls (ANNOUNCE, RETRACT, ANNOUNCE).
3. The group over bounded sockets, for groups that are small enough not to block.
4. `IPCNode` against the order of several hubs' events, and its own messages:
   `cmd/pinger.cc:17` expects not to receive them.
