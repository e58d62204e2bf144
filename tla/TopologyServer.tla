--------------------------- MODULE TopologyServer ---------------------------
(***************************************************************************)
(* The hub (lib/TopologyServer.cc): the one history of the group, the      *)
(* clients connected to it and what each of them has been sent.            *)
(*                                                                         *)
(* Every handler runs under mMtx, so every handler is one step, with the   *)
(* PruneRemoved and the Broadcast it ends with.  OnConnect, OnData and     *)
(* OnDisconnect are called from the UDSServer thread, PurgeDisconnected    *)
(* once from the purge thread, at any moment relative to the others.       *)
(*                                                                         *)
(* A client's history is read by IsRedundant alone, which compares bodies: *)
(* it is kept as a set of bodies.  wire[fd] is the socket buffer towards   *)
(* the client: what the hub wrote to fd and nobody has read yet (in this   *)
(* module nobody reads).  It has an entry for every descriptor accepted so *)
(* far: accepted sockets are never closed while the hub runs, so a         *)
(* descriptor is not used twice.  A failed assert ends the process:        *)
(* "aborted" names it, and nothing happens after it.                       *)
(***************************************************************************)
EXTENDS TopologyMessages

CONSTANTS
    Fds,        \* descriptors that accept() may return
    Digests,    \* histories a hub may be created with
    Inbound,    \* Inbound[fd]: the messages the client at fd may send
    Uids        \* values the random generator may return

ASSUME DigestsAssumption ==
    Digests \subseteq {d \in Seq(Messages) : SortedBySeq(d)}

(* What a client of one hub has received is such a history: a new hub is   *)
(* created with what its spoke remembers of the hub before.                *)
ASSUME DigestsLawful == \A d \in Digests : OneMeaning(d) /\ LeavesLast(d)

ASSUME InboundAssumption == Inbound \in [Fds -> SUBSET Messages]
ASSUME UidsAssumption == Uids \subseteq Nat

VARIABLES
    mHistory,   \* sequence of messages
    mNextSeq,   \* the next sequence number to mint
    mClients,   \* fd -> [seq, nodeId, history], for the connected clients
    wire,       \* fd -> sequence of messages written to it
    aborted,    \* the assert that ended the process, or "no"
    purged      \* has the purge thread run

serverVars == <<mHistory, mNextSeq, mClients, wire, aborted, purged>>

Asserts == {"OnConnect", "Broadcast", "OnDisconnect", "OnData", "uid", "hit"}

Clients == [seq : Nat, nodeId : Nat, history : SUBSET Bodies]

-----------------------------------------------------------------------------
(* The constructor.                                                        *)

\* Deviation: the digest's numbers are not continued.
CreateServerFromOne(digest) ==
    /\ mHistory' = digest
    /\ mNextSeq' = 1
    /\ mClients' = <<>>
    /\ aborted' = "no"
    /\ purged' = FALSE

CreateServer(digest) ==
    /\ mHistory' = digest
    /\ mNextSeq' = LastSeq(digest) + 1
    /\ mClients' = <<>>
    /\ aborted' = "no"
    /\ purged' = FALSE

ServerInit ==
    /\ mHistory \in Digests
    /\ mNextSeq = LastSeq(mHistory) + 1
    /\ mClients = <<>>
    /\ wire = <<>>
    /\ aborted = "no"
    /\ purged = FALSE

-----------------------------------------------------------------------------
(* Broadcast.                                                              *)

Abort(assertion) ==
    /\ aborted' = assertion
    /\ UNCHANGED <<mHistory, mNextSeq, mClients, wire>>

Broadcast(h, clients, nextSeq) ==
    IF \A fd \in DOMAIN clients : \A i \in Unsent(h, clients[fd].seq) :
           h[i].seq < nextSeq
    THEN /\ mHistory' = h
         /\ mNextSeq' = nextSeq
         /\ mClients' = [fd \in DOMAIN clients |->
                [clients[fd] EXCEPT !.seq = HighestSeq(h, clients[fd].seq)]]
         /\ wire' = [fd \in DOMAIN wire |->
                IF fd \in DOMAIN clients
                THEN wire[fd] \o SubsequenceAt(h, Unsent(h, clients[fd].seq))
                ELSE wire[fd]]
         /\ aborted' = "no"
    ELSE Abort("Broadcast")

\* How every handler but OnConnect ends.
Settle(h, clients, nextSeq) == Broadcast(PruneRemoved(h), clients, nextSeq)

-----------------------------------------------------------------------------
(* The handlers.                                                           *)

OnConnect(fd) ==
    /\ aborted = "no"
    /\ IF SortedBySeq(mHistory)
       THEN /\ mClients' = [f \in DOMAIN mClients \cup {fd} |->
                   IF f = fd
                   THEN [seq |-> LastSeq(mHistory), nodeId |-> 0, history |-> {}]
                   ELSE mClients[f]]
            /\ wire' = [f \in DOMAIN wire \cup {fd} |->
                   IF f = fd THEN mHistory ELSE wire[f]]
            /\ UNCHANGED <<mHistory, mNextSeq, aborted>>
       ELSE Abort("OnConnect")
    /\ UNCHANGED purged

IsRedundant(body, client) == body \in client.history

\* Deviation: uids start over with every hub, as from an unseeded generator.
AddNovelMessageUnseeded(fd, msg, uid, clients) ==
    /\ msg.seq = 0
    /\ IF IsRedundant(msg.body, clients[fd])
       THEN Settle(mHistory, clients, mNextSeq)
       ELSE Settle(Append(mHistory, Message(mNextSeq, 1, msg.body)),
                   [clients EXCEPT ![fd].history = @ \cup {msg.body}],
                   mNextSeq + 1)

AddNovelMessage(fd, msg, uid, clients) ==
    /\ msg.seq = 0
    /\ IF IsRedundant(msg.body, clients[fd])
       THEN Settle(mHistory, clients, mNextSeq)
       ELSE Settle(Append(mHistory, Message(mNextSeq, uid, msg.body)),
                   [clients EXCEPT ![fd].history = @ \cup {msg.body}],
                   mNextSeq + 1)

\* Deviation: an old message is taken in whatever is at its place.
AddOldMessageAnyway(fd, msg, clients) ==
    LET hit == LowerBound(mHistory, msg.seq) IN
    /\ msg.seq # 0
    /\ Settle(InsertBefore(mHistory, hit, msg), clients,
              IF hit > Len(mHistory) THEN msg.seq + 1 ELSE mNextSeq)

\* A message of an earlier hub, replayed by a client.
AddOldMessage(fd, msg, clients) ==
    LET hit == LowerBound(mHistory, msg.seq) IN
    /\ msg.seq # 0
    /\ \/ /\ hit > Len(mHistory)
          /\ IF msg.uid = 0
             THEN Abort("uid")
             ELSE Settle(Append(mHistory, msg),
                         [clients EXCEPT ![fd].history = @ \cup {msg.body}],
                         msg.seq + 1)
       \/ /\ hit <= Len(mHistory)
          /\ mHistory[hit].seq = msg.seq
          /\ mHistory[hit].uid = msg.uid
          /\ IF mHistory[hit] # msg
             THEN Abort("hit")
             ELSE Settle(mHistory, clients, mNextSeq)
       \/ /\ hit <= Len(mHistory)
          /\ <<mHistory[hit].seq, mHistory[hit].uid>> # <<msg.seq, msg.uid>>
          /\ Settle(mHistory, clients, mNextSeq)

\* Deviation: a client is the first node it names.
OnDataFirstName(fd, msg, uid) ==
    /\ aborted = "no"
    /\ UNCHANGED purged
    /\ IF msg.body.node = 0
       THEN UNCHANGED <<mHistory, mNextSeq, mClients, wire, aborted>>
       ELSE LET clients == [mClients EXCEPT ![fd].nodeId = IF @ = 0 THEN msg.body.node ELSE @]
            IN  \/ AddNovelMessage(fd, msg, uid, clients)
                \/ AddOldMessage(fd, msg, clients)

OnData(fd, msg, uid) ==
    /\ aborted = "no"
    /\ UNCHANGED purged
    /\ IF msg.body.node = 0
       THEN UNCHANGED <<mHistory, mNextSeq, mClients, wire, aborted>>
       ELSE IF fd \notin DOMAIN mClients
       THEN Abort("OnData")
       ELSE LET clients == [mClients EXCEPT ![fd].nodeId = msg.body.node]
            IN  \/ AddNovelMessage(fd, msg, uid, clients)
                \/ AddOldMessage(fd, msg, clients)

\* Deviation: the number of the LEAVE is not consumed.
OnDisconnectSameSeq(fd) ==
    /\ aborted = "no"
    /\ UNCHANGED purged
    /\ Settle(Append(mHistory, Message(mNextSeq, 0,
                  NodeChange("LEAVE", mClients[fd].nodeId))),
              [f \in DOMAIN mClients \ {fd} |-> mClients[f]], mNextSeq)

\* Deviation: the op of the LEAVE is not set.
OnDisconnectNoOp(fd) ==
    /\ aborted = "no"
    /\ UNCHANGED purged
    /\ Settle(Append(mHistory, Message(mNextSeq, 0,
                  NodeChange("NODE_UNSET", mClients[fd].nodeId))),
              [f \in DOMAIN mClients \ {fd} |-> mClients[f]], mNextSeq + 1)

OnDisconnect(fd) ==
    /\ aborted = "no"
    /\ UNCHANGED purged
    /\ IF fd \notin DOMAIN mClients
       THEN Abort("OnDisconnect")
       ELSE Settle(Append(mHistory, Message(mNextSeq, 0,
                       NodeChange("LEAVE", mClients[fd].nodeId))),
                   [f \in DOMAIN mClients \ {fd} |-> mClients[f]],
                   mNextSeq + 1)

ConnectedNodes == {mClients[fd].nodeId : fd \in DOMAIN mClients}

\* Deviation: all active nodes are purged, the connected ones too.
PurgeAll ==
    LET gone == HistoricallyActive(mHistory) IN
    /\ aborted = "no"
    /\ ~purged
    /\ purged' = TRUE
    /\ IF gone = {} THEN UNCHANGED <<mHistory, mNextSeq, mClients, wire, aborted>>
       ELSE \E n \in gone : Settle(Append(mHistory, Message(mNextSeq, 0,
                                        NodeChange("LEAVE", n))), mClients, mNextSeq + 1)

(* 200 ms after the constructor.  The code walks an unordered_set, so the  *)
(* LEAVE messages are minted in any order.                                 *)
PurgeDisconnected ==
    LET gone == HistoricallyActive(mHistory) \ ConnectedNodes
        n    == Cardinality(gone)
    IN  /\ aborted = "no"
        /\ ~purged
        /\ purged' = TRUE
        /\ \E order \in [1..n -> gone] :
              /\ \A i, j \in 1..n : order[i] = order[j] => i = j
              /\ Settle(mHistory \o [i \in 1..n |->
                            Message(mNextSeq + i - 1, 0, NodeChange("LEAVE", order[i]))],
                        mClients, mNextSeq + n)

-----------------------------------------------------------------------------

ServerNext ==
    \/ \E fd \in Fds \ DOMAIN wire : OnConnect(fd)
    \/ \E fd \in DOMAIN mClients : \E msg \in Inbound[fd], uid \in Uids :
          OnData(fd, msg, uid)
    \/ \E fd \in DOMAIN mClients : OnDisconnect(fd)
    \/ PurgeDisconnected

ServerSpec == ServerInit /\ [][ServerNext]_serverVars

-----------------------------------------------------------------------------
(* Properties.                                                             *)

\* Every variable has its type; only descriptors that were accepted are
\* connected (mClients, lib/TopologyServer.h).
TypeOK ==
    /\ mHistory \in Seq(Messages)
    /\ mNextSeq \in Nat
    /\ DOMAIN wire \subseteq Fds
    /\ wire \in [DOMAIN wire -> Seq(Messages)]
    /\ DOMAIN mClients \subseteq DOMAIN wire
    /\ mClients \in [DOMAIN mClients -> Clients]
    /\ aborted \in {"no"} \cup Asserts
    /\ purged \in BOOLEAN

\* The asserts about sequence numbers in OnConnect (seq >= client.seq) and
\* Broadcast (seq < mNextSeq), and those that a descriptor handed to OnData
\* or OnDisconnect is a connected client's, never fail, whatever novel and
\* old messages, connections and hangups the hub sees.
SequenceAssertionsHold ==
    aborted \notin {"OnConnect", "Broadcast", "OnData", "OnDisconnect"}

\* The history is sorted and the next number is above all it holds, with messages
\* of this hub and of earlier ones mixed and others pruned away: lower_bound in
\* AddOldMessage finds its place, and the numbers minted are new.
HistoryInOrder ==
    /\ SortedBySeq(mHistory)
    /\ \A i \in DOMAIN mHistory : mHistory[i].seq < mNextSeq

\* The hub's promise: what survives in its history was written to every
\* connected client, by the digest of OnConnect or by a later Broadcast.
EveryoneHasHistory ==
    \A fd \in DOMAIN mClients : \A i \in DOMAIN mHistory :
        \E j \in DOMAIN wire[fd] : wire[fd][j] = mHistory[i]

\* No client is sent a message twice or out of order, although its history
\* reaches it in two ways, the digest and the broadcasts.
DeliveredInOrder == \A fd \in DOMAIN wire : StrictlySortedBySeq(wire[fd])

\* A sequence number means the same message to every client, present or
\* past: no number is minted again once somebody was sent it.
OneMessagePerSeq ==
    \A f, g \in DOMAIN wire : \A i \in DOMAIN wire[f], j \in DOMAIN wire[g] :
        wire[f][i].seq = wire[g][j].seq => wire[f][i] = wire[g][j]

\* The asserts of AddOldMessage hold for the histories that spokes keep: what
\* is newest has a uid, and the same seq and uid mean the same message.
OldMessagesIdentified == aborted \notin {"uid", "hit"}

Promise == INSTANCE OrderedBroadcast WITH
    Ids <- Fds, log <- mHistory, members <- DOMAIN mClients, sent <- wire,
    halted <- aborted # "no"

\* The handlers with their prunings, their broadcasts and the digests of
\* OnConnect keep the promise of OrderedBroadcast: one log, of which a client
\* gets what there is and then each addition, once, in order, under new numbers.
KeepsPromise == Promise!BroadcastSpec
=============================================================================
