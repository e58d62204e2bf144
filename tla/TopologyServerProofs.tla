------------------------ MODULE TopologyServerProofs ------------------------
(***************************************************************************)
(* Theorems about the hub, for any clients, messages and lawful digests:   *)
(* its variables have their types, its history stays sorted below the next *)
(* number, the asserts about numbers never fail; every client has the      *)
(* whole history, a number means one message to everybody, what a client   *)
(* was sent is a lawful digest, and the hub implements OrderedBroadcast.   *)
(*                                                                         *)
(* The first argument: every handler but OnConnect hands Settle a history  *)
(* that is sorted and lies below the next number it passes along.  Pruning *)
(* only leaves messages out, so this is what Settle stores, and then       *)
(* Broadcast finds nothing at or above mNextSeq and OnConnect nothing out  *)
(* of order.                                                               *)
(*                                                                         *)
(* The second: every handler but OnConnect settles a history old \o news   *)
(* where news carries new, increasing numbers.  Pruning makes of it first  *)
(* some survivors of old, then some of news, and never lowers the last     *)
(* number, since a LEAVE that drops the last message of old comes after it *)
(* and stays.  So a client whose number is that of old's last message is   *)
(* sent exactly the survivors of news, and its number is again the last.   *)
(***************************************************************************)
EXTENDS TopologyServer, HistoryLemmas

(* The inductive invariant.  SequenceAssertionsHold is not inductive alone: *)
(* that the next Broadcast and the next OnConnect will not fail is what     *)
(* HistoryInOrder says, and the types make its numbers comparable.          *)
IInv == TypeOK /\ HistoryInOrder /\ SequenceAssertionsHold

\* What Settle leaves behind, given a sorted history below the next number.
LEMMA SettleKeepsInvariant ==
    ASSUME TypeOK, aborted = "no", purged' \in BOOLEAN,
           NEW h \in Seq(Messages), SortedBySeq(h),
           NEW nextSeq \in Nat, \A i \in DOMAIN h : h[i].seq < nextSeq,
           NEW clients, DOMAIN clients \subseteq DOMAIN mClients,
           clients \in [DOMAIN clients -> Clients],
           Settle(h, clients, nextSeq)
    PROVE  IInv'
<1> DEFINE g == PruneRemoved(h)
<1>1. /\ g \in Seq(Messages) /\ SortedBySeq(g)
      /\ \A i \in DOMAIN g : g[i].seq < nextSeq
  BY PruneKeepsOrder
<1>2. Broadcast(g, clients, nextSeq)
  BY DEF Settle
<1> HIDE DEF g
<1>3. \A fd \in DOMAIN clients : \A i \in Unsent(g, clients[fd].seq) : g[i].seq < nextSeq
  BY <1>1 DEF Unsent
<1>4. /\ mHistory' = g
      /\ mNextSeq' = nextSeq
      /\ mClients' = [fd \in DOMAIN clients |->
             [clients[fd] EXCEPT !.seq = HighestSeq(g, clients[fd].seq)]]
      /\ wire' = [fd \in DOMAIN wire |->
             IF fd \in DOMAIN clients
             THEN wire[fd] \o SubsequenceAt(g, Unsent(g, clients[fd].seq))
             ELSE wire[fd]]
      /\ aborted' = "no"
  BY <1>2, <1>3 DEF Broadcast
<1>5. mClients' \in [DOMAIN clients -> Clients]
  <2>1. ASSUME NEW fd \in DOMAIN clients
        PROVE  [clients[fd] EXCEPT !.seq = HighestSeq(g, clients[fd].seq)] \in Clients
    <3>1. clients[fd] \in Clients /\ clients[fd].seq \in Nat
      BY DEF Clients
    <3>2. HighestSeq(g, clients[fd].seq) \in Nat
      BY <1>1, <3>1, HighestSeqIsNat
    <3> QED
      BY <3>1, <3>2 DEF Clients
  <2> QED
    BY <1>4, <2>1
<1>6. wire' \in [DOMAIN wire -> Seq(Messages)]
  <2>1. ASSUME NEW fd \in DOMAIN wire
        PROVE  wire[fd] \o SubsequenceAt(g, Unsent(g, clients[fd].seq)) \in Seq(Messages)
    <3>1. Unsent(g, clients[fd].seq) \in SUBSET DOMAIN g
      BY DEF Unsent
    <3>2. SubsequenceAt(g, Unsent(g, clients[fd].seq)) \in Seq(Messages)
      BY <1>1, <3>1, SubsequenceProperties
    <3>3. wire[fd] \in Seq(Messages)
      BY DEF TypeOK
    <3> QED
      BY <3>2, <3>3, ConcatProperties
  <2>2. \A fd \in DOMAIN wire : wire[fd] \in Seq(Messages)
    BY DEF TypeOK
  <2> QED
    BY <1>4, <2>1, <2>2
<1>7. DOMAIN mClients' = DOMAIN clients /\ DOMAIN wire' = DOMAIN wire
  BY <1>4
<1>8. TypeOK'
  <2>1. DOMAIN wire \subseteq Fds /\ DOMAIN mClients \subseteq DOMAIN wire
    BY DEF TypeOK
  <2>2. mHistory' \in Seq(Messages) /\ mNextSeq' \in Nat
    BY <1>1, <1>4
  <2>3. wire' \in [DOMAIN wire' -> Seq(Messages)] /\ mClients' \in [DOMAIN mClients' -> Clients]
    BY <1>5, <1>6, <1>7
  <2>4. aborted' \in {"no"} \cup Asserts
    BY <1>4
  <2> QED
    BY <1>7, <2>1, <2>2, <2>3, <2>4 DEF TypeOK
<1>9. HistoryInOrder'
  BY <1>1, <1>4 DEF HistoryInOrder
<1>10. SequenceAssertionsHold'
  BY <1>4 DEF SequenceAssertionsHold
<1> QED
  BY <1>8, <1>9, <1>10 DEF IInv

-----------------------------------------------------------------------------
(* One lemma per handler.                                                  *)

\* A hub starts with a sorted digest and numbers on from it.
LEMMA InitKeepsInvariant ==
    ASSUME ServerInit
    PROVE  IInv
<1>1. mHistory \in Seq(Messages) /\ SortedBySeq(mHistory)
  BY DigestsAssumption DEF ServerInit
<1>2. /\ Len(mHistory) \in Nat /\ DOMAIN mHistory = 1..Len(mHistory)
      /\ \A i \in DOMAIN mHistory : mHistory[i].seq \in Nat
  BY <1>1, HistoryElements
<1>3. mNextSeq = LastSeq(mHistory) + 1
  BY DEF ServerInit
<1>4. mNextSeq \in Nat /\ \A i \in DOMAIN mHistory : mHistory[i].seq < mNextSeq
  <2>1. CASE mHistory = <<>>
    BY <1>3, <2>1 DEF LastSeq
  <2>2. CASE mHistory # <<>>
    <3>1. Len(mHistory) \in DOMAIN mHistory
      BY <1>1, <1>2, <2>2, EmptySeq
    <3>2. \A i \in DOMAIN mHistory : mHistory[i].seq <= mHistory[Len(mHistory)].seq
      BY <1>1, <1>2, <3>1 DEF SortedBySeq
    <3>3. mNextSeq = mHistory[Len(mHistory)].seq + 1
      BY <1>3, <2>2 DEF LastSeq
    <3> QED
      BY <1>2, <3>1, <3>2, <3>3
  <2> QED
    BY <2>1, <2>2
<1>5. mClients = <<>> /\ wire = <<>> /\ aborted = "no" /\ purged = FALSE
  BY DEF ServerInit
<1>6. wire \in [DOMAIN wire -> Seq(Messages)] /\ mClients \in [DOMAIN mClients -> Clients]
      /\ DOMAIN wire = {} /\ DOMAIN mClients = {}
  BY <1>5
<1> QED
  BY <1>1, <1>4, <1>5, <1>6 DEF IInv, TypeOK, HistoryInOrder, SequenceAssertionsHold

\* An assert outside SequenceAssertionsHold leaves the rest as it is.
LEMMA AbortKeepsInvariant ==
    ASSUME IInv, purged' \in BOOLEAN, NEW assertion \in {"uid", "hit"}, Abort(assertion)
    PROVE  IInv'
<1>1. /\ mHistory' = mHistory /\ mNextSeq' = mNextSeq /\ mClients' = mClients
      /\ wire' = wire /\ aborted' \in {"uid", "hit"}
  BY DEF Abort
<1>2. TypeOK'
  BY <1>1 DEF IInv, TypeOK, Asserts
<1> QED
  BY <1>1, <1>2 DEF IInv, HistoryInOrder, SequenceAssertionsHold

\* A new client is sent the history as it is.
LEMMA OnConnectKeepsInvariant ==
    ASSUME IInv, NEW fd \in Fds, OnConnect(fd)
    PROVE  IInv'
<1>1. TypeOK /\ HistoryInOrder
  BY DEF IInv
<1>2. SortedBySeq(mHistory) /\ mHistory \in Seq(Messages)
  BY <1>1 DEF HistoryInOrder, TypeOK
<1>3. LastSeq(mHistory) \in Nat
  <2>1. CASE mHistory = <<>>
    BY <2>1 DEF LastSeq
  <2>2. CASE mHistory # <<>>
    <3>1. Len(mHistory) \in DOMAIN mHistory
      BY <1>2, <2>2, HistoryElements, EmptySeq
    <3> QED
      BY <1>2, <2>2, <3>1, HistoryElements DEF LastSeq
  <2> QED
    BY <2>1, <2>2
<1> DEFINE client == [seq |-> LastSeq(mHistory), nodeId |-> 0, history |-> {}]
<1>4. client \in Clients
  BY <1>3 DEF Clients
<1> HIDE DEF client
<1>5. /\ mClients' = [f \in DOMAIN mClients \cup {fd} |-> IF f = fd THEN client ELSE mClients[f]]
      /\ wire' = [f \in DOMAIN wire \cup {fd} |-> IF f = fd THEN mHistory ELSE wire[f]]
      /\ UNCHANGED <<mHistory, mNextSeq, aborted, purged>>
  BY <1>2 DEF OnConnect, client
<1>6. mClients' \in [DOMAIN mClients' -> Clients] /\ DOMAIN mClients' = DOMAIN mClients \cup {fd}
  BY <1>1, <1>4, <1>5 DEF TypeOK
<1>7. wire' \in [DOMAIN wire' -> Seq(Messages)] /\ DOMAIN wire' = DOMAIN wire \cup {fd}
  BY <1>1, <1>2, <1>5 DEF TypeOK
<1>8. TypeOK'
  BY <1>1, <1>5, <1>6, <1>7 DEF TypeOK
<1> QED
  BY <1>5, <1>8 DEF IInv, HistoryInOrder, SequenceAssertionsHold

\* A message that a client sends is appended at the next number, or at its own
\* number past the end, or not at all.
LEMMA OnDataKeepsInvariant ==
    ASSUME IInv, NEW fd \in DOMAIN mClients, NEW msg \in Messages, NEW uid \in Uids,
           OnData(fd, msg, uid)
    PROVE  IInv'
<1> DEFINE clients == [mClients EXCEPT ![fd].nodeId = msg.body.node]
           remembered == [clients EXCEPT ![fd].history = @ \cup {msg.body}]
<1>1. /\ TypeOK /\ aborted = "no" /\ purged' \in BOOLEAN
      /\ mHistory \in Seq(Messages) /\ mNextSeq \in Nat
      /\ SortedBySeq(mHistory)
      /\ \A i \in DOMAIN mHistory : mHistory[i].seq < mNextSeq
  BY DEF IInv, TypeOK, HistoryInOrder, OnData
<1>2. msg.seq \in Nat /\ msg.uid \in Nat /\ msg.body \in Bodies /\ msg.body.node \in Nat
  BY DEF Messages, Bodies
<1>3. /\ clients \in [DOMAIN clients -> Clients] /\ DOMAIN clients \subseteq DOMAIN mClients
      /\ remembered \in [DOMAIN remembered -> Clients]
      /\ DOMAIN remembered \subseteq DOMAIN mClients
  <2>1. mClients \in [DOMAIN mClients -> Clients]
    BY <1>1 DEF TypeOK
  <2>2. clients \in [DOMAIN mClients -> Clients]
    BY <2>1, <1>2 DEF Clients
  <2> HIDE DEF clients
  <2>3. remembered \in [DOMAIN mClients -> Clients]
    BY <2>2, <1>2 DEF Clients
  <2> QED
    BY <2>2, <2>3
<1>4. CASE msg.body.node = 0
  <2>1. UNCHANGED serverVars
    BY <1>4 DEF OnData, serverVars
  <2> QED
    BY <2>1 DEF serverVars, IInv, TypeOK, HistoryInOrder, SequenceAssertionsHold
<1>5. CASE AddNovelMessage(fd, msg, uid, clients)
  <2> DEFINE novel == Message(mNextSeq, uid, msg.body)
             h     == Append(mHistory, novel)
  <2>1. novel \in Messages /\ novel.seq = mNextSeq
    BY <1>1, <1>2, UidsAssumption DEF Message, Messages
  <2> HIDE DEF novel
  <2>2. h \in Seq(Messages) /\ SortedBySeq(h) /\ \A i \in DOMAIN h : h[i].seq < mNextSeq + 1
    BY <1>1, <2>1, AppendKeepsOrder
  <2>3. mNextSeq + 1 \in Nat
    BY <1>1
  <2>4. Settle(mHistory, clients, mNextSeq) \/ Settle(h, remembered, mNextSeq + 1)
    BY <1>5 DEF AddNovelMessage, novel
  <2> HIDE DEF h, clients, remembered
  <2>5. CASE Settle(mHistory, clients, mNextSeq)
    BY <1>1, <1>3, <2>5, SettleKeepsInvariant
  <2>6. CASE Settle(h, remembered, mNextSeq + 1)
    BY <1>1, <1>3, <2>2, <2>3, <2>6, SettleKeepsInvariant
  <2> QED
    BY <2>4, <2>5, <2>6
<1>6. CASE AddOldMessage(fd, msg, clients)
  <2> DEFINE h == Append(mHistory, msg)
  <2>1. \/ \E assertion \in {"uid", "hit"} : Abort(assertion)
        \/ LowerBound(mHistory, msg.seq) > Len(mHistory) /\ Settle(h, remembered, msg.seq + 1)
        \/ Settle(mHistory, clients, mNextSeq)
    BY <1>6 DEF AddOldMessage
  <2> HIDE DEF h, clients, remembered
  <2>2. CASE \E assertion \in {"uid", "hit"} : Abort(assertion)
    BY <1>1, <2>2, AbortKeepsInvariant
  <2>3. CASE LowerBound(mHistory, msg.seq) > Len(mHistory) /\ Settle(h, remembered, msg.seq + 1)
    <3>1. \A i \in DOMAIN mHistory : mHistory[i].seq < msg.seq
      <4>1. /\ Len(mHistory) \in Nat /\ DOMAIN mHistory = 1..Len(mHistory)
        BY <1>1, HistoryElements
      <4>2. LowerBound(mHistory, msg.seq) = Len(mHistory) + 1
            /\ \A j \in 1..(LowerBound(mHistory, msg.seq) - 1) : mHistory[j].seq < msg.seq
        <5>1. /\ LowerBound(mHistory, msg.seq) \in 1..(Len(mHistory) + 1)
              /\ \A j \in 1..(LowerBound(mHistory, msg.seq) - 1) : mHistory[j].seq < msg.seq
          BY <1>1, <1>2, LowerBoundExists
        <5> QED
          BY <2>3, <4>1, <5>1
      <4> QED
        BY <4>1, <4>2
    <3>2. h \in Seq(Messages) /\ SortedBySeq(h) /\ \A i \in DOMAIN h : h[i].seq < msg.seq + 1
      BY <1>1, <3>1, AppendKeepsOrder DEF h
    <3>3. msg.seq + 1 \in Nat
      BY <1>2
    <3> QED
      BY <1>1, <1>3, <2>3, <3>2, <3>3, SettleKeepsInvariant
  <2>4. CASE Settle(mHistory, clients, mNextSeq)
    BY <1>1, <1>3, <2>4, SettleKeepsInvariant
  <2> QED
    BY <2>1, <2>2, <2>3, <2>4
<1> QED
  BY <1>4, <1>5, <1>6 DEF OnData

\* The LEAVE of a client that hung up is minted at the next number.
LEMMA OnDisconnectKeepsInvariant ==
    ASSUME IInv, NEW fd \in DOMAIN mClients, OnDisconnect(fd)
    PROVE  IInv'
<1> DEFINE leave   == Message(mNextSeq, 0, NodeChange("LEAVE", mClients[fd].nodeId))
           h       == Append(mHistory, leave)
           clients == [f \in DOMAIN mClients \ {fd} |-> mClients[f]]
<1>1. /\ TypeOK /\ aborted = "no" /\ purged' \in BOOLEAN
      /\ mHistory \in Seq(Messages) /\ mNextSeq \in Nat
      /\ SortedBySeq(mHistory)
      /\ \A i \in DOMAIN mHistory : mHistory[i].seq < mNextSeq
  BY DEF IInv, TypeOK, HistoryInOrder, OnDisconnect
<1>2. mClients \in [DOMAIN mClients -> Clients]
  BY <1>1 DEF TypeOK
<1>3. clients \in [DOMAIN clients -> Clients] /\ DOMAIN clients \subseteq DOMAIN mClients
  BY <1>2
<1>4. leave \in Messages /\ leave.seq = mNextSeq
  <2>1. mClients[fd].nodeId \in Nat
    BY <1>2 DEF Clients
  <2>2. NodeChange("LEAVE", mClients[fd].nodeId) \in Bodies
    BY <2>1 DEF NodeChange, Bodies, NodeOps
  <2> QED
    BY <1>1, <2>2 DEF Message, Messages
<1>5. Settle(h, clients, mNextSeq + 1)
  BY DEF OnDisconnect
<1> HIDE DEF leave, clients
<1>6. h \in Seq(Messages) /\ SortedBySeq(h) /\ \A i \in DOMAIN h : h[i].seq < mNextSeq + 1
  BY <1>1, <1>4, AppendKeepsOrder
<1>7. mNextSeq + 1 \in Nat
  BY <1>1
<1> HIDE DEF h
<1> QED
  BY <1>1, <1>3, <1>5, <1>6, <1>7, SettleKeepsInvariant

\* The LEAVEs of the nodes without a connection are minted from the next number on.
LEMMA PurgeKeepsInvariant ==
    ASSUME IInv, PurgeDisconnected
    PROVE  IInv'
<1> DEFINE gone == HistoricallyActive(mHistory) \ ConnectedNodes
           n    == Cardinality(gone)
<1>1. /\ TypeOK /\ aborted = "no" /\ purged' \in BOOLEAN
      /\ mHistory \in Seq(Messages) /\ mNextSeq \in Nat
      /\ SortedBySeq(mHistory)
      /\ \A i \in DOMAIN mHistory : mHistory[i].seq < mNextSeq
      /\ mClients \in [DOMAIN mClients -> Clients]
  BY DEF IInv, TypeOK, HistoryInOrder, PurgeDisconnected
<1>2. gone \in SUBSET Nat /\ n \in Nat
  <2>1. IsFiniteSet(HistoricallyActive(mHistory)) /\ HistoricallyActive(mHistory) \in SUBSET Nat
    BY <1>1, ActiveNodesFinite
  <2>2. gone \in SUBSET HistoricallyActive(mHistory)
    OBVIOUS
  <2> HIDE DEF gone
  <2>3. IsFiniteSet(gone)
    BY <2>1, <2>2, FS_Subset
  <2> QED
    BY <2>1, <2>2, <2>3, FS_CardinalityType
<1>3. PICK order \in [1..n -> gone] :
         Settle(mHistory \o Leaves(mNextSeq, n, order), mClients, mNextSeq + n)
  BY DEF PurgeDisconnected, Leaves
<1> HIDE DEF n, gone
<1>4. order \in [1..n -> Nat]
  BY <1>2
<1> DEFINE h == mHistory \o Leaves(mNextSeq, n, order)
<1>5. h \in Seq(Messages) /\ SortedBySeq(h) /\ \A i \in DOMAIN h : h[i].seq < mNextSeq + n
  BY <1>1, <1>2, <1>4, LeavesKeepOrder
<1>6. mNextSeq + n \in Nat
  BY <1>1, <1>2
<1>7. Settle(h, mClients, mNextSeq + n)
  BY <1>3
<1> HIDE DEF h
<1> QED
  BY <1>1, <1>5, <1>6, <1>7, SettleKeepsInvariant

-----------------------------------------------------------------------------
(* The theorems about order and asserts.                                   *)

\* The invariant is inductive: every handler of the hub keeps it.
LEMMA NextKeepsInvariant ==
    ASSUME IInv, [ServerNext]_serverVars
    PROVE  IInv'
<1>1. ASSUME NEW fd \in Fds \ DOMAIN wire, OnConnect(fd) PROVE IInv'
  BY <1>1, OnConnectKeepsInvariant
<1>2. ASSUME NEW fd \in DOMAIN mClients, NEW msg \in Inbound[fd], NEW uid \in Uids,
             OnData(fd, msg, uid)
      PROVE  IInv'
  <2>1. fd \in Fds
    BY DEF IInv, TypeOK
  <2>2. msg \in Messages
    BY <2>1, InboundAssumption
  <2> QED
    BY <1>2, <2>2, OnDataKeepsInvariant
<1>3. ASSUME NEW fd \in DOMAIN mClients, OnDisconnect(fd) PROVE IInv'
  BY <1>3, OnDisconnectKeepsInvariant
<1>4. CASE PurgeDisconnected
  BY <1>4, PurgeKeepsInvariant
<1>5. CASE UNCHANGED serverVars
  BY <1>5 DEF serverVars, IInv, TypeOK, HistoryInOrder, SequenceAssertionsHold
<1> QED
  BY <1>1, <1>2, <1>3, <1>4, <1>5 DEF ServerNext

\* The inductive invariant of the hub, which the theorems below weaken: any
\* interleaving of OnConnect, OnData, OnDisconnect and PurgeDisconnected.
THEOREM ServerInvariant == ServerSpec => []IInv
<1>1. ServerInit => IInv
  BY InitKeepsInvariant
<1>2. IInv /\ [ServerNext]_serverVars => IInv'
  BY NextKeepsInvariant
<1> QED
  BY <1>1, <1>2, PTL DEF ServerSpec

\* The members of the hub and of its clients keep their types, and only accepted
\* descriptors are in mClients (lib/TopologyServer.h).
THEOREM ServerTypeCorrect == ServerSpec => []TypeOK
<1>1. IInv => TypeOK
  BY DEF IInv
<1> QED
  BY <1>1, ServerInvariant, PTL

\* mHistory stays sorted and below mNextSeq, so lower_bound in AddOldMessage
\* searches a sorted range and every number minted is new to the history.
THEOREM HistoryStaysInOrder == ServerSpec => []HistoryInOrder
<1>1. IInv => HistoryInOrder
  BY DEF IInv
<1> QED
  BY <1>1, ServerInvariant, PTL

\* The asserts on numbers and descriptors in OnConnect, Broadcast, OnData and
\* OnDisconnect hold for every group size, digest and message.
THEOREM AssertionsNeverFail == ServerSpec => []SequenceAssertionsHold
<1>1. IInv => SequenceAssertionsHold
  BY DEF IInv
<1> QED
  BY <1>1, ServerInvariant, PTL

-----------------------------------------------------------------------------
(* What becomes of the old history.                                        *)

\* The survivors of the old history are the old history with entries left out:
\* whether a message is dropped depends on the message alone.
LEMMA SurvivorsAreOnly ==
    ASSUME NEW old \in Seq(Messages), SortedBySeq(old), NEW news \in Additions(old)
    PROVE  LET kept == SubSeq(PruneRemoved(old \o news), 1, KeptOf(old, news))
           IN  kept = Promise!Only(old, {kept[i] : i \in 1..KeptOf(old, news)})
<1> DEFINE h == old \o news
           m == Len(old)
           S == Surviving(h)
           I == UpTo(S, m)
           g == PruneRemoved(h)
           c == Cardinality(I)
           kept == SubSeq(g, 1, c)
           entries == {kept[i] : i \in 1..c}
           J == {i \in DOMAIN old : old[i] \in entries}
<1>1. /\ h \in Seq(Messages) /\ m \in Nat /\ DOMAIN old = 1..m
      /\ DOMAIN h = 1..Len(h) /\ Len(h) \in Nat /\ m <= Len(h)
      /\ \A i \in 1..m : i \in DOMAIN h /\ h[i] = old[i]
  BY Extended
<1> HIDE DEF h, m
<1>2. /\ g \in Seq(Messages) /\ S \in SUBSET (1..Len(h))
      /\ Len(g) = Cardinality(S) /\ DOMAIN g = 1..Cardinality(S)
      /\ \A k \in DOMAIN g : Kth(S, k) \in S /\ g[k] = h[Kth(S, k)]
  BY <1>1, PruneProperties
<1>3. \A i \in DOMAIN h : i \in S <=> ~Prunable(LeftNodes(h), h[i])
  BY DEF Surviving
<1> HIDE DEF S, g
<1>4. /\ c \in 0..Cardinality(S) /\ Cardinality(S) \in Nat
      /\ \A k \in 1..c : Kth(S, k) = Kth(I, k)
  BY <1>1, <1>2, KthOfInitialPart, PositionsFinite
<1>5. I \in SUBSET DOMAIN old /\ I \in SUBSET (1..m) /\ \A i \in 1..m : i \in I <=> i \in S
  <2>1. \A i \in S : i \in 1..Len(h) /\ (i <= m <=> i \in 1..m)
    BY <1>1, <1>2
  <2>2. \A i \in 1..m : i <= m
    BY <1>1
  <2>3. \A i : i \in I <=> i \in S /\ i \in 1..m
    BY <2>1, <2>2 DEF UpTo
  <2> QED
    BY <1>1, <2>3
<1> HIDE DEF I
<1>6. \A k \in 1..c : Kth(I, k) \in I
  BY <1>1, <1>5, KthProperties
<1>7. \A k \in 1..c : g[k] = old[Kth(I, k)]
  <2>1. ASSUME NEW k \in 1..c PROVE g[k] = old[Kth(I, k)]
    <3>1. k \in DOMAIN g
      BY <1>2, <1>4
    <3>2. Kth(I, k) \in 1..m
      BY <1>5, <1>6
    <3> QED
      BY <1>1, <1>2, <1>4, <3>1, <3>2
  <2> QED
    BY <2>1
<1>8. kept \in Seq(Messages) /\ Len(kept) = c /\ \A k \in 1..c : kept[k] = g[k]
  <2>1. \A i \in 1..c : g[i] \in Messages
    BY <1>2, <1>4, ElementOfSeq
  <2>2. c \in Nat
    BY <1>4
  <2> HIDE DEF c
  <2>3. /\ kept \in Seq(Messages)
        /\ Len(kept) = IF 1 <= c THEN c - 1 + 1 ELSE 0
        /\ \A k \in 1..(c - 1 + 1) : kept[k] = g[1 + k - 1]
    BY <2>1, <2>2, SubSeqProperties
  <2> HIDE DEF kept
  <2>4. Len(kept) = c
    BY <2>2, <2>3
  <2>5. ASSUME NEW k \in 1..c PROVE kept[k] = g[k]
    <3>1. k \in 1..(c - 1 + 1) /\ 1 + k - 1 = k
      BY <2>2
    <3>2. kept[k] = g[1 + k - 1]
      BY ONLY <2>3, <3>1
    <3> QED
      BY <3>1, <3>2
  <2> QED
    BY <2>3, <2>4, <2>5
<1> HIDE DEF kept
<1>9. J = I
  <2>1. ASSUME NEW i \in I PROVE i \in J
    <3>1. PICK k \in 1..c : Cardinality(UpTo(I, i)) = k /\ Kth(I, k) = i
      BY <1>1, <1>5, KthUnique
    <3>2. kept[k] = old[i]
      BY <1>7, <1>8, <3>1
    <3> QED
      BY <1>5, <3>2
  <2>2. ASSUME NEW i \in J PROVE i \in I
    <3>1. i \in 1..m
      BY <1>1
    <3>2. PICK k \in 1..c : old[i] = kept[k]
      OBVIOUS
    <3>3. Kth(I, k) \in I /\ old[i] = old[Kth(I, k)]
      BY <1>6, <1>7, <1>8, <3>2
    <3>4. Kth(I, k) \in 1..m /\ Kth(I, k) \in S
      BY <1>5, <3>3
    <3>5. ~Prunable(LeftNodes(h), h[Kth(I, k)]) /\ h[i] = h[Kth(I, k)]
      BY <1>1, <1>3, <3>1, <3>3, <3>4
    <3>6. i \in S
      BY <1>1, <1>3, <3>1, <3>5
    <3> QED
      BY <1>5, <3>1, <3>6
  <2> QED
    BY <2>1, <2>2
<1>10. LET o == SubsequenceAt(old, I) IN
       o \in Seq(Messages) /\ Len(o) = c /\ \A k \in 1..c : o[k] = old[Kth(I, k)]
  BY <1>5, SubsequenceProperties
<1>11. kept = SubsequenceAt(old, I)
  BY <1>7, <1>8, <1>10, SeqEqual
<1>12. Promise!Only(old, entries) = SubsequenceAt(old, J)
  BY DEF Promise!Only, Promise!SubsequenceAt, Promise!Kth, SubsequenceAt, Kth,
         Promise!Cardinality, Cardinality
<1>13. kept = Promise!Only(old, entries)
  BY <1>9, <1>11, <1>12
<1>14. kept = SubSeq(PruneRemoved(old \o news), 1, KeptOf(old, news)) /\ c = KeptOf(old, news)
  BY DEF h, m, S, I, g, kept, KeptOf
<1> HIDE DEF c
<1> QED
  BY <1>13, <1>14

-----------------------------------------------------------------------------
(* The invariant of delivery.                                              *)

\* The last number is below the next one, and it is what every client has seen.
ClientsCurrent ==
    /\ LastSeq(mHistory) < mNextSeq
    /\ \A fd \in DOMAIN mClients : mClients[fd].seq = LastSeq(mHistory)

WiresFollow == \A fd \in DOMAIN wire : Follows(wire[fd], mHistory)

(* None of the three promises is inductive alone.  Broadcast decides by a  *)
(* client's number whether it has a message, so the number must be that of *)
(* the last message of the history (ClientsCurrent), which pruning must    *)
(* not lower (LeavesLast); and a new message must be new to everybody who  *)
(* was ever sent anything, connected or not (WiresFollow).                 *)
DInv ==
    /\ IInv
    /\ OneMeaning(mHistory)
    /\ LeavesLast(mHistory)
    /\ ClientsCurrent
    /\ WiresFollow
    /\ EveryoneHasHistory
    /\ OneMessagePerSeq

\* With strict digests, too: no number occurs twice in the history or on a wire.
Strict == StrictlySortedBySeq(mHistory) /\ DeliveredInOrder

\* A handler ends by settling additions to the history.
Settling(news, clients, nextSeq) ==
    /\ news \in Additions(mHistory)
    /\ nextSeq \in Nat
    /\ \A i \in DOMAIN (mHistory \o news) : (mHistory \o news)[i].seq < nextSeq
    /\ LastSeq(mHistory) < nextSeq
    /\ DOMAIN clients \subseteq DOMAIN mClients
    /\ clients \in [DOMAIN clients -> Clients]
    /\ \A fd \in DOMAIN clients : clients[fd].seq = mClients[fd].seq
    /\ Settle(mHistory \o news, clients, nextSeq)

\* What Broadcast does then: it stores the pruned history and writes what is
\* new in it to everybody who is connected.
LEMMA SettlingEffect ==
    ASSUME DInv, NEW news, NEW clients, NEW nextSeq, Settling(news, clients, nextSeq)
    PROVE  LET g == PruneRemoved(mHistory \o news)
               c == KeptOf(mHistory, news)
           IN  /\ mHistory' = g /\ mNextSeq' = nextSeq /\ aborted' = "no"
               /\ DOMAIN mClients' = DOMAIN clients
               /\ \A fd \in DOMAIN clients :
                     /\ mClients'[fd].seq = LastSeq(g)
                     /\ mClients'[fd].nodeId = clients[fd].nodeId
               /\ wire' = [fd \in DOMAIN wire |->
                              IF fd \in DOMAIN mClients'
                              THEN wire[fd] \o SubSeq(g, c + 1, Len(g))
                              ELSE wire[fd]]
               /\ \A i \in DOMAIN g : g[i].seq < nextSeq
<1> DEFINE h == mHistory \o news
           g == PruneRemoved(h)
           c == KeptOf(mHistory, news)
<1>1. /\ mHistory \in Seq(Messages) /\ SortedBySeq(mHistory)
      /\ OneMeaning(mHistory) /\ LeavesLast(mHistory)
      /\ news \in Additions(mHistory) /\ nextSeq \in Nat
      /\ \A i \in DOMAIN h : h[i].seq < nextSeq
  BY DEF DInv, IInv, TypeOK, HistoryInOrder, Settling
<1>2. h \in Seq(Messages) /\ SortedBySeq(h)
  BY <1>1, Extended
<1>3. \A i \in DOMAIN g : g[i].seq < nextSeq
  <2> HIDE DEF h
  <2> QED
    BY <1>1, <1>2, PruneKeepsOrder
<1>4. /\ DOMAIN clients \subseteq DOMAIN mClients
      /\ clients \in [DOMAIN clients -> Clients]
      /\ \A fd \in DOMAIN clients : clients[fd].seq = LastSeq(mHistory)
  BY DEF DInv, ClientsCurrent, Settling
<1>5. /\ SubsequenceAt(g, Unsent(g, LastSeq(mHistory))) = SubSeq(g, c + 1, Len(g))
      /\ HighestSeq(g, LastSeq(mHistory)) = LastSeq(g)
  BY <1>1, UnsentAreAdditions
<1>6. Broadcast(g, clients, nextSeq)
  BY DEF Settling, Settle
<1> HIDE DEF g, c
<1>7. \A fd \in DOMAIN clients : \A i \in Unsent(g, clients[fd].seq) : g[i].seq < nextSeq
  BY <1>3 DEF Unsent
<1>8. /\ mHistory' = g
      /\ mNextSeq' = nextSeq
      /\ mClients' = [fd \in DOMAIN clients |->
             [clients[fd] EXCEPT !.seq = HighestSeq(g, clients[fd].seq)]]
      /\ wire' = [fd \in DOMAIN wire |->
             IF fd \in DOMAIN clients
             THEN wire[fd] \o SubsequenceAt(g, Unsent(g, clients[fd].seq))
             ELSE wire[fd]]
      /\ aborted' = "no"
  BY <1>6, <1>7 DEF Broadcast
<1>9. DOMAIN mClients' = DOMAIN clients
  BY <1>8
<1>10. ASSUME NEW fd \in DOMAIN clients
       PROVE  mClients'[fd].seq = LastSeq(g) /\ mClients'[fd].nodeId = clients[fd].nodeId
  <2>1. clients[fd] \in Clients /\ clients[fd].seq = LastSeq(mHistory)
    BY <1>4
  <2>2. mClients'[fd] = [clients[fd] EXCEPT !.seq = LastSeq(g)]
    BY <1>5, <1>8, <2>1
  <2> QED
    BY <2>1, <2>2 DEF Clients
<1>11. wire' = [fd \in DOMAIN wire |->
           IF fd \in DOMAIN mClients'
           THEN wire[fd] \o SubSeq(g, c + 1, Len(g))
           ELSE wire[fd]]
  BY <1>4, <1>5, <1>8, <1>9
<1> QED
  BY <1>3, <1>8, <1>9, <1>10, <1>11 DEF g, c, h

\* So a handler keeps the invariant and makes an abstract step.
LEMMA SettlingDelivers ==
    ASSUME DInv, aborted = "no", purged' \in BOOLEAN,
           NEW news, NEW clients, NEW nextSeq, Settling(news, clients, nextSeq)
    PROVE  DInv' /\ Promise!LogChanges /\ (Strict => Strict')
<1> DEFINE g == PruneRemoved(mHistory \o news)
           c == KeptOf(mHistory, news)
           added == SubSeq(g, c + 1, Len(g))
<1>1. /\ mHistory \in Seq(Messages) /\ SortedBySeq(mHistory)
      /\ OneMeaning(mHistory) /\ LeavesLast(mHistory)
      /\ news \in Additions(mHistory) /\ nextSeq \in Nat
      /\ TypeOK
      /\ \A fd \in DOMAIN wire : wire[fd] \in Seq(Messages) /\ Follows(wire[fd], mHistory)
      /\ DOMAIN mClients \subseteq DOMAIN wire
      /\ DOMAIN clients \subseteq DOMAIN mClients
      /\ LastSeq(mHistory) < nextSeq
  BY DEF DInv, IInv, TypeOK, HistoryInOrder, Settling, WiresFollow
<1>2. /\ mHistory' = g /\ mNextSeq' = nextSeq /\ aborted' = "no"
      /\ DOMAIN mClients' = DOMAIN clients
      /\ \A fd \in DOMAIN clients : mClients'[fd].seq = LastSeq(g)
      /\ wire' = [fd \in DOMAIN wire |->
                     IF fd \in DOMAIN mClients' THEN wire[fd] \o added ELSE wire[fd]]
      /\ \A i \in DOMAIN g : g[i].seq < nextSeq
  <2>1. /\ mHistory' = g /\ mNextSeq' = nextSeq /\ aborted' = "no"
        /\ DOMAIN mClients' = DOMAIN clients
        /\ \A fd \in DOMAIN clients :
              /\ mClients'[fd].seq = LastSeq(g)
              /\ mClients'[fd].nodeId = clients[fd].nodeId
        /\ wire' = [fd \in DOMAIN wire |->
                       IF fd \in DOMAIN mClients' THEN wire[fd] \o added ELSE wire[fd]]
        /\ \A i \in DOMAIN g : g[i].seq < nextSeq
    BY SettlingEffect
  <2> QED
    BY <2>1
<1>3. /\ g \in Seq(Messages) /\ Len(g) \in Nat /\ DOMAIN g = 1..Len(g)
      /\ c \in 0..Len(g)
      /\ \A k \in 1..c : \E j \in DOMAIN mHistory : g[k] = mHistory[j]
      /\ \A k \in DOMAIN g : k > c => LastSeq(mHistory) < g[k].seq
      /\ \A k, l \in DOMAIN g : k < l /\ l > c => g[k].seq < g[l].seq
      /\ SortedBySeq(g) /\ OneMeaning(g) /\ LeavesLast(g)
      /\ LastSeq(mHistory) <= LastSeq(g)
  BY <1>1, PrunedExtension
<1>4. ASSUME NEW fd \in DOMAIN wire
      PROVE  /\ wire[fd] \in Seq(Messages)
             /\ Follows(wire[fd], mHistory) /\ Follows(wire[fd], g)
             /\ \A i \in DOMAIN wire[fd] : wire[fd][i].seq <= LastSeq(mHistory)
             /\ \A i \in DOMAIN wire[fd] : wire[fd][i].seq \in Nat
  <2>1. wire[fd] \in Seq(Messages) /\ Follows(wire[fd], mHistory)
    BY <1>1
  <2>2. Follows(wire[fd], g)
    BY <1>1, <2>1, StillFollows
  <2> QED
    BY <2>1, <2>2, HistoryElements DEF Follows
<1>5. ASSUME NEW fd \in DOMAIN wire
      PROVE  LET w2 == wire[fd] \o added IN
             /\ w2 \in Seq(Messages)
             /\ \A i \in DOMAIN w2 :
                   \/ i \in DOMAIN wire[fd] /\ w2[i] = wire[fd][i]
                   \/ \E k \in DOMAIN g : w2[i] = g[k] /\ k > c
             /\ \A i \in DOMAIN wire[fd] : i \in DOMAIN w2 /\ w2[i] = wire[fd][i]
             /\ \A k \in DOMAIN g : k > c => \E i \in DOMAIN w2 : w2[i] = g[k]
             /\ \A i, j \in DOMAIN w2 :
                   i < j /\ j \notin DOMAIN wire[fd] => w2[i].seq < w2[j].seq
             /\ Follows(w2, g)
  BY <1>1, <1>4, FollowsOn
<1>6. IInv'
  <2>1. mHistory \o news \in Seq(Messages) /\ SortedBySeq(mHistory \o news)
    BY <1>1, Extended
  <2> QED
    BY <1>1, <2>1, SettleKeepsInvariant DEF Settling
<1>7. LastSeq(g) \in Nat /\ LastSeq(mHistory) \in Nat
      /\ (\A i \in DOMAIN g : g[i].seq \in Nat)
      /\ (\A i \in DOMAIN mHistory : mHistory[i].seq <= LastSeq(mHistory))
  BY <1>1, <1>3, LastSeqIsLargest, HistoryElements
<1>8. added \in Seq(Messages) /\ Len(added) = Len(g) - c
      /\ DOMAIN added = 1..(Len(g) - c)
      /\ \A i \in DOMAIN added : c + i \in DOMAIN g /\ c + i > c /\ added[i] = g[c + i]
  BY <1>3, TailProperties
<1> HIDE DEF g, c, added
<1>9. DOMAIN wire' = DOMAIN wire
      /\ \A fd \in DOMAIN wire :
            \/ wire'[fd] = wire[fd] /\ fd \notin DOMAIN mClients'
            \/ wire'[fd] = wire[fd] \o added
  BY <1>2
<1>10. ClientsCurrent'
  <2>1. LastSeq(g) < nextSeq
    <3>1. CASE DOMAIN g = {}
      <4>1. LastSeq(g) = 0
        BY <1>3, <3>1, LastSeqIsLargest
      <4> QED
        BY <1>1, <1>7, <4>1
    <3>2. CASE DOMAIN g # {}
      <4>1. Len(g) \in DOMAIN g /\ LastSeq(g) = g[Len(g)].seq
        BY <1>3, <3>2, LastSeqIsLargest
      <4> QED
        BY <1>2, <4>1
    <3> QED
      BY <3>1, <3>2
  <2> QED
    BY <1>2, <2>1 DEF ClientsCurrent
<1>11. WiresFollow'
  <2>1. \A fd \in DOMAIN wire : Follows(wire'[fd], g)
    BY <1>4, <1>5, <1>9
  <2> QED
    BY <1>2, <1>9, <2>1 DEF WiresFollow
<1>12. EveryoneHasHistory'
  <2>0. mHistory' = g
    BY <1>2
  <2>1. SUFFICES ASSUME NEW fd \in DOMAIN mClients', NEW k \in DOMAIN g
                 PROVE  \E i \in DOMAIN wire'[fd] : wire'[fd][i] = g[k]
    BY <2>0 DEF EveryoneHasHistory
  <2>2. fd \in DOMAIN mClients /\ fd \in DOMAIN wire /\ wire'[fd] = wire[fd] \o added
    BY <1>1, <1>2, <1>9
  <2>3. CASE k > c
    BY <1>5, <2>2, <2>3
  <2>4. CASE ~(k > c)
    <3>1. k \in 1..c
      BY <1>3, <2>4
    <3>2. PICK j \in DOMAIN mHistory : g[k] = mHistory[j]
      BY <1>3, <3>1
    <3>3. PICK i \in DOMAIN wire[fd] : wire[fd][i] = mHistory[j]
      BY <2>2 DEF DInv, EveryoneHasHistory
    <3> QED
      BY <1>5, <2>2, <3>2, <3>3
  <2> QED
    BY <2>3, <2>4
<1>13. ASSUME NEW fd \in DOMAIN wire, NEW i \in DOMAIN wire'[fd]
       PROVE  \/ i \in DOMAIN wire[fd] /\ wire'[fd][i] = wire[fd][i]
              \/ \E k \in DOMAIN g : wire'[fd][i] = g[k] /\ k > c
  <2>1. CASE wire'[fd] = wire[fd]
    BY <2>1
  <2>2. CASE wire'[fd] = wire[fd] \o added
    <3>1. i \in DOMAIN (wire[fd] \o added)
      BY <2>2
    <3> QED
      BY <1>5, <2>2, <3>1
  <2> QED
    BY <1>9, <2>1, <2>2
<1>14. OneMessagePerSeq'
  <2>1. SUFFICES ASSUME NEW e \in DOMAIN wire, NEW f \in DOMAIN wire,
                        NEW i \in DOMAIN wire'[e], NEW j \in DOMAIN wire'[f],
                        wire'[e][i].seq = wire'[f][j].seq
                 PROVE  wire'[e][i] = wire'[f][j]
    BY <1>9 DEF OneMessagePerSeq
  <2>2. CASE (i \in DOMAIN wire[e] /\ wire'[e][i] = wire[e][i])
             /\ (j \in DOMAIN wire[f] /\ wire'[f][j] = wire[f][j])
    BY <2>1, <2>2 DEF DInv, OneMessagePerSeq
  <2>3. CASE (i \in DOMAIN wire[e] /\ wire'[e][i] = wire[e][i])
             /\ (\E k \in DOMAIN g : wire'[f][j] = g[k] /\ k > c)
    BY <1>4, <2>1, <2>3 DEF Follows
  <2>4. CASE (\E k \in DOMAIN g : wire'[e][i] = g[k] /\ k > c)
             /\ (j \in DOMAIN wire[f] /\ wire'[f][j] = wire[f][j])
    BY <1>4, <2>1, <2>4 DEF Follows
  <2>5. CASE (\E k \in DOMAIN g : wire'[e][i] = g[k] /\ k > c)
             /\ (\E k \in DOMAIN g : wire'[f][j] = g[k] /\ k > c)
    BY <1>3, <2>1, <2>5 DEF OneMeaning
  <2> QED
    BY <1>13, <2>2, <2>3, <2>4, <2>5
<1>15. Promise!LogChanges
  <2> DEFINE kept == SubSeq(g, 1, c)
  <2>1. \A i \in DOMAIN added : \A seq \in Promise!SentSeqs : seq < added[i].seq
    <3>1. SUFFICES ASSUME NEW i \in DOMAIN added, NEW fd \in DOMAIN wire,
                          NEW j \in DOMAIN wire[fd]
                   PROVE  wire[fd][j].seq < added[i].seq
      BY DEF Promise!SentSeqs
    <3>2. LastSeq(mHistory) < added[i].seq /\ added[i].seq \in Nat
      BY <1>3, <1>7, <1>8
    <3>3. wire[fd][j].seq <= LastSeq(mHistory) /\ wire[fd][j].seq \in Nat
      BY <1>4
    <3> QED
      BY <1>7, <3>2, <3>3
  <2>2. Promise!StrictlySortedBySeq(added)
    <3>1. SUFFICES ASSUME NEW i \in DOMAIN added, NEW j \in DOMAIN added, i < j
                   PROVE  added[i].seq < added[j].seq
      BY DEF Promise!StrictlySortedBySeq
    <3>2. c + i < c + j
      BY <1>3, <1>8, <3>1
    <3> QED
      BY <1>3, <1>8, <3>2
  <2>3. kept = Promise!Only(mHistory, {kept[i] : i \in 1..c})
    BY <1>1, SurvivorsAreOnly DEF g, c
  <2>4. DOMAIN mClients' \subseteq DOMAIN mClients
    BY <1>1, <1>2
  <2>5. c \in 0..Len(mHistory') /\ kept = SubSeq(mHistory', 1, c)
        /\ added = SubSeq(mHistory', c + 1, Len(mHistory'))
    BY <1>2, <1>3 DEF added
  <2> HIDE DEF kept
  <2>6. (aborted # "no")' = (aborted # "no")
    BY <1>2
  <2>7. wire' = [fd \in DOMAIN wire |->
                    IF fd \in DOMAIN mClients' THEN wire[fd] \o added ELSE wire[fd]]
    BY <1>2
  <2> QED
    BY <2>1, <2>2, <2>3, <2>4, <2>5, <2>6, <2>7 DEF Promise!LogChanges
<1>16. ASSUME Strict PROVE Strict'
  <2>1. StrictlySortedBySeq(mHistory) /\ DeliveredInOrder
    BY <1>16 DEF Strict
  <2>2. StrictlySortedBySeq(g)
    BY <1>1, <2>1, StrictlyPruned DEF g
  <2>3. ASSUME NEW fd \in DOMAIN wire, NEW i \in DOMAIN wire'[fd],
               NEW j \in DOMAIN wire'[fd], i < j
        PROVE  wire'[fd][i].seq < wire'[fd][j].seq
    <3>1. CASE j \in DOMAIN wire[fd]
      <4>1. i \in DOMAIN wire[fd]
        <5>1. DOMAIN wire[fd] = 1..Len(wire[fd]) /\ Len(wire[fd]) \in Nat
          BY <1>4, HistoryElements
        <5>2. i \in Nat /\ i >= 1
          <6>1. wire'[fd] \in Seq(Messages)
            BY <1>4, <1>5, <1>9
          <6>2. DOMAIN wire'[fd] = 1..Len(wire'[fd]) /\ Len(wire'[fd]) \in Nat
            BY <6>1, HistoryElements
          <6> QED
            BY <6>2
        <5> QED
          BY <2>3, <3>1, <5>1, <5>2
      <4>2. wire'[fd][i] = wire[fd][i] /\ wire'[fd][j] = wire[fd][j]
        BY <1>5, <1>9, <3>1, <4>1
      <4> QED
        BY <2>1, <2>3, <3>1, <4>1, <4>2 DEF DeliveredInOrder, StrictlySortedBySeq
    <3>2. CASE j \notin DOMAIN wire[fd]
      <4>1. wire'[fd] = wire[fd] \o added
        BY <1>9, <3>2
      <4> QED
        BY <1>5, <2>3, <3>2, <4>1
    <3> QED
      BY <3>1, <3>2
  <2> QED
    BY <1>2, <1>9, <2>2, <2>3 DEF Strict, DeliveredInOrder, StrictlySortedBySeq
<1>17. OneMeaning(mHistory') /\ LeavesLast(mHistory')
  BY <1>2, <1>3
<1> QED
  BY <1>6, <1>10, <1>11, <1>12, <1>14, <1>15, <1>16, <1>17 DEF DInv

-----------------------------------------------------------------------------
(* The handlers deliver.                                                   *)

\* The invariant holds of a hub that nobody has connected to yet.
LEMMA InitDelivers ==
    ASSUME ServerInit
    PROVE  /\ DInv /\ Promise!BroadcastInit
           /\ (\A d \in Digests : StrictlySortedBySeq(d)) => Strict
<1>1. IInv
  BY InitKeepsInvariant
<1>2. /\ mHistory \in Digests /\ mNextSeq = LastSeq(mHistory) + 1
      /\ mClients = <<>> /\ wire = <<>> /\ aborted = "no"
  BY DEF ServerInit
<1>3. OneMeaning(mHistory) /\ LeavesLast(mHistory)
  BY <1>2, DigestsLawful
<1>4. mHistory \in Seq(Messages) /\ SortedBySeq(mHistory)
  BY <1>1 DEF IInv, TypeOK, HistoryInOrder
<1>5. DOMAIN mClients = {} /\ DOMAIN wire = {}
  BY <1>2
<1>6. ClientsCurrent
  <2>1. LastSeq(mHistory) \in Nat
    BY <1>4, LastSeqIsLargest
  <2> QED
    BY <1>2, <1>5, <2>1 DEF ClientsCurrent
<1>7. WiresFollow /\ EveryoneHasHistory /\ OneMessagePerSeq /\ DeliveredInOrder
  BY <1>5 DEF WiresFollow, EveryoneHasHistory, OneMessagePerSeq, DeliveredInOrder
<1>8. Promise!BroadcastInit
  BY <1>2, <1>4, <1>5 DEF Promise!BroadcastInit, Promise!SortedBySeq, SortedBySeq
<1> QED
  BY <1>1, <1>2, <1>3, <1>6, <1>7, <1>8 DEF DInv, Strict

\* The digest that a new client is sent is the history, so the client follows it.
LEMMA OnConnectDelivers ==
    ASSUME DInv, NEW fd \in Fds \ DOMAIN wire, OnConnect(fd)
    PROVE  DInv' /\ Promise!MemberJoins(fd) /\ (Strict => Strict')
<1>1. IInv'
  BY OnConnectKeepsInvariant DEF DInv
<1>2. /\ mHistory \in Seq(Messages) /\ SortedBySeq(mHistory)
      /\ OneMeaning(mHistory) /\ LeavesLast(mHistory)
      /\ DOMAIN mClients \subseteq DOMAIN wire /\ fd \notin DOMAIN wire
      /\ aborted = "no"
  BY DEF DInv, IInv, TypeOK, HistoryInOrder, OnConnect
<1> DEFINE client == [seq |-> LastSeq(mHistory), nodeId |-> 0, history |-> {}]
<1>3. client.seq = LastSeq(mHistory)
  OBVIOUS
<1> HIDE DEF client
<1>4. /\ mClients' = [f \in DOMAIN mClients \cup {fd} |-> IF f = fd THEN client ELSE mClients[f]]
      /\ wire' = [f \in DOMAIN wire \cup {fd} |-> IF f = fd THEN mHistory ELSE wire[f]]
      /\ mHistory' = mHistory /\ mNextSeq' = mNextSeq /\ aborted' = "no"
  BY <1>2 DEF OnConnect, client
<1>5. /\ DOMAIN mClients' = DOMAIN mClients \cup {fd}
      /\ DOMAIN wire' = DOMAIN wire \cup {fd}
      /\ wire'[fd] = mHistory /\ mClients'[fd] = client
      /\ \A f \in DOMAIN wire : wire'[f] = wire[f]
      /\ \A f \in DOMAIN mClients : mClients'[f] = mClients[f]
  BY <1>2, <1>4
<1>6. ClientsCurrent'
  BY <1>3, <1>4, <1>5 DEF DInv, ClientsCurrent
<1>7. WiresFollow'
  <2>1. Follows(mHistory, mHistory)
    BY <1>2, LastSeqIsLargest DEF Follows, OneMeaning
  <2> QED
    BY <1>4, <1>5, <2>1 DEF DInv, WiresFollow
<1>8. EveryoneHasHistory'
  <2>1. SUFFICES ASSUME NEW f \in DOMAIN mClients', NEW i \in DOMAIN mHistory
                 PROVE  \E j \in DOMAIN wire'[f] : wire'[f][j] = mHistory[i]
    BY <1>4 DEF EveryoneHasHistory
  <2>2. CASE f = fd
    BY <1>5, <2>2
  <2>3. CASE f \in DOMAIN mClients
    BY <1>2, <1>5, <2>3 DEF DInv, EveryoneHasHistory
  <2> QED
    BY <1>5, <2>2, <2>3
<1>9. OneMessagePerSeq'
  <2>1. SUFFICES ASSUME NEW e \in DOMAIN wire', NEW f \in DOMAIN wire',
                        NEW i \in DOMAIN wire'[e], NEW j \in DOMAIN wire'[f],
                        wire'[e][i].seq = wire'[f][j].seq
                 PROVE  wire'[e][i] = wire'[f][j]
    BY DEF OneMessagePerSeq
  <2>2. CASE e = fd /\ f = fd
    BY <1>2, <1>5, <2>1, <2>2 DEF OneMeaning
  <2>3. CASE e = fd /\ f \in DOMAIN wire
    BY <1>5, <2>1, <2>3 DEF DInv, WiresFollow, Follows
  <2>4. CASE e \in DOMAIN wire /\ f = fd
    BY <1>5, <2>1, <2>4 DEF DInv, WiresFollow, Follows
  <2>5. CASE e \in DOMAIN wire /\ f \in DOMAIN wire
    BY <1>5, <2>1, <2>5 DEF DInv, OneMessagePerSeq
  <2> QED
    BY <1>5, <2>2, <2>3, <2>4, <2>5
<1>10. Promise!MemberJoins(fd)
  BY <1>2, <1>4, <1>5 DEF Promise!MemberJoins
<1>11. Strict => Strict'
  BY <1>4, <1>5 DEF Strict, DeliveredInOrder
<1>12. OneMeaning(mHistory') /\ LeavesLast(mHistory')
  BY <1>2, <1>4
<1> QED
  BY <1>1, <1>6, <1>7, <1>8, <1>9, <1>10, <1>11, <1>12 DEF DInv

\* A failed assert of AddOldMessage ends the process and changes nothing else.
LEMMA AbortDelivers ==
    ASSUME DInv, aborted = "no", purged' \in BOOLEAN,
           NEW assertion \in {"uid", "hit"}, Abort(assertion)
    PROVE  DInv' /\ Promise!Halts /\ (Strict => Strict')
<1>1. /\ mHistory' = mHistory /\ mNextSeq' = mNextSeq /\ mClients' = mClients
      /\ wire' = wire /\ aborted' # "no"
  BY DEF Abort
<1>2. IInv'
  BY AbortKeepsInvariant DEF DInv
<1>3. DInv'
  BY <1>1, <1>2 DEF DInv, ClientsCurrent, WiresFollow, EveryoneHasHistory, OneMessagePerSeq
<1>4. Promise!Halts
  BY <1>1 DEF Promise!Halts
<1> QED
  BY <1>1, <1>3, <1>4 DEF Strict, DeliveredInOrder

\* A message of a client adds itself, under the next number or its own, or nothing.
LEMMA OnDataSettles ==
    ASSUME DInv, NEW fd \in DOMAIN mClients, NEW msg \in Messages, NEW uid \in Uids,
           OnData(fd, msg, uid)
    PROVE  \/ UNCHANGED serverVars
           \/ \E assertion \in {"uid", "hit"} : Abort(assertion)
           \/ /\ msg.body.node # 0
              /\ \E news, clients, nextSeq :
                    /\ Settling(news, clients, nextSeq)
                    /\ \A i \in DOMAIN news : news[i].body = msg.body
                    /\ DOMAIN clients = DOMAIN mClients
                    /\ \A f \in DOMAIN mClients : clients[f].nodeId =
                          IF f = fd THEN msg.body.node ELSE mClients[f].nodeId
<1> DEFINE clients == [mClients EXCEPT ![fd].nodeId = msg.body.node]
           remembered == [clients EXCEPT ![fd].history = @ \cup {msg.body}]
           Outcome(news, cls, nextSeq) ==
              /\ Settling(news, cls, nextSeq)
              /\ \A i \in DOMAIN news : news[i].body = msg.body
              /\ DOMAIN cls = DOMAIN mClients
              /\ \A f \in DOMAIN mClients : cls[f].nodeId =
                    IF f = fd THEN msg.body.node ELSE mClients[f].nodeId
<1>1. /\ mHistory \in Seq(Messages) /\ mNextSeq \in Nat
      /\ SortedBySeq(mHistory)
      /\ \A i \in DOMAIN mHistory : mHistory[i].seq < mNextSeq
      /\ LastSeq(mHistory) < mNextSeq
      /\ mClients \in [DOMAIN mClients -> Clients]
  BY DEF DInv, IInv, TypeOK, HistoryInOrder, ClientsCurrent
<1>2. msg.seq \in Nat /\ msg.uid \in Nat /\ msg.body \in Bodies /\ msg.body.node \in Nat
  BY DEF Messages, Bodies
<1>3. LastSeq(mHistory) \in Nat
      /\ (DOMAIN mHistory # {} => LastSeq(mHistory) = mHistory[Len(mHistory)].seq)
      /\ (DOMAIN mHistory # {} => Len(mHistory) \in DOMAIN mHistory)
      /\ (DOMAIN mHistory = {} => LastSeq(mHistory) = 0)
  BY <1>1, LastSeqIsLargest
<1>4. /\ clients \in [DOMAIN mClients -> Clients]
      /\ \A f \in DOMAIN mClients : clients[f].seq = mClients[f].seq
      /\ \A f \in DOMAIN mClients : clients[f].nodeId =
            IF f = fd THEN msg.body.node ELSE mClients[f].nodeId
  BY <1>1, <1>2 DEF Clients
<1>5. /\ remembered \in [DOMAIN mClients -> Clients]
      /\ \A f \in DOMAIN mClients : remembered[f].seq = mClients[f].seq
      /\ \A f \in DOMAIN mClients : remembered[f].nodeId = clients[f].nodeId
  <2> HIDE DEF clients
  <2> QED
    BY <1>2, <1>4 DEF Clients
<1>6. \/ UNCHANGED serverVars
      \/ /\ msg.body.node # 0
         /\ \/ AddNovelMessage(fd, msg, uid, clients)
            \/ AddOldMessage(fd, msg, clients)
  BY DEF OnData, serverVars
<1> HIDE DEF remembered
<1>7. ASSUME Settle(mHistory, clients, mNextSeq)
      PROVE  \E news, cls, nextSeq : Outcome(news, cls, nextSeq)
  <2> HIDE DEF clients
  <2>1. Settling(<<>>, clients, mNextSeq)
    BY <1>1, <1>4, <1>7, NoAdditions DEF Settling
  <2>2. Outcome(<<>>, clients, mNextSeq)
    BY <1>4, <2>1
  <2> QED
    BY <2>2
<1>8. ASSUME NEW new \in Messages, LastSeq(mHistory) < new.seq,
             \A i \in DOMAIN mHistory : mHistory[i].seq < new.seq,
             new.body = msg.body,
             Settle(Append(mHistory, new), remembered, new.seq + 1)
      PROVE  \E news, cls, nextSeq : Outcome(news, cls, nextSeq)
  <2>1. <<new>> \in Additions(mHistory) /\ Append(mHistory, new) = mHistory \o <<new>>
    BY <1>1, <1>8, SmallAdditions
  <2>2. \A i \in DOMAIN Append(mHistory, new) : Append(mHistory, new)[i].seq < new.seq + 1
    BY <1>1, <1>8, AppendKeepsOrder
  <2>3. new.seq \in Nat
    BY DEF Messages
  <2> DEFINE news == <<new>>
             h    == Append(mHistory, new)
  <2> HIDE DEF news, h
  <2>4. new.seq + 1 \in Nat /\ LastSeq(mHistory) < new.seq + 1
    BY <1>3, <1>8, <2>3
  <2>5. h = mHistory \o news /\ news \in Additions(mHistory)
        /\ (\A i \in DOMAIN h : h[i].seq < new.seq + 1)
        /\ Settle(h, remembered, new.seq + 1)
    BY <1>8, <2>1, <2>2 DEF news, h
  <2>6. Settling(news, remembered, new.seq + 1)
    BY <1>5, <2>4, <2>5 DEF Settling
  <2>7. \A i \in DOMAIN news : news[i].body = msg.body
    BY <1>8 DEF news
  <2>8. Outcome(news, remembered, new.seq + 1)
    BY <1>4, <1>5, <2>6, <2>7
  <2> QED
    BY <2>8
<1>9. ASSUME AddNovelMessage(fd, msg, uid, clients)
      PROVE  \E news, cls, nextSeq : Outcome(news, cls, nextSeq)
  <2> DEFINE novel == Message(mNextSeq, uid, msg.body)
  <2>1. novel \in Messages /\ novel.seq = mNextSeq /\ novel.body = msg.body
    BY <1>1, <1>2, UidsAssumption DEF Message, Messages
  <2>2. \/ Settle(mHistory, clients, mNextSeq)
        \/ Settle(Append(mHistory, novel), remembered, mNextSeq + 1)
    BY <1>9 DEF AddNovelMessage, remembered
  <2> HIDE DEF novel, clients, Outcome
  <2> QED
    BY <1>1, <1>7, <1>8, <2>1, <2>2
<1>10. ASSUME AddOldMessage(fd, msg, clients)
       PROVE  \/ \E assertion \in {"uid", "hit"} : Abort(assertion)
              \/ \E news, cls, nextSeq : Outcome(news, cls, nextSeq)
  <2>1. \/ \E assertion \in {"uid", "hit"} : Abort(assertion)
        \/ /\ msg.seq # 0 /\ LowerBound(mHistory, msg.seq) > Len(mHistory)
           /\ Settle(Append(mHistory, msg), remembered, msg.seq + 1)
        \/ Settle(mHistory, clients, mNextSeq)
    BY <1>10 DEF AddOldMessage, remembered
  <2> HIDE DEF clients, Outcome
  <2>2. ASSUME msg.seq # 0, LowerBound(mHistory, msg.seq) > Len(mHistory)
        PROVE  /\ LastSeq(mHistory) < msg.seq
               /\ \A i \in DOMAIN mHistory : mHistory[i].seq < msg.seq
    <3>1. Len(mHistory) \in Nat /\ DOMAIN mHistory = 1..Len(mHistory)
      BY <1>1, HistoryElements
    <3>2. /\ LowerBound(mHistory, msg.seq) \in 1..(Len(mHistory) + 1)
          /\ \A j \in 1..(LowerBound(mHistory, msg.seq) - 1) : mHistory[j].seq < msg.seq
      BY <1>1, <1>2, LowerBoundExists
    <3>3. LowerBound(mHistory, msg.seq) - 1 = Len(mHistory)
      BY <2>2, <3>1, <3>2
    <3>4. \A i \in DOMAIN mHistory : mHistory[i].seq < msg.seq
      BY <3>1, <3>2, <3>3
    <3> QED
      BY <1>2, <1>3, <2>2, <3>4
  <2>3. CASE /\ msg.seq # 0 /\ LowerBound(mHistory, msg.seq) > Len(mHistory)
             /\ Settle(Append(mHistory, msg), remembered, msg.seq + 1)
    BY <1>8, <2>2, <2>3
  <2> QED
    BY <1>7, <2>1, <2>3
<1> QED
  BY <1>6, <1>9, <1>10
\* A hangup adds the LEAVE of the client.
LEMMA OnDisconnectSettles ==
    ASSUME DInv, NEW fd \in DOMAIN mClients, OnDisconnect(fd)
    PROVE  \E news, clients, nextSeq :
              /\ Settling(news, clients, nextSeq)
              /\ \A i \in DOMAIN news : IsLeave(news[i])
              /\ LeftNodes(news) = {mClients[fd].nodeId}
              /\ DOMAIN clients = DOMAIN mClients \ {fd}
              /\ \A f \in DOMAIN clients : clients[f] = mClients[f]
<1> DEFINE leave   == Message(mNextSeq, 0, NodeChange("LEAVE", mClients[fd].nodeId))
           news    == <<leave>>
           h       == Append(mHistory, leave)
           clients == [f \in DOMAIN mClients \ {fd} |-> mClients[f]]
<1>1. /\ mHistory \in Seq(Messages) /\ mNextSeq \in Nat
      /\ SortedBySeq(mHistory)
      /\ \A i \in DOMAIN mHistory : mHistory[i].seq < mNextSeq
      /\ LastSeq(mHistory) < mNextSeq
      /\ mClients \in [DOMAIN mClients -> Clients]
  BY DEF DInv, IInv, TypeOK, HistoryInOrder, ClientsCurrent
<1>2. clients \in [DOMAIN clients -> Clients] /\ DOMAIN clients = DOMAIN mClients \ {fd}
      /\ \A f \in DOMAIN clients : clients[f] = mClients[f]
  BY <1>1
<1>3. /\ leave \in Messages /\ leave.seq = mNextSeq
      /\ IsLeave(leave) /\ leave.body.node = mClients[fd].nodeId
  <2>1. mClients[fd].nodeId \in Nat
    BY <1>1 DEF Clients
  <2>2. NodeChange("LEAVE", mClients[fd].nodeId) \in Bodies
    BY <2>1 DEF NodeChange, Bodies, NodeOps
  <2> QED
    BY <1>1, <2>2 DEF Message, Messages, IsLeave, NodeChange
<1>4. Settle(h, clients, mNextSeq + 1)
  BY DEF OnDisconnect
<1> HIDE DEF leave, clients
<1>5. news \in Additions(mHistory) /\ h = mHistory \o news
  BY <1>1, <1>3, SmallAdditions
<1>6. \A i \in DOMAIN h : h[i].seq < mNextSeq + 1
  BY <1>1, <1>3, AppendKeepsOrder
<1>7. mNextSeq + 1 \in Nat /\ LastSeq(mHistory) < mNextSeq + 1
  BY <1>1, LastSeqIsLargest
<1>8. DOMAIN news = {1} /\ news[1] = leave
  OBVIOUS
<1> HIDE DEF news, h
<1>9. Settling(news, clients, mNextSeq + 1)
  BY <1>2, <1>4, <1>5, <1>6, <1>7 DEF Settling
<1>10. (\A i \in DOMAIN news : IsLeave(news[i])) /\ LeftNodes(news) = {mClients[fd].nodeId}
  BY <1>3, <1>8 DEF LeftNodes
<1> QED
  BY <1>2, <1>9, <1>10

\* The purge adds the LEAVEs of the nodes that have no connection.
LEMMA PurgeSettles ==
    ASSUME DInv, PurgeDisconnected
    PROVE  \E news, nextSeq :
              /\ Settling(news, mClients, nextSeq)
              /\ \A i \in DOMAIN news : IsLeave(news[i])
              /\ LeftNodes(news) = HistoricallyActive(mHistory) \ ConnectedNodes
<1> DEFINE gone == HistoricallyActive(mHistory) \ ConnectedNodes
           n    == Cardinality(gone)
<1>1. /\ mHistory \in Seq(Messages) /\ mNextSeq \in Nat
      /\ SortedBySeq(mHistory)
      /\ \A i \in DOMAIN mHistory : mHistory[i].seq < mNextSeq
      /\ LastSeq(mHistory) < mNextSeq
      /\ mClients \in [DOMAIN mClients -> Clients]
  BY DEF DInv, IInv, TypeOK, HistoryInOrder, ClientsCurrent
<1>2. gone \in SUBSET Nat /\ IsFiniteSet(gone) /\ n \in Nat
  <2>1. IsFiniteSet(HistoricallyActive(mHistory)) /\ HistoricallyActive(mHistory) \in SUBSET Nat
    BY <1>1, ActiveNodesFinite
  <2>2. gone \in SUBSET HistoricallyActive(mHistory)
    OBVIOUS
  <2> HIDE DEF gone
  <2>3. IsFiniteSet(gone)
    BY <2>1, <2>2, FS_Subset
  <2> QED
    BY <2>1, <2>2, <2>3, FS_CardinalityType
<1>3. PICK order \in [1..n -> gone] :
         /\ \A i, j \in 1..n : order[i] = order[j] => i = j
         /\ Settle(mHistory \o Leaves(mNextSeq, n, order), mClients, mNextSeq + n)
  BY DEF PurgeDisconnected, Leaves
<1>10. gone = HistoricallyActive(mHistory) \ ConnectedNodes /\ n = Cardinality(gone)
  OBVIOUS
<1> HIDE DEF n, gone
<1>4. order \in [1..n -> Nat]
  BY <1>2
<1> DEFINE l == Leaves(mNextSeq, n, order)
<1>5. l \in Additions(mHistory)
  BY <1>1, <1>2, <1>4, LeavesAreAdditions
<1>6. \A i \in DOMAIN (mHistory \o l) : (mHistory \o l)[i].seq < mNextSeq + n
  BY <1>1, <1>2, <1>4, LeavesKeepOrder
<1>7. mNextSeq + n \in Nat /\ LastSeq(mHistory) < mNextSeq + n
  BY <1>1, <1>2, LastSeqIsLargest
<1>8. Settle(mHistory \o l, mClients, mNextSeq + n)
  BY <1>3
<1>9. DOMAIN l = 1..n /\ \A i \in 1..n : IsLeave(l[i]) /\ l[i].body.node = order[i]
  BY DEF Leaves, Message, NodeChange, IsLeave
<1> HIDE DEF l
<1>11. Settling(l, mClients, mNextSeq + n)
  BY <1>1, <1>5, <1>6, <1>7, <1>8 DEF Settling
<1>12. LeftNodes(l) = {order[i] : i \in 1..n}
  BY <1>9 DEF LeftNodes
<1>13. {order[i] : i \in 1..n} = gone
  <2> DEFINE image == {order[i] : i \in 1..n}
  <2>1. ExistsBijection(1..n, image)
    <3>1. order \in Bijection(1..n, image)
      BY <1>3 DEF Bijection, Injection, Surjection, IsInjective
    <3> QED
      BY <3>1 DEF ExistsBijection
  <2>2. image \in SUBSET gone
    OBVIOUS
  <2>3. IsFiniteSet(1..n) /\ Cardinality(1..n) = n
    BY <1>2, FS_Interval
  <2> HIDE DEF image
  <2>4. Cardinality(image) = n
    BY <2>1, <2>3, FS_Bijection
  <2>5. image = gone
    BY <1>2, <1>10, <2>2, <2>4, FS_Subset
  <2> QED
    BY <2>5 DEF image
<1> QED
  BY <1>9, <1>10, <1>11, <1>12, <1>13

\* Every step of the hub keeps the invariant and is a step of OrderedBroadcast.
LEMMA NextDelivers ==
    ASSUME DInv, [ServerNext]_serverVars
    PROVE  DInv' /\ [Promise!BroadcastNext]_(Promise!bcastVars) /\ (Strict => Strict')
<1>1. ASSUME NEW fd \in Fds \ DOMAIN wire, OnConnect(fd)
      PROVE  DInv' /\ Promise!BroadcastNext /\ (Strict => Strict')
  BY <1>1, OnConnectDelivers DEF Promise!BroadcastNext
<1>2. ASSUME aborted = "no", purged' \in BOOLEAN,
             \E news, clients, nextSeq : Settling(news, clients, nextSeq)
      PROVE  DInv' /\ Promise!BroadcastNext /\ (Strict => Strict')
  <2>1. PICK news, clients, nextSeq : Settling(news, clients, nextSeq)
    BY <1>2
  <2> QED
    BY <1>2, <2>1, SettlingDelivers DEF Promise!BroadcastNext
<1>3. CASE UNCHANGED serverVars
  <2>1. DInv'
    BY <1>3, NextKeepsInvariant
       DEF serverVars, DInv, ClientsCurrent, WiresFollow, EveryoneHasHistory, OneMessagePerSeq
  <2>2. UNCHANGED Promise!bcastVars
    BY <1>3 DEF serverVars, Promise!bcastVars
  <2> QED
    BY <1>3, <2>1, <2>2 DEF serverVars, Strict, DeliveredInOrder
<1>4. purged \in BOOLEAN
  BY DEF DInv, IInv, TypeOK
<1>5. ASSUME NEW fd \in DOMAIN mClients, NEW msg \in Inbound[fd], NEW uid \in Uids,
             OnData(fd, msg, uid)
      PROVE  DInv' /\ [Promise!BroadcastNext]_(Promise!bcastVars) /\ (Strict => Strict')
  <2>1. aborted = "no" /\ purged' \in BOOLEAN
    BY <1>4, <1>5 DEF OnData
  <2>2. msg \in Messages
    <3>1. fd \in Fds
      BY DEF DInv, IInv, TypeOK
    <3> QED
      BY <3>1, InboundAssumption
  <2>3. \/ UNCHANGED serverVars
        \/ \E assertion \in {"uid", "hit"} : Abort(assertion)
        \/ \E news, clients, nextSeq : Settling(news, clients, nextSeq)
    BY <1>5, <2>2, OnDataSettles
  <2>4. CASE \E assertion \in {"uid", "hit"} : Abort(assertion)
    BY <2>1, <2>4, AbortDelivers DEF Promise!BroadcastNext
  <2> QED
    BY <1>2, <1>3, <2>1, <2>3, <2>4
<1>6. ASSUME NEW fd \in DOMAIN mClients, OnDisconnect(fd)
      PROVE  DInv' /\ Promise!BroadcastNext /\ (Strict => Strict')
  <2>1. aborted = "no" /\ purged' \in BOOLEAN
    BY <1>4, <1>6 DEF OnDisconnect
  <2> QED
    BY <1>2, <1>6, <2>1, OnDisconnectSettles
<1>7. CASE PurgeDisconnected
  <2>1. aborted = "no" /\ purged' \in BOOLEAN
    BY <1>7 DEF PurgeDisconnected
  <2> QED
    BY <1>2, <1>7, <2>1, PurgeSettles
<1> QED
  BY <1>1, <1>3, <1>5, <1>6, <1>7 DEF ServerNext

-----------------------------------------------------------------------------
(* The theorems about delivery.                                            *)

\* The invariant of delivery, which the theorems below weaken.
THEOREM DeliveryInvariant == ServerSpec => []DInv
<1>1. ServerInit => DInv
  BY InitDelivers
<1>2. DInv /\ [ServerNext]_serverVars => DInv'
  BY NextDelivers
<1> QED
  BY <1>1, <1>2, PTL DEF ServerSpec

\* Whatever is in mHistory was sent to every connected client: the digest of
\* OnConnect and the Broadcasts after it leave no gap, although a client's number
\* is all that Broadcast goes by.
THEOREM NobodyMissesHistory == ServerSpec => []EveryoneHasHistory
<1>1. DInv => EveryoneHasHistory
  BY DEF DInv
<1> QED
  BY <1>1, DeliveryInvariant, PTL

\* mNextSeq never falls back to a number that somebody was sent, although
\* AddOldMessage sets it and PruneRemoved drops the messages it was derived from.
THEOREM NumbersMeanOneMessage == ServerSpec => []OneMessagePerSeq
<1>1. DInv => OneMessagePerSeq
  BY DEF DInv
<1> QED
  BY <1>1, DeliveryInvariant, PTL

\* What a client has received can be the digest of the next hub: DigestsAssumption
\* and DigestsLawful hold of it, so the group survives the hub it learnt from.
WiresAreDigests ==
    \A fd \in DOMAIN wire :
        /\ wire[fd] \in Seq(Messages)
        /\ SortedBySeq(wire[fd]) /\ OneMeaning(wire[fd]) /\ LeavesLast(wire[fd])

\* A spoke that becomes the hub passes what it was sent to CreateServer.
THEOREM ClientsHoldDigests == ServerSpec => []WiresAreDigests
<1>1. DInv => WiresAreDigests
  BY DEF DInv, IInv, TypeOK, WiresFollow, Follows, OneMessagePerSeq, OneMeaning, WiresAreDigests
<1> QED
  BY <1>1, DeliveryInvariant, PTL

\* When no number occurs twice in the digest, none is sent to a client twice, and
\* all are sent in their order.
THEOREM DeliveryInOrder ==
    ASSUME \A d \in Digests : StrictlySortedBySeq(d)
    PROVE  ServerSpec => []DeliveredInOrder
<1>1. ServerInit => DInv /\ Strict
  BY InitDelivers
<1>2. DInv /\ Strict /\ [ServerNext]_serverVars => (DInv /\ Strict)'
  BY NextDelivers
<1>3. Strict => DeliveredInOrder
  BY DEF Strict
<1> QED
  BY <1>1, <1>2, <1>3, PTL DEF ServerSpec

\* The hub implements OrderedBroadcast: each handler with its pruning and its
\* broadcast is one joining, one change of the log, or the end.
THEOREM ServerKeepsPromise == ServerSpec => KeepsPromise
<1>1. ServerInit => Promise!BroadcastInit
  BY InitDelivers
<1>2. DInv /\ [ServerNext]_serverVars => [Promise!BroadcastNext]_(Promise!bcastVars)
  BY NextDelivers
<1> QED
  BY <1>1, <1>2, DeliveryInvariant, PTL DEF ServerSpec, KeepsPromise, Promise!BroadcastSpec
=============================================================================
