-------------------------- MODULE TopologyMessages --------------------------
(***************************************************************************)
(* TopologyMessage (protos/index.proto) and the operations that the hub    *)
(* and the spokes share on a history, a sequence of messages.              *)
(*                                                                         *)
(* A message is [seq, uid, body].  The body stands for the oneof: its op   *)
(* says whether it is a NodeChange or a TopicChange.  The name and the     *)
(* address of a node never change while the node lives, so a NodeChange    *)
(* is identified by its op and its node; the socket field is never set.    *)
(* The empty string and 0 are the protobuf defaults.                       *)
(***************************************************************************)
EXTENDS Naturals, Sequences, FiniteSets

NodeOps  == {"JOIN", "LEAVE"}
TopicOps == {"ANNOUNCE", "RETRACT", "SUBSCRIBE", "UNSUBSCRIBE"}

Bodies   == [op : NodeOps, node : Nat, topic : {""}, mime : {""}]
            \cup [op : TopicOps, node : Nat, topic : STRING, mime : STRING]
Messages == [seq : Nat, uid : Nat, body : Bodies]

\* True of every string literal; the provers behind the proofs do not know it.
ASSUME EmptyIsAString == "" \in STRING

NodeChange(op, node) ==
    [op |-> op, node |-> node, topic |-> "", mime |-> ""]
TopicChange(op, node, topic, mime) ==
    [op |-> op, node |-> node, topic |-> topic, mime |-> mime]

Message(seq, uid, body) == [seq |-> seq, uid |-> uid, body |-> body]

IsJoin(msg)  == msg.body.op = "JOIN"
IsLeave(msg) == msg.body.op = "LEAVE"

-----------------------------------------------------------------------------
(* Filtering a sequence by a set of its positions.                         *)

\* The k-th smallest element of a finite set of positions.
Kth(S, k) == CHOOSE i \in S : Cardinality({j \in S : j <= i}) = k

SubsequenceAt(s, S) == [k \in 1..Cardinality(S) |-> s[Kth(S, k)]]

-----------------------------------------------------------------------------
(* Histories.                                                              *)

\* Sequence numbers never decrease along the history.
SortedBySeq(h) == \A i, j \in DOMAIN h : i < j => h[i].seq <= h[j].seq

\* Every sequence number occurs at most once.
StrictlySortedBySeq(h) == \A i, j \in DOMAIN h : i < j => h[i].seq < h[j].seq

\* Deviation: the length for the last number, although numbers have gaps.
LengthForLastSeq(h) == Len(h)

LastSeq(h) == IF h = <<>> THEN 0 ELSE h[Len(h)].seq

\* std::lower_bound by seq: the first position whose seq is not below, or
\* one past the end.
LowerBound(h, seq) ==
    CHOOSE i \in 1..(Len(h) + 1) :
        /\ i <= Len(h) => h[i].seq >= seq
        /\ \A j \in 1..(i - 1) : h[j].seq < seq

InsertBefore(h, i, msg) == SubSeq(h, 1, i - 1) \o <<msg>> \o SubSeq(h, i, Len(h))

-----------------------------------------------------------------------------
(* What TopologyServer::Broadcast sends of a history.                      *)

\* The largest of a client's sequence number and those of a history.
HighestSeq(h, seq) ==
    LET seqs == {seq} \cup {h[i].seq : i \in DOMAIN h}
    IN  CHOOSE m \in seqs : \A x \in seqs : x <= m

\* Deviation: the last message sent is sent again.
UnsentOrLast(h, seq) == {i \in DOMAIN h : h[i].seq >= seq}

\* Deviation: the next message is taken for known.
UnsentButNext(h, seq) == {i \in DOMAIN h : h[i].seq > seq + 1}

(* The positions Broadcast writes to a client that has seen up to seq: it  *)
(* raises the client's number as it goes, so a message is written iff its  *)
(* number exceeds the client's and those of all messages before it.        *)
Unsent(h, seq) ==
    {i \in DOMAIN h : /\ h[i].seq > seq
                      /\ \A j \in 1..(i - 1) : h[j].seq < h[i].seq}

-----------------------------------------------------------------------------
(* TopologyServer::PruneRemoved.                                           *)

LeftNodes(h) == {h[i].body.node : i \in {j \in DOMAIN h : IsLeave(h[j])}}

(* A node change is dropped when its node has a LEAVE and it is not that   *)
(* LEAVE.  For a topic change the code counts the value of the comparison  *)
(* node_id() > 0 in the set, so it asks whether node 1 (or 0) has left.    *)
Prunable(left, msg) ==
    \/ /\ msg.body.op \in NodeOps
       /\ msg.body.node \in left
       /\ ~IsLeave(msg)
    \/ /\ msg.body.op \in TopicOps
       /\ (IF msg.body.node > 0 THEN 1 ELSE 0) \in left

PruneRemoved(h) ==
    SubsequenceAt(h, {i \in DOMAIN h : ~Prunable(LeftNodes(h), h[i])})

\* The nodes whose last node change in the history is a JOIN.
HistoricallyActive(h) ==
    {h[i].body.node : i \in {j \in DOMAIN h :
        /\ IsJoin(h[j])
        /\ \A k \in (j + 1)..Len(h) :
              ~(IsLeave(h[k]) /\ h[k].body.node = h[j].body.node)}}

-----------------------------------------------------------------------------
(* The histories that occur.                                               *)

\* Messages with the same number are copies of one message.
OneMeaning(h) == \A i, j \in DOMAIN h : h[i].seq = h[j].seq => h[i] = h[j]

\* Nothing follows a LEAVE that the LEAVE would have PruneRemoved drop.
LeavesLast(h) ==
    \A i, j \in DOMAIN h :
        i < j /\ IsLeave(h[i]) => ~Prunable({h[i].body.node}, h[j])
=============================================================================
