------------------------- MODULE SharedMemoryProofs -------------------------
(***************************************************************************)
(* Theorems about the shared-memory path, for any subscribers, queues and  *)
(* number of messages: the variables have their types, a client is listed  *)
(* once, no segment outlives its use but those that Create lost, and       *)
(* messages arrive once and in order.                                      *)
(*                                                                         *)
(* The argument: a segment is named, or open in the publisher, only while  *)
(* its Send is under way, because all returns of Send pass the two scope   *)
(* guards; and a subscriber's open descriptors belong to messages, with    *)
(* which they come and go, or are those that Create lost.  A client is     *)
(* listed once because it waits for accept once: whoever waits is in the   *)
(* backlog at one place and not listed yet.                                *)
(***************************************************************************)
EXTENDS SharedMemory, TLAPS

\* Where a subscriber's connection is.
Registered ==
    /\ \A i \in DOMAIN backlog : subs[backlog[i]].conn = "backlog"
    /\ \A i, j \in DOMAIN backlog : backlog[i] = backlog[j] => i = j
    /\ \A i \in DOMAIN mClients : subs[mClients[i]].conn \notin {"none", "backlog"}
    /\ \A s \in Subs : subs[s].thread = "new" => subs[s].conn = "none"

\* What refers to a segment, and until when.
Owned ==
    /\ named \subseteq {sends}
    /\ pub = "idle" => named = {} /\ pubFds = {}
    /\ pub \in {"made", "begun", "walk"} => sends # 0
    /\ \A s \in Subs :
          /\ subs[s].fds \subseteq subs[s].msgs \cup subs[s].lost
          /\ subs[s].thread = "new" => subs[s].msgs = {}

IInv == TypeOK /\ Registered /\ Owned

\* The first state.
LEMMA InitIInv == Init => IInv
<1> SUFFICES ASSUME Init PROVE IInv
  OBVIOUS
<1> USE SharedMemoryAssumption DEF Init
<1>1. NewSubscriber \in Subscribers
  BY DEF NewSubscriber, Subscribers
<1>2. TypeOK
  <2>1. \A s \in Subs : subs[s] = NewSubscriber
    OBVIOUS
  <2>2. walk \in [next : Nat, last : Nat, stale : BOOLEAN]
    BY DEF NoWalk
  <2> QED
    BY <1>1, <2>1, <2>2 DEF TypeOK, NewSubscriber
<1>3. Registered
  BY DEF Registered, NewSubscriber
<1>4. Owned
  BY DEF Owned, NewSubscriber
<1> QED
  BY <1>2, <1>3, <1>4 DEF IInv

\* What holds of every subscriber's record on its own.
Sound(r) ==
    /\ Len(r.queue) <= QueueLength
    /\ r.fds \subseteq r.msgs \cup r.lost
    /\ r.thread = "new" => r.msgs = {}
    /\ r.msgs \cup r.lost \subseteq {r.taken[i] : i \in DOMAIN r.taken}

LEMMA RecordsAreSound == IInv => \A s \in Subs : Sound(subs[s]) /\ subs[s] \in Subscribers
BY DEF IInv, TypeOK, Owned, Sound

\* The invariant may be shown of the publisher's variables and of each record.
LEMMA IInvByParts ==
    ASSUME subs' \in [Subs -> Subscribers], \A s \in Subs : Sound(subs[s]'),
           pub' \in {"idle", "made", "begun", "walk", "dead"},
           mClients' \in Seq(Subs), backlog' \in Seq(Subs),
           \A i, j \in DOMAIN mClients' : mClients'[i] = mClients'[j] => i = j,
           sends' \in 0..MaxSends, named' \subseteq 1..MaxSends,
           pubFds' \in {{}, {"write"}, {"write", "send"}},
           walk' \in [next : Nat, last : Nat, stale : BOOLEAN],
           since' \in [Subs -> Nat], clean' \subseteq 1..MaxSends,
           Registered',
           named' \subseteq {sends'}, pub' = "idle" => named' = {} /\ pubFds' = {},
           pub' \in {"made", "begun", "walk"} => sends' # 0
    PROVE  IInv'
<1>1. TypeOK'
  BY DEF TypeOK, Sound
<1>2. Owned'
  BY DEF Owned, Sound
<1> QED
  BY <1>1, <1>2 DEF IInv

\* A step of one subscriber that changes only its own record.
LEMMA BecomesKeepsIInv ==
    ASSUME IInv, NEW s \in Subs, NEW r \in Subscribers, Becomes(s, r),
           r.conn = subs[s].conn, r.thread # "new",
           Len(r.queue) <= QueueLength, r.fds \subseteq r.msgs \cup r.lost,
           r.msgs \cup r.lost \subseteq {r.taken[i] : i \in DOMAIN r.taken}
    PROVE  IInv'
<1> USE DEF IInv, Becomes, acceptVars, sendVars
<1>1. /\ subs' \in [Subs -> Subscribers]
      /\ \A t \in Subs : subs'[t] = IF t = s THEN r ELSE subs[t]
  BY DEF TypeOK
<1>2. \A t \in Subs : Sound(subs'[t])
  BY <1>1, RecordsAreSound DEF Sound
<1>3. Registered'
  <2>1. \A t \in Subs : subs'[t].conn = subs[t].conn
    BY <1>1
  <2>2. /\ \A i \in DOMAIN backlog : backlog[i] \in Subs
        /\ \A i \in DOMAIN mClients : mClients[i] \in Subs
    BY DEF TypeOK
  <2> QED
    BY <1>1, <2>1, <2>2 DEF Registered
<1> QED
  BY <1>1, <1>2, <1>3, IInvByParts DEF TypeOK, Owned

-----------------------------------------------------------------------------
(* The steps of the publisher.                                             *)

\* A step that leaves the clients and the subscribers as they are.
LEMMA SenderKeepsIInv ==
    ASSUME IInv, UNCHANGED <<acceptVars, subs>>,
           pub' \in {"idle", "made", "begun", "walk", "dead"},
           sends' \in 0..MaxSends, named' \subseteq 1..MaxSends,
           pubFds' \in {{}, {"write"}, {"write", "send"}},
           walk' \in [next : Nat, last : Nat, stale : BOOLEAN],
           since' \in [Subs -> Nat], clean' \subseteq 1..MaxSends,
           named' \subseteq {sends'}, pub' = "idle" => named' = {} /\ pubFds' = {},
           pub' \in {"made", "begun", "walk"} => sends' # 0
    PROVE  IInv'
<1>1. Registered'
  BY DEF IInv, Registered, acceptVars
<1>2. \A s \in Subs : Sound(subs[s]')
  BY RecordsAreSound
<1> QED
  BY <1>1, <1>2, IInvByParts DEF IInv, TypeOK, acceptVars

\* shm_open, the name and the first descriptor.
LEMMA CreateSegmentKeepsIInv == IInv /\ CreateSegment => IInv'
<1> SUFFICES ASSUME IInv, CreateSegment PROVE IInv'
  OBVIOUS
<1>1. sends \in 0..MaxSends /\ sends < MaxSends /\ MaxSends \in Nat
  BY SharedMemoryAssumption DEF IInv, TypeOK, CreateSegment
<1>2. sends' \in 1..MaxSends /\ sends' \in 0..MaxSends /\ sends' # 0
  BY <1>1 DEF CreateSegment
<1>3. named' = {sends'} /\ named' \subseteq 1..MaxSends
  BY <1>2 DEF IInv, Owned, CreateSegment
<1>4. /\ pub' = "made" /\ pubFds' = {"write"}
      /\ UNCHANGED <<acceptVars, subs>> /\ walk' = walk /\ since' = since /\ clean' = clean
  BY DEF CreateSegment
<1>5. /\ walk \in [next : Nat, last : Nat, stale : BOOLEAN]
      /\ since \in [Subs -> Nat] /\ clean \subseteq 1..MaxSends
  BY DEF IInv, TypeOK
<1> QED
  BY <1>2, <1>3, <1>4, <1>5, SenderKeepsIInv

\* Whatever made Send return, the scope guards leave neither name nor descriptor.
LEMMA LeaveSendKeepsIInv == IInv /\ LeaveSend => IInv'
<1> SUFFICES ASSUME IInv, LeaveSend PROVE IInv'
  OBVIOUS
<1>1. named' = {}
  BY DEF IInv, Owned, LeaveSend, Unlinked
<1>2. walk' \in [next : Nat, last : Nat, stale : BOOLEAN]
  BY DEF LeaveSend, NoWalk
<1> QED
  BY <1>1, <1>2, SenderKeepsIInv DEF IInv, TypeOK, LeaveSend

\* The second descriptor.
LEMMA OpenReadOnlyKeepsIInv == IInv /\ OpenReadOnly => IInv'
<1> SUFFICES ASSUME IInv, OpenReadOnly PROVE IInv'
  OBVIOUS
<1>1. sends \in 1..MaxSends
  BY SharedMemoryAssumption DEF IInv, TypeOK, Owned, OpenReadOnly
<1>2. clean' \subseteq 1..MaxSends /\ pubFds' \in {{}, {"write"}, {"write", "send"}}
  BY <1>1 DEF IInv, TypeOK, OpenReadOnly
<1> QED
  BY <1>1, <1>2, SenderKeepsIInv DEF IInv, TypeOK, Owned, OpenReadOnly

\* end() of the clients.
LEMMA ReadEndKeepsIInv == IInv /\ ReadEnd => IInv'
<1> SUFFICES ASSUME IInv, ReadEnd PROVE IInv'
  OBVIOUS
<1>1. sends \in Nat /\ sends # 0
  BY SharedMemoryAssumption DEF IInv, TypeOK, Owned, ReadEnd
<1>2. since' \in [Subs -> Nat]
  BY <1>1 DEF IInv, TypeOK, ReadEnd
<1>3. walk' \in [next : Nat, last : Nat, stale : BOOLEAN]
  <2>1. walk \in [next : Nat, last : Nat, stale : BOOLEAN] /\ Len(mClients) \in Nat
    BY DEF IInv, TypeOK
  <2> QED
    BY <2>1 DEF ReadEnd
<1>4. clean' \subseteq 1..MaxSends
  BY DEF IInv, TypeOK, ReadEnd
<1> QED
  BY <1>1, <1>2, <1>3, <1>4, SenderKeepsIInv DEF IInv, TypeOK, Owned, ReadEnd

\* sendmsg to one client, which changes at most the queue of that client.
LEMMA SendToKeepsIInv ==
    ASSUME IInv, NEW s \in Subs \cup {Nobody}, SendTo(s)
    PROVE  IInv'
<1>1. walk' \in [next : Nat, last : Nat, stale : BOOLEAN]
  <2>1. walk \in [next : Nat, last : Nat, stale : BOOLEAN] /\ walk.next + 1 \in Nat
    BY DEF IInv, TypeOK
  <2> QED
    BY <2>1 DEF SendTo
<1>2. clean' \subseteq 1..MaxSends
  BY DEF IInv, TypeOK, SendTo
<1>3. CASE SendFails(s)
  BY <1>1, <1>2, <1>3, SenderKeepsIInv DEF IInv, TypeOK, Owned, SendTo, acceptVars
<1>4. CASE ~SendFails(s)
  <2>1. s \in Subs /\ Len(subs[s].queue) < QueueLength
    BY <1>4 DEF SendTo, SendFails
  <2> DEFINE packet == <<sends, walk.next>>
             r == [subs[s] EXCEPT !.queue = Append(@, packet)]
  <2>2. packet \in Packets
    <3>1. sends \in 1..MaxSends
      BY SharedMemoryAssumption DEF IInv, TypeOK, Owned, SendTo
    <3>2. walk.next \in Nat
      BY DEF IInv, TypeOK
    <3> QED
      BY <3>1, <3>2 DEF Packets
  <2>3. subs[s] \in Subscribers /\ Sound(subs[s]) /\ subs[s].queue \in Seq(Packets)
    BY <2>1, RecordsAreSound DEF Subscribers
  <2>4. Append(subs[s].queue, packet) \in Seq(Packets)
        /\ Len(Append(subs[s].queue, packet)) <= QueueLength
    BY <2>1, <2>2, <2>3, SharedMemoryAssumption
  <2> HIDE DEF packet
  <2>5. /\ r \in Subscribers
        /\ r.queue = Append(subs[s].queue, packet)
        /\ r.conn = subs[s].conn /\ r.thread = subs[s].thread
        /\ r.fds = subs[s].fds /\ r.msgs = subs[s].msgs /\ r.taken = subs[s].taken
      /\ r.lost = subs[s].lost
    BY <2>3, <2>4 DEF Subscribers
  <2>6. Sound(r)
    BY <2>3, <2>4, <2>5 DEF Sound
  <2>7. subs' = [subs EXCEPT ![s] = r]
    BY <1>4, <2>1 DEF SendTo, packet
  <2> HIDE DEF r
  <2>8. /\ subs' \in [Subs -> Subscribers]
        /\ \A t \in Subs : subs'[t] = IF t = s THEN r ELSE subs[t]
    BY <2>1, <2>5, <2>7 DEF IInv, TypeOK
  <2>9. \A t \in Subs : Sound(subs'[t])
    BY <2>6, <2>8, RecordsAreSound
  <2>10. Registered'
    <3>1. \A t \in Subs : subs'[t].conn = subs[t].conn /\ subs'[t].thread = subs[t].thread
      BY <2>5, <2>8
    <3>2. /\ \A i \in DOMAIN backlog : backlog[i] \in Subs
          /\ \A i \in DOMAIN mClients : mClients[i] \in Subs
      BY DEF IInv, TypeOK
    <3> QED
      BY <3>1, <3>2 DEF IInv, Registered, SendTo, acceptVars
  <2> QED
    BY <1>1, <1>2, <2>8, <2>9, <2>10, IInvByParts DEF IInv, TypeOK, Owned, SendTo, acceptVars
<1> QED
  BY <1>3, <1>4

\* A connection moves from the backlog to the clients: it was at one place there
\* and was no client yet.
LEMMA AcceptKeepsIInv == IInv /\ Accept => IInv'
<1> SUFFICES ASSUME IInv, Accept PROVE IInv'
  OBVIOUS
<1> DEFINE s == Head(backlog)
<1>1. /\ backlog \in Seq(Subs) /\ backlog # <<>> /\ mClients \in Seq(Subs)
      /\ subs \in [Subs -> Subscribers]
  BY DEF IInv, TypeOK, Accept
<1>2. /\ 1 \in DOMAIN backlog /\ s = backlog[1] /\ s \in Subs
      /\ Len(backlog) \in Nat /\ DOMAIN backlog = 1..Len(backlog)
      /\ Tail(backlog) \in Seq(Subs)
      /\ DOMAIN Tail(backlog) = 1..(Len(backlog) - 1)
      /\ \A i \in DOMAIN Tail(backlog) :
            i + 1 \in DOMAIN backlog /\ Tail(backlog)[i] = backlog[i + 1]
  BY <1>1
<1>3. /\ Append(mClients, s) \in Seq(Subs)
      /\ Len(mClients) \in Nat /\ DOMAIN mClients = 1..Len(mClients)
      /\ DOMAIN Append(mClients, s) = 1..(Len(mClients) + 1)
      /\ \A i \in DOMAIN mClients : Append(mClients, s)[i] = mClients[i]
      /\ Append(mClients, s)[Len(mClients) + 1] = s
      /\ \A i \in DOMAIN mClients : mClients[i] \in Subs
  BY <1>1, <1>2
<1>4. /\ backlog' = Tail(backlog) /\ mClients' = Append(mClients, s)
      /\ subs' = [subs EXCEPT ![s].conn = "open"]
      /\ since' = [since EXCEPT ![s] = sends + 1]
      /\ UNCHANGED <<pub, sends, named, pubFds, clean>>
  BY DEF Accept, Listed
<1> HIDE DEF s
<1> DEFINE r == [subs[s] EXCEPT !.conn = "open"]
<1>5. /\ r \in Subscribers /\ r.conn = "open"
      /\ r.queue = subs[s].queue /\ r.thread = subs[s].thread
      /\ r.fds = subs[s].fds /\ r.msgs = subs[s].msgs /\ r.taken = subs[s].taken
      /\ r.lost = subs[s].lost
  <2>1. subs[s] \in Subscribers
    BY <1>1, <1>2
  <2> QED
    BY <2>1 DEF Subscribers
<1>6. subs' = [subs EXCEPT ![s] = r]
  BY <1>4
<1> HIDE DEF r
<1>7. /\ subs' \in [Subs -> Subscribers]
      /\ \A t \in Subs : subs'[t] = IF t = s THEN r ELSE subs[t]
  BY <1>1, <1>2, <1>5, <1>6
<1>8. \A t \in Subs : Sound(subs'[t])
  BY <1>2, <1>5, <1>7, RecordsAreSound DEF Sound
<1>9. subs[s].conn = "backlog"
  BY <1>2 DEF IInv, Registered
<1>10. \A i \in DOMAIN mClients : mClients[i] # s
  BY <1>9 DEF IInv, Registered
<1>11. \A i \in DOMAIN Tail(backlog) : Tail(backlog)[i] # s
  BY <1>2 DEF IInv, Registered
<1>12. Registered'
  <2>1. \A i \in DOMAIN backlog' : backlog'[i] \in Subs /\ subs'[backlog'[i]].conn = "backlog"
    BY <1>2, <1>4, <1>7, <1>11 DEF IInv, Registered
  <2>2. \A i, j \in DOMAIN backlog' : backlog'[i] = backlog'[j] => i = j
    BY <1>2, <1>4 DEF IInv, Registered
  <2>3. \A i \in DOMAIN mClients' : subs'[mClients'[i]].conn \notin {"none", "backlog"}
    <3>1. SUFFICES ASSUME NEW i \in DOMAIN mClients'
                   PROVE  subs'[mClients'[i]].conn \notin {"none", "backlog"}
      OBVIOUS
    <3>2. CASE i \in DOMAIN mClients
      BY <1>3, <1>4, <1>7, <1>10, <3>2 DEF IInv, Registered
    <3>3. CASE i = Len(mClients) + 1
      BY <1>2, <1>3, <1>4, <1>5, <1>7, <3>3
    <3> QED
      BY <1>3, <1>4, <3>1, <3>2, <3>3
  <2>4. \A t \in Subs : subs'[t].thread = "new" => subs'[t].conn = "none"
    BY <1>2, <1>5, <1>7, <1>9 DEF IInv, Registered
  <2> QED
    BY <2>1, <2>2, <2>3, <2>4 DEF Registered
<1>13. \A i, j \in DOMAIN mClients' : mClients'[i] = mClients'[j] => i = j
  <2>1. \A i, j \in DOMAIN mClients : mClients[i] = mClients[j] => i = j
    BY DEF IInv, TypeOK
  <2> QED
    BY <2>1, <1>3, <1>4, <1>10
<1>14. walk' \in [next : Nat, last : Nat, stale : BOOLEAN]
  <2>1. walk \in [next : Nat, last : Nat, stale : BOOLEAN]
    BY DEF IInv, TypeOK
  <2>2. walk' = [walk EXCEPT !.stale =
            @ \/ (pub \in {"begun", "walk"} /\ Full(Len(mClients)))]
    BY DEF Accept
  <2> DEFINE moved == walk.stale \/ (pub \in {"begun", "walk"} /\ Full(Len(mClients)))
  <2>3. moved \in BOOLEAN
    BY <2>1
  <2>4. walk' = [walk EXCEPT !.stale = moved]
    BY <2>2
  <2> HIDE DEF moved
  <2> QED
    BY <2>1, <2>3, <2>4
<1>15. since' \in [Subs -> Nat]
  <2>1. since \in [Subs -> Nat] /\ sends + 1 \in Nat
    BY SharedMemoryAssumption DEF IInv, TypeOK
  <2> QED
    BY <2>1, <1>4
<1> QED
  BY <1>2, <1>3, <1>4, <1>7, <1>8, <1>12, <1>13, <1>14, <1>15, IInvByParts
  DEF IInv, TypeOK, Owned

\* The publisher's end: nobody is listed or waits any more.
LEMMA PublisherDiesKeepsIInv == IInv /\ PublisherDies => IInv'
<1> SUFFICES ASSUME IInv, PublisherDies PROVE IInv'
  OBVIOUS
<1> DEFINE ended(c) == CASE c = "backlog" -> "reset" [] c = "open" -> "eof" [] OTHER -> c
           r(t) == [subs[t] EXCEPT !.conn = ended(@)]
<1>1. \A t \in Subs : subs[t] \in Subscribers /\ Sound(subs[t])
  BY RecordsAreSound
<1>2. \A c \in {"none", "backlog", "open", "eof", "reset"} :
         /\ ended(c) \in {"none", "backlog", "open", "eof", "reset"}
         /\ c = "none" => ended(c) = "none"
  OBVIOUS
<1>3. subs' = [t \in Subs |-> r(t)]
  BY DEF PublisherDies
<1> HIDE DEF ended
<1>4. ASSUME NEW t \in Subs
      PROVE  /\ r(t) \in Subscribers /\ r(t).conn = ended(subs[t].conn)
             /\ r(t).queue = subs[t].queue /\ r(t).thread = subs[t].thread
             /\ r(t).fds = subs[t].fds /\ r(t).msgs = subs[t].msgs
             /\ r(t).taken = subs[t].taken /\ r(t).lost = subs[t].lost
  BY <1>1, <1>2 DEF Subscribers
<1> HIDE DEF r
<1>5. subs' \in [Subs -> Subscribers] /\ \A t \in Subs : subs'[t] = r(t)
  BY <1>3, <1>4
<1>6. \A t \in Subs : Sound(subs'[t])
  BY <1>1, <1>4, <1>5 DEF Sound
<1>7. mClients' = <<>> /\ backlog' = <<>> /\ pubFds' = {} /\ pub' = "dead"
      /\ UNCHANGED <<sends, named, since, clean>>
  BY DEF PublisherDies
<1>8. Registered'
  <2>1. \A t \in Subs : subs'[t].thread = "new" => subs'[t].conn = "none"
    <3>1. SUFFICES ASSUME NEW t \in Subs, subs'[t].thread = "new"
                   PROVE  subs'[t].conn = "none"
      OBVIOUS
    <3>2. subs[t].thread = "new"
      BY <1>4, <1>5, <3>1
    <3>3. subs[t].conn = "none"
      BY <3>2 DEF IInv, Registered
    <3> QED
      BY <1>2, <1>4, <1>5, <3>3
  <2> QED
    BY <1>7, <2>1 DEF Registered
<1>9. walk' \in [next : Nat, last : Nat, stale : BOOLEAN]
  BY DEF PublisherDies, NoWalk
<1>10. /\ sends' \in 0..MaxSends /\ named' \subseteq 1..MaxSends /\ since' \in [Subs -> Nat]
       /\ clean' \subseteq 1..MaxSends /\ named' \subseteq {sends'}
  BY <1>7 DEF IInv, TypeOK, Owned
<1>11. /\ mClients' \in Seq(Subs) /\ backlog' \in Seq(Subs)
       /\ \A i, j \in DOMAIN mClients' : mClients'[i] = mClients'[j] => i = j
  BY <1>7
<1>12. pub' \in {"idle", "made", "begun", "walk", "dead"} /\ pub' # "idle"
       /\ pub' \notin {"made", "begun", "walk"} /\ pubFds' \in {{}, {"write"}, {"write", "send"}}
  BY <1>7
<1> QED
  BY <1>5, <1>6, <1>8, <1>9, <1>10, <1>11, <1>12, IInvByParts

-----------------------------------------------------------------------------
(* The steps of the subscribers.                                           *)

\* A new subscriber goes to the end of the backlog; it was not there before.
LEMMA ConnectKeepsIInv ==
    ASSUME IInv, NEW s \in Subs, Connect(s)
    PROVE  IInv'
<1> DEFINE r == IF pub = "dead" THEN [subs[s] EXCEPT !.thread = "dead", !.app = "left"]
                ELSE [subs[s] EXCEPT !.thread = "reads", !.conn = "backlog"]
<1>1. subs[s] \in Subscribers /\ Sound(subs[s])
  BY RecordsAreSound
<1>2. /\ r \in Subscribers /\ r.thread # "new"
      /\ r.conn = IF pub = "dead" THEN subs[s].conn ELSE "backlog"
      /\ r.queue = subs[s].queue /\ r.fds = subs[s].fds /\ r.msgs = subs[s].msgs
      /\ r.taken = subs[s].taken /\ r.lost = subs[s].lost
  BY <1>1 DEF Subscribers
<1>3. subs' = [subs EXCEPT ![s] = r]
  BY DEF Connect
<1> HIDE DEF r
<1>4. /\ subs' \in [Subs -> Subscribers]
      /\ \A t \in Subs : subs'[t] = IF t = s THEN r ELSE subs[t]
  BY <1>2, <1>3 DEF IInv, TypeOK
<1>5. \A t \in Subs : Sound(subs'[t])
  BY <1>1, <1>2, <1>4, RecordsAreSound DEF Sound
<1>6. subs[s].conn = "none"
  BY DEF IInv, Registered, Connect
<1>7. /\ backlog \in Seq(Subs) /\ mClients \in Seq(Subs) /\ mClients' = mClients
      /\ \A i \in DOMAIN backlog : backlog[i] \in Subs /\ backlog[i] # s
      /\ \A i \in DOMAIN mClients : mClients[i] \in Subs /\ mClients[i] # s
      /\ Len(backlog) \in Nat /\ DOMAIN backlog = 1..Len(backlog)
  <2>1. /\ backlog \in Seq(Subs) /\ mClients \in Seq(Subs) /\ mClients' = mClients
        /\ \A i \in DOMAIN backlog : backlog[i] \in Subs
        /\ \A i \in DOMAIN mClients : mClients[i] \in Subs
        /\ Len(backlog) \in Nat /\ DOMAIN backlog = 1..Len(backlog)
    BY DEF IInv, TypeOK, Connect
  <2> QED
    BY <2>1, <1>6 DEF IInv, Registered
<1>8. \A t \in Subs : subs'[t].thread = "new" => subs'[t].conn = "none"
  BY <1>2, <1>4 DEF IInv, Registered
<1>9. backlog' \in Seq(Subs) /\ Registered'
  <2>1. CASE pub = "dead"
    <3>1. backlog' = backlog /\ \A t \in Subs : subs'[t].conn = subs[t].conn
      BY <2>1, <1>2, <1>4 DEF Connect
    <3> QED
      BY <3>1, <1>7, <1>8 DEF IInv, Registered
  <2>2. CASE pub # "dead"
    <3>1. /\ backlog' = Append(backlog, s) /\ backlog' \in Seq(Subs)
          /\ DOMAIN backlog' = 1..(Len(backlog) + 1)
          /\ \A i \in DOMAIN backlog : backlog'[i] = backlog[i]
          /\ backlog'[Len(backlog) + 1] = s
      BY <2>2, <1>7 DEF Connect
    <3>2. \A i \in DOMAIN backlog' : subs'[backlog'[i]].conn = "backlog"
      <4>1. \A i \in DOMAIN backlog : subs'[backlog[i]].conn = "backlog"
        BY <1>4, <1>7 DEF IInv, Registered
      <4>2. subs'[s].conn = "backlog"
        BY <2>2, <1>2, <1>4
      <4> QED
        BY <4>1, <4>2, <3>1, <1>7
    <3>3. \A i, j \in DOMAIN backlog' : backlog'[i] = backlog'[j] => i = j
      <4>1. \A i, j \in DOMAIN backlog : backlog[i] = backlog[j] => i = j
        BY DEF IInv, Registered
      <4> QED
        BY <4>1, <3>1, <1>7
    <3>4. \A i \in DOMAIN mClients' : subs'[mClients'[i]].conn \notin {"none", "backlog"}
      BY <1>4, <1>7 DEF IInv, Registered
    <3> QED
      BY <3>1, <3>2, <3>3, <3>4, <1>8 DEF Registered
  <2> QED
    BY <2>1, <2>2
<1> QED
  BY <1>4, <1>5, <1>7, <1>9, IInvByParts DEF IInv, TypeOK, Owned, Connect, sendVars

\* recvmsg: a packet moves from the queue to what was taken, with its message.
LEMMA ReceiveKeepsIInv ==
    ASSUME IInv, NEW s \in Subs, Receive(s)
    PROVE  IInv'
<1> DEFINE packet == Head(subs[s].queue)
           after  == [subs[s] EXCEPT !.queue = Tail(@), !.taken = Append(@, packet)]
           deaf   == [after EXCEPT !.deaf = TRUE]
           heard  == [after EXCEPT !.thread = "callback", !.msgs = @ \cup {packet},
                                   !.fds = @ \cup {packet}]
           leaks  == [after EXCEPT !.fds = @ \cup {packet}, !.lost = @ \cup {packet}]
<1>1. /\ subs[s] \in Subscribers /\ Sound(subs[s]) /\ subs[s].thread = "reads"
      /\ subs[s].queue \in Seq(Packets) /\ subs[s].taken \in Seq(Packets)
      /\ subs[s].queue # <<>>
  BY RecordsAreSound DEF Subscribers, Receive
<1>2. /\ packet \in Packets /\ Tail(subs[s].queue) \in Seq(Packets)
      /\ Len(Tail(subs[s].queue)) <= QueueLength
  BY <1>1, SharedMemoryAssumption DEF Sound
<1>3. /\ Append(subs[s].taken, packet) \in Seq(Packets)
      /\ {subs[s].taken[i] : i \in DOMAIN subs[s].taken} \cup {packet}
            \subseteq {Append(subs[s].taken, packet)[i] :
                          i \in DOMAIN Append(subs[s].taken, packet)}
  <2> DEFINE old == subs[s].taken
             new == Append(old, packet)
  <2>1. old \in Seq(Packets) /\ packet \in Packets
    BY <1>1, <1>2
  <2> HIDE DEF packet, old
  <2>2. /\ new \in Seq(Packets) /\ Len(old) \in Nat
        /\ DOMAIN old = 1..Len(old) /\ DOMAIN new = 1..(Len(old) + 1)
        /\ \A i \in 1..Len(old) : new[i] = old[i]
        /\ new[Len(old) + 1] = packet
    BY <2>1
  <2> HIDE DEF new
  <2>3. /\ \A i \in DOMAIN old : i \in DOMAIN new /\ new[i] = old[i]
        /\ Len(old) + 1 \in DOMAIN new
    BY <2>2
  <2>4. {old[i] : i \in DOMAIN old} \cup {packet} \subseteq {new[i] : i \in DOMAIN new}
    BY <2>2, <2>3
  <2> QED
    BY <2>2, <2>4 DEF old, new
<1>4. Becomes(s, deaf) \/ Becomes(s, heard) \/ Becomes(s, leaks)
  BY DEF Receive
<1> HIDE DEF packet
<1>5. /\ after \in Subscribers /\ after.conn = subs[s].conn /\ after.thread = "reads"
      /\ after.queue = Tail(subs[s].queue) /\ after.taken = Append(subs[s].taken, packet)
      /\ after.msgs = subs[s].msgs /\ after.fds = subs[s].fds /\ after.lost = subs[s].lost
  BY <1>1, <1>2, <1>3 DEF Subscribers
<1> HIDE DEF after
<1>8. subs[s].msgs \cup subs[s].lost \cup {packet} \subseteq
         {after.taken[i] : i \in DOMAIN after.taken}
  BY <1>1, <1>3, <1>5, ZenonT(30) DEF Sound
<1>6. CASE Becomes(s, deaf)
  <2>1. /\ deaf \in Subscribers /\ deaf.conn = subs[s].conn /\ deaf.thread = "reads"
        /\ deaf.queue = after.queue /\ deaf.taken = after.taken
        /\ deaf.msgs = after.msgs /\ deaf.fds = after.fds
        /\ deaf.lost = after.lost
    BY <1>2, <1>5 DEF Subscribers
  <2> HIDE DEF deaf
  <2>2. Len(deaf.queue) <= QueueLength /\ deaf.fds \subseteq deaf.msgs \cup deaf.lost
    BY <2>1, <1>1, <1>2, <1>5 DEF Sound
  <2>3. deaf.msgs \cup deaf.lost \subseteq {deaf.taken[i] : i \in DOMAIN deaf.taken}
    BY <2>1, <1>5, <1>8
  <2> QED
    BY <2>1, <2>2, <2>3, <1>6, BecomesKeepsIInv
<1>7. CASE Becomes(s, heard)
  <2>1. /\ heard \in Subscribers /\ heard.conn = subs[s].conn /\ heard.thread = "callback"
        /\ heard.queue = after.queue /\ heard.taken = after.taken
        /\ heard.msgs = after.msgs \cup {packet} /\ heard.fds = after.fds \cup {packet}
        /\ heard.lost = after.lost
    BY <1>2, <1>5 DEF Subscribers
  <2> HIDE DEF heard
  <2>2. Len(heard.queue) <= QueueLength /\ heard.fds \subseteq heard.msgs \cup heard.lost
    BY <2>1, <1>1, <1>2, <1>5 DEF Sound
  <2>3. heard.msgs \cup heard.lost \subseteq {heard.taken[i] : i \in DOMAIN heard.taken}
    BY <2>1, <1>5, <1>8
  <2> QED
    BY <2>1, <2>2, <2>3, <1>7, BecomesKeepsIInv
<1>9. CASE Becomes(s, leaks)
  <2>1. /\ leaks \in Subscribers /\ leaks.conn = subs[s].conn /\ leaks.thread = "reads"
        /\ leaks.queue = after.queue /\ leaks.taken = after.taken
        /\ leaks.msgs = after.msgs /\ leaks.fds = after.fds \cup {packet}
        /\ leaks.lost = after.lost \cup {packet}
    BY <1>2, <1>5 DEF Subscribers
  <2> HIDE DEF leaks
  <2>2. Len(leaks.queue) <= QueueLength /\ leaks.fds \subseteq leaks.msgs \cup leaks.lost
    BY <2>1, <1>1, <1>2, <1>5 DEF Sound
  <2>3. leaks.msgs \cup leaks.lost \subseteq {leaks.taken[i] : i \in DOMAIN leaks.taken}
    BY <2>1, <1>5, <1>8
  <2> QED
    BY <2>1, <2>2, <2>3, <1>9, BecomesKeepsIInv
<1> QED
  BY <1>4, <1>6, <1>7, <1>9

\* The destructor of a message takes both the message and its descriptor.
LEMMA ReleasedKeepsIInv ==
    ASSUME IInv, NEW s \in Subs, NEW packet, NEW r \in Subscribers,
           r.conn = subs[s].conn, r.thread # "new", r.queue = subs[s].queue,
           r.taken = subs[s].taken, r.msgs = subs[s].msgs, r.fds = subs[s].fds,
           r.lost = subs[s].lost,
           Becomes(s, Released(r, packet))
    PROVE  IInv'
<1> DEFINE q == Released(r, packet)
<1>1. /\ q \in Subscribers /\ q.conn = r.conn /\ q.thread = r.thread /\ q.queue = r.queue
      /\ q.taken = r.taken /\ q.msgs = r.msgs \ {packet} /\ q.fds = r.fds \ {packet}
      /\ q.lost = r.lost
  BY DEF Released, Subscribers
<1>2. Sound(subs[s])
  BY RecordsAreSound
<1> HIDE DEF q
<1>3. Len(q.queue) <= QueueLength /\ q.fds \subseteq q.msgs \cup q.lost
      /\ q.msgs \cup q.lost \subseteq {q.taken[i] : i \in DOMAIN q.taken}
  BY <1>1, <1>2 DEF Sound
<1>4. Becomes(s, q)
  BY DEF q
<1> QED
  BY <1>1, <1>3, <1>4, BecomesKeepsIInv

\* The callback returns, and may have kept the message.
LEMMA CallbackReturnsKeepsIInv ==
    ASSUME IInv, NEW s \in Subs, CallbackReturns(s)
    PROVE  IInv'
<1> DEFINE after == [subs[s] EXCEPT !.thread = "reads"]
<1>1. subs[s] \in Subscribers /\ Sound(subs[s])
  BY RecordsAreSound
<1>2. Becomes(s, Released(after, Current(s))) \/ Becomes(s, after)
  BY DEF CallbackReturns
<1>3. /\ after \in Subscribers /\ after.conn = subs[s].conn /\ after.thread = "reads"
      /\ after.queue = subs[s].queue /\ after.taken = subs[s].taken
      /\ after.msgs = subs[s].msgs /\ after.fds = subs[s].fds /\ after.lost = subs[s].lost
  BY <1>1 DEF Subscribers
<1> HIDE DEF after
<1>4. CASE Becomes(s, Released(after, Current(s)))
  BY <1>3, <1>4, ReleasedKeepsIInv
<1>5. CASE Becomes(s, after)
  BY <1>1, <1>3, <1>5, BecomesKeepsIInv DEF Sound
<1> QED
  BY <1>2, <1>4, <1>5

\* A subscriber holds messages only after its constructor.
LEMMA DropMessageKeepsIInv ==
    ASSUME IInv, NEW s \in Subs, NEW packet \in subs[s].msgs,
           DropMessage(s, packet)
    PROVE  IInv'
<1>1. subs[s] \in Subscribers /\ Sound(subs[s])
  BY RecordsAreSound
<1>2. subs[s].thread # "new"
  BY <1>1 DEF Sound
<1> QED
  BY <1>1, <1>2, ReleasedKeepsIInv DEF DropMessage

\* A step that changes only where the two threads are, and the event.
LEMMA ThreadsKeepIInv ==
    ASSUME IInv, NEW s \in Subs, subs[s].thread # "new", NEW r, Becomes(s, r),
           NEW thread \in {"reads", "callback", "ended", "dead"},
           NEW app \in {"runs", "waits", "joins", "left"}, NEW notified \in BOOLEAN,
           r = [subs[s] EXCEPT !.thread = thread, !.app = app, !.notified = notified]
    PROVE  IInv'
<1>1. subs[s] \in Subscribers /\ Sound(subs[s])
  BY RecordsAreSound
<1>2. /\ r \in Subscribers /\ r.conn = subs[s].conn /\ r.thread = thread
      /\ r.queue = subs[s].queue /\ r.taken = subs[s].taken
      /\ r.msgs = subs[s].msgs /\ r.fds = subs[s].fds /\ r.lost = subs[s].lost
  BY <1>1 DEF Subscribers
<1>3. /\ Len(r.queue) <= QueueLength /\ r.fds \subseteq r.msgs \cup r.lost
      /\ r.msgs \cup r.lost \subseteq {r.taken[i] : i \in DOMAIN r.taken}
  BY <1>1, <1>2 DEF Sound
<1> QED
  BY <1>2, <1>3, BecomesKeepsIInv

\* The ends of the reading thread, and the owner's calls.
LEMMA EndOfStreamKeepsIInv ==
    ASSUME IInv, NEW s \in Subs, EndOfStream(s)
    PROVE  IInv'
<1>1. subs[s] \in Subscribers /\ subs[s].thread = "reads"
  BY RecordsAreSound DEF EndOfStream
<1> DEFINE r == [subs[s] EXCEPT !.thread = "ended", !.app = subs[s].app, !.notified = TRUE]
<1>2. subs[s].app \in {"runs", "waits", "joins", "left"}
  BY <1>1 DEF Subscribers
<1>3. Becomes(s, r)
  <2>1. Told([subs[s] EXCEPT !.thread = "ended"]) = r
    BY <1>1 DEF Told, Subscribers
  <2> QED
    BY <2>1 DEF EndOfStream
<1> QED
  BY <1>1, <1>2, <1>3, ThreadsKeepIInv

LEMMA ReadErrorKeepsIInv ==
    ASSUME IInv, NEW s \in Subs, ReadError(s)
    PROVE  IInv'
<1>1. subs[s] \in Subscribers /\ subs[s].thread = "reads"
  BY RecordsAreSound DEF ReadError
<1> DEFINE r == [subs[s] EXCEPT !.thread = "ended", !.app = subs[s].app,
                                !.notified = subs[s].notified]
<1>2. subs[s].app \in {"runs", "waits", "joins", "left"} /\ subs[s].notified \in BOOLEAN
  BY <1>1 DEF Subscribers
<1>3. Becomes(s, r)
  <2>1. [subs[s] EXCEPT !.thread = "ended"] = r
    BY <1>1 DEF Subscribers
  <2> QED
    BY <2>1 DEF ReadError
<1> QED
  BY <1>1, <1>2, <1>3, ThreadsKeepIInv

\* An owner's step moves the owner, and may write the event.
LEMMA OwnersStepKeepsIInv ==
    ASSUME IInv, NEW s \in Subs,
           \/ WaitForShutdown(s) \/ Destroy(s) \/ Owner(s)
    PROVE  IInv'
<1>1. subs[s] \in Subscribers /\ subs[s].thread \notin {"new", "dead"}
  BY RecordsAreSound DEF WaitForShutdown, Destroy, Owner, WaitReturns, Joined, App
<1> DEFINE r(app, notified) ==
       [subs[s] EXCEPT !.thread = subs[s].thread, !.app = app, !.notified = notified]
<1>2. /\ subs[s].thread \in {"reads", "callback", "ended", "dead"}
      /\ subs[s].notified \in BOOLEAN
  BY <1>1 DEF Subscribers
<1>3. \A app \in {"runs", "waits", "joins", "left"} :
         /\ [subs[s] EXCEPT !.app = app] = r(app, subs[s].notified)
         /\ Told([subs[s] EXCEPT !.app = app]) = r(app, TRUE)
  BY <1>1 DEF Told, Subscribers
<1>4. \E app \in {"runs", "waits", "joins", "left"} : \E notified \in BOOLEAN :
         Becomes(s, r(app, notified))
  <2>1. CASE Destroy(s)
    BY <2>1, <1>3 DEF Destroy
  <2>2. CASE WaitForShutdown(s)
    BY <2>2, <1>2, <1>3 DEF WaitForShutdown
  <2>3. CASE WaitReturns(s)
    BY <2>3, <1>2, <1>3 DEF WaitReturns
  <2>4. CASE Joined(s)
    BY <2>4, <1>2, <1>3 DEF Joined
  <2> QED
    BY <2>1, <2>2, <2>3, <2>4 DEF Owner
<1>5. PICK app \in {"runs", "waits", "joins", "left"}, notified \in BOOLEAN :
         Becomes(s, r(app, notified))
  BY <1>4
<1> QED
  BY <1>1, <1>2, <1>5, ThreadsKeepIInv

\* The end of a subscriber's process takes all it held.
LEMMA KillSubscriberKeepsIInv ==
    ASSUME IInv, NEW s \in Subs, KillSubscriber(s)
    PROVE  IInv'
<1> DEFINE r == [NewSubscriber EXCEPT !.thread = "dead", !.app = "left",
                                      !.conn = subs[s].conn]
<1>1. subs[s] \in Subscribers
  BY RecordsAreSound
<1>2. /\ r \in Subscribers /\ r.conn = subs[s].conn /\ r.thread = "dead"
      /\ r.queue = <<>> /\ r.msgs = {} /\ r.fds = {} /\ r.lost = {}
  <2>1. /\ NewSubscriber \in Subscribers /\ NewSubscriber.queue = <<>>
        /\ NewSubscriber.msgs = {} /\ NewSubscriber.fds = {} /\ NewSubscriber.lost = {}
    BY DEF NewSubscriber, Subscribers
  <2>2. subs[s].conn \in {"none", "backlog", "open", "eof", "reset"}
    BY <1>1 DEF Subscribers
  <2> QED
    BY <2>1, <2>2 DEF Subscribers
<1>3. Becomes(s, r)
  BY DEF KillSubscriber
<1> HIDE DEF r
<1>4. Len(r.queue) <= QueueLength
  BY <1>2, SharedMemoryAssumption
<1> QED
  BY <1>2, <1>3, <1>4, BecomesKeepsIInv

-----------------------------------------------------------------------------
(* The theorems.                                                           *)

\* Every step keeps the invariant.
LEMMA NextKeepsIInv == IInv /\ [Next]_shmVars => IInv'
<1> SUFFICES ASSUME IInv, [Next]_shmVars PROVE IInv'
  OBVIOUS
<1>1. CASE Accept
  BY <1>1, AcceptKeepsIInv
<1>2. CASE CreateSegment
  BY <1>2, CreateSegmentKeepsIInv
<1>3. CASE Sending
  <2>1. CASE WriteFails \/ SendReturnsTrue
    BY <2>1, LeaveSendKeepsIInv DEF WriteFails, SendReturnsTrue
  <2> QED
    BY <1>3, <2>1, OpenReadOnlyKeepsIInv, ReadEndKeepsIInv, SendToKeepsIInv DEF Sending
<1>4. CASE PublisherDies
  BY <1>4, PublisherDiesKeepsIInv
<1>5. ASSUME NEW s \in Subs, Connect(s) PROVE IInv'
  BY <1>5, ConnectKeepsIInv
<1>6. ASSUME NEW s \in Subs, Reader(s) PROVE IInv'
  BY <1>6, ReceiveKeepsIInv, CallbackReturnsKeepsIInv, EndOfStreamKeepsIInv,
     ReadErrorKeepsIInv DEF Reader
<1>7. ASSUME NEW s \in Subs, Owner(s) \/ WaitForShutdown(s) \/ Destroy(s) PROVE IInv'
  BY <1>7, OwnersStepKeepsIInv
<1>8. ASSUME NEW s \in Subs, KillSubscriber(s) PROVE IInv'
  BY <1>8, KillSubscriberKeepsIInv
<1>9. ASSUME NEW s \in Subs, NEW packet \in subs[s].msgs, DropMessage(s, packet)
      PROVE  IInv'
  BY <1>9, DropMessageKeepsIInv
<1>10. CASE UNCHANGED shmVars
  <2>1. UNCHANGED <<acceptVars, pub, sends, named, pubFds, walk, subs, since, clean>>
    BY <1>10 DEF shmVars, sendVars
  <2> QED
    BY <2>1, SenderKeepsIInv DEF IInv, TypeOK, Owned
<1> QED
  BY <1>1, <1>2, <1>3, <1>4, <1>5, <1>6, <1>7, <1>8, <1>9, <1>10 DEF Next

\* The invariant, and with it the two properties, hold in every behaviour.
LEMMA IInvHolds == Spec => []IInv
<1>1. Init => IInv
  BY InitIInv
<1>2. IInv /\ [Next]_shmVars => IInv'
  BY NextKeepsIInv
<1> QED
  BY <1>1, <1>2, PTL DEF Spec

\* Every variable has its type; a client is listed once, and messages are held only
\* of packets that were received.
THEOREM SharedMemoryTypeCorrect == Spec => []TypeOK
<1>1. IInv => TypeOK
  BY DEF IInv
<1> QED
  BY <1>1, IInvHolds, PTL

\* What exists is named or open in the publisher, so a Send is under way; or it is in a
\* socket; or its descriptor is open in a subscriber, so a message holds it there or
\* Create lost it.
LEMMA OwnedReleases == IInv => SegmentsReleased
<1> SUFFICES ASSUME IInv, NEW k \in 1..sends, Exists(k)
             PROVE  \/ k = sends /\ pub # "idle"
                    \/ InSocket(k)
                    \/ \E s \in Subs : \E packet \in subs[s].msgs \cup subs[s].lost :
                          packet[1] = k
  BY DEF SegmentsReleased
<1>1. CASE k \in named \/ (k = sends /\ pubFds # {})
  BY <1>1 DEF IInv, Owned
<1>2. CASE \E s \in Subs : \E packet \in subs[s].fds : packet[1] = k
  BY <1>2 DEF IInv, Owned
<1> QED
  BY <1>1, <1>2 DEF Exists

\* No segment outlives its use but those of which Create kept the descriptor and made no
\* message, through every other return of Send and Create and every order of drops and
\* deaths.
THEOREM SegmentsAreReleased == Spec => []SegmentsReleased
BY OwnedReleases, IInvHolds, PTL

-----------------------------------------------------------------------------
(* Delivery.  A clean Send walks over the vector of clients as it was when *)
(* the walk began, or as it grew without moving: each client is at one     *)
(* place in it, behind the walk if and only if the message has reached it. *)

Got(s) == {Reached(s)[i] : i \in DOMAIN Reached(s)}

InOrder(s) ==
    \A i, j \in DOMAIN Reached(s) : i < j =>
        /\ Reached(s)[i] <= Reached(s)[j]
        /\ Reached(s)[i] \in clean => Reached(s)[i] < Reached(s)[j]

Receiving(s) == subs[s].conn = "open" /\ subs[s].thread # "dead"

\* A Send is clean from the moment that it has a descriptor to send.
CleanSends ==
    /\ clean \subseteq 1..sends
    /\ pub = "made" => sends \notin clean
    /\ pub \in {"begun", "walk"} /\ sends \in clean => "send" \in pubFds

WalkWithin ==
    /\ walk.next >= 1
    /\ IF pub = "walk" THEN walk.last <= Len(mClients) ELSE walk.next = 1

OpenListed ==
    \A s \in Subs : subs[s].conn = "open" <=> \E i \in DOMAIN mClients : mClients[i] = s

SentBefore ==
    \A s \in Subs : \A k \in Got(s) : k \in 1..sends /\ (pub \in {"made", "begun"} => k # sends)

AllInOrder == \A s \in Subs : InOrder(s)

\* Who has the message of the walk is behind it.
WalkedOnce ==
    pub = "walk" /\ sends \in clean => \A s \in Subs :
        sends \in Got(s) => \E j \in DOMAIN mClients : j < walk.next /\ mClients[j] = s

\* Who is to have the message of the walk has it or is ahead.
WalkReaches ==
    pub = "walk" /\ sends \in clean => \A s \in Subs :
        Receiving(s) /\ since[s] <= sends =>
            \E j \in DOMAIN mClients :
                mClients[j] = s /\ j <= walk.last /\ (j < walk.next => sends \in Got(s))

AllGot == \A s \in Subs : Receiving(s) => Due(s) \subseteq Got(s)

Delivering ==
    /\ CleanSends /\ WalkWithin /\ OpenListed /\ SentBefore
    /\ AllInOrder /\ WalkedOnce /\ WalkReaches /\ AllGot

LEMMA JoinedPackets ==
    ASSUME NEW a \in Seq(Packets), NEW b \in Seq(Packets)
    PROVE  /\ a \o b \in Seq(Packets) /\ DOMAIN (a \o b) = 1..(Len(a) + Len(b))
           /\ Len(a) \in Nat /\ Len(b) \in Nat
           /\ \A i \in DOMAIN (a \o b) : (a \o b)[i] \in Packets
<1>1. a \o b \in Seq(Packets) /\ Len(a \o b) = Len(a) + Len(b)
  OBVIOUS
<1> QED
  BY <1>1

LEMMA PacketAppended ==
    ASSUME NEW a \in Seq(Packets), NEW b \in Seq(Packets), NEW packet \in Packets
    PROVE  /\ DOMAIN (a \o b) = 1..(Len(a) + Len(b))
           /\ DOMAIN (a \o Append(b, packet)) = DOMAIN (a \o b) \cup {Len(a) + Len(b) + 1}
           /\ (a \o Append(b, packet))[Len(a) + Len(b) + 1] = packet
           /\ \A i \in DOMAIN (a \o b) : (a \o Append(b, packet))[i] = (a \o b)[i]
<1>1. a \o Append(b, packet) = Append(a \o b, packet)
  OBVIOUS
<1>2. a \o b \in Seq(Packets) /\ DOMAIN (a \o b) = 1..(Len(a) + Len(b)) /\ Len(a \o b) = Len(a) + Len(b)
  OBVIOUS
<1> DEFINE ab == a \o b
<1> HIDE DEF ab
<1>3. ab \in Seq(Packets) =>
        /\ DOMAIN Append(ab, packet) = DOMAIN ab \cup {Len(ab) + 1}
        /\ Append(ab, packet)[Len(ab) + 1] = packet
        /\ \A i \in DOMAIN ab : Append(ab, packet)[i] = ab[i]
  OBVIOUS
<1> QED
  BY <1>1, <1>2, <1>3 DEF ab

LEMMA ReachedTypes ==
    ASSUME IInv, NEW s \in Subs
    PROVE  /\ subs[s].taken \in Seq(Packets) /\ subs[s].queue \in Seq(Packets)
           /\ subs[s].taken \o subs[s].queue \in Seq(Packets)
           /\ DOMAIN Reached(s) = DOMAIN (subs[s].taken \o subs[s].queue)
           /\ DOMAIN Reached(s) = 1..(Len(subs[s].taken) + Len(subs[s].queue))
           /\ Len(subs[s].taken) \in Nat /\ Len(subs[s].queue) \in Nat
           /\ \A i \in DOMAIN Reached(s) :
                 /\ Reached(s)[i] = (subs[s].taken \o subs[s].queue)[i][1]
                 /\ Reached(s)[i] \in Nat
<1>1. subs[s].taken \in Seq(Packets) /\ subs[s].queue \in Seq(Packets)
  BY DEF IInv, TypeOK, Subscribers
<1> DEFINE packets == subs[s].taken \o subs[s].queue
<1>2. /\ DOMAIN packets = 1..(Len(subs[s].taken) + Len(subs[s].queue))
      /\ Len(subs[s].taken) \in Nat /\ Len(subs[s].queue) \in Nat
      /\ packets \in Seq(Packets) /\ \A i \in DOMAIN packets : packets[i] \in Packets
  BY <1>1, JoinedPackets
<1>3. \A packet \in Packets : packet[1] \in Nat
  BY SharedMemoryAssumption DEF Packets
<1>4. Reached(s) = [i \in DOMAIN packets |-> packets[i][1]]
  BY DEF Reached
<1> HIDE DEF packets
<1>5. \A i \in DOMAIN packets : packets[i][1] \in Nat
  BY <1>2, <1>3
<1>6. /\ DOMAIN Reached(s) = DOMAIN packets
      /\ \A i \in DOMAIN Reached(s) : Reached(s)[i] = packets[i][1] /\ Reached(s)[i] \in Nat
  BY <1>4, <1>5
<1> QED
  BY <1>1, <1>2, <1>6 DEF packets

\* Only the queue and what was taken from it matter.
LEMMA ReachedSame ==
    ASSUME NEW s, subs'[s].taken \o subs'[s].queue = subs[s].taken \o subs[s].queue
    PROVE  Reached(s)' = Reached(s)
BY DEF Reached

Kept(s) == Reached(s)' = Reached(s) /\ (Receiving(s)' => Receiving(s))
Lost(s) == Reached(s)' = <<>> /\ ~Receiving(s)'

\* A step of the subscribers keeps or loses what each has got.
LEMMA SubscribersDeliver ==
    ASSUME Delivering, UNCHANGED <<mClients, pub, sends, pubFds, walk, since, clean>>,
           \A s \in Subs : subs'[s].conn = "open" <=> subs[s].conn = "open",
           \A s \in Subs : Kept(s) \/ Lost(s)
    PROVE  Delivering'
<1>1. CleanSends' /\ WalkWithin'
  BY DEF Delivering, CleanSends, WalkWithin
<1>2. OpenListed'
  BY DEF Delivering, OpenListed
<1>3. \A s \in Subs : Kept(s) => Got(s)' = Got(s)
  BY DEF Kept, Got
<1>4. \A s \in Subs : Lost(s) => Got(s)' = {} /\ DOMAIN Reached(s)' = {}
  BY DEF Lost, Got
<1>5. SentBefore'
  BY <1>3, <1>4 DEF Delivering, SentBefore
<1>6. AllInOrder'
  <2>1. ASSUME NEW s \in Subs, Kept(s) PROVE InOrder(s)'
    BY <2>1 DEF Delivering, AllInOrder, InOrder, Kept
  <2>2. ASSUME NEW s \in Subs, Lost(s) PROVE InOrder(s)'
    BY <1>4, <2>2 DEF InOrder
  <2> QED
    BY <2>1, <2>2 DEF AllInOrder
<1>7. WalkedOnce'
  BY <1>3, <1>4 DEF Delivering, WalkedOnce
<1>8. \A s \in Subs : Receiving(s)' => Receiving(s) /\ Got(s)' = Got(s)
  BY <1>3 DEF Kept, Lost
<1>9. WalkReaches'
  BY <1>8 DEF Delivering, WalkReaches
<1>10. AllGot'
  BY <1>8 DEF Delivering, AllGot, Due
<1> QED
  BY <1>1, <1>2, <1>5, <1>6, <1>7, <1>9, <1>10 DEF Delivering

LEMMA BecomesDelivers ==
    ASSUME IInv, Delivering, NEW s \in Subs, NEW r, Becomes(s, r), r.conn = subs[s].conn,
           \/ /\ r.taken \o r.queue = subs[s].taken \o subs[s].queue
              /\ subs[s].thread = "dead" => r.thread = "dead"
           \/ r.taken \o r.queue = <<>> /\ r.thread = "dead"
    PROVE  Delivering'
<1>1. /\ subs'[s] = r /\ \A t \in Subs : t # s => subs'[t] = subs[t]
      /\ UNCHANGED <<mClients, pub, sends, pubFds, walk, since, clean>>
  BY DEF Becomes, IInv, TypeOK, acceptVars, sendVars
<1>2. \A t \in Subs : subs'[t].conn = "open" <=> subs[t].conn = "open"
  BY <1>1
<1>3. ASSUME NEW t \in Subs, t # s PROVE Kept(t)
  BY <1>1, <1>3, ReachedSame DEF Kept, Receiving
<1>4. CASE /\ r.taken \o r.queue = subs[s].taken \o subs[s].queue
           /\ subs[s].thread = "dead" => r.thread = "dead"
  <2>1. Kept(s)
    BY <1>1, <1>4, ReachedSame DEF Kept, Receiving
  <2> QED
    BY <1>1, <1>2, <1>3, <2>1, SubscribersDeliver
<1>5. CASE r.taken \o r.queue = <<>> /\ r.thread = "dead"
  <2>1. Reached(s)' = <<>>
    BY <1>1, <1>5 DEF Reached
  <2>2. Lost(s)
    BY <1>1, <1>5, <2>1 DEF Lost, Receiving
  <2> QED
    BY <1>1, <1>2, <1>3, <2>2, SubscribersDeliver
<1> QED
  BY <1>4, <1>5

\* A packet moves from the queue to what was taken.
LEMMA TakesHead ==
    ASSUME NEW a \in Seq(Packets), NEW b \in Seq(Packets), b # <<>>
    PROVE  Append(a, Head(b)) \o Tail(b) = a \o b
OBVIOUS

LEMMA SubscriberDelivers ==
    ASSUME IInv, Delivering, NEW s \in Subs,
           \/ Reader(s) \/ Owner(s) \/ WaitForShutdown(s) \/ Destroy(s) \/ KillSubscriber(s)
           \/ \E packet \in subs[s].msgs : DropMessage(s, packet)
    PROVE  Delivering'
<1>1. subs[s] \in Subscribers
  BY DEF IInv, TypeOK
<1>2. ASSUME NEW r, Becomes(s, r), r.conn = subs[s].conn, r.queue = subs[s].queue,
             r.taken = subs[s].taken, subs[s].thread = "dead" => r.thread = "dead"
      PROVE  Delivering'
  BY <1>2, BecomesDelivers
<1>3. CASE Receive(s)
  <2> DEFINE packet == Head(subs[s].queue)
             after  == [subs[s] EXCEPT !.queue = Tail(@), !.taken = Append(@, packet)]
             deaf   == [after EXCEPT !.deaf = TRUE]
             got    == [after EXCEPT !.thread = "callback", !.msgs = @ \cup {packet},
                                     !.fds = @ \cup {packet}]
             leaks  == [after EXCEPT !.fds = @ \cup {packet}, !.lost = @ \cup {packet}]
  <2>1. /\ subs[s].queue # <<>> /\ subs[s].thread = "reads"
        /\ Becomes(s, deaf) \/ Becomes(s, got) \/ Becomes(s, leaks)
    BY <1>3 DEF Receive
  <2>2. Append(subs[s].taken, packet) \o Tail(subs[s].queue) = subs[s].taken \o subs[s].queue
    BY <2>1, ReachedTypes, TakesHead
  <2> HIDE DEF packet
  <2>3. \A r \in {deaf, got, leaks} : /\ r.taken = Append(subs[s].taken, packet)
                               /\ r.queue = Tail(subs[s].queue) /\ r.conn = subs[s].conn
    BY <1>1 DEF Subscribers
  <2> HIDE DEF deaf, got, leaks
  <2> QED
    BY <2>1, <2>2, <2>3, BecomesDelivers
<1>4. CASE CallbackReturns(s)
  <2> DEFINE after == [subs[s] EXCEPT !.thread = "reads"]
  <2>1. /\ subs[s].thread = "callback"
        /\ Becomes(s, Released(after, Current(s))) \/ Becomes(s, after)
    BY <1>4 DEF CallbackReturns
  <2>2. \A r \in {Released(after, Current(s)), after} :
            r.conn = subs[s].conn /\ r.queue = subs[s].queue /\ r.taken = subs[s].taken
    BY <1>1 DEF Subscribers, Released
  <2> HIDE DEF after
  <2> QED
    BY <1>2, <2>1, <2>2
<1>5. CASE EndOfStream(s) \/ ReadError(s)
  <2> DEFINE ended == [subs[s] EXCEPT !.thread = "ended"]
  <2>1. subs[s].thread = "reads" /\ (Becomes(s, Told(ended)) \/ Becomes(s, ended))
    BY <1>5 DEF EndOfStream, ReadError
  <2>2. \A r \in {Told(ended), ended} :
            r.conn = subs[s].conn /\ r.queue = subs[s].queue /\ r.taken = subs[s].taken
    BY <1>1 DEF Subscribers, Told
  <2> HIDE DEF ended
  <2> QED
    BY <1>2, <2>1, <2>2
<1>6. CASE Owner(s) \/ WaitForShutdown(s) \/ Destroy(s)
  <2> DEFINE At(at) == [subs[s] EXCEPT !.app = at]
  <2>1. \E at \in {"runs", "waits", "joins", "left"} : Becomes(s, At(at)) \/ Becomes(s, Told(At(at)))
    BY <1>6 DEF Owner, WaitReturns, Joined, WaitForShutdown, Destroy
  <2>2. ASSUME NEW at \in {"runs", "waits", "joins", "left"}, NEW r \in {At(at), Told(At(at))}
        PROVE  /\ r.conn = subs[s].conn /\ r.queue = subs[s].queue /\ r.taken = subs[s].taken
               /\ r.thread = subs[s].thread
    BY <1>1, <2>2 DEF Subscribers, Told
  <2> HIDE DEF At
  <2> QED
    BY <1>2, <2>1, <2>2
<1>7. CASE KillSubscriber(s)
  <2> DEFINE r == [NewSubscriber EXCEPT !.thread = "dead", !.app = "left", !.conn = subs[s].conn]
  <2>1. Becomes(s, r)
    BY <1>7 DEF KillSubscriber
  <2>2. r.conn = subs[s].conn /\ r.thread = "dead" /\ r.taken = <<>> /\ r.queue = <<>>
    BY DEF NewSubscriber
  <2> HIDE DEF r
  <2>3. r.taken \o r.queue = <<>>
    BY <2>2
  <2> QED
    BY <2>1, <2>2, <2>3, BecomesDelivers
<1>8. ASSUME NEW packet \in subs[s].msgs, DropMessage(s, packet)
      PROVE  Delivering'
  <2> DEFINE r == Released(subs[s], packet)
  <2>1. Becomes(s, r)
    BY <1>8 DEF DropMessage
  <2>2. /\ r.conn = subs[s].conn /\ r.queue = subs[s].queue /\ r.taken = subs[s].taken
        /\ r.thread = subs[s].thread
    BY <1>1 DEF Subscribers, Released
  <2> HIDE DEF r
  <2> QED
    BY <1>2, <2>1, <2>2
<1> QED
  BY <1>3, <1>4, <1>5, <1>6, <1>7, <1>8 DEF Reader

LEMMA ConnectDelivers ==
    ASSUME IInv, Delivering, NEW s \in Subs, Connect(s)
    PROVE  Delivering'
<1> DEFINE r == IF pub = "dead" THEN [subs[s] EXCEPT !.thread = "dead", !.app = "left"]
                ELSE [subs[s] EXCEPT !.thread = "reads", !.conn = "backlog"]
<1>1. /\ subs' = [subs EXCEPT ![s] = r] /\ subs[s].thread = "new"
      /\ UNCHANGED <<mClients, pub, sends, pubFds, walk, since, clean>>
  BY DEF Connect, sendVars
<1>2. subs[s] \in Subscribers /\ subs[s].conn = "none"
  BY <1>1 DEF IInv, TypeOK, Registered
<1>3. r.taken = subs[s].taken /\ r.queue = subs[s].queue /\ r.conn \in {"none", "backlog"}
  BY <1>2 DEF Subscribers
<1> HIDE DEF r
<1>4. subs'[s] = r /\ \A t \in Subs : t # s => subs'[t] = subs[t]
  BY <1>1 DEF IInv, TypeOK
<1>5. \A t \in Subs : subs'[t].conn = "open" <=> subs[t].conn = "open"
  BY <1>2, <1>3, <1>4
<1>6. ASSUME NEW t \in Subs PROVE Kept(t)
  <2>1. subs'[t].taken \o subs'[t].queue = subs[t].taken \o subs[t].queue
    BY <1>3, <1>4
  <2>2. Receiving(t)' => Receiving(t)
    BY <1>2, <1>3, <1>4 DEF Receiving
  <2> QED
    BY <2>1, <2>2, ReachedSame DEF Kept
<1> QED
  BY <1>1, <1>5, <1>6, SubscribersDeliver

\* What a step of the publisher leaves alone.
LEMMA SubscribersKept ==
    ASSUME subs' = subs
    PROVE  \A s : Reached(s)' = Reached(s) /\ Got(s)' = Got(s) /\ Receiving(s)' = Receiving(s)
BY DEF Reached, Got, Receiving

LEMMA OrderKept ==
    ASSUME AllInOrder, \A s \in Subs : Reached(s)' = Reached(s), clean' \subseteq clean
    PROVE  AllInOrder'
BY DEF AllInOrder, InOrder

LEMMA SendNumbers == IInv => sends \in Nat /\ sends <= MaxSends /\ MaxSends \in Nat
BY SharedMemoryAssumption DEF IInv, TypeOK

\* A client moves from the backlog to the end of the vector.
LEMMA AcceptDelivers == IInv /\ Delivering /\ Accept => Delivering'
<1> SUFFICES ASSUME IInv, Delivering, Accept PROVE Delivering'
  OBVIOUS
<1> DEFINE s == Head(backlog)
<1>1. /\ backlog # <<>> /\ backlog \in Seq(Subs) /\ mClients \in Seq(Subs) /\ sends \in Nat
  BY SendNumbers DEF IInv, TypeOK, Accept
<1>2. s \in Subs /\ subs[s].conn = "backlog"
  BY <1>1 DEF IInv, Registered
<1>3. /\ mClients' = Append(mClients, s) /\ subs' = [subs EXCEPT ![s].conn = "open"]
      /\ since' = [since EXCEPT ![s] = sends + 1]
      /\ walk' = [walk EXCEPT !.stale = walk.stale \/ (pub \in {"begun", "walk"} /\ Full(Len(mClients)))]
      /\ UNCHANGED <<pub, sends, pubFds, clean>> /\ pub # "dead"
  BY DEF Accept, Listed
<1> HIDE DEF s
<1>4. walk'.next = walk.next /\ walk'.last = walk.last
  BY <1>3 DEF IInv, TypeOK
<1>5. /\ DOMAIN mClients = 1..Len(mClients) /\ Len(mClients) \in Nat
      /\ DOMAIN mClients' = DOMAIN mClients \cup {Len(mClients) + 1}
      /\ Len(mClients') = Len(mClients) + 1 /\ mClients'[Len(mClients) + 1] = s
      /\ \A j \in DOMAIN mClients : mClients'[j] = mClients[j]
  BY <1>1, <1>2, <1>3
<1>6. /\ subs'[s].conn = "open" /\ subs'[s].thread = subs[s].thread
      /\ subs'[s].taken = subs[s].taken /\ subs'[s].queue = subs[s].queue
      /\ \A t \in Subs : t # s => subs'[t] = subs[t] /\ since'[t] = since[t]
      /\ since'[s] = sends + 1
  BY <1>2, <1>3 DEF IInv, TypeOK, Subscribers
<1>7. \A t \in Subs : Reached(t)' = Reached(t)
  BY <1>6, ReachedSame
<1>8. \A t \in Subs : Got(t)' = Got(t)
  BY <1>7 DEF Got
<1>9. \A t \in Subs : t # s => (Receiving(t)' <=> Receiving(t))
  BY <1>6 DEF Receiving
<1>10. CleanSends'
  BY <1>3 DEF Delivering, CleanSends
<1>11. WalkWithin'
  <2>1. walk.last \in Nat
    BY DEF IInv, TypeOK
  <2> QED
    BY <1>3, <1>4, <1>5, <2>1 DEF Delivering, WalkWithin
<1>12. OpenListed'
  <2>1. \A t \in Subs : subs[t].conn = "open" <=> \E i \in DOMAIN mClients : mClients[i] = t
    BY DEF Delivering, OpenListed
  <2> QED
    BY <1>5, <1>6, <2>1 DEF OpenListed
<1>13. SentBefore'
  BY <1>3, <1>8 DEF Delivering, SentBefore
<1>14. AllInOrder'
  BY <1>3, <1>7, OrderKept DEF Delivering
<1>15. WalkedOnce'
  BY <1>3, <1>4, <1>5, <1>8 DEF Delivering, WalkedOnce
<1>16. WalkReaches'
  <2> SUFFICES ASSUME pub = "walk", sends \in clean, NEW t \in Subs, Receiving(t)', since'[t] <= sends
               PROVE  \E j \in DOMAIN mClients' : /\ mClients'[j] = t /\ j <= walk'.last
                                                  /\ j < walk'.next => sends \in Got(t)'
    BY <1>3 DEF WalkReaches
  <2>1. t # s
    BY <1>1, <1>6
  <2>2. Receiving(t) /\ since[t] <= sends
    BY <1>6, <1>9, <2>1
  <2>3. PICK j \in DOMAIN mClients : mClients[j] = t /\ j <= walk.last /\ (j < walk.next => sends \in Got(t))
    BY <2>2 DEF Delivering, WalkReaches
  <2> QED
    BY <1>4, <1>5, <1>8, <2>3
<1>17. AllGot'
  <2> SUFFICES ASSUME NEW t \in Subs, Receiving(t)', NEW k \in Due(t)' PROVE k \in Got(t)'
    BY DEF AllGot
  <2>1. k \in clean /\ since'[t] <= k /\ (k < sends \/ pub = "idle") /\ k \in 1..sends
    BY <1>3 DEF Due, Delivering, CleanSends
  <2>2. t # s
    BY <1>1, <1>6, <2>1
  <2>3. Receiving(t) /\ k \in Due(t)
    BY <1>6, <1>9, <2>1, <2>2 DEF Due
  <2> QED
    BY <1>8, <2>3 DEF Delivering, AllGot
<1> QED
  BY <1>10, <1>11, <1>12, <1>13, <1>14, <1>15, <1>16, <1>17 DEF Delivering

LEMMA CreateSegmentDelivers == IInv /\ Delivering /\ CreateSegment => Delivering'
<1> SUFFICES ASSUME IInv, Delivering, CreateSegment PROVE Delivering'
  OBVIOUS
<1>1. /\ pub = "idle" /\ pub' = "made" /\ sends' = sends + 1 /\ sends \in Nat
      /\ UNCHANGED <<mClients, walk, subs, since, clean>>
  BY SendNumbers DEF CreateSegment, acceptVars
<1>2. \A s : Reached(s)' = Reached(s) /\ Got(s)' = Got(s) /\ Receiving(s)' = Receiving(s)
  BY <1>1, SubscribersKept
<1>3. CleanSends'
  BY <1>1 DEF Delivering, CleanSends
<1>4. WalkWithin' /\ OpenListed'
  BY <1>1 DEF Delivering, WalkWithin, OpenListed
<1>5. SentBefore'
  BY <1>1, <1>2 DEF Delivering, SentBefore
<1>6. AllInOrder'
  BY <1>1, <1>2, OrderKept DEF Delivering
<1>7. WalkedOnce' /\ WalkReaches'
  BY <1>1 DEF WalkedOnce, WalkReaches
<1>8. AllGot'
  <2>1. \A s : Due(s)' \subseteq Due(s)
    BY <1>1 DEF Due
  <2> QED
    BY <1>2, <2>1 DEF Delivering, AllGot
<1> QED
  BY <1>3, <1>4, <1>5, <1>6, <1>7, <1>8 DEF Delivering

\* Send returns: what is clean has reached everybody, or has not been opened.
LEMMA LeaveSendDelivers ==
    ASSUME IInv, Delivering, WriteFails \/ SendReturnsTrue
    PROVE  Delivering'
<1>1. /\ pub' = "idle" /\ walk' = NoWalk /\ pub \in {"made", "walk"} /\ sends \in Nat
      /\ UNCHANGED <<mClients, sends, subs, since, clean>>
      /\ pub = "walk" => walk.next > walk.last
  BY SendNumbers DEF WriteFails, SendReturnsTrue, LeaveSend, acceptVars
<1>2. \A s : Reached(s)' = Reached(s) /\ Got(s)' = Got(s) /\ Receiving(s)' = Receiving(s)
  BY <1>1, SubscribersKept
<1>3. CleanSends'
  BY <1>1 DEF Delivering, CleanSends
<1>4. WalkWithin' /\ OpenListed'
  BY <1>1 DEF Delivering, WalkWithin, OpenListed, NoWalk
<1>5. SentBefore'
  BY <1>1, <1>2 DEF Delivering, SentBefore
<1>6. AllInOrder'
  BY <1>1, <1>2, OrderKept DEF Delivering
<1>7. WalkedOnce' /\ WalkReaches'
  BY <1>1 DEF WalkedOnce, WalkReaches
<1>8. AllGot'
  <2> SUFFICES ASSUME NEW s \in Subs, Receiving(s), NEW k \in Due(s)' PROVE k \in Got(s)
    BY <1>2 DEF AllGot
  <2>1. k \in clean /\ since[s] <= k /\ k \in 1..sends
    BY <1>1 DEF Due, Delivering, CleanSends
  <2>2. CASE k < sends
    BY <2>1, <2>2 DEF Due, Delivering, AllGot
  <2>3. CASE k = sends
    <3>1. pub = "walk"
      BY <1>1, <2>1, <2>3 DEF Delivering, CleanSends
    <3>2. PICK j \in DOMAIN mClients : j <= walk.last /\ (j < walk.next => sends \in Got(s))
      BY <2>1, <2>3, <3>1 DEF Delivering, WalkReaches
    <3>3. j \in Nat /\ walk.last \in Nat /\ walk.next \in Nat
      BY DEF IInv, TypeOK
    <3> QED
      BY <1>1, <2>3, <3>1, <3>2, <3>3
  <2> QED
    BY <1>1, <2>1, <2>2, <2>3
<1> QED
  BY <1>3, <1>4, <1>5, <1>6, <1>7, <1>8 DEF Delivering

\* The number of a Send becomes clean before anybody has its message.
LEMMA OpenReadOnlyDelivers == IInv /\ Delivering /\ OpenReadOnly => Delivering'
<1> SUFFICES ASSUME IInv, Delivering, OpenReadOnly PROVE Delivering'
  OBVIOUS
<1>1. /\ pub = "made" /\ pub' = "begun" /\ sends \in Nat /\ sends # 0
      /\ UNCHANGED <<mClients, sends, walk, subs, since>>
      /\ \/ pubFds' = {"write", "send"} /\ clean' = clean \cup {sends}
         \/ clean' = clean
  BY SendNumbers DEF OpenReadOnly, acceptVars, IInv, Owned
<1>2. \A s : Reached(s)' = Reached(s) /\ Got(s)' = Got(s) /\ Receiving(s)' = Receiving(s)
  BY <1>1, SubscribersKept
<1>3. CleanSends'
  <2>1. clean \subseteq 1..sends /\ sends \notin clean /\ sends \in 1..sends
    BY <1>1 DEF Delivering, CleanSends
  <2>2. CASE pubFds' = {"write", "send"} /\ clean' = clean \cup {sends}
    BY <1>1, <2>1, <2>2 DEF CleanSends
  <2>3. CASE clean' = clean
    BY <1>1, <2>1, <2>3 DEF CleanSends
  <2> QED
    BY <1>1, <2>2, <2>3
<1>4. WalkWithin' /\ OpenListed'
  BY <1>1 DEF Delivering, WalkWithin, OpenListed
<1>5. SentBefore'
  BY <1>1, <1>2 DEF Delivering, SentBefore
<1>6. AllInOrder'
  <2>1. ASSUME NEW s \in Subs, NEW i \in DOMAIN Reached(s) PROVE Reached(s)[i] # sends
    BY <1>1 DEF Delivering, SentBefore, Got
  <2> QED
    BY <1>1, <1>2, <2>1 DEF Delivering, AllInOrder, InOrder
<1>7. WalkedOnce' /\ WalkReaches'
  BY <1>1 DEF WalkedOnce, WalkReaches
<1>8. AllGot'
  <2>1. \A s : Due(s)' \subseteq Due(s)
    BY <1>1 DEF Due
  <2> QED
    BY <1>2, <2>1 DEF Delivering, AllGot
<1> QED
  BY <1>3, <1>4, <1>5, <1>6, <1>7, <1>8 DEF Delivering

\* The walk begins before the first client, and ends behind whoever is listed.
LEMMA ReadEndDelivers == IInv /\ Delivering /\ ReadEnd => Delivering'
<1> SUFFICES ASSUME IInv, Delivering, ReadEnd PROVE Delivering'
  OBVIOUS
<1>1. /\ pub = "begun" /\ pub' = "walk" /\ sends \in Nat
      /\ walk' = [walk EXCEPT !.last = Len(mClients)] /\ clean' \subseteq clean
      /\ since' = [s \in Subs |-> IF subs[s].conn = "open" /\ since[s] > sends THEN sends ELSE since[s]]
      /\ UNCHANGED <<mClients, sends, pubFds, subs>>
  BY SendNumbers DEF ReadEnd, acceptVars
<1>2. \A s : Reached(s)' = Reached(s) /\ Got(s)' = Got(s) /\ Receiving(s)' = Receiving(s)
  BY <1>1, SubscribersKept
<1>3. CleanSends'
  BY <1>1 DEF Delivering, CleanSends
<1>4. walk'.next = 1 /\ walk'.last = Len(mClients)
  BY <1>1 DEF IInv, TypeOK, Delivering, WalkWithin
<1>5. mClients \in Seq(Subs) /\ DOMAIN mClients = 1..Len(mClients) /\ Len(mClients) \in Nat
  BY DEF IInv, TypeOK
<1>6. WalkWithin' /\ OpenListed'
  BY <1>1, <1>4, <1>5 DEF Delivering, WalkWithin, OpenListed
<1>7. SentBefore'
  BY <1>1, <1>2 DEF Delivering, SentBefore
<1>8. AllInOrder'
  BY <1>1, <1>2, OrderKept DEF Delivering
<1>9. WalkedOnce'
  BY <1>1, <1>2 DEF Delivering, WalkedOnce, SentBefore
<1>10. WalkReaches'
  <2> SUFFICES ASSUME NEW s \in Subs, Receiving(s)
               PROVE  \E j \in DOMAIN mClients : /\ mClients[j] = s /\ j <= walk'.last
                                                 /\ ~(j < walk'.next)
    BY <1>1, <1>2 DEF WalkReaches
  <2>1. PICK j \in DOMAIN mClients : mClients[j] = s
    BY DEF Receiving, Delivering, OpenListed
  <2> QED
    BY <1>4, <1>5, <2>1
<1>11. AllGot'
  <2>1. ASSUME NEW s \in Subs, NEW k \in Due(s)' PROVE k \in Due(s)
    <3>1. k \in clean /\ since'[s] <= k /\ k < sends /\ k \in 1..sends /\ since[s] \in Nat
      BY <1>1 DEF Due, Delivering, CleanSends, IInv, TypeOK
    <3>2. since'[s] = since[s]
      BY <1>1, <3>1
    <3> QED
      BY <3>1, <3>2 DEF Due
  <2> QED
    BY <1>2, <2>1 DEF Delivering, AllGot
<1> QED
  BY <1>3, <1>6, <1>7, <1>8, <1>9, <1>10, <1>11 DEF Delivering

\* sendmsg to one client: the one the walk is at, if the vector has not moved.
LEMMA SendToDelivers ==
    ASSUME IInv, Delivering, NEW s \in Subs \cup {Nobody}, SendTo(s)
    PROVE  Delivering'
<1> DEFINE fails == SendFails(s)
           packet == <<sends, walk.next>>
<1>1. /\ pub = "walk" /\ walk.next <= walk.last /\ s \in Targets
      /\ walk' = [walk EXCEPT !.next = walk.next + 1]
      /\ clean' = IF walk.stale THEN clean \ {sends} ELSE clean
      /\ UNCHANGED <<mClients, pub, sends, pubFds, since>>
      /\ IF fails THEN subs' = subs
         ELSE subs' = [subs EXCEPT ![s].queue = Append(subs[s].queue, packet)]
  BY DEF SendTo, acceptVars
<1>2. /\ sends \in Nat /\ walk.next \in Nat /\ walk.last \in Nat /\ walk.next >= 1
      /\ walk'.next = walk.next + 1 /\ walk'.last = walk.last
      /\ mClients \in Seq(Subs) /\ DOMAIN mClients = 1..Len(mClients) /\ Len(mClients) \in Nat
      /\ walk.last <= Len(mClients) /\ sends \in 1..MaxSends
  BY <1>1, SendNumbers DEF IInv, TypeOK, Owned, Delivering, WalkWithin
<1>3. packet \in Packets /\ packet[1] = sends
  BY <1>2 DEF Packets
<1>4. ~fails => s \in Subs
  BY DEF SendFails
<1> HIDE DEF fails, packet
<1>5. sends \in clean' => ~walk.stale /\ sends \in clean
  BY <1>1
<1>6. sends \in clean' => walk.next \in DOMAIN mClients /\ s = mClients[walk.next]
  BY <1>1, <1>2, <1>5 DEF Targets
<1>7. \A t \in Subs : /\ subs'[t].conn = subs[t].conn /\ subs'[t].thread = subs[t].thread
                      /\ subs'[t].taken = subs[t].taken
                      /\ fails \/ t # s => subs'[t].queue = subs[t].queue
                      /\ ~fails /\ t = s => subs'[t].queue = Append(subs[t].queue, packet)
  <2>1. subs \in [Subs -> Subscribers]
    BY DEF IInv, TypeOK
  <2>2. CASE fails
    BY <1>1, <2>2
  <2>3. CASE ~fails
    <3>1. /\ subs'[s] = [subs[s] EXCEPT !.queue = Append(subs[s].queue, packet)]
          /\ \A t \in Subs : t # s => subs'[t] = subs[t]
      BY <1>1, <1>4, <2>1, <2>3
    <3>2. subs[s] \in Subscribers
      BY <1>4, <2>1, <2>3
    <3>3. /\ subs'[s].conn = subs[s].conn /\ subs'[s].thread = subs[s].thread
          /\ subs'[s].taken = subs[s].taken
          /\ subs'[s].queue = Append(subs[s].queue, packet)
      BY <3>1, <3>2 DEF Subscribers
    <3> QED
      BY <2>3, <3>1, <3>3
  <2> QED
    BY <2>2, <2>3
<1>8. \A t \in Subs : fails \/ t # s => Reached(t)' = Reached(t)
  BY <1>7, ReachedSame
<1>9. ASSUME NEW t \in Subs, ~fails, t = s
      PROVE  \E last \in Nat :
                /\ DOMAIN Reached(t)' = DOMAIN Reached(t) \cup {last} /\ Reached(t)'[last] = sends
                /\ \A i \in DOMAIN Reached(t) : i \in Nat /\ i < last /\ Reached(t)'[i] = Reached(t)[i]
  <2> DEFINE a == subs[t].taken
             b == subs[t].queue
  <2>1. a \in Seq(Packets) /\ b \in Seq(Packets) /\ Len(a) \in Nat /\ Len(b) \in Nat
    BY ReachedTypes
  <2>2. Reached(t)' = [i \in DOMAIN (a \o Append(b, packet)) |-> (a \o Append(b, packet))[i][1]]
    BY <1>7, <1>9 DEF Reached
  <2>3. Reached(t) = [i \in DOMAIN (a \o b) |-> (a \o b)[i][1]]
    BY DEF Reached
  <2> HIDE DEF a, b
  <2>4. /\ DOMAIN (a \o b) = 1..(Len(a) + Len(b))
        /\ DOMAIN (a \o Append(b, packet)) = DOMAIN (a \o b) \cup {Len(a) + Len(b) + 1}
        /\ (a \o Append(b, packet))[Len(a) + Len(b) + 1] = packet
        /\ \A i \in DOMAIN (a \o b) : (a \o Append(b, packet))[i] = (a \o b)[i]
    BY <1>3, <2>1, PacketAppended
  <2>5. /\ DOMAIN Reached(t) = DOMAIN (a \o b)
        /\ DOMAIN Reached(t)' = DOMAIN (a \o b) \cup {Len(a) + Len(b) + 1}
        /\ Reached(t)'[Len(a) + Len(b) + 1] = sends
        /\ \A i \in DOMAIN (a \o b) : Reached(t)'[i] = Reached(t)[i]
    BY <1>3, <2>2, <2>3, <2>4
  <2>6. Len(a) + Len(b) + 1 \in Nat /\ \A i \in DOMAIN (a \o b) : i \in Nat /\ i < Len(a) + Len(b) + 1
    BY <2>1, <2>4
  <2> QED
    BY <2>5, <2>6
<1>10. /\ \A t \in Subs : fails \/ t # s => Got(t)' = Got(t)
       /\ \A t \in Subs : ~fails /\ t = s => Got(t)' = Got(t) \cup {sends}
  <2>1. \A t \in Subs : fails \/ t # s => Got(t)' = Got(t)
    BY <1>8 DEF Got
  <2>2. ASSUME NEW t \in Subs, ~fails, t = s PROVE Got(t)' = Got(t) \cup {sends}
    <3>1. PICK last \in Nat :
             /\ DOMAIN Reached(t)' = DOMAIN Reached(t) \cup {last} /\ Reached(t)'[last] = sends
             /\ \A i \in DOMAIN Reached(t) : Reached(t)'[i] = Reached(t)[i]
      BY <1>9, <2>2
    <3>2. Got(t)' = {Reached(t)'[i] : i \in DOMAIN Reached(t)'}
      BY DEF Got
    <3>3. Got(t)' \subseteq Got(t) \cup {sends}
      BY <3>1, <3>2 DEF Got
    <3>4. \A i \in DOMAIN Reached(t) : Reached(t)[i] \in Got(t)'
      BY <3>1, <3>2
    <3>5. sends \in Got(t)'
      BY <3>1, <3>2
    <3> QED
      BY <3>3, <3>4, <3>5 DEF Got
  <2> QED
    BY <2>1, <2>2
<1>11. \A t \in Subs : Receiving(t)' <=> Receiving(t)
  BY <1>7 DEF Receiving
<1>12. CleanSends'
  BY <1>1 DEF Delivering, CleanSends
<1>13. WalkWithin'
  BY <1>1, <1>2 DEF WalkWithin
<1>14. OpenListed'
  BY <1>1, <1>7 DEF Delivering, OpenListed
<1>15. SentBefore'
  <2>1. sends \in 1..sends
    BY <1>2
  <2> QED
    BY <1>1, <1>10, <2>1 DEF Delivering, SentBefore
<1>16. \A i, j \in DOMAIN mClients : mClients[i] = mClients[j] => i = j
  BY DEF IInv, TypeOK
<1>17. AllInOrder'
  <2>1. clean' \subseteq clean
    BY <1>1
  <2>2. ASSUME NEW t \in Subs, fails \/ t # s PROVE InOrder(t)'
    BY <1>8, <2>1, <2>2 DEF Delivering, AllInOrder, InOrder
  <2>3. ASSUME NEW t \in Subs, ~fails, t = s PROVE InOrder(t)'
    <3>1. PICK last \in Nat :
             /\ DOMAIN Reached(t)' = DOMAIN Reached(t) \cup {last} /\ Reached(t)'[last] = sends
             /\ \A i \in DOMAIN Reached(t) : i \in Nat /\ i < last /\ Reached(t)'[i] = Reached(t)[i]
      BY <1>9, <2>3
    <3>2. sends \in clean' => sends \notin Got(t)
      BY <1>1, <1>2, <1>5, <1>6, <1>16, <2>3 DEF Delivering, WalkedOnce
    <3>3. \A i \in DOMAIN Reached(t) : /\ Reached(t)[i] \in Nat /\ Reached(t)[i] <= sends
                                       /\ Reached(t)[i] \in clean' => Reached(t)[i] # sends
      <4>1. \A i \in DOMAIN Reached(t) : Reached(t)[i] \in Got(t) /\ Reached(t)[i] \in 1..sends
        BY DEF Got, Delivering, SentBefore
      <4> QED
        BY <1>2, <3>2, <4>1
    <3>4. \A i, j \in DOMAIN Reached(t) : i < j =>
             /\ Reached(t)[i] <= Reached(t)[j]
             /\ Reached(t)[i] \in clean' => Reached(t)[i] < Reached(t)[j]
      BY <2>1 DEF Delivering, AllInOrder, InOrder
    <3> SUFFICES ASSUME NEW i \in DOMAIN Reached(t)', NEW j \in DOMAIN Reached(t)', i < j
                 PROVE  /\ Reached(t)'[i] <= Reached(t)'[j]
                        /\ Reached(t)'[i] \in clean' => Reached(t)'[i] < Reached(t)'[j]
      BY DEF InOrder
    <3>5. i \in DOMAIN Reached(t)
      BY <3>1
    <3>6. CASE j \in DOMAIN Reached(t)
      BY <3>1, <3>4, <3>5, <3>6
    <3>7. CASE j = last
      BY <1>2, <3>1, <3>3, <3>5, <3>7
    <3> QED
      BY <3>1, <3>6, <3>7
  <2> QED
    BY <2>2, <2>3 DEF AllInOrder
<1>18. WalkedOnce'
  <2> SUFFICES ASSUME sends \in clean', NEW t \in Subs, sends \in Got(t)'
               PROVE  \E j \in DOMAIN mClients : j < walk.next + 1 /\ mClients[j] = t
    BY <1>1, <1>2 DEF WalkedOnce
  <2>1. CASE sends \in Got(t)
    <3>1. PICK j \in DOMAIN mClients : j < walk.next /\ mClients[j] = t
      BY <1>1, <1>5, <2>1 DEF Delivering, WalkedOnce
    <3> QED
      BY <1>2, <3>1
  <2>2. CASE sends \notin Got(t)
    BY <1>2, <1>6, <1>10, <2>2
  <2> QED
    BY <2>1, <2>2
<1>19. WalkReaches'
  <2> SUFFICES ASSUME sends \in clean', NEW t \in Subs, Receiving(t), since[t] <= sends
               PROVE  \E j \in DOMAIN mClients : /\ mClients[j] = t /\ j <= walk.last
                                                 /\ j < walk.next + 1 => sends \in Got(t)'
    BY <1>1, <1>2, <1>11 DEF WalkReaches
  <2>1. PICK j \in DOMAIN mClients : mClients[j] = t /\ j <= walk.last /\ (j < walk.next => sends \in Got(t))
    BY <1>1, <1>5 DEF Delivering, WalkReaches
  <2>2. CASE j = walk.next
    <3>1. t = s /\ t # Nobody
      BY <1>6, <2>1, <2>2, SharedMemoryAssumption
    <3>2. "send" \in pubFds
      BY <1>1, <1>5 DEF Delivering, CleanSends
    <3>3. ~fails
      BY <3>1, <3>2 DEF Receiving, fails, SendFails
    <3> QED
      BY <1>10, <2>1, <3>1, <3>3
  <2>3. CASE j # walk.next
    <3>1. j < walk.next + 1 => sends \in Got(t)
      BY <1>2, <2>1, <2>3
    <3> QED
      BY <1>10, <2>1, <3>1
  <2> QED
    BY <2>2, <2>3
<1>20. AllGot'
  <2>1. \A t \in Subs : Due(t)' \subseteq Due(t) /\ Got(t) \subseteq Got(t)'
    BY <1>1, <1>10 DEF Due
  <2> QED
    BY <1>11, <2>1 DEF Delivering, AllGot
<1> QED
  BY <1>12, <1>13, <1>14, <1>15, <1>17, <1>18, <1>19, <1>20 DEF Delivering

\* Nobody is owed anything by a publisher that is gone.
LEMMA PublisherDiesDelivers == IInv /\ Delivering /\ PublisherDies => Delivering'
<1> SUFFICES ASSUME IInv, Delivering, PublisherDies PROVE Delivering'
  OBVIOUS
<1>1. /\ pub' = "dead" /\ walk' = NoWalk /\ mClients' = <<>>
      /\ subs' = [s \in Subs |-> [subs[s] EXCEPT !.conn =
            CASE @ = "backlog" -> "reset" [] @ = "open" -> "eof" [] OTHER -> @]]
      /\ UNCHANGED <<sends, since, clean>>
  BY DEF PublisherDies
<1>2. \A s \in Subs : /\ subs'[s].conn # "open"
                      /\ subs'[s].taken = subs[s].taken /\ subs'[s].queue = subs[s].queue
  BY <1>1 DEF IInv, TypeOK, Subscribers
<1>3. \A s \in Subs : Reached(s)' = Reached(s)
  BY <1>2, ReachedSame
<1>4. \A s \in Subs : Got(s)' = Got(s)
  BY <1>3 DEF Got
<1>5. CleanSends'
  BY <1>1 DEF Delivering, CleanSends
<1>6. WalkWithin'
  BY <1>1 DEF WalkWithin, NoWalk
<1>7. OpenListed'
  BY <1>1, <1>2 DEF OpenListed
<1>8. SentBefore'
  BY <1>1, <1>4 DEF Delivering, SentBefore
<1>9. AllInOrder'
  BY <1>1, <1>3, OrderKept DEF Delivering
<1>10. WalkedOnce' /\ WalkReaches'
  BY <1>1 DEF WalkedOnce, WalkReaches
<1>11. AllGot'
  BY <1>2 DEF AllGot, Receiving
<1> QED
  BY <1>5, <1>6, <1>7, <1>8, <1>9, <1>10, <1>11 DEF Delivering

LEMMA InitDelivers == Init => Delivering
<1> SUFFICES ASSUME Init PROVE Delivering
  OBVIOUS
<1>1. /\ clean = {} /\ sends = 0 /\ pub = "idle" /\ mClients = <<>> /\ walk = NoWalk
      /\ \A s \in Subs : subs[s].conn = "none" /\ subs[s].taken = <<>> /\ subs[s].queue = <<>>
  BY DEF Init, NewSubscriber
<1>2. CleanSends /\ WalkWithin /\ OpenListed
  BY <1>1 DEF CleanSends, WalkWithin, OpenListed, NoWalk
<1>3. \A s \in Subs : DOMAIN Reached(s) = {}
  <2>1. \A s \in Subs : subs[s].taken \o subs[s].queue = <<>> /\ DOMAIN <<>> = {}
    BY <1>1
  <2> QED
    BY <2>1 DEF Reached
<1>4. SentBefore /\ AllInOrder
  BY <1>3 DEF SentBefore, AllInOrder, InOrder, Got
<1>5. WalkedOnce /\ WalkReaches /\ AllGot
  BY <1>1 DEF WalkedOnce, WalkReaches, AllGot, Receiving
<1> QED
  BY <1>2, <1>4, <1>5 DEF Delivering

LEMMA NextDelivers == IInv /\ Delivering /\ [Next]_shmVars => Delivering'
<1> SUFFICES ASSUME IInv, Delivering, [Next]_shmVars PROVE Delivering'
  OBVIOUS
<1>1. CASE Accept \/ CreateSegment \/ PublisherDies
  BY <1>1, AcceptDelivers, CreateSegmentDelivers, PublisherDiesDelivers
<1>2. CASE Sending
  BY <1>2, LeaveSendDelivers, OpenReadOnlyDelivers, ReadEndDelivers, SendToDelivers DEF Sending
<1>3. CASE \E s \in Subs :
              \/ Connect(s) \/ Reader(s) \/ Owner(s)
              \/ WaitForShutdown(s) \/ Destroy(s) \/ KillSubscriber(s)
              \/ \E packet \in subs[s].msgs : DropMessage(s, packet)
  BY <1>3, ConnectDelivers, SubscriberDelivers
<1>4. CASE UNCHANGED shmVars
  <2>1. UNCHANGED <<mClients, pub, sends, pubFds, walk, subs, since, clean>>
    BY <1>4 DEF shmVars, sendVars, acceptVars
  <2>2. \A s \in Subs : Kept(s)
    BY <2>1, SubscribersKept DEF Kept
  <2> QED
    BY <2>1, <2>2, SubscribersDeliver
<1> QED
  BY <1>1, <1>2, <1>3, <1>4 DEF Next

\* Whoever was accepted before a Send walked the clients gets its message once and in the
\* order of the Sends, whatever the queues, the deaths of others and new clients do to the
\* walk.  Only Sends whose walk saw the vector move are excepted.
THEOREM MessagesArriveOnceInOrder == Spec => []ExactlyOnceInOrder
<1>1. Delivering => ExactlyOnceInOrder
  <2>1. Delivering => AllGot /\ AllInOrder
    BY DEF Delivering
  <2> QED
    BY <2>1 DEF AllGot, AllInOrder, InOrder, Got, Receiving, ExactlyOnceInOrder
<1> QED
  BY <1>1, InitDelivers, NextDelivers, IInvHolds, PTL DEF Spec
=============================================================================
