---------------------------- MODULE SharedMemory ----------------------------
(***************************************************************************)
(* The shared-memory path: one Publisher, the Subscribers connected to it  *)
(* and the IPCMessages they hold (lib/Publisher.cc, lib/Subscriber.cc,     *)
(* lib/IPCMessage.cc), each Subscriber in a process of its own.            *)
(*                                                                         *)
(* Send number k writes its data to segment k, under a name that exists    *)
(* until Send returns, and sends a descriptor of it to every client.  A    *)
(* segment exists while a name, a descriptor or a packet refers to it.     *)
(* The i-th sendmsg of Send k makes the packet <<k, i>>.                   *)
(*                                                                         *)
(* Send walks mClients without mMtx while the accepting thread appends to  *)
(* it.  An append that has to reallocate frees the elements Send walks:    *)
(* from then on it may read any descriptor, that of any client included.   *)
(***************************************************************************)
EXTENDS Naturals, Sequences, FiniteSets

CONSTANTS
    Subs,           \* the subscribers' processes
    Mortal,         \* those that may be killed
    Keepers,        \* those whose callbacks may keep messages
    Mapless,        \* those in which a descriptor may defy seeking or mapping
    Nobody,         \* a number that is no client's descriptor
    QueueLength,    \* packets a socket holds
    MaxSends        \* calls of Send in the instance

ASSUME SharedMemoryAssumption ==
    /\ Mortal \cup Keepers \cup Mapless \subseteq Subs /\ Nobody \notin Subs
    /\ QueueLength \in Nat \ {0} /\ MaxSends \in Nat

VARIABLES
    pub,        \* where Send is: "idle", "made", "begun", "walk"; or "dead"
    mClients,   \* the clients' descriptors, named by their subscribers
    backlog,    \* connections not accepted yet
    sends,      \* the number of calls of Send
    named,      \* segments that have a name
    pubFds,     \* Send's descriptors: {}, {"write"} or {"write", "send"}
    walk,       \* the loop over mClients: [next, last, stale]
    subs,       \* the Subscribers
    since,      \* history: the first Send that walked after s was accepted
    clean       \* history: the Sends that could send and whose walk was not disturbed

acceptVars == <<mClients, backlog>>
sendVars   == <<pub, sends, named, pubFds, walk>>
shmVars    == <<acceptVars, sendVars, subs, since, clean>>

NoWalk == [next |-> 1, last |-> 0, stale |-> FALSE]

Packets == (1..MaxSends) \X Nat

(* thread: the reading thread, and dead if the process is.  app: the thread *)
(* that owns the Subscriber: runs, waits (for shutdown), joins (in the      *)
(* destructor), left.  notified: the event of mShutdownFd.  deaf:           *)
(* msg_controllen has become 0.  msgs and fds: packets whose IPCMessage     *)
(* lives, and whose descriptor is open.  lost: history, packets of which    *)
(* Create kept the descriptor and made no message.  taken: what recvmsg     *)
(* returned.                                                                *)
Subscribers ==
    [thread : {"new", "reads", "callback", "ended", "dead"},
     app : {"runs", "waits", "joins", "left"},
     conn : {"none", "backlog", "open", "eof", "reset"},
     queue : Seq(Packets), notified : BOOLEAN, deaf : BOOLEAN,
     msgs : SUBSET Packets, fds : SUBSET Packets, lost : SUBSET Packets,
     taken : Seq(Packets)]

NewSubscriber ==
    [thread |-> "new", app |-> "runs", conn |-> "none", queue |-> <<>>, notified |-> FALSE,
     deaf |-> FALSE, msgs |-> {}, fds |-> {}, lost |-> {}, taken |-> <<>>]

Init ==
    /\ pub = "idle" /\ sends = 0 /\ named = {} /\ pubFds = {} /\ walk = NoWalk
    /\ mClients = <<>> /\ backlog = <<>>
    /\ subs = [s \in Subs |-> NewSubscriber]
    /\ since = [s \in Subs |-> 0] /\ clean = {}

-----------------------------------------------------------------------------
(* The thread that accepts.                                                *)

\* A vector that grew to n elements by push_back has no room left.
Full(n) == n = 0 \/ \E i \in 0..n : n = 2^i

\* Deviation: a client is listed twice.
ListedTwice(s) == mClients \o <<s, s>>

Listed(s) == Append(mClients, s)

\* accept and push_back; when accept fails the thread tries again.
Accept ==
    /\ pub # "dead"
    /\ backlog # <<>>
    /\ backlog' = Tail(backlog)
    /\ mClients' = Listed(Head(backlog))
    /\ subs' = [subs EXCEPT ![Head(backlog)].conn = "open"]
    /\ since' = [since EXCEPT ![Head(backlog)] = sends + 1]
    /\ walk' = [walk EXCEPT !.stale = @ \/ (pub \in {"begun", "walk"} /\ Full(Len(mClients)))]
    /\ UNCHANGED <<pub, sends, named, pubFds, clean>>

-----------------------------------------------------------------------------
(* Send.                                                                   *)

\* shm_open; when it fails Send returns and nothing has changed.
CreateSegment ==
    /\ pub = "idle"
    /\ sends < MaxSends
    /\ sends' = sends + 1
    /\ named' = named \cup {sends + 1}
    /\ pubFds' = {"write"}
    /\ pub' = "made"
    /\ UNCHANGED <<acceptVars, walk, subs, since, clean>>

\* Deviation: the name is forgotten.
StillNamed == named

Unlinked == named \ {sends}

\* The two scope guards.
LeaveSend ==
    /\ pub' = "idle"
    /\ pubFds' = {}
    /\ named' = Unlinked
    /\ walk' = NoWalk
    /\ UNCHANGED <<acceptVars, sends, subs, since, clean>>

WriteFails == pub = "made" /\ LeaveSend

\* The result of the second shm_open is not looked at.  Then the loop reads
\* begin().
OpenReadOnly ==
    /\ pub = "made"
    /\ pub' = "begun"
    /\ \/ pubFds' = {"write", "send"} /\ clean' = clean \cup {sends}
       \/ UNCHANGED <<pubFds, clean>>
    /\ UNCHANGED <<acceptVars, sends, named, walk, subs, since>>

\* When the elements moved between begin() and end() the two do not belong
\* together: the walk crosses other memory.  Its length is bounded here.
ReadEnd ==
    /\ pub = "begun"
    /\ pub' = "walk"
    /\ walk' = [walk EXCEPT !.last = Len(mClients)]
    /\ clean' = IF walk.stale THEN clean \ {sends} ELSE clean
    /\ since' = [s \in Subs |->
          IF subs[s].conn = "open" /\ since[s] > sends THEN sends ELSE since[s]]
    /\ UNCHANGED <<acceptVars, sends, named, pubFds, subs>>

\* What the walk may read where it is.
Targets ==
    IF walk.stale THEN {mClients[i] : i \in DOMAIN mClients} \cup {Nobody}
    ELSE {mClients[walk.next]}

\* Deviation: a full socket is an error.
FailsWhenFull(s) == s = Nobody \/ "send" \notin pubFds \/ Len(subs[s].queue) >= QueueLength

\* Deviation: a peer that is gone is none.
FailsUnopened(s) == s = Nobody \/ "send" \notin pubFds

\* sendmsg returns an error: a bad descriptor, or a peer that is gone.
SendFails(s) == s = Nobody \/ "send" \notin pubFds \/ subs[s].thread = "dead"

\* sendmsg blocks while the socket is full and the peer lives.
SendTo(s) ==
    /\ pub = "walk"
    /\ walk.next <= walk.last
    /\ s \in Targets
    /\ walk' = [walk EXCEPT !.next = @ + 1]
    /\ clean' = IF walk.stale THEN clean \ {sends} ELSE clean
    /\ IF SendFails(s) THEN UNCHANGED subs
       ELSE /\ Len(subs[s].queue) < QueueLength
            /\ subs' = [subs EXCEPT ![s].queue = Append(@, <<sends, walk.next>>)]
    /\ UNCHANGED <<acceptVars, pub, sends, named, pubFds, since>>

SendReturnsTrue == pub = "walk" /\ walk.next > walk.last /\ LeaveSend

Sending ==
    \/ WriteFails \/ OpenReadOnly \/ ReadEnd
    \/ \E s \in Subs \cup {Nobody} : SendTo(s)
    \/ SendReturnsTrue

\* The process ends, by a signal, by following a stale pointer, or because the
\* Publisher is destroyed while its thread is joinable.  Connections not accepted
\* are reset; the name of a segment under way stays.
PublisherDies ==
    /\ pub # "dead"
    /\ pub' = "dead"
    /\ pubFds' = {} /\ mClients' = <<>> /\ backlog' = <<>> /\ walk' = NoWalk
    /\ subs' = [s \in Subs |-> [subs[s] EXCEPT !.conn =
          CASE @ = "backlog" -> "reset" [] @ = "open" -> "eof" [] OTHER -> @]]
    /\ UNCHANGED <<sends, named, since, clean>>

-----------------------------------------------------------------------------
(* A Subscriber.                                                           *)

\* s changes to record r, and nothing else changes.
Becomes(s, r) ==
    /\ subs' = [subs EXCEPT ![s] = r]
    /\ UNCHANGED <<acceptVars, sendVars, since, clean>>

\* The constructor; without a publisher it ends the process.
Connect(s) ==
    /\ subs[s].thread = "new"
    /\ subs' = [subs EXCEPT ![s] =
          IF pub = "dead" THEN [@ EXCEPT !.thread = "dead", !.app = "left"]
          ELSE [@ EXCEPT !.thread = "reads", !.conn = "backlog"]]
    /\ backlog' = IF pub = "dead" THEN backlog ELSE Append(backlog, s)
    /\ UNCHANGED <<mClients, sendVars, since, clean>>

\* recvmsg and IPCMessage::Create.  Without room for a descriptor the packet
\* comes without control data and msg_controllen, set once before the loop,
\* becomes 0: no later packet brings its descriptor.  With a descriptor Create makes
\* a message, or cannot seek in it or map it: then it returns nothing, and the
\* descriptor stays open.
Receive(s) ==
    LET packet == Head(subs[s].queue)
        after  == [subs[s] EXCEPT !.queue = Tail(@), !.taken = Append(@, packet)]
    IN  /\ subs[s].thread = "reads"
        /\ subs[s].queue # <<>>
        /\ \/ Becomes(s, [after EXCEPT !.deaf = TRUE])
           \/ /\ ~subs[s].deaf
              /\ \/ Becomes(s, [after EXCEPT !.thread = "callback",
                                  !.msgs = @ \cup {packet}, !.fds = @ \cup {packet}])
                 \/ /\ s \in Mapless
                    /\ Becomes(s, [after EXCEPT !.fds = @ \cup {packet},
                                                !.lost = @ \cup {packet}])

\* ~IPCMessage: unmaps and closes.
Released(r, packet) == [r EXCEPT !.msgs = @ \ {packet}, !.fds = @ \ {packet}]

\* The message of the callback under way.
Current(s) == subs[s].taken[Len(subs[s].taken)]

\* The callback may have kept a copy of the shared_ptr.
CallbackReturns(s) ==
    LET after == [subs[s] EXCEPT !.thread = "reads"] IN
    /\ subs[s].thread = "callback"
    /\ \/ Becomes(s, Released(after, Current(s)))
       \/ s \in Keepers /\ Becomes(s, after)

DropMessage(s, packet) ==
    /\ packet \in subs[s].msgs
    /\ subs[s].thread = "callback" => packet # Current(s)
    /\ Becomes(s, Released(subs[s], packet))

\* Deviation: the event is not written.
Untold(r) == r

Told(r) == [r EXCEPT !.notified = TRUE]

\* recvmsg returns 0.
EndOfStream(s) ==
    /\ subs[s].thread = "reads"
    /\ subs[s].conn = "eof" /\ subs[s].queue = <<>>
    /\ Becomes(s, Told([subs[s] EXCEPT !.thread = "ended"]))

\* recvmsg fails: the thread returns from inside the loop.
ReadError(s) ==
    /\ subs[s].thread = "reads"
    /\ subs[s].conn = "reset"
    /\ Becomes(s, [subs[s] EXCEPT !.thread = "ended"])

Reader(s) == Receive(s) \/ CallbackReturns(s) \/ EndOfStream(s) \/ ReadError(s)

App(s, at) == subs[s].thread \notin {"new", "dead"} /\ subs[s].app = at

WaitForShutdown(s) == App(s, "runs") /\ Becomes(s, [subs[s] EXCEPT !.app = "waits"])

WaitReturns(s) ==
    /\ App(s, "waits")
    /\ subs[s].notified
    /\ Becomes(s, [subs[s] EXCEPT !.app = "runs"])

\* ~Subscriber writes the event, which the reading thread does not poll, and joins.
Destroy(s) == App(s, "runs") /\ Becomes(s, Told([subs[s] EXCEPT !.app = "joins"]))

Joined(s) ==
    /\ App(s, "joins")
    /\ subs[s].thread = "ended"
    /\ Becomes(s, [subs[s] EXCEPT !.app = "left"])

Owner(s) == WaitReturns(s) \/ Joined(s)

\* The process is killed: its descriptors and packets go.
KillSubscriber(s) ==
    /\ s \in Mortal
    /\ subs[s].thread \notin {"new", "dead"}
    /\ Becomes(s, [NewSubscriber EXCEPT !.thread = "dead", !.app = "left",
                                        !.conn = subs[s].conn])

-----------------------------------------------------------------------------

Next ==
    \/ Accept \/ CreateSegment \/ Sending \/ PublisherDies
    \/ \E s \in Subs :
          \/ Connect(s) \/ Reader(s) \/ Owner(s)
          \/ WaitForShutdown(s) \/ Destroy(s) \/ KillSubscriber(s)
          \/ \E packet \in subs[s].msgs : DropMessage(s, packet)

(* The threads run: a Send under way, a reading thread (callbacks return)  *)
(* and an owner that waits or joins.  Nobody has to connect, to call Send, *)
(* to be accepted, to drop a message or to die.                            *)
Spec == /\ Init /\ [][Next]_shmVars
        /\ WF_shmVars(Sending)
        /\ \A s \in Subs : WF_shmVars(Reader(s)) /\ WF_shmVars(Owner(s))

-----------------------------------------------------------------------------
(* Properties.                                                             *)

\* Every variable has its type (Publisher.h, Subscriber.h, IPCMessage.h); a client
\* is listed once, and messages are held only of packets that were received.
TypeOK ==
    /\ pub \in {"idle", "made", "begun", "walk", "dead"}
    /\ mClients \in Seq(Subs) /\ backlog \in Seq(Subs)
    /\ \A i, j \in DOMAIN mClients : mClients[i] = mClients[j] => i = j
    /\ sends \in 0..MaxSends /\ named \subseteq 1..MaxSends
    /\ pubFds \in {{}, {"write"}, {"write", "send"}}
    /\ walk \in [next : Nat, last : Nat, stale : BOOLEAN]
    /\ subs \in [Subs -> Subscribers]
    /\ \A s \in Subs :
          /\ Len(subs[s].queue) <= QueueLength
          /\ subs[s].msgs \cup subs[s].fds \cup subs[s].lost \subseteq
                {subs[s].taken[i] : i \in DOMAIN subs[s].taken}
    /\ since \in [Subs -> Nat] /\ clean \subseteq 1..MaxSends

InSocket(k) == \E s \in Subs : \E i \in DOMAIN subs[s].queue : subs[s].queue[i][1] = k

\* The memory of segment k is in use.
Exists(k) ==
    \/ k \in named
    \/ k = sends /\ pubFds # {}
    \/ InSocket(k)
    \/ \E s \in Subs : \E packet \in subs[s].fds : packet[1] = k

\* No segment outlives its use, through every order of sends, drops and deaths and
\* every return of Send and Create but two: what exists is being sent, is in a socket,
\* belongs to a message somebody holds, or came to a process in which Create failed to
\* seek or map after it had copied the descriptor, and that lives on.  A Publisher that
\* dies leaves at most the segment it was sending.
SegmentsReleased ==
    \A k \in 1..sends : Exists(k) =>
        \/ k = sends /\ pub # "idle"
        \/ InSocket(k)
        \/ \E s \in Subs : \E packet \in subs[s].msgs \cup subs[s].lost : packet[1] = k

\* The segments of all packets that reached s, in order.
Reached(s) ==
    LET packets == subs[s].taken \o subs[s].queue
    IN  [i \in DOMAIN packets |-> packets[i][1]]

Due(s) == {k \in clean : since[s] <= k /\ (k < sends \/ pub = "idle")}

\* Whoever was accepted before a Send walked the clients gets its message exactly
\* once and in the order of the Sends, whatever its queue and the deaths of others
\* did to the walk.  Only Sends whose walk saw the vector move are excepted.
ExactlyOnceInOrder ==
    \A s \in Subs :
        /\ subs[s].conn = "open" /\ subs[s].thread # "dead" =>
              \A k \in Due(s) : \E i \in DOMAIN Reached(s) : Reached(s)[i] = k
        /\ \A i, j \in DOMAIN Reached(s) : i < j =>
              /\ Reached(s)[i] <= Reached(s)[j]
              /\ Reached(s)[i] \in clean => Reached(s)[i] < Reached(s)[j]

\* A Send ends, although it blocks on every full socket in turn: a subscriber
\* reads on, also while it is being destroyed, or is gone.
SendReturns == pub \notin {"idle", "dead"} ~> pub \in {"idle", "dead"}

\* When the publisher ends, whoever it had accepted notices: WaitForShutdown
\* returns.  A destructor that waits for the reading thread returns then, too.  A
\* connection that was not accepted is reset: then the thread returns without telling
\* (ReadError), and WaitForShutdown goes on waiting.
EndIsNoticed ==
    \A s \in Subs :
        /\ subs[s].app = "waits" /\ subs[s].conn = "eof" ~> subs[s].app # "waits"
        /\ subs[s].app = "joins" /\ subs[s].conn \in {"eof", "reset"} ~> subs[s].app = "left"
=============================================================================
