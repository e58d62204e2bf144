-------------------------------- MODULE UDS --------------------------------
(***************************************************************************)
(* The SOCK_SEQPACKET connections between the spokes' UDSClient and the    *)
(* hub's UDSServer: the packets in flight in each direction and the state  *)
(* of the two ends.  Each side is a thread in a poll loop                  *)
(* (UDSClient::MainLoop, UDSServer::MainLoop).                             *)
(*                                                                         *)
(* A connection is a number, given in the order of the connect() calls and *)
(* never used again.  A loop that polls a peer that closed its end gets    *)
(* POLLIN and POLLHUP together: it reads one more packet, handles the      *)
(* hangup, and the packets still queued are lost.  Before that it may have *)
(* polled too early to see the hangup and read on as if nothing happened.  *)
(* If the peer closed its end with packets unread the socket is reset: the *)
(* next read or write fails, which may be the last read or an earlier one. *)
(*                                                                         *)
(* UDSNext says what the two ends may do to the connections; SocketLoops   *)
(* has the poll loops themselves and implements it.                        *)
(***************************************************************************)
EXTENDS Naturals, Sequences, FiniteSets

CONSTANT MaxConns       \* connections made in the instance
ASSUME MaxConnsAssumption == MaxConns \in Nat

Conns == 1..MaxConns

VARIABLES
    toHub,      \* connection -> packets the spoke sent, unread
    toClient,   \* accepted connection -> packets the hub wrote, unread
    hubEnd,     \* connection -> "backlog" (not accepted), "open", "closed"
    cliEnd      \* connection -> "open", "closed", or "reset": closed unread

udsVars == <<toHub, toClient, hubEnd, cliEnd>>

\* f with x mapped to v.
With(f, x, v) == [y \in DOMAIN f \cup {x} |-> IF y = x THEN v ELSE f[y]]

NextConn == Cardinality(DOMAIN toHub) + 1

\* connect() against a listening socket: it is queued for accept.
OpenConnection(c) ==
    /\ c = NextConn
    /\ c \in Conns
    /\ toHub' = With(toHub, c, <<>>)
    /\ hubEnd' = With(hubEnd, c, "backlog")
    /\ cliEnd' = With(cliEnd, c, "open")

\* UDSClient::Send succeeds: the fd is not closed on either side.
CanSend(c) == hubEnd[c] # "closed" /\ cliEnd[c] = "open"

\* toHub after the spoke wrote packets to c; without a peer they go nowhere.
Written(c, packets) ==
    IF CanSend(c) THEN [toHub EXCEPT ![c] = @ \o packets] ELSE toHub

\* What is left to read on an accepted connection.
Pending(c) == IF c \in DOMAIN toClient THEN toClient[c] ELSE <<>>

-----------------------------------------------------------------------------
(* UDSClient::MainLoop.                                                    *)

ClientCanRead(c) == cliEnd[c] = "open" /\ Pending(c) # <<>>

ClientSeesHangup(c) == cliEnd[c] = "open" /\ hubEnd[c] = "closed"

\* The read that accompanies the hangup returns a packet, or fails.
LastReadSucceeds(c) == Pending(c) # <<>>
LastReadFails(c)    == toHub[c] # <<>> \/ Pending(c) = <<>>

-----------------------------------------------------------------------------
(* UDSServer::MainLoop.                                                    *)

HubCanAccept(c) ==
    /\ hubEnd[c] = "backlog"
    /\ \A d \in DOMAIN hubEnd : d < c => hubEnd[d] # "backlog"

HubCanRead(c) == hubEnd[c] = "open" /\ toHub[c] # <<>>

HubCanReadLast(c) ==
    /\ hubEnd[c] = "open"
    /\ cliEnd[c] # "open"
    /\ toHub[c] # <<>>

HubSeesHangup(c) ==
    /\ hubEnd[c] = "open"
    /\ \/ cliEnd[c] = "reset"
       \/ cliEnd[c] = "closed" /\ toHub[c] = <<>>

\* cliEnd after the spoke's process died with connection c (0: none) open.
ClosedByDeath(c) ==
    IF c \in DOMAIN cliEnd /\ cliEnd[c] = "open"
    THEN [cliEnd EXCEPT ![c] = IF Pending(c) = <<>> THEN "closed" ELSE "reset"]
    ELSE cliEnd
-----------------------------------------------------------------------------
(* What may happen to the connections.                                     *)

UDSInit == toHub = <<>> /\ toClient = <<>> /\ hubEnd = <<>> /\ cliEnd = <<>>

SpokeOpens(c) == OpenConnection(c) /\ UNCHANGED toClient

SpokeSends(c, packet) ==
    /\ CanSend(c)
    /\ toHub' = Written(c, <<packet>>)
    /\ UNCHANGED <<toClient, hubEnd, cliEnd>>

SpokeReads(c) ==
    /\ ClientCanRead(c)
    /\ toClient' = [toClient EXCEPT ![c] = Tail(@)]
    /\ UNCHANGED <<toHub, hubEnd, cliEnd>>

\* It is hung up on, shut down, or its process dies.
SpokeCloses(c) ==
    /\ cliEnd[c] = "open"
    /\ cliEnd' = ClosedByDeath(c)
    /\ UNCHANGED <<toHub, toClient, hubEnd>>

HubAccepts(c) ==
    /\ HubCanAccept(c)
    /\ hubEnd' = [hubEnd EXCEPT ![c] = "open"]
    /\ toClient' = With(toClient, c, <<>>)
    /\ UNCHANGED <<toHub, cliEnd>>

HubWrites(c, packet) ==
    /\ hubEnd[c] = "open"
    /\ toClient' = [toClient EXCEPT ![c] = Append(@, packet)]
    /\ UNCHANGED <<toHub, hubEnd, cliEnd>>

HubReads(c) ==
    /\ HubCanRead(c)
    /\ toHub' = [toHub EXCEPT ![c] = Tail(@)]
    /\ UNCHANGED <<toClient, hubEnd, cliEnd>>

HubReadsLast(c) ==
    /\ HubCanReadLast(c)
    /\ toHub' = [toHub EXCEPT ![c] = <<>>]
    /\ UNCHANGED <<toClient, hubEnd, cliEnd>>

HubHangsUp(c) ==
    /\ HubSeesHangup(c)
    /\ hubEnd' = [hubEnd EXCEPT ![c] = "closed"]
    /\ UNCHANGED <<toHub, toClient, cliEnd>>

\* Deviation: accepted connections stay open.
HubClosesListener ==
    /\ hubEnd' = [c \in DOMAIN hubEnd |-> IF hubEnd[c] = "backlog" THEN "closed" ELSE hubEnd[c]]
    /\ UNCHANGED <<toHub, toClient, cliEnd>>

HubCloses ==
    /\ hubEnd' = [c \in DOMAIN hubEnd |-> "closed"]
    /\ UNCHANGED <<toHub, toClient, cliEnd>>

UDSNext(Packets) ==
    \/ \E c \in Conns : SpokeOpens(c)
    \/ \E c \in DOMAIN hubEnd :
          \/ SpokeReads(c) \/ SpokeCloses(c)
          \/ HubAccepts(c) \/ HubReads(c) \/ HubReadsLast(c) \/ HubHangsUp(c)
          \/ \E packet \in Packets : SpokeSends(c, packet) \/ HubWrites(c, packet)
    \/ HubCloses
=============================================================================
