-------------------------- MODULE MC_TopologyServer --------------------------
(***************************************************************************)
(* Small instances of the hub: three connections, clients that introduce   *)
(* themselves and replay what they learnt from an earlier hub.             *)
(***************************************************************************)
EXTENDS TopologyServer

Join(n)  == NodeChange("JOIN", n)
Leave(n) == NodeChange("LEAVE", n)
Ann(n)   == TopicChange("ANNOUNCE", n, "t", "text")

MCFds  == {3, 4, 5}
MCUids == {9}

\* What the spokes of a hub that died kept of its history.
Old == <<Message(1, 8, Join(2)), Message(2, 8, Join(3)), Message(3, 0, Leave(5)),
         Message(4, 8, Ann(2))>>

\* The empty history of a first hub, one a hub takes over with (node 2 and node
\* 3 are known, node 2 has announced, and somebody left), and one that misses
\* what the spokes below replay and has a number they do not know.
MCDigests ==
    {<<>>,
     <<Old[1], Old[2], Old[4], Message(5, 0, Leave(7))>>,
     <<Old[1], Old[2], Message(5, 8, Join(5))>>}

Novel(bodies) == {Message(0, 0, b) : b \in bodies}

Known(history) == {history[i] : i \in DOMAIN history}

\* Three spokes.  One replays all it knows of the earlier hub, the messages about
\* other nodes and the LEAVE included; one replays a message about another node
\* and says in between that it is node 0; one joins for the first time.
MCInbound == [fd \in MCFds |->
    CASE fd = 3 -> Known(Old) \cup Novel({Join(2)})
      [] fd = 4 -> {Old[1]} \cup Novel({Join(0)})
      [] fd = 5 -> Novel({Join(5)})]
=============================================================================
