----------------------------- MODULE MC_IPCNode -----------------------------
(***************************************************************************)
(* Three nodes in a line: 3 publishes "b", to which 2 replies with "a", as *)
(* ponger does to pinger; 2 publishes "a" itself as well, and 4 listens.   *)
(***************************************************************************)
EXTENDS IPCNode

MCNodes == {2, 3, 4}
MCTopics == {"a", "b"}
MCWants == [n \in MCNodes |-> CASE n = 2 -> {"b"} [] n = 3 -> {} [] n = 4 -> {"a"}]
MCSays == [n \in MCNodes |-> CASE n = 2 -> {"a"} [] n = 3 -> {"b"} [] n = 4 -> {}]
MCMaxPublished == [n \in MCNodes |-> CASE n = 2 -> 1 [] n = 3 -> 2 [] n = 4 -> 0]
MCReplies == [n \in MCNodes |-> IF n = 2 THEN [t \in {"b"} |-> "a"] ELSE <<>>]

\* A state on the way from Init: 2 and 3 have joined, 2 has subscribed, and both
\* have applied all that.  Node 4 is still to come.
MCInit ==
    /\ status = [n \in Nodes |-> IF n = 4 THEN "off" ELSE "up"]
    /\ padded = [n \in Nodes |-> TRUE]
    /\ log = <<Event("JOIN", 2, ""), Event("JOIN", 3, ""), Event("SUBSCRIBE", 2, "b")>>
    /\ applied = [n \in Nodes |-> IF n = 4 THEN 0 ELSE 3]
    /\ mNodeById = [n \in Nodes |-> IF n = 4 THEN <<>> ELSE
          [m \in {2, 3} |-> [path |-> TRUE, subs |-> IF m = 2 THEN {"b"} ELSE {}]]]
    /\ mSubscriptions = [n \in Nodes |-> IF n = 2 THEN {"b"} ELSE {}]
    /\ mMtx = [n \in Nodes |-> "free"]
    /\ task = [n \in Nodes |-> [th \in Threads |-> Idle]]
    /\ published = [n \in Nodes |-> 0] /\ said = [n \in Nodes |-> 0]
    /\ inbox = [n \in Nodes |-> <<>>] /\ delivered = [n \in Nodes |-> <<>>]
    /\ refused = [n \in Nodes |-> {}]

MCSpec == MCInit /\ [][Next]_vars /\ WF_vars(System)
=============================================================================
