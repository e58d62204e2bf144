----------------------------- MODULE MC_Topology -----------------------------
(***************************************************************************)
(* Small groups.  Ids are above 1: ids are random 64-bit numbers, and id 1 *)
(* alone has the special meaning that PruneRemoved gives it.               *)
(***************************************************************************)
EXTENDS Topology

Ann(n, t, m) == TopicChange("ANNOUNCE", n, t, m)
Sub(n, t)    == TopicChange("SUBSCRIBE", n, t, "")

\* Two nodes that each announce or subscribe; node 3 may be killed.
StableNodes == {2, 3}
StableCalls == [n \in StableNodes |->
    CASE n = 2 -> {Ann(2, "t", "text")}
      [] n = 3 -> {Sub(3, "t")}]
StableMortal == {3}

\* Two nodes, the hub and its successor.
FailoverNodes == {2, 3}
FailoverCalls == [n \in FailoverNodes |->
    IF n = 3 THEN {Ann(3, "t", "text")} ELSE {}]
FailoverMortal == {2}
NoCalls == [n \in FailoverNodes |-> {}]
=============================================================================
