--------------------------- MODULE MC_OpenManager ---------------------------
(***************************************************************************)
(* One spoke and hubs that send it its own JOIN or a publication of its    *)
(* own.                                                                    *)
(***************************************************************************)
EXTENDS OpenManager

MCFromHub == {Message(2, 5, NodeChange("JOIN", 2)),
              Message(1, 5, TopicChange("ANNOUNCE", 2, "x", "text"))}
=============================================================================
