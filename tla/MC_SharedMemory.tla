--------------------------- MODULE MC_SharedMemory ---------------------------
(***************************************************************************)
(* Subscribers that come at any moment, the last of them when the vector   *)
(* of clients has to grow, and sockets with room for one packet.           *)
(***************************************************************************)
EXTENDS SharedMemory

CONSTANTS s1, s2

MCSubs == {s1, s2}
=============================================================================
