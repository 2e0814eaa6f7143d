---------------------------- MODULE MC_Signaling ----------------------------
EXTENDS Signaling, TLC

(* Sockets are interchangeable, and so are peer names: neither is ordered  *)
(* or compared to anything but its own kind.                               *)
Symmetry == Permutations(Sockets) \cup Permutations(Peers)
=============================================================================
