-------------------------- MODULE MCRelayConnections --------------------------
(* Small instances of RelayConnections for TLC. *)
EXTENDS RelayConnections, TLC

Symmetry == Permutations(Sockets) \cup Permutations(Sessions)
==============================================================================
