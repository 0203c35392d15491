---------------------------- MODULE MCDurableEvents ----------------------------
(* TLC instances of DurableEvents: Symmetry and InFlight are used by the      *)
(* safety run only.                                                           *)
EXTENDS DurableEvents, TLC

Symmetry == Permutations(Conns)

(* The connections together have no more messages in flight than one may have. *)
InFlight == \A c, d \in Conns : c # d => Len(toRelay[c]) + Len(toRelay[d]) <= MaxQueue
================================================================================
