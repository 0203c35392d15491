------------------------------ MODULE MCLiveDelta ------------------------------
(* TLC instances of LiveDelta: Symmetry is used by the safety run only.       *)
EXTENDS LiveDelta, TLC

Symmetry == Permutations(Conns)
===============================================================================
