--------------------------- MODULE MCRelaySupervisor ---------------------------
(* TLC instance of RelaySupervisor.                                           *)
EXTENDS RelaySupervisor
===============================================================================
