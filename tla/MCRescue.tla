------------------------------ MODULE MCRescue ------------------------------
(***************************************************************************)
(* TLC instances of RescueHistory.  Incidents and trucks are interchangeable, *)
(* so the safety runs are checked up to their permutations.                 *)
(***************************************************************************)
EXTENDS RescueHistory, TLC

CONSTANTS i1, i2, t1, t2

Symmetry == Permutations(Incident) \cup Permutations(Truck)
=============================================================================
