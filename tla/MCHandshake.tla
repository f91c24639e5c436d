----------------------------- MODULE MCHandshake -----------------------------
(***************************************************************************)
(* The TLC instance of Handshake, with the history of Reopening: two offers *)
(* answered by two sessions, which are interchangeable, as the offers are.  *)
(***************************************************************************)
EXTENDS Reopening, TLC

CONSTANTS o1, o2, s1, s2

Symmetry == Permutations(Offer) \cup Permutations(Session)
=============================================================================
