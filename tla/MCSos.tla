-------------------------------- MODULE MCSos --------------------------------
\* Finite instances of SosHistory.
EXTENDS SosHistory, TLC

CONSTANTS a1, a2, n1, n2, s1, s2

\* Every tap carries the same client_request_id, as the device sends it.
MCRequestOf == [a \in Tap |-> "request"]

Symmetry == Permutations(Tap) \cup Permutations(Incident) \cup Permutations(Session)
=============================================================================
