------------------------------- MODULE MCUplink -------------------------------
\* Finite instances of Uplink.
EXTENDS Uplink, TLC

CONSTANTS d1, d2, f1, f2
=============================================================================
