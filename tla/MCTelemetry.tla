----------------------------- MODULE MCTelemetry -----------------------------
\* Finite instances of Telemetry, and of the screens that show it.
EXTENDS Screens, TLC

CONSTANTS u1, u2, w1

MCFix   == 1 .. 2

\* An active incident makes the threshold of a dwell shorter.
MCDwellTicks == [watched \in BOOLEAN |-> IF watched THEN 1 ELSE 2]
MCStaleTicks == [watched \in BOOLEAN |-> 2]
=============================================================================
