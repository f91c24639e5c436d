------------------------------ MODULE MCConsole ------------------------------
\* Finite instances of Console.
EXTENDS Console, TLC

CONSTANTS r1, r2

\* The same report twice: its request was repeated, or its message delivered again.
OneEvent == [r \in Report |-> "e1"]
=============================================================================
