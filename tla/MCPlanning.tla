----------------------------- MODULE MCPlanning -----------------------------
(* A small fleet around a stranded load, for TLC. *)
EXTENDS Planning

CONSTANTS t0, t1, t2, t3, c1, f1, f2, f3

MCTruck    == {t0, t1, t2, t3}
MCCompany  == {c1}
MCFacility == {f1, f2, f3}

MCPlace == {"A", "B", "C", "D", "E"}

\* Places on a line, and E beyond the reach of the graph.
Mile == [A |-> 0, B |-> 4, C |-> 24, D |-> 50, E |-> 400]
MCKm == [p \in MCPlace |-> [q \in MCPlace |->
           IF Mile[p] >= Mile[q] THEN Mile[p] - Mile[q] ELSE Mile[q] - Mile[p]]]

Vehicle(company, home, fix, volume, weight, floor) ==
  [company |-> company, reefer |-> TRUE, floor |-> floor, hazmat |-> FALSE,
   volume |-> volume, weight |-> weight, idle |-> TRUE, home |-> home, fix |-> fix,
   fresh |-> TRUE, aligned |-> 50]

MCFleets ==
  {t0 :> Vehicle(c1, "A", Nowhere, 2000, 50000, -200)
     @@ t1 :> Vehicle(c1, "B", Nowhere, 900, 30000, Unknown)
     @@ t2 :> Vehicle(c1, "C", Nowhere, 700, 9001, -200)
     @@ t3 :> Vehicle(c1, "D", "E", 1600, 20000, 50)}

Store(place, free, floor) ==
  [place |-> place, active |-> TRUE, cold |-> TRUE, floor |-> floor, hazmat |-> FALSE,
   free |-> free]

MCStorage == f1 :> Store("B", 5000, Unknown) @@ f2 :> Store("D", 5000, -200)
               @@ f3 :> Store("C", 1700, -200)

Cargo(volume, weight, cold, value) ==
  [volume |-> volume, weight |-> weight, cold |-> cold, below |-> IF cold THEN 40 ELSE Unknown,
   hazmat |-> FALSE, value |-> value]

\* Bulky and light, for two trucks; heavy and cold, for two; and one that any
\* reefer takes, worth the run of a near one but not of a far one.
MCLoads == {Cargo(1900, 337, FALSE, 0), Cargo(1501, 30007, TRUE, 0),
            Cargo(300, 5000, TRUE, 10000)}

MCSpoilage == {Unknown, 35}

Veteran == [received |-> 30, accepted |-> 24, expired |-> 2, bound |-> 22, cancelled |-> 0,
            ratings |-> 4, stars |-> 20, quick |-> TRUE]
MCPasts == {c1 :> NewPast, c1 :> Veteran}
=============================================================================
