------------------------------ MODULE Matching ------------------------------
(***************************************************************************)
(* Who can help: the search of matching_engine/app/repository.py and the    *)
(* ranking of matching_engine/app/router.py, scoring.py, routing.py and     *)
(* spoilage.py, which fan_out_offers of offers_router.py repeats.           *)
(*                                                                          *)
(* A load is [volume, weight, cold, below, hazmat, value]; a truck is       *)
(* [company, reefer, floor, hazmat, volume, weight, idle, home, fix, fresh, *)
(* aligned], where floor is the lowest temperature it holds, home the       *)
(* position in its own row, fix the one in its live row or Nowhere, fresh   *)
(* whether that came within LIVE_POSITION_MAX_AGE_MINUTES (Telemetry has    *)
(* how the two positions come to differ), aligned the percentage by which   *)
(* it already heads for the destination (50: not known).                    *)
(*                                                                          *)
(* Abstracted: the earth is a set of places with Km between them, and the   *)
(* bounding box only saves work; trigonometry is left out; explanations     *)
(* are wording.  Equal distances come in any order, as rows do.             *)
(***************************************************************************)
EXTENDS Pricing, FiniteSets, Sequences

CONSTANTS Place,
          Km       \* Place -> Place -> whole kilometres

ASSUME MatchingAssumption ==
  \A p, q \in Place : Km[p][q] \in Nat /\ Km[p][q] = Km[q][p] /\ Km[p][p] = 0

Nowhere == "nowhere"

Temperature == Int   \* in tenths, or Unknown

Consignment == [volume : Nat, weight : Nat, cold : BOOLEAN, below : Temperature,
                hazmat : BOOLEAN, value : Nat]

TruckRow(companies) ==
  [company : companies, reefer : BOOLEAN, floor : Temperature, hazmat : BOOLEAN,
   volume : Nat, weight : Nat, idle : BOOLEAN, home : Place,
   fix : Place \cup {Nowhere}, fresh : BOOLEAN, aligned : 0 .. 100]

\* The sequences that list S so that Ahead(x, y) never holds of a later x.
Listings(S, Ahead(_, _)) ==
  {s \in [1 .. Cardinality(S) -> S] :
     \A i, j \in DOMAIN s : i < j => s[i] # s[j] /\ ~Ahead(s[j], s[i])}

FirstOf(s, n) == SubSeq(s, 1, Smaller(n, Len(s)))

Summed(w) ==
  LET sum[i \in 0 .. Len(w)] == IF i = 0 THEN 0 ELSE sum[i - 1] + w[i]
  IN  sum[Len(w)]

-----------------------------------------------------------------------------
(* find_candidates.                                                         *)

\* _is_compatible: what speaks against a truck.  A reefer whose floor is not known is
\* taken at its word; capacity is not asked for when a split is planned.
Failures(truck, load) ==
  {why \in {"not refrigerated", "temperature", "hazmat", "volume", "payload"} :
     CASE why = "not refrigerated" -> load.cold /\ ~truck.reefer
       [] why = "temperature" -> /\ load.cold /\ truck.reefer
                                 /\ load.below # Unknown /\ truck.floor # Unknown
                                 /\ truck.floor > load.below
       [] why = "hazmat"      -> load.hazmat /\ ~truck.hazmat
       [] why = "volume"      -> truck.volume < load.volume
       [] OTHER               -> truck.weight < load.weight}

Compatible(truck, load, whole) ==
  Failures(truck, load) \subseteq IF whole THEN {} ELSE {"volume", "payload"}

\* Where the search thinks a truck is.
Whereabouts(truck) == IF truck.fix # Nowhere /\ truck.fresh THEN truck.fix ELSE truck.home

Away(truck, spot) == Km[spot][Whereabouts(truck)]

\* The rows that survive the search; the stranded truck is excluded.
Suited(fleet, stranded, load, spot, radius, whole) ==
  {t \in DOMAIN fleet \ {stranded} :
     /\ fleet[t].idle
     /\ Away(fleet[t], spot) <= radius
     /\ Compatible(fleet[t], load, whole)}

\* Nearest first, no more than limit.
Candidates(fleet, stranded, load, spot, radius, limit, whole) ==
  {FirstOf(s, limit) :
     s \in Listings(Suited(fleet, stranded, load, spot, radius, whole),
                    LAMBDA t, u : Away(fleet[t], spot) < Away(fleet[u], spot))}

\* explain_no_match goes by the trucks' own rows, the stranded one among them: how many
\* are within the radius, how many of those are idle, and what keeps how many away.
NoMatch(fleet, load, spot, radius) ==
  LET near == {t \in DOMAIN fleet : Km[spot][fleet[t].home] <= radius}
      idle == {t \in near : fleet[t].idle}
  IN  [inRadius |-> Cardinality(near), idleInRadius |-> Cardinality(idle),
       blockers |-> {<<why, Cardinality({t \in idle : why \in Failures(fleet[t], load)})>> :
                       why \in UNION {Failures(fleet[t], load) : t \in idle}}
                    \cup (IF near = idle THEN {} ELSE {<<"busy", Cardinality(near \ idle)>>})]

-----------------------------------------------------------------------------
(* Ranking.                                                                 *)

\* get_road_eta: what the road service says, or 1.3 times the distance at 45 km/h.  In
\* kilometres and tenths of minutes.
Fallback(km) == [km |-> Scaled(km, 13, 10), eta |-> Larger(10, Scaled(km, 13 * 60, 45))]
ByRoad(km, detour) == [km |-> Scaled(km, detour, 10), eta |-> km * detour]

MaxEta == 900

\* Mutant of EtaScore: the share of the acceptable time that is used up.
EtaScoreUsedUp(eta) == Smaller(100, (eta * 100) \div MaxEta)

EtaScore(eta) == Larger(0, 100 - (eta * 100) \div MaxEta)

\* calculate_rescue_score, in hundredths of a point.
Score(truck, load, eta, trust, accepts) ==
  35 * EtaScore(eta) + 20 * 100
    + 15 * Smaller(100, (truck.volume * 50) \div Larger(load.volume, 10))
    + 10 * trust + 10 * accepts + 10 * truck.aligned

\* classify_safety_margin, of tenths of minutes.
Margin(eta, left) ==
  CASE left - eta > 300 -> "SAFE"
    [] left - eta <= 300 /\ left - eta >= 100 -> "WARNING"
    [] left - eta < 100 /\ left - eta >= 0 -> "CRITICAL"
    [] OTHER -> "LOST"

\* The job a candidate is priced for: the load, over the road to it, among the rivals
\* that were found with it.
JobOf(load, road, minutes, rivals, trust) ==
  [km |-> road.km, class |-> CargoClass(load.cold, load.hazmat),
   volume |-> load.volume, weight |-> load.weight, minutes |-> minutes,
   nearby |-> rivals, value |-> load.value, trust |-> trust]
=============================================================================
