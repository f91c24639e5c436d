------------------------------ MODULE Planning ------------------------------
(***************************************************************************)
(* The questions about one stranded load, and their answers.  An owner asks *)
(* who can help and at what price (POST /matching/candidates, and the same  *)
(* again in fan_out_offers), how the load could be divided (split-plan) and *)
(* where it could be stored (relay-options, relay).  How a truck gets there *)
(* without the road service (dijkstra.py) is asked by no handler: there is  *)
(* only the function, and its tests.                                        *)
(*                                                                          *)
(* A question reads the fleet, waits for the road service, and answers.     *)
(* In the meantime trucks are taken and freed, fixes arrive and age, and    *)
(* carriers make their name.  Matching, Pricing, Splitting, Relay, Routes   *)
(* and Reputation have the rules; Rescue and Handshake have what becomes of *)
(* the offers.                                                              *)
(*                                                                          *)
(* Abstracted: one question at a time is open, as handlers share nothing    *)
(* but the database; a road is straight or twice as long.                   *)
(***************************************************************************)
EXTENDS Splitting, Relay, Routes, Reputation

CONSTANTS Truck,
          Stranded,   \* the truck that carries the load
          Company,
          Facility,
          Fleets,     \* the fleets to begin with: Truck -> truck
          Storage,    \* Facility -> facility
          Loads,
          Spot,       \* where the load is
          Spoilage,   \* minutes until it spoils, or Unknown
          Radius,
          Limit,      \* candidates asked for
          Pasts,      \* the records to begin with: Company -> past
          MaxEvents   \* bound: events on record since

ASSUME PlanningAssumption ==
  /\ Stranded \in Truck /\ Spot \in Place
  /\ IsFiniteSet(Truck) /\ IsFiniteSet(Facility) /\ IsFiniteSet(Place)
  /\ Fleets \subseteq [Truck -> TruckRow(Company)]
  /\ Storage \in [Facility -> Depot]
  /\ Loads \subseteq Consignment /\ Spoilage \subseteq Nat \cup {Unknown}
  /\ Pasts \subseteq [Company -> Record]
  /\ Radius \in Nat /\ Limit \in Nat \ {0} /\ MaxEvents \in Nat

VARIABLES fleet,    \* Truck -> its row and its live state
          load,
          minutes,
          past,     \* Company -> what its offers add up to
          row,      \* Company -> the past its reputation was computed from, or NoRow
          events,   \* how many events there were
          relayed,  \* the facility that is the load's destination now, or "none"
          desk      \* the open question

vars == <<fleet, load, minutes, past, row, events, relayed, desk>>

case  == <<load, minutes, relayed>>
names == <<past, row, events>>

Idle == [at |-> "IDLE"]

Init ==
  /\ fleet \in Fleets
  /\ load \in Loads
  /\ minutes \in Spoilage
  /\ past \in Pasts
  /\ row = [c \in Company |-> NoRow]
  /\ events = 0
  /\ relayed = "none"
  /\ desk = Idle

-----------------------------------------------------------------------------
(* Who can help.                                                            *)

Found(whole, limit) == Candidates(fleet, Stranded, load, Spot, Radius, limit, whole)

\* find_candidates, and the rows of the carriers it found; or why there is nothing.
Search ==
  /\ desk = Idle
  /\ \E raw \in Found(TRUE, Limit) :
       desk' = IF raw = <<>>
               THEN [at |-> "NOMATCH", why |-> NoMatch(fleet, load, Spot, Radius)]
               ELSE [at |-> "FOUND",
                raw |-> [i \in DOMAIN raw |->
                           [truck |-> fleet[raw[i]], away |-> Away(fleet[raw[i]], Spot),
                            trust |-> TrustOf(row[fleet[raw[i]].company]),
                            accepts |-> AcceptsOf(row[fleet[raw[i]].company])]]]
  /\ UNCHANGED <<fleet, case, names>>

Rated(x, road, rivals) ==
  [truck |-> x.truck, eta |-> road.eta, trust |-> x.trust, accepts |-> x.accepts,
   job   |-> JobOf(load, road, minutes, rivals, x.trust),
   margin |-> IF minutes = Unknown THEN "UNKNOWN" ELSE Margin(road.eta, 10 * minutes),
   score |-> Score(x.truck, load, road.eta, x.trust, x.accepts)]

\* The best score comes first, and of equal ones the nearer.
Ranking(rated) ==
  {[i \in DOMAIN order |-> rated[order[i]]] :
     order \in Listings(DOMAIN rated, LAMBDA i, j :
                          \/ rated[i].score > rated[j].score
                          \/ rated[i].score = rated[j].score /\ i < j)}

\* The road service answers for each candidate or does not.
Rank ==
  /\ desk.at = "FOUND"
  /\ \E road \in [DOMAIN desk.raw -> {"unreached", "straight", "winding"}] :
       LET way(i) == CASE road[i] = "unreached" -> Fallback(desk.raw[i].away)
                       [] road[i] = "straight"  -> ByRoad(desk.raw[i].away, 10)
                       [] OTHER                 -> ByRoad(desk.raw[i].away, 20)
           rated  == [i \in DOMAIN desk.raw |-> Rated(desk.raw[i], way(i), Len(desk.raw))]
       IN  \E ranked \in Ranking(rated) : desk' = [at |-> "RANKED", ranked |-> ranked]
  /\ UNCHANGED <<fleet, case, names>>

-----------------------------------------------------------------------------
(* How the load could be divided.                                           *)

\* The limit of the second search.
PartialLimit == 12

\* get_split_plan asks first for a truck that takes all of it, and then for trucks of
\* any size.
AskSplit ==
  /\ desk = Idle
  /\ desk' = [at |-> "WHOLE", single |-> \E raw \in Found(TRUE, Limit) : raw # <<>>]
  /\ UNCHANGED <<fleet, case, names>>

Divide ==
  /\ desk.at = "WHOLE"
  /\ \E raw \in Found(FALSE, PartialLimit) :
       LET S == ToSet(raw)
       IN  \E plan \in Plans(fleet, S, load, Spot) :
             desk' = [at |-> "SPLIT", required |-> ~desk.single,
                      legs |-> plan.legs, trucks |-> fleet,
                      short |-> IF plan = NoPlan /\ ~desk.single
                                THEN Shortfall(fleet, S, load) ELSE [volume |-> 0, weight |-> 0]]
  /\ UNCHANGED <<fleet, case, names>>

-----------------------------------------------------------------------------
(* Where it could be stored.                                                *)

AskRelay ==
  /\ desk = Idle
  /\ \E options \in RelayOptions(Storage, load, Spot, minutes, Radius) :
       desk' = [at |-> "RELAY", options |-> options]
  /\ UNCHANGED <<fleet, case, names>>

\* relay_to_storage takes any active facility that can hold the load, listed or not.
Relayable(f) == Storage[f].active /\ Suitable(Storage[f], load)

\* commit_relay, any number of times.  What is free there stays as it was.
CommitRelay(f) ==
  /\ desk = Idle
  /\ Relayable(f)
  /\ relayed' = f
  /\ UNCHANGED <<fleet, load, minutes, names, desk>>

-----------------------------------------------------------------------------
(* How a truck gets there.                                                  *)

\* A call of fastest_route, as its tests make it.  get_road_eta does without.
AskRoute(t) ==
  /\ desk = Idle
  /\ desk' = Setting(Place, Spot, Whereabouts(fleet[t]))
  /\ UNCHANGED <<fleet, case, names>>

Turn ==
  /\ desk.at = "ROUTING"
  /\ desk' \in Turns(desk)
  /\ UNCHANGED <<fleet, case, names>>

Answered ==
  /\ desk.at \in {"NOMATCH", "RANKED", "SPLIT", "RELAY", "ROUTED"}
  /\ desk' = Idle
  /\ UNCHANGED <<fleet, case, names>>

-----------------------------------------------------------------------------
(* Meanwhile: before a question, or while the road service or the           *)
(* database is waited for.  An answer once computed no longer changes.      *)

Waiting == desk.at \in {"IDLE", "FOUND", "WHOLE"}

TakeOrFree(t) ==
  /\ Waiting
  /\ t # Stranded
  /\ fleet' = [fleet EXCEPT ![t].idle = ~fleet[t].idle]
  /\ UNCHANGED <<case, names, desk>>

Ages(t) ==
  /\ Waiting
  /\ fleet[t].fix # Nowhere /\ fleet[t].fresh
  /\ fleet' = [fleet EXCEPT ![t].fresh = FALSE]
  /\ UNCHANGED <<case, names, desk>>

\* What happens to the offers of a carrier.
Happens(c, new) ==
  /\ Waiting
  /\ events < MaxEvents
  /\ events' = events + 1
  /\ past' = [past EXCEPT ![c] = new]
  /\ UNCHANGED <<fleet, case, row, desk>>

OfferEvent(c) ==
  LET p == past[c]
      open == p.received - p.accepted - p.expired
  IN  \/ Happens(c, Received(p))
      \/ open > 0 /\ (Happens(c, Accepted(p)) \/ Happens(c, Expired(p)))
      \/ p.bound + p.cancelled < p.accepted /\ Happens(c, Bound(p))
      \/ p.bound > 0 /\ Happens(c, Abandoned(p))

\* get_reputation computes a row that is missing, and no other.
LookUp(c) ==
  /\ Waiting
  /\ row[c] = NoRow
  /\ row' = [row EXCEPT ![c] = past[c]]
  /\ UNCHANGED <<fleet, case, past, events, desk>>

Next ==
  \/ Search \/ Rank \/ AskSplit \/ Divide \/ AskRelay \/ Turn \/ Answered
  \/ \E f \in Facility : CommitRelay(f)
  \/ \E t \in Truck : AskRoute(t) \/ TakeOrFree(t) \/ Ages(t)
  \/ \E c \in Company : OfferEvent(c) \/ LookUp(c)

Spec == Init /\ [][Next]_vars
-----------------------------------------------------------------------------
(* Correctness.                                                             *)

\* A past in which the last rescue that was given up had been kept.
KeptInstead(p) == [p EXCEPT !.bound = p.bound + 1, !.cancelled = p.cancelled - 1]

Jobs == IF desk.at = "RANKED" THEN {desk.ranked[i].job : i \in DOMAIN desk.ranked} ELSE {}

\* What a carrier is paid covers the run: kilometres, callout and transfer.  The two
\* caps of the policy can push the price below its cost, so the order in which caps,
\* floor and commission are applied decides.
PayCoversTheRun == \A job \in Jobs : Payout(job) >= 100 * Subtotal(job)

\* Of two owners with the same load before the same trucks, the one in the greater
\* hurry is never asked for less, whatever is capped, floored or rounded in between.
HurryNeverCheapens ==
  \A job \in Jobs : \A m \in {0, 1, 60, Horizon, 2 * Horizon} :
    m <= job.minutes => Total([job EXCEPT !.minutes = m]) >= Total(job)

\* A plan carries all of the volume, to the hundredth, and the weight to a tenth of a
\* kilogram, with at least two trucks and at most MaxTrucks, none of them twice, each of
\* them one that may take such a load.  None is overloaded by weight, nor by volume more
\* than the hundredth of a cubic metre that rounding can add.
PlanCarriesTheLoad ==
  desk.at = "SPLIT" /\ desk.legs # <<>> =>
    LET legs   == desk.legs
        weight == SumOf(legs, LAMBDA leg : leg.weight)
    IN  /\ Len(legs) \in 2 .. MaxTrucks
        /\ SumOf(legs, LAMBDA leg : leg.volume) = load.volume
        /\ weight - load.weight \in -1 .. 0
        /\ \A i, j \in DOMAIN legs : legs[i].truck = legs[j].truck => i = j
        /\ \A i \in DOMAIN legs :
             LET truck == desk.trucks[legs[i].truck]
             IN  /\ Compatible(truck, load, FALSE)
                 /\ legs[i].volume <= truck.volume + 1
                 /\ legs[i].weight <= truck.weight

\* The first place of storage an owner is shown is one that takes the load in time if
\* there is any within the radius, and the nearest of those: an unusable one next door
\* is never ahead of it, nor does it take its place in a short list.
ReachableComesFirst ==
  desk.at = "RELAY" =>
    LET near == {Option(Storage, f, load, Spot, minutes) :
                   f \in {f \in Facility : Storage[f].active
                                          /\ Km[Spot][Storage[f].place] <= Radius}}
        good == {x \in near : Reachable(x)}
    IN  good # {} => /\ desk.options[1] \in good
                     /\ \A x \in good : desk.options[1].km <= x.km

\* The route is the fastest of all paths over the graph, and there is none only when
\* there is no path: entries that were bettered stay in the heap and are not followed.
RouteIsFastest ==
  desk.at = "ROUTED" =>
    LET paths == PathsTo(Place, Spot, desk.to)
    IN  IF paths = {} THEN desk.path = <<>>
        ELSE /\ desk.path \in paths
             /\ desk.minutes = Duration(desk.path)
             /\ \A s \in paths : desk.minutes <= Duration(s)

\* A carrier whose row counts a rescue it gave up is trusted less than it would be had it
\* kept it, however much it has earned above the best score there is; unless it is new
\* again, without other work or ratings, or trusted by nobody.  A row that was there
\* before counts nothing: it is never computed again.
GivenUpIsHeldAgainst ==
  \A c \in Company :
    row[c] # NoRow /\ row[c].cancelled > 0 /\ ~IsNew(row[c]) =>
      TrustOf(row[c]) < TrustOf(KeptInstead(row[c])) \/ TrustOf(row[c]) = 0
=============================================================================
