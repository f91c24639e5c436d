------------------------------ MODULE Splitting ------------------------------
(***************************************************************************)
(* Dividing a load among trucks when none can take it:                      *)
(* matching_engine/app/split.py.                                            *)
(*                                                                          *)
(* Volumes are in hundredths of a cubic metre and weights in tenths of a    *)
(* kilogram, to which the code rounds a leg; a half is rounded up.          *)
(***************************************************************************)
EXTENDS Matching, SequencesExt

CONSTANT MaxTrucks   \* MAX_TRUCKS_IN_SPLIT

ASSUME SplittingAssumption == MaxTrucks \in Nat

MinUsefulLeg == 50   \* MIN_USEFUL_LEG_M3
OverheadPerLeg == 12 \* TRANSFER_OVERHEAD_MINUTES_PER_LEG

NoPlan == [legs |-> <<>>]

SumOf(s, Amount(_)) == Summed([i \in 1 .. Len(s) |-> Amount(s[i])])

\* Largest first, nearest among equals.
LoadingOrders(fleet, S, spot) ==
  Listings({t \in S : fleet[t].volume > 0 /\ fleet[t].weight > 0},
           LAMBDA t, u : \/ fleet[t].volume > fleet[u].volume
                         \/ /\ fleet[t].volume = fleet[u].volume
                            /\ Away(fleet[t], spot) < Away(fleet[u], spot))

\* The first trucks must have the room between them.
Covered(fleet, order, load) ==
  LET first == FirstOf(order, MaxTrucks)
  IN  /\ SumOf(first, LAMBDA t : fleet[t].volume) >= load.volume
      /\ SumOf(first, LAMBDA t : fleet[t].weight) >= load.weight

\* What a truck takes of what is left.  Volume and weight are kept in proportion, so the
\* scarcer of the two decides.
LegOf(truck, load, left) ==
  LET volume == Smaller(left.volume, truck.volume)
      weight == Smaller(left.weight, truck.weight)
  IN  IF load.volume = 0 \/ load.weight = 0 THEN [volume |-> volume, weight |-> weight]
      ELSE IF volume * load.weight <= weight * load.volume
           THEN [volume |-> volume, weight |-> Scaled(load.weight, volume, load.volume)]
           ELSE [volume |-> Scaled(load.volume, weight, load.weight), weight |-> weight]

\* What one truck adds to the plan, until nothing is left or there are MaxTrucks legs; a
\* leg that is not worth a truck is passed over while more than that is left.
Loading(fleet, load, done, t) ==
  LET leg == LegOf(fleet[t], load, done.left)
  IN  IF \/ done.left.volume <= 0 /\ done.left.weight <= 0
         \/ Len(done.legs) >= MaxTrucks
         \/ leg.volume < MinUsefulLeg /\ done.left.volume > MinUsefulLeg
      THEN done
      ELSE [left |-> [volume |-> done.left.volume - leg.volume,
                      weight |-> done.left.weight - leg.weight],
            legs |-> Append(done.legs, [truck |-> t, volume |-> leg.volume,
                                        weight |-> leg.weight])]

Untouched(load) == [left |-> [volume |-> load.volume, weight |-> load.weight], legs |-> <<>>]

\* One truck after the other.
Loaded(fleet, order, load) ==
  LET done[i \in 0 .. Len(order)] ==
        IF i = 0 THEN Untouched(load) ELSE Loading(fleet, load, done[i - 1], order[i])
  IN  done[Len(order)]

\* Mutant of Settled: what rounding has left over stays behind.
SettledAsIs(done) == done.legs

\* What rounding has left over goes to the largest leg.
Settled(done) ==
  IF done.left.volume = 0 THEN done.legs
  ELSE LET big == CHOOSE i \in DOMAIN done.legs :
                    \A j \in DOMAIN done.legs : 
                      /\ done.legs[j].volume <= done.legs[i].volume
                      /\ done.legs[j].volume = done.legs[i].volume => i <= j
       IN  [done.legs EXCEPT ![big].volume = done.legs[big].volume + done.left.volume]

\* plan_split, of the trucks in S.
Plans(fleet, S, load, spot) ==
  {LET done == Loaded(fleet, order, load)
   IN  IF \/ load.volume <= 0 /\ load.weight <= 0
          \/ Len(order) < 2
          \/ ~Covered(fleet, order, load)
          \/ done.left.volume > 1 \/ done.left.weight > 1
          \/ Len(done.legs) < 2
       THEN NoPlan
       ELSE [legs |-> Settled(done)] : order \in LoadingOrders(fleet, S, spot)}

Overhead(plan) == OverheadPerLeg * Len(plan.legs)

\* describe_shortfall: what is missing of the room on all of them.
Shortfall(fleet, S, load) ==
  LET all == SetToSeq(S)
  IN  [volume |-> Larger(0, load.volume - SumOf(all, LAMBDA t : fleet[t].volume)),
       weight |-> Larger(0, load.weight - SumOf(all, LAMBDA t : fleet[t].weight))]
=============================================================================
