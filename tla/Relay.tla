-------------------------------- MODULE Relay --------------------------------
(***************************************************************************)
(* Taking a load to storage when its journey is over:                       *)
(* orchestrator/app/relay.py and relay_router.py.                           *)
(*                                                                          *)
(* A facility is [place, active, cold, floor, hazmat, free]: free is its    *)
(* available_m3 in hundredths of a cubic metre, floor the lowest            *)
(* temperature it holds.  Costs and reasons are left out.                   *)
(***************************************************************************)
EXTENDS Matching

CONSTANT Options   \* the limit of relay_options

ASSUME RelayAssumption == Options \in Nat \ {0}

Depot == [place : Place, active : BOOLEAN, cold : BOOLEAN, floor : Temperature,
          hazmat : BOOLEAN, free : Nat]

\* SAFETY_MARGIN_MINUTES, in tenths like every time here.
Slack == 150

\* assess_facility.  Here a floor that is not known is a blocker.
Suitable(facility, load) ==
  /\ load.volume <= facility.free
  /\ load.cold =>
       /\ facility.cold
       /\ load.below # Unknown => facility.floor # Unknown /\ facility.floor <= load.below
  /\ load.hazmat => facility.hazmat

\* _eta_minutes: 1.3 times the distance at 38 km/h.
RelayEta(km) == Scaled(km, 13 * 60, 38)

\* arrivesInTime is None when nobody said how long the cargo lasts.
InTime(km, minutes) ==
  IF minutes = Unknown THEN "UNKNOWN"
  ELSE IF 10 * minutes - RelayEta(km) >= Slack THEN "YES" ELSE "NO"

Option(storage, f, load, spot, minutes) ==
  [facility |-> f, km |-> Km[spot][storage[f].place],
   suitable |-> Suitable(storage[f], load),
   arrives |-> InTime(Km[spot][storage[f].place], minutes)]

Reachable(option) == option.suitable /\ option.arrives # "NO"

\* Mutant of Preferred: the nearest is always the first.
PreferredByDistance(x, y) == x.km < y.km

\* Unsuitable last, then out of time, then nearest.
Preferred(x, y) ==
  \/ x.suitable /\ ~y.suitable
  \/ /\ x.suitable = y.suitable
     /\ \/ x.arrives # "NO" /\ y.arrives = "NO"
        \/ (x.arrives = "NO") = (y.arrives = "NO") /\ x.km < y.km

\* relay_options: what is near enough is listed, whether or not it can be used.
RelayOptions(storage, load, spot, minutes, radius) ==
  LET near == {f \in DOMAIN storage : storage[f].active /\ Km[spot][storage[f].place] <= radius}
  IN  {FirstOf(s, Options) :
         s \in Listings({Option(storage, f, load, spot, minutes) : f \in near}, Preferred)}
=============================================================================
