------------------------------ MODULE Screens ------------------------------
(***************************************************************************)
(* Where people see a truck: the one that comes to the rescue, or one that  *)
(* may be near an emergency.  Its owner's customer (orchestrator/app/       *)
(* router.py), its own carrier (offers_router.py), both drivers             *)
(* (counterpart.py), the search for candidates (matching_engine/app/        *)
(* repository.py), the audience of an SOS (sos_service.py) and the maps of  *)
(* a fleet (telemetry/app/router.py) read the same rows, each in its own    *)
(* words.  Nothing is written: what they show is a function of the state    *)
(* Telemetry describes.                                                     *)
(*                                                                          *)
(* A screen shows Nothing, or the place of the truck, whether it is said to *)
(* be live, the way it has to go, and whether it has arrived.  Abstracted:  *)
(* the stranded truck, or the emergency, stays where it is, at Wreck; names, *)
(* prices, cargo, speed and battery are left out, and so are arrival times, *)
(* which follow from the distance or, for the carrier, from the offer.      *)
(***************************************************************************)
EXTENDS Telemetry, Lifecycle, Sequences

CONSTANTS Wreck,       \* where the stranded truck is
          LiveTicks,   \* ten minutes: what screens call live
          MatchTicks   \* LIVE_POSITION_MAX_AGE_MINUTES of the matching, thirty

ASSUME ScreensAssumption ==
  Wreck \in Place /\ LiveTicks \in Nat /\ MatchTicks \in Nat /\ LiveTicks <= MatchTicks

Nothing == [live |-> FALSE]

\* An incident that has come to its end, for the carrier and the drivers.
Over == {"CANCELLED", "ESCROW_RELEASED", "DISPUTED"}

Within(ticks) == live # NoRow /\ clock - live.received <= ticks

Away(place) == IF place >= Wreck THEN place - Wreck ELSE Wreck - place

Pin(place, isLive) ==
  [live |-> isLive, place |-> place, away |-> Away(place), arrived |-> Away(place) = 0]

Registered == Pin(parked, FALSE)

\* _live_position: the last fix, however old, and whether it is live.
LastFix == IF live = NoRow THEN Registered ELSE Pin(live.place, Within(LiveTicks))

\* Mutant of RecentFix: the window of the matching, as the comment has it.
FixInMatchWindow == IF Within(MatchTicks) THEN Pin(live.place, TRUE) ELSE Registered

\* counterpart.py's _position: no fix but a live one.
RecentFix == IF Within(LiveTicks) THEN Pin(live.place, TRUE) ELSE Registered

\* find_candidates.
Matched == IF Within(MatchTicks) THEN Pin(live.place, TRUE) ELSE Registered

\* attach_rescuer_positions, for an incident with a bound offer, whatever its state.
OwnersScreen == LastFix

\* active_rescues, of a bound offer whose incident is in the state.
CarriersScreen(state) == IF state \in Over THEN Nothing ELSE LastFix

\* counterpart_for_driver, of the states of the bound rescues the truck is a party to,
\* the last one bound first: the others are not looked at.
DriversScreen(states) ==
  IF states = <<>> \/ Head(states) \in Over THEN Nothing ELSE RecentFix

\* nearest_trucks_by_company, of the carrier's nearest truck: the last fix, and live if
\* there ever was one.
Nearby == IF live = NoRow THEN Registered ELSE Pin(live.place, TRUE)

\* _compute_audience: whether the carrier is told of another company's emergency.
Told(network, severity, radius) ==
  network /\ severity # "MODERATE" /\ Nearby.away <= radius

\* fleet_live, for the truck's own company: likewise.
FleetMap == IF live = NoRow THEN Registered ELSE Pin(live.place, TRUE)

\* _may_read_truck: a company's own truck, and the one bound to rescue it.
MayRead(own, bound) == own \/ bound

\* truck_live: the places shown, at most one.  To another company the platform has no
\* place to show before the first fix.
TruckPage(own, bound) ==
  IF ~MayRead(own, bound) THEN {}
  ELSE IF live # NoRow THEN {live.place}
  ELSE IF own THEN {parked} ELSE {}

\* truck_track: the fixes recorded since, which are in the model fewer than its limit.
Track(own, bound, ticks) ==
  {fix[n].place : n \in {m \in stored : MayRead(own, bound) /\ clock - fix[m].at <= ticks}}

-----------------------------------------------------------------------------
\* A rescue under way, the truck's first or second, and one that is over.
Histories == {<<"DRIVER_EN_ROUTE">>, <<"DRIVER_EN_ROUTE", "ESCROW_RELEASED">>, <<"DISPUTED">>}

\* Eight queries, one truth: while a rescue is under way its carrier and its drivers all
\* see it, whatever the truck did before; all screens agree whether the position is
\* live; and a live one is the same place on each, on the maps of the fleet and of whoever
\* is being rescued, the place the matching and the audience of an emergency go by, and
\* one on the truck's track, or its driver reported in an emergency, so recently -- even
\* while uploads overwrite each other and the emergency.
LiveIsLiveEverywhere ==
  LET screens(h) == {OwnersScreen, CarriersScreen(Head(h)), DriversScreen(h)}
      pins       == (UNION {screens(h) : h \in Histories}) \ {Nothing}
  IN  /\ \A h \in Histories : Head(h) \notin Over => Nothing \notin screens(h)
      /\ \A a \in pins :
           a.live => /\ pins = {a} /\ a = Matched /\ a = Nearby /\ a = FleetMap
                     /\ {a.place} = TruckPage(TRUE, FALSE) /\ {a.place} = TruckPage(FALSE, TRUE)
                     /\ \/ a.place \in Track(FALSE, TRUE, LiveTicks + BackfillTicks)
                        \/ /\ sos # NotTaken /\ sos.place = a.place
                           /\ clock - sos.at <= LiveTicks

\* Not kept: that the numbers a driver sees match those of the dispatcher, live or not
\* (counterpart.py:42-43).  Two uploads that overlap leave the truck's own row at one
\* place and its live row at another, and once the fix is old each screen picks its own.
NumbersMatch == DriversScreen(<<"DRIVER_EN_ROUTE">>) = OwnersScreen

\* Not kept: that a position older than the window is unknown to the matching
\* (repository.py:27-28).  The truck's own row, which is used then, has the same fix.
OldFixIsUnknown == live # NoRow /\ ~Within(MatchTicks) => Matched.place # live.place

\* Not kept: that the map of a fleet shows a stale position differently from a live one
\* (telemetry/app/router.py:289-290).  It calls a truck's last fix live, however old.
StaleLooksStale == FleetMap.live => Within(LiveTicks)

\* Not kept: that nearby means where a truck actually is (sos_service.py:265-266).  A
\* carrier is told of an emergency where its truck was seen last, at any time.
NearbyMeansNow == Told(TRUE, "CRITICAL", 0) => RecentFix.live
=============================================================================
