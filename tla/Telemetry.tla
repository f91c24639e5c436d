----------------------------- MODULE Telemetry -----------------------------
(***************************************************************************)
(* What the server knows of one truck (services/telemetry/app): the fixes   *)
(* it stored, the live row the map and the matching read, the position in   *)
(* the truck's own row, and the alert episodes.                             *)
(*                                                                          *)
(* Four actors write it.  An upload loads the truck, commits the fixes of   *)
(* a batch, loads the live row, and commits the columns it changed of both  *)
(* with the episodes it closed and opened.  An SOS pins its truck to where  *)
(* it was raised.  The sweeper loads the row, looks for open episodes and   *)
(* commits what it found.  The company acknowledges and resolves alerts.    *)
(* Nothing keeps the row from changing between a load and its commit.       *)
(*                                                                          *)
(* Abstracted: a position is a place on a line, and two places more than    *)
(* one apart are more than DWELL_BREAK_DISTANCE_M apart; the detectors that *)
(* read one fix are left out, whose episodes are opened alike and closed by *)
(* nobody but the company; so are severities, occurrence counts, throttled  *)
(* notifications, rejected rows and cargo readings.  Of an SOS only the     *)
(* truck's position is here; Sos has the rest.                              *)
(* An episode is open (OPEN, ACKNOWLEDGED) or closed (RESOLVED,             *)
(* AUTO_RESOLVED); closed ones of one kind and key are one element.         *)
(***************************************************************************)
EXTENDS Integers, FiniteSets

CONSTANTS Fix,            \* fixes the device may take: 1 .. n, in that order
          Place,          \* places on the road, integers
          Depot,          \* where the truck was registered
          MaxPositions,   \* bound: fixes taken and emergencies, of which one at most
          Fast,           \* fixes whose speed is above MOVING_SPEED_KPH
          Uploader,       \* upload requests of the truck's device
          Sweeper,        \* the sweeper's passes
          MaxClock,       \* bound: ticks of the clock
          BackfillTicks,  \* BACKFILL_THRESHOLD_MINUTES
          DwellTicks,     \* BOOLEAN -> dwell threshold, with an active incident
          StaleTicks,     \*   (TRUE) and without; and so for silence
          MaxBatch,       \* bound: fixes of one batch
          MaxAlerts       \* bound: the company handles alerts up to that many rows

ASSUME TelemetryAssumption ==
  /\ Fix \subseteq Nat \ {0}
  /\ Place \subseteq Int /\ Depot \in Place /\ MaxPositions \in Nat
  /\ Fast \subseteq Fix
  /\ Uploader \cap Sweeper = {}
  /\ MaxClock \in Nat /\ BackfillTicks \in Nat /\ MaxBatch \in Nat /\ MaxAlerts \in Nat
  /\ DwellTicks \in [BOOLEAN -> Nat]
  /\ StaleTicks \in [BOOLEAN -> Nat]

VARIABLES clock,    \* minutes, in ticks
          fix,      \* Fix -> what the device recorded, or NotTaken
          stored,   \* telemetry_pings
          live,     \* truck_live_state, or NoRow
          parked,   \* where the truck's own row has it
          sos,      \* when and where the driver raised an SOS, or NotTaken
          alerts,   \* telemetry_alerts
          session   \* Uploader \cup Sweeper -> what it loaded, or Closed

vars == <<clock, fix, stored, live, parked, sos, alerts, session>>

Time     == 0 .. MaxClock
Resting  == Time \cup {-1}       \* dwell_started_at
Never    == -1                   \* NULL
NotTaken == [at |-> Never]
NoRow    == [at |-> Never]
Closed   == [op |-> "none"]

Taken == [at : Time, place : Place]
Row   == [place : Place, moving : BOOLEAN, dwell : Resting,
          at : Time, received : Time]
\* sure: the row its finding was drawn from has not changed unseen.
Alert == [type : {"DWELL", "GPS_STALE"}, key : Time,
          open : BOOLEAN, sure : BOOLEAN]

Upload == [op : {"APPLY"}, ping : Fix, received : Time, truck : Place]
           \cup [op : {"WRITE"}, ping : Fix, received : Time, truck : Place,
                 seen : Row \cup {NoRow}]
Pass   == [op : {"SWEEP"}, seen : Row, found : SUBSET Alert]

TypeOK ==
  /\ clock \in Time
  /\ fix \in [Fix -> Taken \cup {NotTaken}]
  /\ stored \subseteq Fix
  /\ live \in Row \cup {NoRow}
  /\ parked \in Place
  /\ sos \in Taken \cup {NotTaken}
  /\ alerts \subseteq Alert
  /\ session \in [Uploader \cup Sweeper -> Upload \cup Pass \cup {Closed}]
  /\ \A u \in Uploader : session[u] \in Upload \cup {Closed}
  /\ \A w \in Sweeper : session[w] \in Pass \cup {Closed}

Init ==
  /\ clock = 0
  /\ fix = [n \in Fix |-> NotTaken]
  /\ stored = {}
  /\ live = NoRow
  /\ parked = Depot
  /\ sos = NotTaken
  /\ alerts = {}
  /\ session = [s \in Uploader \cup Sweeper |-> Closed]

Done(s) == session' = [session EXCEPT ![s] = Closed]

-----------------------------------------------------------------------------
(* The truck.                                                               *)

Recorded == {n \in Fix : fix[n] # NotTaken}

Positions == Cardinality(Recorded) + (IF sos = NotTaken THEN 0 ELSE 1)

\* The device takes its next fix, wherever the truck is by then.
Record(n) ==
  /\ fix[n] = NotTaken /\ Positions < MaxPositions
  /\ \A m \in Fix : m < n => m \in Recorded
  /\ \E p \in Place : fix' = [fix EXCEPT ![n] = [at |-> clock, place |-> p]]
  /\ UNCHANGED <<clock, stored, live, parked, sos, alerts, session>>

\* A request takes less than a tick.
Tick ==
  /\ clock < MaxClock
  /\ \A s \in DOMAIN session : session[s] = Closed
  /\ clock' = clock + 1
  /\ UNCHANGED <<fix, stored, live, parked, sos, alerts, session>>

-----------------------------------------------------------------------------
(* Alert episodes.                                                          *)

Finding(t, k) == [type |-> t, key |-> k, open |-> TRUE, sure |-> TRUE]

\* record_finding's first query: the open episode a finding belongs to.
Episode(f) == {a \in alerts : a.open /\ a.type = f.type /\ a.key = f.key}

\* auto_resolve: every live episode of the types is closed.
AutoResolve(A, types) ==
  {IF a.open /\ a.type \in types THEN [a EXCEPT !.open = FALSE] ELSE a :
     a \in A}

\* uq_alert_open_episode, which a commit must respect.
Indexed(A) ==
  \A a, b \in A : a.open /\ b.open /\ a.type = b.type /\ a.key = b.key => a = b

-----------------------------------------------------------------------------
(* Ingest.                                                                  *)

Backfill(n, received) == received - fix[n].at > BackfillTicks

\* ingest_pings: the truck is loaded, the batch is stored by an INSERT that ignores the rows it
\* already has, and the newest live fix of the batch goes on to the live row.
Receive(u, batch) ==
  /\ session[u] = Closed
  /\ batch \subseteq Recorded
  /\ Cardinality(batch) \in 1 .. MaxBatch
  /\ stored' = stored \cup batch
  /\ LET fresh == {n \in batch : ~Backfill(n, clock)}
     IN  IF fresh = {} THEN UNCHANGED session
         ELSE \E n \in fresh :
                /\ \A m \in fresh : fix[m].at <= fix[n].at
                /\ session' = [session EXCEPT ![u] =
                                 [op |-> "APPLY", ping |-> n, received |-> clock,
                                  truck |-> parked]]
  /\ UNCHANGED <<clock, fix, live, parked, sos, alerts>>

LoadRow(u) ==
  /\ session[u].op = "APPLY"
  /\ session' = [session EXCEPT ![u] = [op |-> "WRITE", ping |-> session[u].ping,
                                        received |-> session[u].received,
                                        truck |-> session[u].truck, seen |-> live]]
  /\ UNCHANGED <<clock, fix, stored, live, parked, sos, alerts>>

Far(p, q) == p - q > 1 \/ q - p > 1

\* dwell_state: moving by its speed or by its distance from the last position.
Moving(n, seen) ==
  \/ n \in Fast
  \/ seen # NoRow /\ Far(seen.place, fix[n].place)

\* Mutant of DwellFrom: a truck that moves keeps its dwell.
DwellKept(n, seen) ==
  IF seen # NoRow /\ seen.dwell # Never THEN seen.dwell
  ELSE IF Moving(n, seen) THEN Never
  ELSE fix[n].at

DwellFrom(n, seen) ==
  IF Moving(n, seen) THEN Never
  ELSE IF seen # NoRow /\ seen.dwell # Never THEN seen.dwell
  ELSE fix[n].at

\* _apply_live_state's assignments.
RowOf(n, received, seen) ==
  [place |-> fix[n].place, moving |-> Moving(n, seen), dwell |-> DwellFrom(n, seen),
   at |-> fix[n].at, received |-> received]

\* Only the columns that differ from the row as it was loaded are written.
Written(row, seen) ==
  IF seen = NoRow THEN row
  ELSE [c \in DOMAIN row |-> IF row[c] # seen[c] THEN row[c] ELSE live[c]]

\* Mutant of Cleared: moving off does not end the dwell episode.
OnlyResumed(n, seen) == {"GPS_STALE"}

\* A fix ends the silence; one that moves ends the dwell the row showed.
Cleared(n, seen) ==
  {"GPS_STALE"} \cup
    (IF Moving(n, seen) /\ seen # NoRow /\ seen.dwell # Never THEN {"DWELL"} ELSE {})

\* What a commit over a row that changed since it was loaded leaves unsure.
Unsure(A, seen) ==
  IF seen = live THEN A
  ELSE {IF a.type = "DWELL" THEN [a EXCEPT !.sure = FALSE] ELSE a : a \in A}

\* Two first fixes both insert the row: the second request fails on its key.
WriteRow(u) ==
  /\ session[u].op = "WRITE"
  /\ LET n    == session[u].ping
         seen == session[u].seen
     IN  IF seen = NoRow /\ live # NoRow THEN UNCHANGED <<live, parked, alerts>>
         ELSE /\ live' = Written(RowOf(n, session[u].received, seen), seen)
              /\ parked' = IF fix[n].place # session[u].truck THEN fix[n].place ELSE parked
              /\ alerts' = Unsure(AutoResolve(alerts, Cleared(n, seen)), seen)
  /\ Done(u)
  /\ UNCHANGED <<clock, fix, stored, sos>>

\* The process dies between the two commits of an upload.
Die(u) ==
  /\ session[u] # Closed
  /\ Done(u)
  /\ UNCHANGED <<clock, fix, stored, live, parked, sos, alerts>>

-----------------------------------------------------------------------------
(* The emergency.                                                           *)

\* raise_sos and _pin_truck_to_sos: the truck stands where the driver says, now.  Its
\* dwell is not touched.
Pinned(place) ==
  [place |-> place, moving |-> FALSE, dwell |-> IF live = NoRow THEN Never ELSE live.dwell,
   at |-> clock, received |-> clock]

\* One transaction; no alert of the telemetry is resolved.
RaiseSos(place) ==
  /\ sos = NotTaken /\ Positions < MaxPositions
  /\ sos' = [at |-> clock, place |-> place]
  /\ live' = Pinned(place)
  /\ parked' = place
  /\ UNCHANGED <<clock, fix, stored, alerts, session>>

-----------------------------------------------------------------------------
(* The sweeper.                                                             *)

\* Mutant of StaleSince: off by one at the threshold.
StalePast(row, watched) == clock - row.received > StaleTicks[watched]

StaleSince(row, watched) == clock - row.received >= StaleTicks[watched]

DwellLong(row, watched) ==
  row.dwell # Never /\ clock - row.dwell >= DwellTicks[watched]

\* detect_gps_stale and detect_dwell, keyed on when contact was lost and on when
\* the truck stopped.
Found(row, watched) ==
  (IF StaleSince(row, watched) THEN {Finding("GPS_STALE", row.received)} ELSE {})
    \cup (IF DwellLong(row, watched) THEN {Finding("DWELL", row.dwell)} ELSE {})

\* sweep_once: the pass has read the rows and the open episodes; the truck has
\* an active incident or not.
LoadPass(w) ==
  /\ session[w] = Closed
  /\ live # NoRow
  /\ \E watched \in BOOLEAN :
       LET new == {f \in Found(live, watched) : Episode(f) = {}}
       IN  /\ new # {}
           /\ session' = [session EXCEPT ![w] = [op |-> "SWEEP", seen |-> live,
                                                 found |-> new]]
  /\ UNCHANGED <<clock, fix, stored, live, parked, sos, alerts>>

Opened(w) == {[f EXCEPT !.sure = (session[w].seen = live)] : f \in session[w].found}

\* An episode opened in the meantime makes the whole pass fail.
CommitPass(w) ==
  /\ session[w].op = "SWEEP"
  /\ alerts' = IF Indexed(alerts \cup Opened(w)) THEN alerts \cup Opened(w) ELSE alerts
  /\ Done(w)
  /\ UNCHANGED <<clock, fix, stored, live, parked, sos>>

-----------------------------------------------------------------------------
(* The company.                                                             *)

\* acknowledge_alert and resolve_alert ask nothing of the status they replace.
Acknowledge(a) ==
  LET b == [a EXCEPT !.open = TRUE, !.sure = a.sure /\ a.open]
  IN  /\ a # b
      /\ Cardinality(alerts) <= MaxAlerts
      /\ Indexed((alerts \ {a}) \cup {b})
      /\ alerts' = (alerts \ {a}) \cup {b}
      /\ UNCHANGED <<clock, fix, stored, live, parked, sos, session>>

Resolve(a) ==
  LET b == [a EXCEPT !.open = FALSE]
  IN  /\ a # b
      /\ Cardinality(alerts) <= MaxAlerts
      /\ alerts' = (alerts \ {a}) \cup {b}
      /\ UNCHANGED <<clock, fix, stored, live, parked, sos, session>>

-----------------------------------------------------------------------------
Next ==
  \/ Tick
  \/ \E n \in Fix : Record(n)
  \/ \E u \in Uploader :
       \/ \E batch \in SUBSET Fix : Receive(u, batch)
       \/ LoadRow(u) \/ WriteRow(u) \/ Die(u)
  \/ \E p \in Place : RaiseSos(p)
  \/ \E w \in Sweeper : LoadPass(w) \/ CommitPass(w)
  \/ \E a \in alerts : Acknowledge(a) \/ Resolve(a)

\* run_sweeper loops forever, and no failed pass ends it.
Fairness == \A w \in Sweeper : WF_vars(LoadPass(w)) /\ WF_vars(CommitPass(w))

Spec == Init /\ [][Next]_vars /\ Fairness
-----------------------------------------------------------------------------
(* Properties.                                                              *)

\* An open episode is of the dwell, or of the silence, that the row shows: no
\* moving truck has an open DWELL, no truck that reports an open GPS_STALE, and
\* two of a kind are never open together, which the index would allow.  The
\* exceptions are all the code leaves: a finding drawn from a row that has changed
\* since, an episode the company reopened, a row overwritten unseen, and a silence
\* that ended with an SOS and not with a fix, which resolves nothing.
\* (auto_resolve closes what the upload's own row showed; a pass that read the row
\* before the truck moved opens an episode nothing closes until a dwell ends.)
EpisodesAreCurrent ==
  \A a \in alerts :
    a.open /\ a.sure =>
      \/ a.key = IF a.type = "DWELL" THEN live.dwell ELSE live.received
      \/ a.type = "GPS_STALE" /\ sos # NotTaken /\ live.received = sos.at

\* Whatever the uploads do to each other, one that loaded both rows as they stand
\* leaves them describing its own fix, at one place, and never both moving and
\* dwelling: rows torn by two overlapping uploads are mended by the next.
RowFollowsItsFix ==
  [][\A u \in Uploader :
       /\ session[u].op = "WRITE"
       /\ session[u].seen = live
       /\ session[u].truck = parked
       /\ live' # live
       /\ session'[u] = Closed
       => /\ live'.place = fix[session[u].ping].place
          /\ live'.at = fix[session[u].ping].at
          /\ parked' = live'.place
          /\ live'.moving <=> live'.dwell = Never]_vars

\* Silence is noticed: a truck that has not been heard of for the threshold gets a
\* GPS_STALE episode for that silence, if it is not heard of first, although an
\* episode the company reopens makes a whole pass fail -- unless the company goes on
\* reopening episodes for ever, once before each commit.
Silent == live # NoRow /\ clock - live.received >= StaleTicks[FALSE]

SilenceIsReported ==
  <>[][\A a \in alerts : ~Acknowledge(a)]_vars =>
    (Silent ~> \/ ~Silent
               \/ \E a \in alerts : a.type = "GPS_STALE" /\ a.key = live.received)
=============================================================================
