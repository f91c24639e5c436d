------------------------------ MODULE Breakdowns ------------------------------
(***************************************************************************)
(* From a report on the roadside to an incident:                            *)
(* core_api/app/api/breakdowns.py with shared/idempotency.py, the driver's  *)
(* endpoints of core_api/app/api/driver.py, create_incident and advance of  *)
(* orchestrator.py.  Console composes it with what its company sees.        *)
(*                                                                          *)
(* A report is handled in four steps with a commit in each of the last      *)
(* three: look (the shipment, then the marker of its event), flag the       *)
(* shipment, create the incident, insert the marker.  Other requests run    *)
(* between them, and the process may stop there.                            *)
(*                                                                          *)
(* Abstracted: one shipment on the driver's truck; an incident is REPORTED  *)
(* until its cargo is handed over, then MOVED, and CLOSED in the end, as it *)
(* is by a cancellation; of offers there is the number of the last event in *)
(* their life, and events are numbered.                                     *)
(* Rescue and Handshake have both in detail.                                *)
(***************************************************************************)
EXTENDS Naturals

CONSTANTS Incident,   \* bound: incidents, numbered in the order they are created
          Report,     \* deliveries of breakdown reports
          EventOf,    \* Report -> its client_request_id
          ByDriver,   \* reports through the driver's endpoint
          MaxOffer,   \* bound: events in the life of the incidents' offers
          MaxCrash    \* bound: reports given up half-way

ASSUME BreakdownsAssumption ==
  /\ Incident \subseteq Nat
  /\ ByDriver \subseteq Report
  /\ "none" \notin Report
  /\ MaxOffer \in Nat /\ MaxCrash \in Nat

VARIABLES shipment,  \* its status: "in_transit" or "breakdown_reported"
          incident,  \* Incident -> its state, or "NONE"
          offers,    \* Incident -> the last event in the life of its offers, or 0
          cause,     \* Incident -> the report that created it, or NoReport
          markers,   \* rows of processed_events
          report,    \* Report -> where its request stands
          crashes

records == <<shipment, incident, offers, cause, markers, report, crashes>>

NoReport == "none"

IncidentState == {"NONE", "REPORTED", "MOVED", "CLOSED"}
ReportState   == {"UNSENT", "FOUND", "LOOKED", "FLAGGED", "CREATED",
                  "REGISTERED", "DUPLICATE", "REFUSED", "ERROR"}
Open(i) == incident[i] \in {"REPORTED", "MOVED"}

RecordsOK ==
  /\ shipment \in {"in_transit", "breakdown_reported"}
  /\ incident \in [Incident -> IncidentState]
  /\ offers \in [Incident -> 0 .. MaxOffer]
  /\ cause \in [Incident -> Report \cup {NoReport}]
  /\ markers \subseteq {EventOf[r] : r \in Report}
  /\ report \in [Report -> ReportState]
  /\ crashes \in 0 .. MaxCrash

RecordsInit ==
  /\ shipment = "in_transit"
  /\ incident = [i \in Incident |-> "NONE"]
  /\ offers = [i \in Incident |-> 0]
  /\ cause = [i \in Incident |-> NoReport]
  /\ markers = {}
  /\ report = [r \in Report |-> "UNSENT"]
  /\ crashes = 0

To(r, where) == report' = [report EXCEPT ![r] = where]

-----------------------------------------------------------------------------
(* A report.                                                                *)

\* The driver's endpoint looks for a shipment in transit; the console names one.
Reportable(r) == r \in ByDriver => shipment = "in_transit"

Find(r) ==
  /\ report[r] = "UNSENT"
  /\ To(r, IF Reportable(r) THEN "FOUND" ELSE "REFUSED")
  /\ UNCHANGED <<shipment, incident, offers, cause, markers, crashes>>

\* Mutant of Look: the marker is written before the report is handled.
LookAndClaim(r) ==
  /\ report[r] = "FOUND"
  /\ To(r, IF EventOf[r] \in markers THEN "DUPLICATE" ELSE "LOOKED")
  /\ markers' = markers \cup {EventOf[r]}
  /\ UNCHANGED <<shipment, incident, offers, cause, crashes>>

\* process_once asks for the marker.
Look(r) ==
  /\ report[r] = "FOUND"
  /\ To(r, IF EventOf[r] \in markers THEN "DUPLICATE" ELSE "LOOKED")
  /\ UNCHANGED <<shipment, incident, offers, cause, markers, crashes>>

\* The first commit of the handler.
Flag(r) ==
  /\ report[r] = "LOOKED"
  /\ shipment' = "breakdown_reported"
  /\ To(r, "FLAGGED")
  /\ UNCHANGED <<incident, offers, cause, markers, crashes>>

\* create_incident, the second commit.
Create(r, i) ==
  /\ report[r] = "FLAGGED"
  /\ incident[i] = "NONE" /\ \A j \in Incident : j < i => incident[j] # "NONE"
  /\ incident' = [incident EXCEPT ![i] = "REPORTED"]
  /\ cause' = [cause EXCEPT ![i] = r]
  /\ To(r, "CREATED")
  /\ UNCHANGED <<shipment, offers, markers, crashes>>

\* The marker is a primary key: whoever comes second fails, its effects committed.
Marked(r) ==
  IF EventOf[r] \in markers
  THEN To(r, "ERROR") /\ UNCHANGED markers
  ELSE To(r, "REGISTERED") /\ markers' = markers \cup {EventOf[r]}

Mark(r) ==
  /\ report[r] = "CREATED"
  /\ Marked(r)
  /\ UNCHANGED <<shipment, incident, offers, cause, crashes>>

\* The process stops, or the client gives the request up: what is committed stays.
Crash(r) ==
  /\ crashes < MaxCrash
  /\ report[r] \in {"FOUND", "LOOKED", "FLAGGED", "CREATED"}
  /\ To(r, "ERROR")
  /\ crashes' = crashes + 1
  /\ UNCHANGED <<shipment, incident, offers, cause, markers>>

-----------------------------------------------------------------------------
(* The incident's life, as far as the feed and the reports see it.          *)

\* advance, through /advance or the binding of a rescue.
Advance(i) ==
  /\ \/ incident[i] = "REPORTED" /\ incident' = [incident EXCEPT ![i] = "MOVED"]
     \/ Open(i) /\ incident' = [incident EXCEPT ![i] = "CLOSED"]
  /\ UNCHANGED <<shipment, offers, cause, markers, report, crashes>>

\* An offer is sent, answered, bound, declined, withdrawn or expires.
MoveOffer(i) ==
  /\ Open(i)
  /\ \E n \in 1 .. MaxOffer :
       /\ \A j \in Incident : offers[j] < n
       /\ offers' = [offers EXCEPT ![i] = n]
  /\ UNCHANGED <<shipment, incident, cause, markers, report, crashes>>

\* stand_down_incident, asked for by the driver.
StandDown(i) ==
  /\ incident[i] = "REPORTED"
  /\ incident' = [incident EXCEPT ![i] = "CLOSED"]
  /\ shipment' = "in_transit"
  /\ UNCHANGED <<offers, cause, markers, report, crashes>>

ReportStep(r) == Find(r) \/ Look(r) \/ Flag(r) \/ (\E i \in Incident : Create(r, i)) \/ Mark(r)

RecordStep ==
  \/ \E r \in Report : ReportStep(r) \/ Crash(r)
  \/ \E i \in Incident : Advance(i) \/ MoveOffer(i) \/ StandDown(i)

-----------------------------------------------------------------------------
(* Properties of reports.                                                   *)

Registered(r) == \E i \in Incident : cause[i] = r

\* An answer "breakdown_registered" or "duplicate_request_ignored" means that the
\* event has its incident, whatever else was going on.
AnsweredMeansRegistered ==
  \A r \in Report : report[r] \in {"REGISTERED", "DUPLICATE"} =>
    \E q \in Report : EventOf[q] = EventOf[r] /\ Registered(q)

\* A claim the code does not keep: "Guarantees deduplication across Kafka
\* at-least-once deliveries and repeated client requests" (shared/idempotency.py:3).
OncePerEvent ==
  \A i, j \in Incident :
    cause[i] # NoReport /\ cause[j] # NoReport /\ EventOf[cause[i]] = EventOf[cause[j]] => i = j

\* A second one: a shipment reported as broken down has an incident, so that somebody
\* is looking for help.  A restart after the first commit breaks it, and the driver's
\* next report is refused, because the shipment is no longer in transit.
StrandedHasIncident ==
  shipment = "breakdown_reported" =>
    \/ \E i \in Incident : incident[i] # "NONE"
    \/ \E r \in Report : report[r] = "FLAGGED"
=============================================================================
