--------------------------------- MODULE Sos ---------------------------------
(***************************************************************************)
(* Emergency alerts (services/sos/app/sos_service.py and router.py).        *)
(*                                                                          *)
(* A request is a database session: it loads the alert, decides, and        *)
(* commits the columns it changed; nothing locks the row in between.        *)
(* Turning an alert into an incident takes four commits, and the alert it   *)
(* writes in the last one was loaded before the first.                      *)
(*                                                                          *)
(* Abstracted: an alert is the tap of the button that created it; position, *)
(* condition, the audience and the audit trail are left out, but for the    *)
(* two events the properties speak of.  Responses that only add a row       *)
(* (STOOD_DOWN, UNABLE, INFO) are left out as well.                         *)
(***************************************************************************)
EXTENDS Naturals, Lifecycle

CONSTANTS Tap,              \* taps of the SOS button, each a request
          Request,          \* client_request_ids
          RequestOf,        \* Tap -> the id the device sends with it
          Critical,         \* taps that report a CRITICAL emergency
          Incident,         \* incidents alerts may be escalated to
          Session,          \* database sessions: requests that may overlap
          StatusRequests,   \* what the company asks of POST /sos/{id}/status
          MovedByHand,      \* states POST /incidents/{id}/advance is asked for
          Sweeping,         \* escalate_unanswered is scheduled by somebody
          MaxAnswer         \* bound: answers of one kind to one alert

SosStatus ==
  {"NEW", "BROADCASTING", "UNANSWERED", "ACKNOWLEDGED", "RESPONDER_EN_ROUTE",
   "ON_SCENE", "RESOLVED", "CLOSED", "CANCELLED", "ESCALATED"}

NoIncident == "none"

ASSUME SosAssumption ==
  /\ RequestOf \in [Tap -> Request]
  /\ Critical \subseteq Tap
  /\ NoIncident \notin Incident
  /\ StatusRequests \subseteq SosStatus
  /\ MovedByHand \subseteq IncidentState
  /\ Sweeping \in BOOLEAN
  /\ MaxAnswer \in Nat

SosTransitions ==
  [NEW                |-> {"BROADCASTING", "CANCELLED"},
   BROADCASTING       |-> {"ACKNOWLEDGED", "UNANSWERED", "ESCALATED", "RESOLVED",
                           "CANCELLED"},
   UNANSWERED         |-> {"ACKNOWLEDGED", "ESCALATED", "RESOLVED", "CANCELLED"},
   ACKNOWLEDGED       |-> {"RESPONDER_EN_ROUTE", "ON_SCENE", "ESCALATED", "RESOLVED",
                           "CANCELLED"},
   RESPONDER_EN_ROUTE |-> {"ON_SCENE", "ACKNOWLEDGED", "ESCALATED", "RESOLVED",
                           "CANCELLED"},
   ON_SCENE           |-> {"RESOLVED", "ESCALATED"},
   ESCALATED          |-> {"ACKNOWLEDGED", "RESPONDER_EN_ROUTE", "ON_SCENE", "RESOLVED"},
   RESOLVED           |-> {"CLOSED"},
   CLOSED             |-> {},
   CANCELLED          |-> {}]

Counted == {"ACKNOWLEDGE", "EN_ROUTE"}    \* answers the alert counts
Answer  == Counted \cup {"ON_SCENE"}

VARIABLES status,       \* Tap -> the alert's status, or "ABSENT"
          count,        \* Tap -> ack_count and responder_count
          answers,      \* Tap -> sos_responses rows of each counted kind
          trail,        \* Tap -> events of interest in sos_events
          overdue,      \* alerts whose auto_escalate_at has passed
          linked,       \* Tap -> incident_id, or NoIncident
          incident,     \* Incident -> incident.state ("NORMAL": no row yet)
          source,       \* Incident -> the alert named in its audit metadata
          session       \* Session -> what it loaded and decided, or Closed

vars == <<status, count, answers, trail, overdue, linked, incident, source, session>>

alert     == <<status, count, answers, trail>>
escalated == <<linked, incident, source>>

\* A request about one alert: the status it loaded and the one it will write.
Edit == [op : Answer \cup {"STATUS", "CANCEL", "DURESS"}, tap : Tap,
         from : SosStatus, to : SosStatus, count : 0 .. MaxAnswer]
Raising    == [op : {"RAISE"}, tap : Tap]
Sweep      == [op : {"SWEEP"}, left : SUBSET Tap]
Escalation == [op : {"ESCALATE"}, tap : Tap, from : SosStatus,
               incident : Incident \cup {NoIncident}, reached : IncidentState]
Move       == [op : {"MOVE"}, incident : Incident,
               from : IncidentState, to : IncidentState]
Closed     == [op |-> "none"]

TypeOK ==
  /\ status \in [Tap -> SosStatus \cup {"ABSENT"}]
  /\ count \in [Tap -> [Counted -> 0 .. MaxAnswer]]
  /\ answers \in [Tap -> [Counted -> 0 .. MaxAnswer]]
  /\ trail \in [Tap -> SUBSET {"sos.cancelled", "sos.duress_suspected"}]
  /\ overdue \subseteq Tap
  /\ linked \in [Tap -> Incident \cup {NoIncident}]
  /\ incident \in [Incident -> IncidentState]
  /\ source \in [Incident -> Tap \cup {"nobody"}]
  /\ session \in [Session ->
                   Edit \cup Raising \cup Sweep \cup Escalation \cup Move \cup {Closed}]

Init ==
  /\ status = [a \in Tap |-> "ABSENT"]
  /\ count = [a \in Tap |-> [k \in Counted |-> 0]]
  /\ answers = [a \in Tap |-> [k \in Counted |-> 0]]
  /\ trail = [a \in Tap |-> {}]
  /\ overdue = {}
  /\ linked = [a \in Tap |-> NoIncident]
  /\ incident = [n \in Incident |-> "NORMAL"]
  /\ source = [n \in Incident |-> "nobody"]
  /\ session = [s \in Session |-> Closed]

-----------------------------------------------------------------------------
Load(s, seen) ==
  /\ session[s] = Closed
  /\ session' = [session EXCEPT ![s] = seen]
  /\ UNCHANGED <<alert, overdue, escalated>>

Done(s) == session' = [session EXCEPT ![s] = Closed]

Raised(a) == status[a] # "ABSENT"

\* Mutant of SameRequest: the index on client_request_id is not unique.
Unindexed(a) == {}

\* uq_sos_client_request: the alerts an insert of this tap collides with.
SameRequest(a) == {b \in Tap : Raised(b) /\ RequestOf[b] = RequestOf[a]}

\* raise_sos: a repeated tap finds the alert and returns it.
LoadRaise(s, a) ==
  /\ \A b \in Tap : Raised(b) => RequestOf[b] # RequestOf[a]
  /\ Load(s, [op |-> "RAISE", tap |-> a])

\* The alert is inserted and broadcast in one commit.
CommitRaise(s) ==
  /\ session[s].op = "RAISE"
  /\ SameRequest(session[s].tap) = {}
  /\ status' = [status EXCEPT ![session[s].tap] = "BROADCASTING"]
  /\ Done(s)
  /\ UNCHANGED <<count, answers, trail, overdue, escalated>>

\* The clock passes auto_escalate_at.
Lapse(a) ==
  /\ Raised(a)
  /\ overdue' = overdue \cup {a}
  /\ UNCHANGED <<alert, escalated, session>>

-----------------------------------------------------------------------------
(* Requests about one alert.                                                *)

\* The statuses acknowledge() and respond() set out to move the alert from.
Moves(k) ==
  CASE k = "ACKNOWLEDGE" -> [from |-> {"BROADCASTING", "UNANSWERED"}, to |-> "ACKNOWLEDGED"]
    [] k = "EN_ROUTE"    -> [from |-> {"ACKNOWLEDGED", "BROADCASTING", "UNANSWERED"},
                             to   |-> "RESPONDER_EN_ROUTE"]
    [] k = "ON_SCENE"    -> [from |-> {"RESPONDER_EN_ROUTE", "ACKNOWLEDGED"},
                             to   |-> "ON_SCENE"]

LoadEdit(s, op, a, to) ==
  Load(s, [op |-> op, tap |-> a, from |-> status[a], to |-> to,
           count |-> IF op \in Counted THEN count[a][op] ELSE 0])

\* acknowledge and respond: a move the table does not have is an error.
LoadAnswer(s, k, a) ==
  /\ Raised(a)
  /\ IF status[a] \in Moves(k).from
     THEN Moves(k).to \in SosTransitions[status[a]] /\ LoadEdit(s, k, a, Moves(k).to)
     ELSE LoadEdit(s, k, a, status[a])

\* set_status, by the company that raised it.
LoadStatus(s, a, to) ==
  /\ Raised(a)
  /\ to \in StatusRequests \cap SosTransitions[status[a]]
  /\ LoadEdit(s, "STATUS", a, to)

\* cancel with the driver's PIN, whatever the status.
LoadCancel(s, a) ==
  /\ Raised(a)
  /\ LoadEdit(s, "CANCEL", a, "CANCELLED")

\* Mutant of UnderDuress: the attempt is put on record and nothing else done.
UnderDuressRecorded(st) == st

\* Mutant of UnderDuress: the device complies, and so does the alert.
UnderDuressComplies(st) == "CANCELLED"

\* Mutant of UnderDuress: a status of its own, which the enum does not have.
UnderDuressSilent(st) == IF st \in {"BROADCASTING", "NEW"} THEN "SILENT" ELSE st

\* The status a wrong PIN leads a critical alert to.
UnderDuress(st) == IF st \in {"BROADCASTING", "NEW"} THEN "ESCALATED" ELSE st

\* cancel with a wrong PIN; on any other alert it is an error.
LoadDuress(s, a) ==
  /\ Raised(a)
  /\ a \in Critical
  /\ LoadEdit(s, "DURESS", a, UnderDuress(status[a]))

Event(w) ==
  IF w.op = "DURESS" THEN {"sos.duress_suspected"}
  ELSE IF w.to = "CANCELLED" /\ w.op \in {"STATUS", "CANCEL"} THEN {"sos.cancelled"}
  ELSE {}

\* Mutant of Recount: the counter is raised only by an answer that also moves
\* the alert.
RecountMoves(w) ==
  IF w.op \in Counted /\ w.to # w.from
  THEN [count EXCEPT ![w.tap][w.op] = w.count + 1] ELSE count

\* The counter is read before and written after, so overlapping answers of
\* one kind are counted once.
Recount(w) ==
  IF w.op \in Counted THEN [count EXCEPT ![w.tap][w.op] = w.count + 1] ELSE count

CommitEdit(s) ==
  LET w == session[s]
  IN  /\ w.op \in Answer \cup {"STATUS", "CANCEL", "DURESS"}
      /\ w.op \in Counted => answers[w.tap][w.op] < MaxAnswer
      /\ status' = [status EXCEPT ![w.tap] = IF w.to = w.from THEN @ ELSE w.to]
      /\ count' = Recount(w)
      /\ answers' = IF w.op \in Counted
                    THEN [answers EXCEPT ![w.tap][w.op] = @ + 1] ELSE answers
      /\ trail' = [trail EXCEPT ![w.tap] = @ \cup Event(w)]
      /\ Done(s)
      /\ UNCHANGED <<overdue, escalated>>

-----------------------------------------------------------------------------
(* The sweep, which nothing in the repository schedules.                    *)

LoadSweep(s) ==
  LET stale == {a \in overdue : status[a] = "BROADCASTING" /\ count[a]["ACKNOWLEDGE"] = 0}
  IN  /\ Sweeping
      /\ stale # {}
      /\ Load(s, [op |-> "SWEEP", left |-> stale])

\* escalate_unanswered commits alert by alert, after notifying outside.  A
\* second sweep of one alert may fail on uq_sos_broadcast_target: it Abandons.
CommitSweep(s, a) ==
  /\ session[s].op = "SWEEP"
  /\ a \in session[s].left
  /\ status' = [status EXCEPT ![a] = "UNANSWERED"]
  /\ session' = [session EXCEPT
                   ![s] = IF session[s].left = {a} THEN Closed
                          ELSE [op |-> "SWEEP", left |-> session[s].left \ {a}]]
  /\ UNCHANGED <<count, answers, trail, overdue, escalated>>

-----------------------------------------------------------------------------
(* Escalation to an incident.                                               *)

LoadEscalate(s, a) ==
  /\ Raised(a)
  /\ linked[a] = NoIncident
  /\ Load(s, [op |-> "ESCALATE", tap |-> a, from |-> status[a],
              incident |-> NoIncident, reached |-> "NORMAL"])

\* Mutant of NextStage: the incident is not taken to MATCHING.
StopAtTriaging(reached) ==
  CASE reached = "NORMAL"             -> {"BREAKDOWN_REPORTED"}
    [] reached = "BREAKDOWN_REPORTED" -> {"TRIAGING"}
    [] OTHER                          -> {}

\* create_incident, then advance to TRIAGING and to MATCHING.
NextStage(reached) ==
  CASE reached = "NORMAL"             -> {"BREAKDOWN_REPORTED"}
    [] reached = "BREAKDOWN_REPORTED" -> {"TRIAGING"}
    [] reached = "TRIAGING"           -> {"MATCHING"}
    [] OTHER                          -> {}

\* One of the first three commits.  advance() decides on the state it reread
\* after the commit before, so a change made in between is overwritten.
EscalateIncident(s, n, stage) ==
  LET w == session[s]
  IN  /\ w.op = "ESCALATE"
      /\ stage \in NextStage(w.reached)
      /\ IF w.incident = NoIncident THEN incident[n] = "NORMAL" ELSE n = w.incident
      /\ incident' = [incident EXCEPT ![n] = stage]
      /\ source' = [source EXCEPT ![n] = w.tap]
      /\ session' = [session EXCEPT ![s].incident = n, ![s].reached = stage]
      /\ UNCHANGED <<alert, overdue, linked>>

\* The last commit writes the alert as it was loaded before the first.
CommitEscalate(s) ==
  LET w == session[s]
  IN  /\ w.op = "ESCALATE"
      /\ w.incident # NoIncident
      /\ NextStage(w.reached) = {}
      /\ linked' = [linked EXCEPT ![w.tap] = w.incident]
      /\ status' = [status EXCEPT ![w.tap] =
                      IF w.from \in {"RESOLVED", "CLOSED", "ESCALATED"} THEN @ ELSE "ESCALATED"]
      /\ Done(s)
      /\ UNCHANGED <<count, answers, trail, overdue, incident, source>>

\* POST /incidents/{id}/advance, another request: advance() asks the table about
\* the state it loaded ...
LoadMove(s, n, new) ==
  /\ incident[n] # "NORMAL"
  /\ new \in MovedByHand \cap Transitions[incident[n]]
  /\ Load(s, [op |-> "MOVE", incident |-> n, from |-> incident[n], to |-> new])

\* ... and writes over whatever the incident has become.
CommitMove(s) ==
  /\ session[s].op = "MOVE"
  /\ incident' = [incident EXCEPT ![session[s].incident] = session[s].to]
  /\ Done(s)
  /\ UNCHANGED <<alert, overdue, linked, source>>

\* Refused, lost a race for the index, or gone with its process.
Abandon(s) ==
  /\ session[s] # Closed
  /\ Done(s)
  /\ UNCHANGED <<alert, overdue, escalated>>

Next ==
  \/ \E s \in Session, a \in Tap : LoadRaise(s, a)
  \/ \E s \in Session : CommitRaise(s)
  \/ \E a \in Tap : Lapse(a)
  \/ \E s \in Session, k \in Answer, a \in Tap : LoadAnswer(s, k, a)
  \/ \E s \in Session, a \in Tap, to \in StatusRequests : LoadStatus(s, a, to)
  \/ \E s \in Session, a \in Tap : LoadCancel(s, a)
  \/ \E s \in Session, a \in Tap : LoadDuress(s, a)
  \/ \E s \in Session : CommitEdit(s)
  \/ \E s \in Session : LoadSweep(s)
  \/ \E s \in Session, a \in Tap : CommitSweep(s, a)
  \/ \E s \in Session, a \in Tap : LoadEscalate(s, a)
  \/ \E s \in Session, n \in Incident, stage \in IncidentState : EscalateIncident(s, n, stage)
  \/ \E s \in Session : CommitEscalate(s)
  \/ \E s \in Session, n \in Incident, new \in MovedByHand : LoadMove(s, n, new)
  \/ \E s \in Session : CommitMove(s)
  \/ \E s \in Session : Abandon(s)

Spec == Init /\ [][Next]_vars

-----------------------------------------------------------------------------
(* Properties that hold however the requests overlap.                       *)

\* test_repeated_taps_do_not_create_repeated_alerts: five taps are one
\* emergency, also when they overlap and each of them finds no alert yet.
OneAlertPerRequest ==
  \A a, b \in Tap : Raised(a) /\ Raised(b) /\ RequestOf[a] = RequestOf[b] => a = b

\* Overlapping answers may be counted as one, never as none: an alert somebody
\* answered is not one the sweep takes for unanswered (ack_count = 0), and
\* nobody is counted who did not answer.
AnswersAreCounted ==
  \A a \in Tap, k \in Counted :
    /\ count[a][k] <= answers[a][k]
    /\ answers[a][k] > 0 => count[a][k] > 0

\* An alert is CANCELLED only if a cancellation by the driver's PIN or by the
\* company is in its trail; a coerced driver's attempts never add up to one.
CancelledIsOnRecord ==
  \A a \in Tap : status[a] = "CANCELLED" => "sos.cancelled" \in trail[a]

\* cancel(): an attempt under duress escalates quietly.  From then on the alert
\* is never again one that merely broadcasts, whatever was under way.
DuressIsHeeded ==
  \A a \in Tap : "sos.duress_suspected" \in trail[a] => status[a] # "BROADCASTING"

-----------------------------------------------------------------------------
(* Claims of the repository the code does not keep.                         *)

\* router.py:413: escalating twice returns the incident already created.
EscalatedOnce ==
  \A n, m \in Incident : source[n] # "nobody" /\ source[n] = source[m] => n = m

\* sos_service.py:782: what is swept is an alert nobody has acknowledged.
SweptIsUnanswered ==
  [][\A a \in Tap : status[a] # "UNANSWERED" /\ status'[a] = "UNANSWERED"
       => answers[a]["ACKNOWLEDGE"] = 0]_vars

\* sos_service.py:620-624: a responder may set out for an alert that is
\* BROADCASTING or UNANSWERED.
ResponderMaySetOut ==
  \A st \in Moves("EN_ROUTE").from : "RESPONDER_EN_ROUTE" \in SosTransitions[st]
=============================================================================
