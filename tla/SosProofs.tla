------------------------------- MODULE SosProofs -------------------------------
(***************************************************************************)
(* Theorems about Sos and SosHistory for any number of taps, incidents and   *)
(* overlapping requests.                                                    *)
(***************************************************************************)
EXTENDS SosHistory, TLAPS

EditOp == Answer \cup {"STATUS", "CANCEL", "DURESS"}

-----------------------------------------------------------------------------
(* Types and counters.                                                      *)

\* A session with an operation holds the record of that operation.
LEMMA SessionKind ==
  ASSUME TypeOK, NEW s \in Session
  PROVE  /\ session[s].op \in EditOp => session[s] \in Edit
         /\ session[s].op = "RAISE" => session[s] \in Raising
         /\ session[s].op = "SWEEP" => session[s] \in Sweep
         /\ session[s].op = "ESCALATE" => session[s] \in Escalation
         /\ session[s].op = "MOVE" => session[s] \in Move
<1>1. session[s] \in Edit \cup Raising \cup Sweep \cup Escalation \cup Move \cup {Closed}
  BY DEF TypeOK
<1> QED BY <1>1 DEF EditOp, Edit, Raising, Sweep, Escalation, Move, Closed, Answer, Counted

\* The counters a request loaded, and so the one it will write, never exceed
\* the answers on record.
SessionsCount ==
  \A s \in Session :
    session[s].op \in Counted =>
      session[s].count <= answers[session[s].tap][session[s].op]

NeverOvercounted == \A a \in Tap, k \in Counted : count[a][k] <= answers[a][k]

TypeInv == TypeOK /\ SessionsCount /\ NeverOvercounted

\* A session that loads.
LEMMA LoadType ==
  ASSUME TypeInv, NEW s \in Session, NEW seen, Load(s, seen),
         seen \in Edit \cup Raising \cup Sweep \cup Escalation \cup Move,
         seen.op \in Counted => seen.count <= answers[seen.tap][seen.op]
  PROVE  TypeInv'
<1>1. TypeOK'
  BY DEF Load, TypeInv, TypeOK, alert, escalated
<1>2. \A t \in Session : session'[t] = session[t] \/ session'[t] = seen
  BY DEF Load, TypeInv, TypeOK
<1>3. answers' = answers /\ count' = count
  BY DEF Load, alert
<1>4. SessionsCount'
  BY <1>2, <1>3 DEF TypeInv, SessionsCount
<1> QED BY <1>1, <1>3, <1>4 DEF TypeInv, NeverOvercounted

\* Every answer moves the alert to a status of the enum.
LEMMA MovesType ==
  ASSUME NEW k \in Answer
  PROVE  Moves(k).to \in SosStatus
BY DEF Moves, Answer, Counted, SosStatus

\* A request about one alert loads an edit.
LEMMA EditType ==
  ASSUME TypeInv, NEW s \in Session, NEW op \in EditOp, NEW a \in Tap, Raised(a),
         NEW to \in SosStatus, LoadEdit(s, op, a, to)
  PROVE  TypeInv'
<1> DEFINE seen == [op |-> op, tap |-> a, from |-> status[a], to |-> to,
                    count |-> IF op \in Counted THEN count[a][op] ELSE 0]
<1>1. seen.count \in 0 .. MaxAnswer
  BY SosAssumption DEF TypeInv, TypeOK
<1>2. status[a] \in SosStatus
  BY DEF Raised, TypeInv, TypeOK
<1>3. seen \in Edit
  BY <1>1, <1>2 DEF Edit, EditOp
<1>4. seen.op \in Counted => seen.count <= answers[seen.tap][seen.op]
  BY DEF TypeInv, NeverOvercounted
<1> QED BY <1>3, <1>4, LoadType DEF LoadEdit

\* Closing a session, or replacing it by one that counts nothing, while the
\* answers stay.
LEMMA SessionsStay ==
  ASSUME TypeInv, answers' = answers, count' = count,
         \A t \in Session : session'[t] = session[t] \/ session'[t].op \notin Counted
  PROVE  SessionsCount' /\ NeverOvercounted'
BY DEF TypeInv, SessionsCount, NeverOvercounted

\* Closed is not an answer.
LEMMA DoneSessions ==
  ASSUME TypeInv, NEW s \in Session, Done(s)
  PROVE  /\ \A t \in Session : session'[t] = session[t] \/ session'[t] = Closed
         /\ \A t \in Session : session'[t] = session[t] \/ session'[t].op \notin Counted
         /\ session' \in [Session ->
                        Edit \cup Raising \cup Sweep \cup Escalation \cup Move \cup {Closed}]
BY DEF Done, TypeInv, TypeOK, Closed, Counted

\* The commit of a request about one alert.
LEMMA CommitEditType ==
  ASSUME TypeInv, NEW s \in Session, CommitEdit(s)
  PROVE  TypeInv'
<1> DEFINE w == session[s]
<1> USE DEF TypeInv
<1>1. w \in Edit
  BY SessionKind DEF CommitEdit, EditOp
<1>2. w.tap \in Tap /\ w.to \in SosStatus /\ w.count \in 0 .. MaxAnswer
  BY <1>1 DEF Edit
<1>3. status' \in [Tap -> SosStatus \cup {"ABSENT"}]
  BY <1>2 DEF CommitEdit, TypeOK
<1>4. trail' \in [Tap -> SUBSET {"sos.cancelled", "sos.duress_suspected"}]
  BY <1>2 DEF CommitEdit, TypeOK, Event
<1>5. CASE w.op \in Counted
  <2>1. answers[w.tap][w.op] \in 0 .. MaxAnswer /\ answers[w.tap][w.op] < MaxAnswer
    BY <1>2, <1>5 DEF CommitEdit, TypeOK
  <2>2. w.count <= answers[w.tap][w.op]
    BY <1>5 DEF SessionsCount
  <2>3. w.count + 1 \in 0 .. MaxAnswer /\ answers[w.tap][w.op] + 1 \in 0 .. MaxAnswer
    BY <1>2, <2>1, <2>2, SosAssumption
  <2>4. /\ count' = [count EXCEPT ![w.tap][w.op] = w.count + 1]
        /\ answers' = [answers EXCEPT ![w.tap][w.op] = @ + 1]
    BY <1>5 DEF CommitEdit, Recount
  <2>5. /\ count' \in [Tap -> [Counted -> 0 .. MaxAnswer]]
        /\ answers' \in [Tap -> [Counted -> 0 .. MaxAnswer]]
    BY <1>2, <1>5, <2>3, <2>4 DEF TypeOK
  <2>6. \A a \in Tap, k \in Counted :
          /\ answers'[a][k] = IF a = w.tap /\ k = w.op THEN answers[a][k] + 1
                                                       ELSE answers[a][k]
          /\ count'[a][k] = IF a = w.tap /\ k = w.op THEN w.count + 1 ELSE count[a][k]
    BY <1>2, <1>5, <2>4 DEF TypeOK
  <2>7. NeverOvercounted'
    BY <1>2, <2>1, <2>2, <2>6 DEF NeverOvercounted
  <2>8. \A t \in Session : session'[t].op \in Counted =>
          /\ session'[t] = session[t]
          /\ session[t] \in Edit
    BY DoneSessions, SessionKind DEF CommitEdit, Closed, Counted, EditOp, Answer
  <2>9. SessionsCount'
    <3> SUFFICES ASSUME NEW t \in Session, session'[t].op \in Counted
                 PROVE  session'[t].count <= answers'[session'[t].tap][session'[t].op]
      BY DEF SessionsCount
    <3>1. session'[t] = session[t] /\ session[t].tap \in Tap /\ session[t].count \in Nat
      BY <2>8, SosAssumption DEF Edit
    <3>2. session[t].count <= answers[session[t].tap][session[t].op]
      BY <3>1 DEF SessionsCount
    <3>3. answers[session[t].tap][session[t].op] \in 0 .. MaxAnswer
      BY <3>1 DEF TypeOK
    <3> QED BY <2>6, <3>1, <3>2, <3>3
  <2> QED BY <1>3, <1>4, <2>5, <2>7, <2>9, DoneSessions DEF CommitEdit, TypeOK, escalated
<1>6. CASE w.op \notin Counted
  <2>1. count' = count /\ answers' = answers
    BY <1>6 DEF CommitEdit, Recount
  <2>2. SessionsCount' /\ NeverOvercounted'
    BY <2>1, DoneSessions, SessionsStay DEF CommitEdit
  <2> QED BY <1>3, <1>4, <2>1, <2>2, DoneSessions DEF CommitEdit, TypeOK, escalated
<1> QED BY <1>5, <1>6

\* Every step keeps the types and the counters in bounds.
LEMMA TypeStep == TypeInv /\ [Next]_vars => TypeInv'
<1> SUFFICES ASSUME TypeInv, [Next]_vars
             PROVE  TypeInv'
  OBVIOUS
<1>1. CASE UNCHANGED vars
  BY <1>1 DEF vars, TypeInv, TypeOK, SessionsCount, NeverOvercounted
<1>2. ASSUME NEW s \in Session, NEW a \in Tap, LoadRaise(s, a)
      PROVE  TypeInv'
  <2>1. [op |-> "RAISE", tap |-> a] \in Raising
    BY DEF Raising
  <2> QED BY <1>2, <2>1, LoadType DEF LoadRaise, Counted
<1>3. ASSUME NEW s \in Session, CommitRaise(s)
      PROVE  TypeInv'
  <2>1. session[s].tap \in Tap
    BY <1>3, SessionKind DEF CommitRaise, Raising, TypeInv
  <2>2. SessionsCount' /\ NeverOvercounted'
    BY <1>3, DoneSessions, SessionsStay DEF CommitRaise
  <2> QED BY <1>3, <2>1, <2>2, DoneSessions
          DEF CommitRaise, TypeInv, TypeOK, escalated, SosStatus
<1>4. ASSUME NEW a \in Tap, Lapse(a)
      PROVE  TypeInv'
  BY <1>4 DEF Lapse, TypeInv, TypeOK, SessionsCount, NeverOvercounted, alert, escalated
<1>5. ASSUME NEW s \in Session, NEW k \in Answer, NEW a \in Tap, LoadAnswer(s, k, a)
      PROVE  TypeInv'
  <2>1. status[a] \in SosStatus /\ Raised(a)
    BY <1>5 DEF LoadAnswer, Raised, TypeInv, TypeOK
  <2>2. \E to \in SosStatus : LoadEdit(s, k, a, to)
    BY <1>5, <2>1, MovesType DEF LoadAnswer
  <2> QED BY <2>1, <2>2, EditType DEF EditOp
<1>6. ASSUME NEW s \in Session, NEW a \in Tap, NEW to \in StatusRequests,
             LoadStatus(s, a, to)
      PROVE  TypeInv'
  BY <1>6, EditType, SosAssumption DEF LoadStatus, EditOp
<1>7. ASSUME NEW s \in Session, NEW a \in Tap, LoadCancel(s, a)
      PROVE  TypeInv'
  BY <1>7, EditType DEF LoadCancel, EditOp, SosStatus
<1>8. ASSUME NEW s \in Session, NEW a \in Tap, LoadDuress(s, a)
      PROVE  TypeInv'
  <2>1. Raised(a) /\ UnderDuress(status[a]) \in SosStatus
    BY <1>8 DEF LoadDuress, UnderDuress, Raised, TypeInv, TypeOK, SosStatus
  <2> QED BY <1>8, <2>1, EditType DEF LoadDuress, EditOp
<1>9. ASSUME NEW s \in Session, CommitEdit(s)
      PROVE  TypeInv'
  BY <1>9, CommitEditType
<1>10. ASSUME NEW s \in Session, LoadSweep(s)
       PROVE  TypeInv'
  <2> DEFINE stale == {a \in overdue : status[a] = "BROADCASTING"
                                         /\ count[a]["ACKNOWLEDGE"] = 0}
  <2>1. [op |-> "SWEEP", left |-> stale] \in Sweep
    BY DEF Sweep, TypeInv, TypeOK
  <2> QED BY <1>10, <2>1, LoadType DEF LoadSweep, Counted
<1>11. ASSUME NEW s \in Session, NEW a \in Tap, CommitSweep(s, a)
       PROVE  TypeInv'
  <2>1. session[s] \in Sweep
    BY <1>11, SessionKind DEF CommitSweep, TypeInv
  <2> DEFINE next == [op |-> "SWEEP", left |-> session[s].left \ {a}]
  <2>2. next \in Sweep
    BY <2>1 DEF Sweep
  <2>3. \A t \in Session : session'[t] \in {session[t], Closed, next}
    BY <1>11 DEF CommitSweep, TypeInv, TypeOK
  <2>4. \A t \in Session : session'[t] = session[t] \/ session'[t].op \notin Counted
    BY <2>2, <2>3 DEF Closed, Counted, Sweep
  <2>5. SessionsCount' /\ NeverOvercounted'
    BY <1>11, <2>4, SessionsStay DEF CommitSweep
  <2>6. session' \in [Session ->
                        Edit \cup Raising \cup Sweep \cup Escalation \cup Move \cup {Closed}]
    BY <1>11, <2>2 DEF CommitSweep, TypeInv, TypeOK
  <2> QED BY <1>11, <2>5, <2>6 DEF CommitSweep, TypeInv, TypeOK, escalated, SosStatus
<1>12. ASSUME NEW s \in Session, NEW a \in Tap, LoadEscalate(s, a)
       PROVE  TypeInv'
  <2>1. [op |-> "ESCALATE", tap |-> a, from |-> status[a],
         incident |-> NoIncident, reached |-> "NORMAL"] \in Escalation
    BY <1>12 DEF LoadEscalate, Escalation, Raised, TypeInv, TypeOK, IncidentState
  <2> QED BY <1>12, <2>1, LoadType DEF LoadEscalate, Counted
<1>13. ASSUME NEW s \in Session, NEW n \in Incident, NEW stage \in IncidentState,
              EscalateIncident(s, n, stage)
       PROVE  TypeInv'
  <2> DEFINE w == session[s]
             next == [w EXCEPT !.incident = n, !.reached = stage]
  <2>1. w \in Escalation
    BY <1>13, SessionKind DEF EscalateIncident, TypeInv
  <2>2. next \in Escalation
    BY <2>1 DEF Escalation
  <2>3. session' = [session EXCEPT ![s] = next]
    BY <1>13 DEF EscalateIncident
  <2>4. \A t \in Session : session'[t] = session[t] \/ session'[t].op \notin Counted
    BY <2>2, <2>3 DEF Escalation, Counted, TypeInv, TypeOK
  <2>5. SessionsCount' /\ NeverOvercounted'
    BY <1>13, <2>4, SessionsStay DEF EscalateIncident, alert
  <2>6. w.tap \in Tap
    BY <2>1 DEF Escalation
  <2>7. session' \in [Session ->
                        Edit \cup Raising \cup Sweep \cup Escalation \cup Move \cup {Closed}]
    BY <2>2, <2>3 DEF TypeInv, TypeOK
  <2> QED BY <1>13, <2>5, <2>6, <2>7 DEF EscalateIncident, TypeInv, TypeOK, alert
<1>14. ASSUME NEW s \in Session, CommitEscalate(s)
       PROVE  TypeInv'
  <2>1. session[s] \in Escalation
    BY <1>14, SessionKind DEF CommitEscalate, TypeInv
  <2>2. SessionsCount' /\ NeverOvercounted'
    BY <1>14, DoneSessions, SessionsStay DEF CommitEscalate
  <2> QED BY <1>14, <2>1, <2>2, DoneSessions
          DEF CommitEscalate, TypeInv, TypeOK, Escalation, SosStatus
<1>15. ASSUME NEW s \in Session, NEW n \in Incident, NEW new \in MovedByHand,
              LoadMove(s, n, new)
       PROVE  TypeInv'
  <2>1. [op |-> "MOVE", incident |-> n, from |-> incident[n], to |-> new] \in Move
    BY SosAssumption DEF Move, TypeInv, TypeOK
  <2> QED BY <1>15, <2>1, LoadType DEF LoadMove, Counted
<1>17. ASSUME NEW s \in Session, CommitMove(s)
       PROVE  TypeInv'
  <2>1. session[s] \in Move
    BY <1>17, SessionKind DEF CommitMove, TypeInv
  <2>2. SessionsCount' /\ NeverOvercounted'
    BY <1>17, DoneSessions, SessionsStay DEF CommitMove, alert
  <2> QED BY <1>17, <2>1, <2>2, DoneSessions
          DEF CommitMove, TypeInv, TypeOK, Move, alert
<1>16. ASSUME NEW s \in Session, Abandon(s)
       PROVE  TypeInv'
  <2>1. SessionsCount' /\ NeverOvercounted'
    BY <1>16, DoneSessions, SessionsStay DEF Abandon, alert
  <2> QED BY <1>16, <2>1, DoneSessions DEF Abandon, TypeInv, TypeOK, alert, escalated
<1> QED BY <1>1, <1>2, <1>3, <1>4, <1>5, <1>6, <1>7, <1>8, <1>9, <1>10, <1>11,
           <1>12, <1>13, <1>14, <1>15, <1>16, <1>17 DEF Next

\* The initial state has its types.
LEMMA TypeInit == Init => TypeInv
<1> SUFFICES ASSUME Init
             PROVE  TypeInv
  OBVIOUS
<1>1. 0 \in 0 .. MaxAnswer
  BY SosAssumption
<1>2. TypeOK
  BY <1>1 DEF Init, TypeOK, IncidentState
<1> QED BY <1>2 DEF Init, TypeInv, SessionsCount, NeverOvercounted, Closed, Counted

\* Alerts, incidents and requests have values of their types, however requests
\* overlap; the strengthening is that nothing is counted that was not answered.
THEOREM TypeCorrect == Spec => []TypeOK
<1> QED BY TypeInit, TypeStep, PTL DEF Spec, TypeInv

-----------------------------------------------------------------------------
(* The life of an alert.                                                    *)

\* What a request may rely on from its load to its commit: the alerts it works
\* on exist, it does not bring one back to NEW or BROADCASTING, it cancels one
\* only with an event to show for it, and if it found an attempt under duress
\* nothing to escalate then the alert broadcasts no more.
Sound(w, st) ==
  /\ w.op \in EditOp \cup {"ESCALATE"} => st[w.tap] # "ABSENT"
  /\ w.op = "SWEEP" => \A a \in w.left : st[a] # "ABSENT"
  /\ w.op \in EditOp =>
       /\ w.to # "NEW"
       /\ w.to # "BROADCASTING" \/ w.to = w.from
       /\ w.to = "CANCELLED" => w.to = w.from \/ w.op \in {"STATUS", "CANCEL"}
       /\ w.op = "DURESS" => w.to # w.from \/ st[w.tap] # "BROADCASTING"

AlertInv ==
  /\ \A s \in Session : Sound(session[s], status)
  /\ \A a \in Tap : status[a] # "NEW"
  /\ \A a \in Tap : trail[a] # {} => Raised(a)
  /\ OneAlertPerRequest
  /\ CancelledIsOnRecord
  /\ DuressIsHeeded

\* How the statuses may change while a request is under way.
Onwards(st, new) ==
  \A a \in Tap :
    st[a] # "ABSENT" =>
      /\ new[a] # "ABSENT"
      /\ st[a] # "BROADCASTING" => new[a] # "BROADCASTING"

\* What it relies on stays true of a request that other steps pass by.
LEMMA SoundStays ==
  ASSUME TypeOK, Onwards(status, status'),
         \A s \in Session : Sound(session[s], status),
         \A s \in Session : session'[s] = session[s] \/ Sound(session'[s], status')
  PROVE  \A s \in Session : Sound(session'[s], status')
<1> SUFFICES ASSUME NEW s \in Session, session'[s] = session[s]
             PROVE  Sound(session[s], status')
  OBVIOUS
<1>1. /\ session[s].op \in EditOp \cup {"ESCALATE"} => session[s].tap \in Tap
      /\ session[s].op = "SWEEP" => session[s].left \subseteq Tap
  BY SessionKind DEF Edit, Escalation, Sweep
<1>2. Sound(session[s], status)
  OBVIOUS
<1> QED BY <1>1, <1>2 DEF Sound, Onwards

\* A closed session relies on nothing.
LEMMA ClosedIsSound ==
  ASSUME NEW st
  PROVE  Sound(Closed, st)
BY DEF Sound, Closed, EditOp, Answer, Counted

\* A load that may rely on what it found.
LEMMA LoadKeepsAlerts ==
  ASSUME TypeOK, AlertInv, NEW s \in Session, NEW seen, Load(s, seen),
         Sound(seen, status)
  PROVE  AlertInv'
<1>1. status' = status /\ trail' = trail
  BY DEF Load, alert
<1>2. \A t \in Session : session'[t] = session[t] \/ session'[t] = seen
  BY DEF Load, TypeOK
<1>3. \A t \in Session : Sound(session'[t], status')
  BY <1>1, <1>2 DEF AlertInv
<1> QED BY <1>1, <1>3
        DEF AlertInv, OneAlertPerRequest, CancelledIsOnRecord, DuressIsHeeded, Raised

\* A step that leaves the alerts alone.
LEMMA AlertsAlone ==
  ASSUME TypeOK, AlertInv, status' = status, trail' = trail,
         \A t \in Session : session'[t] = session[t] \/ Sound(session'[t], status')
  PROVE  AlertInv'
<1>1. \A t \in Session : Sound(session'[t], status')
  BY DEF AlertInv
<1> QED BY <1>1
        DEF AlertInv, OneAlertPerRequest, CancelledIsOnRecord, DuressIsHeeded, Raised

\* A commit that writes one status, which is not one of the first two, over
\* that of an alert, and needs an event only to cancel it.
LEMMA WriteKeepsAlerts ==
  ASSUME TypeOK, AlertInv, NEW a \in Tap, Raised(a), NEW st \in SosStatus,
         st \notin {"NEW", "BROADCASTING", "CANCELLED"},
         status' = [status EXCEPT ![a] = st], trail' = trail,
         \A t \in Session : session'[t] = session[t] \/ Sound(session'[t], status')
  PROVE  AlertInv'
<1>1. \A b \in Tap : status'[b] = IF b = a THEN st ELSE status[b]
  BY DEF TypeOK
<1>2. st # "ABSENT"
  BY DEF SosStatus
<1>3. Onwards(status, status')
  BY <1>1, <1>2 DEF Onwards
<1>4. \A t \in Session : Sound(session'[t], status')
  BY <1>3, SoundStays DEF AlertInv
<1>5. \A b \in Tap : status'[b] # "ABSENT" <=> status[b] # "ABSENT"
  BY <1>1, <1>2 DEF Raised
<1> QED BY <1>1, <1>4, <1>5
        DEF AlertInv, OneAlertPerRequest, CancelledIsOnRecord, DuressIsHeeded, Raised

\* Every step keeps the alerts in order.
LEMMA AlertStep == TypeInv /\ AlertInv /\ [Next]_vars => AlertInv'
<1> SUFFICES ASSUME TypeInv, AlertInv, [Next]_vars
             PROVE  AlertInv'
  OBVIOUS
<1>0. TypeOK
  BY DEF TypeInv
<1>1. CASE UNCHANGED <<status, trail, session>>
  BY <1>0, <1>1, AlertsAlone
<1>2. ASSUME NEW s \in Session, NEW a \in Tap, LoadRaise(s, a)
      PROVE  AlertInv'
  <2>1. Sound([op |-> "RAISE", tap |-> a], status)
    BY DEF Sound, EditOp, Answer, Counted
  <2> QED BY <1>0, <1>2, <2>1, LoadKeepsAlerts DEF LoadRaise
<1>3. ASSUME NEW s \in Session, CommitRaise(s)
      PROVE  AlertInv'
  <2> DEFINE a == session[s].tap
  <2>1. a \in Tap
    BY <1>0, <1>3, SessionKind DEF CommitRaise, Raising
  <2>2. \A b \in Tap : RequestOf[b] = RequestOf[a] => ~Raised(b)
    BY <1>3 DEF CommitRaise, SameRequest
  <2>3. ~Raised(a)
    BY <2>1, <2>2
  <2>4. \A b \in Tap : status'[b] = IF b = a THEN "BROADCASTING" ELSE status[b]
    BY <1>0, <1>3, <2>1 DEF CommitRaise, TypeOK
  <2>5. trail' = trail /\ trail[a] = {}
    BY <1>3, <2>1, <2>3 DEF CommitRaise, AlertInv
  <2>6. Onwards(status, status')
    BY <2>3, <2>4 DEF Onwards, Raised
  <2>7. \A t \in Session : Sound(session'[t], status')
    BY <1>0, <1>3, <2>6, DoneSessions, ClosedIsSound, SoundStays DEF CommitRaise, AlertInv
  <2>8. OneAlertPerRequest'
    BY <2>1, <2>2, <2>4 DEF OneAlertPerRequest, AlertInv, Raised
  <2> QED BY <2>3, <2>4, <2>5, <2>7, <2>8
          DEF AlertInv, CancelledIsOnRecord, DuressIsHeeded, Raised
<1>4. ASSUME NEW s \in Session, NEW k \in Answer, NEW a \in Tap, LoadAnswer(s, k, a)
      PROVE  AlertInv'
  <2>1. Raised(a) /\ status[a] # "NEW"
    BY <1>4 DEF LoadAnswer, AlertInv
  <2>2. PICK to : LoadEdit(s, k, a, to) /\ to \in {Moves(k).to, status[a]}
    BY <1>4 DEF LoadAnswer
  <2>3. Moves(k).to \notin {"NEW", "BROADCASTING", "CANCELLED"} /\ k # "DURESS"
    BY DEF Moves, Answer, Counted
  <2>4. Sound([op |-> k, tap |-> a, from |-> status[a], to |-> to,
               count |-> IF k \in Counted THEN count[a][k] ELSE 0], status)
    BY <2>1, <2>2, <2>3 DEF Sound, Raised, Answer, Counted
  <2> QED BY <1>0, <2>2, <2>4, LoadKeepsAlerts DEF LoadEdit
<1>5. ASSUME NEW s \in Session, NEW a \in Tap, NEW to \in StatusRequests,
             LoadStatus(s, a, to)
      PROVE  AlertInv'
  <2>1. Raised(a) /\ status[a] \in SosStatus \ {"NEW"} /\ to \in SosTransitions[status[a]]
    BY <1>0, <1>5 DEF LoadStatus, AlertInv, Raised, TypeOK
  <2>2. to \notin {"NEW", "BROADCASTING"}
    BY <2>1 DEF SosStatus, SosTransitions
  <2>3. Sound([op |-> "STATUS", tap |-> a, from |-> status[a], to |-> to,
               count |-> IF "STATUS" \in Counted THEN count[a]["STATUS"] ELSE 0], status)
    BY <2>1, <2>2 DEF Sound, Raised, Counted
  <2> QED BY <1>0, <1>5, <2>3, LoadKeepsAlerts DEF LoadStatus, LoadEdit
<1>6. ASSUME NEW s \in Session, NEW a \in Tap, LoadCancel(s, a)
      PROVE  AlertInv'
  <2>1. Raised(a)
    BY <1>6 DEF LoadCancel
  <2>2. Sound([op |-> "CANCEL", tap |-> a, from |-> status[a], to |-> "CANCELLED",
               count |-> IF "CANCEL" \in Counted THEN count[a]["CANCEL"] ELSE 0], status)
    BY <2>1 DEF Sound, Raised, Counted
  <2> QED BY <1>0, <1>6, <2>2, LoadKeepsAlerts DEF LoadCancel, LoadEdit
<1>7. ASSUME NEW s \in Session, NEW a \in Tap, LoadDuress(s, a)
      PROVE  AlertInv'
  <2> DEFINE to == UnderDuress(status[a])
  <2>1. Raised(a) /\ status[a] # "NEW"
    BY <1>7 DEF LoadDuress, AlertInv
  <2>2. to = IF status[a] = "BROADCASTING" THEN "ESCALATED" ELSE status[a]
    BY <2>1 DEF UnderDuress
  <2>3. Sound([op |-> "DURESS", tap |-> a, from |-> status[a], to |-> to,
               count |-> IF "DURESS" \in Counted THEN count[a]["DURESS"] ELSE 0], status)
    BY <2>1, <2>2 DEF Sound, Raised, Counted
  <2> QED BY <1>0, <1>7, <2>3, LoadKeepsAlerts DEF LoadDuress, LoadEdit
<1>8. ASSUME NEW s \in Session, CommitEdit(s)
      PROVE  AlertInv'
  <2> DEFINE w == session[s]
  <2>1. w \in Edit /\ w.op \in EditOp
    BY <1>0, <1>8, SessionKind DEF CommitEdit, EditOp
  <2>2. w.tap \in Tap /\ w.from \in SosStatus /\ w.to \in SosStatus /\ Sound(w, status)
    BY <2>1 DEF Edit, AlertInv
  <2>3. Raised(w.tap) /\ w.to # "ABSENT" /\ w.to # "NEW"
    BY <2>1, <2>2 DEF Sound, Raised, SosStatus
  <2>4. /\ \A b \in Tap : status'[b] = IF b = w.tap /\ w.to # w.from THEN w.to ELSE status[b]
        /\ \A b \in Tap : trail'[b] = IF b = w.tap THEN trail[b] \cup Event(w) ELSE trail[b]
    BY <1>0, <1>8, <2>2 DEF CommitEdit, TypeOK
  <2>5. w.to # w.from => w.to # "BROADCASTING"
    BY <2>1, <2>2 DEF Sound
  <2>6. Onwards(status, status')
    BY <2>3, <2>4, <2>5 DEF Onwards
  <2>7. \A t \in Session : Sound(session'[t], status')
    BY <1>0, <1>8, <2>6, DoneSessions, ClosedIsSound, SoundStays DEF CommitEdit, AlertInv
  <2>8. \A b \in Tap : status'[b] # "ABSENT" <=> status[b] # "ABSENT"
    BY <2>3, <2>4 DEF Raised
  <2>9. OneAlertPerRequest'
    BY <2>8 DEF AlertInv, OneAlertPerRequest, Raised
  <2>10. CancelledIsOnRecord'
    <3>1. w.to = "CANCELLED" /\ w.to # w.from => "sos.cancelled" \in Event(w)
      BY <2>1, <2>2 DEF Sound, Event
    <3> QED BY <2>4, <3>1 DEF AlertInv, CancelledIsOnRecord
  <2>11. DuressIsHeeded'
    <3>1. "sos.duress_suspected" \in Event(w) => w.op = "DURESS"
      BY DEF Event
    <3>2. w.op = "DURESS" => status'[w.tap] # "BROADCASTING"
      BY <2>1, <2>2, <2>4, <2>5 DEF Sound
    <3> QED BY <2>4, <2>5, <3>1, <3>2 DEF AlertInv, DuressIsHeeded
  <2>12. \A b \in Tap : trail'[b] # {} => Raised(b)'
    BY <2>3, <2>4, <2>8 DEF AlertInv, Raised
  <2> QED BY <2>3, <2>4, <2>7, <2>9, <2>10, <2>11, <2>12 DEF AlertInv
<1>9. ASSUME NEW s \in Session, LoadSweep(s)
      PROVE  AlertInv'
  <2> DEFINE stale == {a \in overdue : status[a] = "BROADCASTING"
                                         /\ count[a]["ACKNOWLEDGE"] = 0}
  <2>1. Sound([op |-> "SWEEP", left |-> stale], status)
    BY DEF Sound, EditOp, Answer, Counted
  <2> QED BY <1>0, <1>9, <2>1, LoadKeepsAlerts DEF LoadSweep
<1>10. ASSUME NEW s \in Session, NEW a \in Tap, CommitSweep(s, a)
       PROVE  AlertInv'
  <2> DEFINE next == [op |-> "SWEEP", left |-> session[s].left \ {a}]
  <2>1. session[s].op = "SWEEP" /\ a \in session[s].left /\ Sound(session[s], status)
    BY <1>10 DEF CommitSweep, AlertInv
  <2>2. Raised(a)
    BY <2>1 DEF Sound, Raised
  <2>3. \A t \in Session : session'[t] \in {session[t], Closed, next}
    BY <1>0, <1>10 DEF CommitSweep, TypeOK
  <2>4. \A b \in Tap : status'[b] = IF b = a THEN "UNANSWERED" ELSE status[b]
    BY <1>0, <1>10 DEF CommitSweep, TypeOK
  <2>5. session[s].left \subseteq Tap
    BY <1>0, <2>1, SessionKind DEF Sweep
  <2>6. Sound(next, status')
    BY <2>1, <2>4, <2>5 DEF Sound, EditOp, Answer, Counted
  <2>7. \A t \in Session : session'[t] = session[t] \/ Sound(session'[t], status')
    BY <2>3, <2>6, ClosedIsSound
  <2> QED BY <1>0, <1>10, <2>2, <2>7, WriteKeepsAlerts DEF CommitSweep, SosStatus
<1>11. ASSUME NEW s \in Session, NEW a \in Tap, LoadEscalate(s, a)
       PROVE  AlertInv'
  <2>1. Sound([op |-> "ESCALATE", tap |-> a, from |-> status[a],
               incident |-> NoIncident, reached |-> "NORMAL"], status)
    BY <1>11 DEF LoadEscalate, Sound, Raised, EditOp, Answer, Counted
  <2> QED BY <1>0, <1>11, <2>1, LoadKeepsAlerts DEF LoadEscalate
<1>12. ASSUME NEW s \in Session, NEW n \in Incident, NEW stage \in IncidentState,
              EscalateIncident(s, n, stage)
       PROVE  AlertInv'
  <2> DEFINE next == [session[s] EXCEPT !.incident = n, !.reached = stage]
  <2>1. session[s] \in Escalation /\ session[s].op = "ESCALATE"
    BY <1>0, <1>12, SessionKind DEF EscalateIncident
  <2>2. next.op = "ESCALATE" /\ next.tap = session[s].tap
    BY <2>1 DEF Escalation
  <2>3. \A t \in Session : session'[t] = session[t] \/ session'[t] = next
    BY <1>0, <1>12 DEF EscalateIncident, TypeOK
  <2>4. status' = status /\ trail' = trail /\ Sound(session[s], status)
    BY <1>12 DEF EscalateIncident, alert, AlertInv
  <2>5. Sound(next, status')
    BY <2>1, <2>2, <2>4 DEF Sound, EditOp, Answer, Counted
  <2> QED BY <1>0, <2>3, <2>4, <2>5, AlertsAlone
<1>13. ASSUME NEW s \in Session, CommitEscalate(s)
       PROVE  AlertInv'
  <2> DEFINE w == session[s]
  <2>1. w.tap \in Tap
    BY <1>0, <1>13, SessionKind DEF CommitEscalate, Escalation
  <2>2. Raised(w.tap)
    BY <1>13 DEF CommitEscalate, AlertInv, Sound, Raised
  <2>3. \A t \in Session : session'[t] = session[t] \/ Sound(session'[t], status')
    BY <1>13, DoneSessions, ClosedIsSound DEF CommitEscalate
  <2>4. trail' = trail
    BY <1>13 DEF CommitEscalate
  <2>5. CASE w.from \in {"RESOLVED", "CLOSED", "ESCALATED"}
    <3>1. status' = status
      BY <1>0, <1>13, <2>1, <2>5 DEF CommitEscalate, TypeOK
    <3> QED BY <1>0, <2>3, <2>4, <3>1, AlertsAlone
  <2>6. CASE w.from \notin {"RESOLVED", "CLOSED", "ESCALATED"}
    <3>1. status' = [status EXCEPT ![w.tap] = "ESCALATED"]
      BY <1>13, <2>6 DEF CommitEscalate
    <3> QED BY <1>0, <2>1, <2>2, <2>3, <2>4, <3>1, WriteKeepsAlerts DEF SosStatus
  <2> QED BY <2>5, <2>6
<1>14. ASSUME NEW s \in Session, Abandon(s)
       PROVE  AlertInv'
  BY <1>0, <1>14, DoneSessions, ClosedIsSound, AlertsAlone DEF Abandon, alert
<1>15. ASSUME NEW s \in Session, NEW n \in Incident, NEW new \in MovedByHand,
              LoadMove(s, n, new)
       PROVE  AlertInv'
  <2>1. Sound([op |-> "MOVE", incident |-> n, from |-> incident[n], to |-> new], status)
    BY DEF Sound, EditOp, Answer, Counted
  <2> QED BY <1>0, <1>15, <2>1, LoadKeepsAlerts DEF LoadMove
<1>16. ASSUME NEW s \in Session, CommitMove(s)
       PROVE  AlertInv'
  BY <1>0, <1>16, DoneSessions, ClosedIsSound, AlertsAlone DEF CommitMove, alert
<1> QED BY <1>1, <1>2, <1>3, <1>4, <1>5, <1>6, <1>7, <1>8, <1>9, <1>10, <1>11,
           <1>12, <1>13, <1>14, <1>15, <1>16 DEF Next, vars, Lapse, alert

\* Nothing is raised yet.
LEMMA AlertInit == Init => AlertInv
BY ClosedIsSound
   DEF Init, AlertInv, OneAlertPerRequest, CancelledIsOnRecord, DuressIsHeeded, Raised

\* Five taps with one client_request_id are one alert, also when they overlap.
THEOREM OneAlertForOneEmergency == Spec => []OneAlertPerRequest
<1> QED BY TypeInit, TypeStep, AlertInit, AlertStep, PTL DEF Spec, AlertInv

\* An alert is cancelled only with a cancellation by PIN or by the company on
\* record: no number of attempts under duress, and no stale write, does it.
THEOREM CancellationIsOnRecord == Spec => []CancelledIsOnRecord
<1> QED BY TypeInit, TypeStep, AlertInit, AlertStep, PTL DEF Spec, AlertInv

\* An alert somebody tried to cancel under duress never again merely
\* broadcasts, whatever requests were under way.
THEOREM DuressIsAlwaysHeeded == Spec => []DuressIsHeeded
<1> QED BY TypeInit, TypeStep, AlertInit, AlertStep, PTL DEF Spec, AlertInv

-----------------------------------------------------------------------------
(* The counters.                                                            *)

\* Every step counts an answer at least as one.
LEMMA CountStep == TypeInv /\ AnswersAreCounted /\ [Next]_vars => AnswersAreCounted'
<1> SUFFICES ASSUME TypeInv, AnswersAreCounted, [Next]_vars
             PROVE  AnswersAreCounted'
  OBVIOUS
<1>0. NeverOvercounted'
  BY TypeStep DEF TypeInv
<1>1. CASE count' = count /\ answers' = answers
  BY <1>1 DEF AnswersAreCounted
<1>2. ASSUME NEW s \in Session, CommitEdit(s), session[s].op \in Counted
      PROVE  AnswersAreCounted'
  <2> DEFINE w == session[s]
  <2>1. w.tap \in Tap /\ w.count \in 0 .. MaxAnswer
    BY <1>2, SessionKind DEF TypeInv, EditOp, Answer, Edit
  <2>2. /\ count' = [count EXCEPT ![w.tap][w.op] = w.count + 1]
        /\ answers' = [answers EXCEPT ![w.tap][w.op] = @ + 1]
    BY <1>2 DEF CommitEdit, Recount
  <2>3. \A a \in Tap, k \in Counted :
          \/ count'[a][k] > 0
          \/ count'[a][k] = count[a][k] /\ answers'[a][k] = answers[a][k]
    BY <1>2, <2>1, <2>2, SosAssumption DEF TypeInv, TypeOK
  <2> QED BY <1>0, <2>3 DEF AnswersAreCounted, NeverOvercounted
<1>3. ASSUME NEW s \in Session, CommitEdit(s), session[s].op \notin Counted
      PROVE  AnswersAreCounted'
  BY <1>1, <1>3 DEF CommitEdit, Recount
<1> QED BY <1>1, <1>2, <1>3
        DEF Next, vars, alert, escalated, LoadRaise, LoadAnswer, LoadStatus, LoadCancel,
            LoadDuress, LoadEdit, LoadSweep, LoadEscalate, Load, CommitRaise, Lapse,
            CommitSweep, EscalateIncident, CommitEscalate, LoadMove, CommitMove, Abandon

\* Overlapping answers may be counted as one, never as none.
THEOREM NoAnswerIsLost == Spec => []AnswersAreCounted
<1>1. Init => AnswersAreCounted
  BY DEF Init, AnswersAreCounted
<1> QED BY <1>1, TypeInit, TypeStep, CountStep, PTL DEF Spec

-----------------------------------------------------------------------------
(* Escalation.                                                              *)

Ready == IncidentState \ {"NORMAL", "BREAKDOWN_REPORTED", "TRIAGING"}

Escalating(s) == session[s].op = "ESCALATE"
Holds(s, n)   == Escalating(s) /\ session[s].incident = n
Moving(s)     == session[s].op = "MOVE"

\* The incident of an escalation under way is its own until it is linked, and leaves the
\* ready states only to a request that had not seen it there; such a request has loaded
\* another state than the one it writes over.
EscalationInv ==
  /\ \A s \in Session : Escalating(s) =>
       /\ session[s].reached \in {"NORMAL", "BREAKDOWN_REPORTED", "TRIAGING", "MATCHING"}
       /\ session[s].incident = NoIncident => session[s].reached = "NORMAL"
  /\ \A s \in Session, n \in Incident : Holds(s, n) =>
       /\ incident[n] # "NORMAL"
       /\ source[n] = session[s].tap
       /\ session[s].reached = "MATCHING" => incident[n] \in Ready \/ n \in overwritten
       /\ \A a \in Tap : linked[a] # n
       /\ \A t \in Session : Holds(t, n) => t = s
  /\ \A s \in Session : Moving(s) => session[s].to \in Transitions[session[s].from]
  /\ \A a \in Tap : linked[a] # NoIncident => incident[linked[a]] # "NORMAL"
  /\ LinkedIncidentIsReady

\* No step of the table leads out of the ready states.
LEMMA ReadyIsKept ==
  ASSUME NEW st \in Ready, NEW new \in Transitions[st]
  PROVE  new \in Ready
BY DEF Ready, IncidentState, Transitions

\* Nor does one lead back to NORMAL.
LEMMA NeverNormal ==
  ASSUME NEW st \in IncidentState, NEW new \in Transitions[st]
  PROVE  new # "NORMAL"
BY DEF IncidentState, Transitions

\* Steps that neither continue nor finish an escalation, nor move an incident.
LEMMA OthersEscalate ==
  ASSUME EscalationInv, UNCHANGED <<linked, incident, source>>, overwritten \subseteq overwritten',
         \A t \in Session :
           \/ session'[t] = session[t]
           \/ session'[t].op \notin {"ESCALATE", "MOVE"}
           \/ /\ session'[t].op = "ESCALATE"
              /\ session'[t].incident = NoIncident /\ session'[t].reached = "NORMAL"
           \/ session'[t].op = "MOVE" /\ session'[t].to \in Transitions[session'[t].from]
  PROVE  EscalationInv'
<1>1. \A t \in Session, n \in Incident : Holds(t, n)' => Holds(t, n) /\ session'[t] = session[t]
  BY SosAssumption DEF Holds, Escalating
<1>2. \A t \in Session : Escalating(t)' =>
        /\ session'[t].reached \in {"NORMAL", "BREAKDOWN_REPORTED", "TRIAGING", "MATCHING"}
        /\ session'[t].incident = NoIncident => session'[t].reached = "NORMAL"
  BY DEF EscalationInv, Escalating
<1>3. \A t \in Session : Moving(t)' => session'[t].to \in Transitions[session'[t].from]
  BY DEF EscalationInv, Moving
<1>4. \A t \in Session, n \in Incident : Holds(t, n)' =>
        /\ incident'[n] # "NORMAL"
        /\ source'[n] = session'[t].tap
        /\ session'[t].reached = "MATCHING" => incident'[n] \in Ready \/ n \in overwritten'
        /\ \A a \in Tap : linked'[a] # n
        /\ \A u \in Session : Holds(u, n)' => u = t
  BY <1>1 DEF EscalationInv
<1>5. LinkedIncidentIsReady'
  BY DEF EscalationInv, LinkedIncidentIsReady
<1>6. \A a \in Tap : linked'[a] # NoIncident => incident'[linked'[a]] # "NORMAL"
  <2>1. \A a \in Tap : linked[a] # NoIncident => incident[linked[a]] # "NORMAL"
    BY DEF EscalationInv
  <2> QED BY <2>1
<1> QED BY <1>2, <1>3, <1>4, <1>5, <1>6 DEF EscalationInv

\* A commit of an escalation that another one has not finished.
LEMMA StageKeeps ==
  ASSUME TypeInv, EscalationInv, NEW s \in Session, NEW n \in Incident,
         NEW stage \in IncidentState, EscalateIncident(s, n, stage),
         overwritten \subseteq overwritten'
  PROVE  EscalationInv'
<1> DEFINE w == session[s]
           next == [w EXCEPT !.incident = n, !.reached = stage]
<1>0. TypeOK
  BY DEF TypeInv
<1>1. w \in Escalation /\ Escalating(s)
  BY <1>0, SessionKind DEF EscalateIncident, Escalating
<1>2. /\ next.op = "ESCALATE" /\ next.incident = n /\ next.reached = stage
      /\ next.tap = w.tap
  BY <1>1 DEF Escalation
<1>3. \A t \in Session : session'[t] = IF t = s THEN next ELSE session[t]
  BY <1>0 DEF EscalateIncident, TypeOK
<1>4. \A m \in Incident : /\ incident'[m] = IF m = n THEN stage ELSE incident[m]
                          /\ source'[m] = IF m = n THEN w.tap ELSE source[m]
  BY <1>0 DEF EscalateIncident, TypeOK
<1>5. stage \in {"BREAKDOWN_REPORTED", "TRIAGING", "MATCHING"}
  BY DEF EscalateIncident, NextStage
\* Nobody else has this incident: it is new, or it is this session's.
<1>6. /\ \A t \in Session \ {s} : ~Holds(t, n)
      /\ \A a \in Tap : linked[a] # n
  <2>1. CASE w.incident = NoIncident
    <3>1. incident[n] = "NORMAL"
      BY <2>1 DEF EscalateIncident
    <3> QED BY <3>1, SosAssumption DEF EscalationInv
  <2>2. CASE w.incident # NoIncident
    <3>1. Holds(s, n)
      BY <1>1, <2>2 DEF EscalateIncident, Holds
    <3> QED BY <3>1 DEF EscalationInv
  <2> QED BY <2>1, <2>2
<1>7. \A t \in Session, m \in Incident :
        Holds(t, m)' <=> IF t = s THEN m = n ELSE Holds(t, m)
  BY <1>2, <1>3 DEF Holds, Escalating
<1>8. linked' = linked
  BY DEF EscalateIncident
<1>9. \A t \in Session : Escalating(t)' =>
        /\ session'[t].reached \in {"NORMAL", "BREAKDOWN_REPORTED", "TRIAGING", "MATCHING"}
        /\ session'[t].incident = NoIncident => session'[t].reached = "NORMAL"
  <2>1. \A t \in Session : Escalating(t) =>
          /\ session[t].reached \in {"NORMAL", "BREAKDOWN_REPORTED", "TRIAGING", "MATCHING"}
          /\ session[t].incident = NoIncident => session[t].reached = "NORMAL"
    BY DEF EscalationInv
  <2>2. n # NoIncident
    BY SosAssumption
  <2> HIDE DEF next
  <2> QED BY <1>2, <1>3, <1>5, <2>1, <2>2 DEF Escalating
<1>10. \A t \in Session, m \in Incident : Holds(t, m)' =>
        /\ incident'[m] # "NORMAL"
        /\ source'[m] = session'[t].tap
        /\ session'[t].reached = "MATCHING" => incident'[m] \in Ready \/ m \in overwritten'
        /\ \A a \in Tap : linked'[a] # m
        /\ \A u \in Session : Holds(u, m)' => u = t
  <2> SUFFICES ASSUME NEW t \in Session, NEW m \in Incident, Holds(t, m)'
               PROVE  /\ incident'[m] # "NORMAL"
                      /\ source'[m] = session'[t].tap
                      /\ session'[t].reached = "MATCHING"
                           => incident'[m] \in Ready \/ m \in overwritten'
                      /\ \A a \in Tap : linked'[a] # m
                      /\ \A u \in Session : Holds(u, m)' => u = t
    OBVIOUS
  <2>1. CASE t = s
    <3>1. m = n
      BY <1>7, <2>1
    <3>2. /\ session'[t].reached = stage /\ session'[t].tap = w.tap
          /\ incident'[m] = stage /\ source'[m] = w.tap
      BY <1>2, <1>3, <1>4, <2>1, <3>1
    <3>3. "MATCHING" \in Ready
      BY DEF Ready, IncidentState
    <3> QED BY <1>5, <1>6, <1>7, <1>8, <2>1, <3>1, <3>2, <3>3
  <2>2. CASE t # s
    <3>1. /\ Holds(t, m) /\ m # n /\ session'[t] = session[t]
          /\ incident'[m] = incident[m] /\ source'[m] = source[m]
      BY <1>3, <1>4, <1>6, <1>7, <2>2
    <3>2. /\ incident[m] # "NORMAL"
          /\ source[m] = session[t].tap
          /\ session[t].reached = "MATCHING" => incident[m] \in Ready \/ m \in overwritten
          /\ \A a \in Tap : linked[a] # m
          /\ \A u \in Session : Holds(u, m) => u = t
      BY <3>1 DEF EscalationInv
    <3> HIDE DEF next, w
    <3> QED BY <1>7, <1>8, <2>2, <3>1, <3>2
  <2> QED BY <2>1, <2>2
<1>11. \A a \in Tap : linked[a] # NoIncident => linked[a] \in Incident /\ linked[a] # n
  BY <1>0, <1>6 DEF TypeOK
<1>12. LinkedIncidentIsReady'
  BY <1>4, <1>8, <1>11 DEF EscalationInv, LinkedIncidentIsReady
<1>13. \A a \in Tap : linked'[a] # NoIncident => incident'[linked'[a]] # "NORMAL"
  BY <1>4, <1>8, <1>11 DEF EscalationInv
<1>14. \A t \in Session : Moving(t)' => session'[t].to \in Transitions[session'[t].from]
  BY <1>2, <1>3 DEF EscalationInv, Moving
<1> QED BY <1>9, <1>10, <1>12, <1>13, <1>14 DEF EscalationInv

\* The commit that links the alert.
LEMMA LinkKeeps ==
  ASSUME TypeInv, EscalationInv, NEW s \in Session, CommitEscalate(s),
         overwritten \subseteq overwritten'
  PROVE  EscalationInv'
<1> DEFINE w == session[s]
<1>0. TypeOK
  BY DEF TypeInv
<1>1. w \in Escalation /\ Escalating(s)
  BY <1>0, SessionKind DEF CommitEscalate, Escalating
<1>2. w.tap \in Tap /\ w.incident \in Incident /\ Holds(s, w.incident)
  BY <1>1 DEF CommitEscalate, Escalation, Holds
<1>3. w.reached = "MATCHING"
  BY <1>1 DEF CommitEscalate, EscalationInv, NextStage
<1>4. /\ incident[w.incident] # "NORMAL"
      /\ incident[w.incident] \in Ready \/ w.incident \in overwritten
      /\ source[w.incident] = w.tap
  BY <1>2, <1>3 DEF EscalationInv
<1>5. \A t \in Session : session'[t] = IF t = s THEN Closed ELSE session[t]
  BY <1>0 DEF CommitEscalate, Done, TypeOK
<1>6. \A a \in Tap : linked'[a] = IF a = w.tap THEN w.incident ELSE linked[a]
  BY <1>0 DEF CommitEscalate, TypeOK
<1>7. incident' = incident /\ source' = source
  BY DEF CommitEscalate
<1>8. \A t \in Session, m \in Incident : Holds(t, m)' => Holds(t, m) /\ t # s
  BY <1>5 DEF Holds, Escalating, Closed
<1>9. /\ \A t \in Session : Escalating(t)' => Escalating(t) /\ session'[t] = session[t]
      /\ \A t \in Session : Moving(t)' => Moving(t) /\ session'[t] = session[t]
  BY <1>5 DEF Escalating, Moving, Closed
<1>10. LinkedIncidentIsReady'
  BY <1>4, <1>6, <1>7 DEF EscalationInv, LinkedIncidentIsReady, Ready
<1>11. \A t \in Session, m \in Incident : Holds(t, m)' => m # w.incident
  BY <1>2, <1>8 DEF EscalationInv
<1>12. \A t \in Session, m \in Incident : Holds(t, m)' =>
         /\ incident'[m] # "NORMAL"
         /\ source'[m] = session'[t].tap
         /\ session'[t].reached = "MATCHING" => incident'[m] \in Ready \/ m \in overwritten'
         /\ \A a \in Tap : linked'[a] # m
         /\ \A u \in Session : Holds(u, m)' => u = t
  <2> SUFFICES ASSUME NEW t \in Session, NEW m \in Incident, Holds(t, m)'
               PROVE  /\ incident'[m] # "NORMAL"
                      /\ source'[m] = session'[t].tap
                      /\ session'[t].reached = "MATCHING"
                           => incident'[m] \in Ready \/ m \in overwritten'
                      /\ \A a \in Tap : linked'[a] # m
                      /\ \A u \in Session : Holds(u, m)' => u = t
    OBVIOUS
  <2>1. Holds(t, m) /\ m # w.incident /\ session'[t] = session[t]
    BY <1>5, <1>8, <1>11
  <2> HIDE DEF w
  <2> QED BY <1>6, <1>7, <1>8, <2>1 DEF EscalationInv
<1>13. \A t \in Session : Escalating(t)' =>
         /\ session'[t].reached \in {"NORMAL", "BREAKDOWN_REPORTED", "TRIAGING", "MATCHING"}
         /\ session'[t].incident = NoIncident => session'[t].reached = "NORMAL"
  BY <1>9 DEF EscalationInv
<1>14. \A t \in Session : Moving(t)' => session'[t].to \in Transitions[session'[t].from]
  BY <1>9 DEF EscalationInv
<1>15. \A a \in Tap : linked'[a] # NoIncident => incident'[linked'[a]] # "NORMAL"
  BY <1>4, <1>6, <1>7 DEF EscalationInv
<1> QED BY <1>10, <1>12, <1>13, <1>14, <1>15 DEF EscalationInv

\* The commit of an /advance: along the table from what it finds, or on record as stale.
LEMMA MoveKeeps ==
  ASSUME TypeInv, EscalationInv, NEW s \in Session, CommitMove(s),
         overwritten \subseteq overwritten',
         Stale(s) => session[s].incident \in overwritten'
  PROVE  EscalationInv'
<1> DEFINE n   == session[s].incident
           new == session[s].to
<1>0. TypeOK
  BY DEF TypeInv
<1>1. /\ Moving(s) /\ n \in Incident /\ session[s].from \in IncidentState
      /\ new \in Transitions[session[s].from]
  BY <1>0, SessionKind DEF CommitMove, Moving, Move, EscalationInv
<1>2. new # "NORMAL"
  BY <1>1, NeverNormal
<1>3. incident[n] \in Ready => new \in Ready \/ n \in overwritten'
  BY <1>1, ReadyIsKept DEF Stale, Moving
<1>4. \A m \in Incident : incident'[m] = IF m = n THEN new ELSE incident[m]
  BY <1>0 DEF CommitMove, TypeOK
<1>5. linked' = linked /\ source' = source
  BY DEF CommitMove
<1>6. \A t \in Session : session'[t] = IF t = s THEN Closed ELSE session[t]
  BY <1>0 DEF CommitMove, Done, TypeOK
<1>7. /\ \A t \in Session : Escalating(t)' => Escalating(t) /\ session'[t] = session[t]
      /\ \A t \in Session : Moving(t)' => Moving(t) /\ session'[t] = session[t]
      /\ \A t \in Session, m \in Incident : Holds(t, m)' => Holds(t, m)
  BY <1>6 DEF Escalating, Moving, Holds, Closed
<1>8. \A m \in Incident :
        /\ incident[m] # "NORMAL" => incident'[m] # "NORMAL"
        /\ incident[m] \in Ready \/ m \in overwritten
             => incident'[m] \in Ready \/ m \in overwritten'
  BY <1>2, <1>3, <1>4
<1>9. \A t \in Session : Escalating(t)' =>
         /\ session'[t].reached \in {"NORMAL", "BREAKDOWN_REPORTED", "TRIAGING", "MATCHING"}
         /\ session'[t].incident = NoIncident => session'[t].reached = "NORMAL"
  BY <1>7 DEF EscalationInv
<1>10. \A t \in Session : Moving(t)' => session'[t].to \in Transitions[session'[t].from]
  BY <1>7 DEF EscalationInv
<1>11. \A t \in Session, m \in Incident : Holds(t, m)' =>
         /\ incident'[m] # "NORMAL"
         /\ source'[m] = session'[t].tap
         /\ session'[t].reached = "MATCHING" => incident'[m] \in Ready \/ m \in overwritten'
         /\ \A a \in Tap : linked'[a] # m
         /\ \A u \in Session : Holds(u, m)' => u = t
  <2> SUFFICES ASSUME NEW t \in Session, NEW m \in Incident, Holds(t, m)'
               PROVE  /\ incident'[m] # "NORMAL"
                      /\ source'[m] = session'[t].tap
                      /\ session'[t].reached = "MATCHING"
                           => incident'[m] \in Ready \/ m \in overwritten'
                      /\ \A a \in Tap : linked'[a] # m
                      /\ \A u \in Session : Holds(u, m)' => u = t
    OBVIOUS
  <2>1. Holds(t, m) /\ session'[t] = session[t]
    BY <1>7 DEF Holds, Escalating
  <2>2. /\ incident[m] # "NORMAL"
        /\ source[m] = session[t].tap
        /\ session[t].reached = "MATCHING" => incident[m] \in Ready \/ m \in overwritten
        /\ \A a \in Tap : linked[a] # m
        /\ \A u \in Session : Holds(u, m) => u = t
    BY <2>1 DEF EscalationInv
  <2> HIDE DEF n, new
  <2> QED BY <1>5, <1>7, <1>8, <2>1, <2>2
<1>12. \A a \in Tap : linked[a] # NoIncident =>
         /\ linked[a] \in Incident
         /\ incident[linked[a]] # "NORMAL"
         /\ source[linked[a]] = a
         /\ incident[linked[a]] \in Ready \/ linked[a] \in overwritten
  BY <1>0 DEF EscalationInv, LinkedIncidentIsReady, Ready, TypeOK
<1>13. LinkedIncidentIsReady'
  <2> HIDE DEF n, new
  <2> QED BY <1>5, <1>8, <1>12 DEF LinkedIncidentIsReady, Ready
<1>14. \A a \in Tap : linked'[a] # NoIncident => incident'[linked'[a]] # "NORMAL"
  <2> HIDE DEF n, new
  <2> QED BY <1>5, <1>8, <1>12
<1> QED BY <1>9, <1>10, <1>11, <1>13, <1>14 DEF EscalationInv

\* Every step keeps the escalations in order.
LEMMA EscalationStep ==
  TypeInv /\ EscalationInv /\ [HistoryNext]_<<vars, overwritten>> => EscalationInv'
<1> SUFFICES ASSUME TypeInv, EscalationInv, [HistoryNext]_<<vars, overwritten>>
             PROVE  EscalationInv'
  OBVIOUS
<1>0. TypeOK /\ overwritten \subseteq overwritten' /\ [Next]_vars
  BY DEF TypeInv, HistoryNext
<1>1. CASE UNCHANGED <<linked, incident, source, session>>
  BY <1>0, <1>1, OthersEscalate
<1>2. ASSUME NEW s \in Session, Done(s), UNCHANGED <<linked, incident, source>>
      PROVE  EscalationInv'
  <2>1. \A t \in Session : session'[t] = session[t] \/ session'[t] = Closed
    BY <1>0, <1>2, DoneSessions DEF TypeInv
  <2> QED BY <1>0, <1>2, <2>1, OthersEscalate DEF Closed
<1>3. ASSUME NEW s \in Session, NEW seen, Load(s, seen),
             \/ seen.op \notin {"ESCALATE", "MOVE"}
             \/ seen.op = "ESCALATE" /\ seen.incident = NoIncident /\ seen.reached = "NORMAL"
             \/ seen.op = "MOVE" /\ seen.to \in Transitions[seen.from]
      PROVE  EscalationInv'
  <2>1. \A t \in Session : session'[t] = session[t] \/ session'[t] = seen
    BY <1>0, <1>3 DEF Load, TypeOK
  <2> QED BY <1>0, <1>3, <2>1, OthersEscalate DEF Load, escalated
<1>4. ASSUME NEW s \in Session, NEW a \in Tap, CommitSweep(s, a)
      PROVE  EscalationInv'
  <2>1. \A t \in Session :
          session'[t] = session[t] \/ session'[t].op \notin {"ESCALATE", "MOVE"}
    BY <1>0, <1>4 DEF CommitSweep, TypeOK, Closed
  <2> QED BY <1>0, <1>4, <2>1, OthersEscalate DEF CommitSweep, escalated
<1>5. ASSUME NEW s \in Session, NEW n \in Incident, NEW stage \in IncidentState,
             EscalateIncident(s, n, stage)
      PROVE  EscalationInv'
  BY <1>0, <1>5, StageKeeps
<1>6. ASSUME NEW s \in Session, CommitEscalate(s)
      PROVE  EscalationInv'
  BY <1>0, <1>6, LinkKeeps
<1>7. ASSUME NEW s \in Session, NEW n \in Incident, NEW new \in MovedByHand,
             LoadMove(s, n, new)
      PROVE  EscalationInv'
  BY <1>3, <1>7 DEF LoadMove
<1>8. ASSUME NEW s \in Session, NEW op \in EditOp, NEW a \in Tap, NEW to, LoadEdit(s, op, a, to)
      PROVE  EscalationInv'
  <2>1. PICK seen : Load(s, seen) /\ seen.op = op
    BY <1>8 DEF LoadEdit
  <2>2. op \notin {"ESCALATE", "MOVE"}
    BY DEF EditOp, Answer, Counted
  <2> QED BY <1>3, <2>1, <2>2
<1>9. ASSUME NEW s \in Session, NEW k \in Answer, NEW a \in Tap, LoadAnswer(s, k, a)
      PROVE  EscalationInv'
  BY <1>8, <1>9 DEF LoadAnswer, EditOp
<1>10. ASSUME NEW s \in Session, NEW a \in Tap, LoadRaise(s, a)
       PROVE  EscalationInv'
  <2>1. PICK seen : Load(s, seen) /\ seen.op = "RAISE"
    BY <1>10 DEF LoadRaise
  <2> QED BY <1>3, <2>1
<1>11. ASSUME NEW s \in Session, LoadSweep(s)
       PROVE  EscalationInv'
  <2>1. PICK seen : Load(s, seen) /\ seen.op = "SWEEP"
    BY <1>11 DEF LoadSweep
  <2> QED BY <1>3, <2>1
<1>12. ASSUME NEW s \in Session, NEW a \in Tap, LoadEscalate(s, a)
       PROVE  EscalationInv'
  BY <1>3, <1>12 DEF LoadEscalate
<1>13. ASSUME NEW s \in Session, NEW a \in Tap, LoadCancel(s, a)
       PROVE  EscalationInv'
  BY <1>8, <1>13 DEF LoadCancel, EditOp
<1>14. ASSUME NEW s \in Session, NEW a \in Tap, NEW to \in StatusRequests,
              LoadStatus(s, a, to)
       PROVE  EscalationInv'
  BY <1>8, <1>14 DEF LoadStatus, EditOp
<1>15. ASSUME NEW s \in Session, CommitRaise(s) \/ CommitEdit(s) \/ Abandon(s)
       PROVE  EscalationInv'
  <2>1. Done(s)
    BY <1>15 DEF CommitRaise, CommitEdit, Abandon
  <2>2. UNCHANGED <<linked, incident, source>>
    BY <1>15 DEF CommitRaise, CommitEdit, Abandon, escalated
  <2> QED BY <1>2, <2>1, <2>2
<1>16. ASSUME NEW s \in Session, NEW a \in Tap, LoadDuress(s, a)
       PROVE  EscalationInv'
  BY <1>8, <1>16 DEF LoadDuress, EditOp
<1>17. ASSUME NEW a \in Tap, Lapse(a)
       PROVE  EscalationInv'
  BY <1>1, <1>17 DEF Lapse, escalated
<1>18. CASE UNCHANGED vars
  BY <1>1, <1>18 DEF vars
<1>19. ASSUME NEW s \in Session, CommitMove(s)
       PROVE  EscalationInv'
  <2>1. CASE UNCHANGED <<vars, overwritten>>
    BY <1>18, <2>1
  <2>2. CASE HistoryNext
    <3>1. Stale(s) => session[s].incident \in overwritten'
      BY <1>19, <2>2 DEF HistoryNext
    <3> QED BY <1>0, <1>19, <3>1, MoveKeeps
  <2> QED BY <2>1, <2>2
<1> QED BY <1>0, <1>4, <1>5, <1>6, <1>7, <1>9, <1>10, <1>11, <1>12, <1>13, <1>14, <1>15,
           <1>16, <1>17, <1>18, <1>19 DEF Next

\* The incident an alert names is the one made for it, and has been taken to MATCHING
\* although four commits lie between the click and the link; only a request that had not
\* seen it there can have put it back.
THEOREM LinkedMeansReady == HistorySpec => []LinkedIncidentIsReady
<1>1. HistoryInit => TypeInv
  BY TypeInit DEF HistoryInit
<1>2. HistoryInit => EscalationInv
  BY DEF HistoryInit, Init, EscalationInv, Holds, Escalating, Moving, Closed,
         LinkedIncidentIsReady
<1>3. TypeInv /\ [HistoryNext]_<<vars, overwritten>> => TypeInv'
  <2>1. [HistoryNext]_<<vars, overwritten>> => [Next]_vars
    BY DEF HistoryNext
  <2> QED BY <2>1, TypeStep
<1>4. EscalationInv => LinkedIncidentIsReady
  BY DEF EscalationInv
<1> QED BY <1>1, <1>2, <1>3, <1>4, EscalationStep, PTL DEF HistorySpec
=============================================================================
