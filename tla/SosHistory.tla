------------------------------ MODULE SosHistory ------------------------------
(***************************************************************************)
(* Sos with a history variable: the incidents on which a request has        *)
(* written a state over one it never saw.  It records and restrains nothing.*)
(***************************************************************************)
EXTENDS Sos

VARIABLE overwritten   \* incidents a stale /advance has been committed on

\* A request commits the state its table allowed from another one than this.
Stale(s) ==
  /\ session[s].op = "MOVE"
  /\ incident[session[s].incident] # session[s].from

HistoryInit == Init /\ overwritten = {}

HistoryNext ==
  /\ Next
  /\ overwritten' = overwritten \cup
       {session[s].incident : s \in {t \in Session : Stale(t) /\ CommitMove(t)}}

HistorySpec == HistoryInit /\ [][HistoryNext]_<<vars, overwritten>>

\* escalate_to_incident: the incident an alert names was created for this alert and none
\* other, and has gone through TRIAGING to MATCHING before the alert names it, although four
\* commits lie between the click and the link.  It is found in an earlier state only where
\* an /advance that had loaded another state was committed over the escalation's.
LinkedIncidentIsReady ==
  \A a \in Tap :
    linked[a] # NoIncident =>
      /\ source[linked[a]] = a
      /\ \/ incident[linked[a]] \notin {"NORMAL", "BREAKDOWN_REPORTED", "TRIAGING"}
         \/ linked[a] \in overwritten
=============================================================================
