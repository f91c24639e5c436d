------------------------------ MODULE Lifecycle ------------------------------
(***************************************************************************)
(* The incident and offer lifecycles as data:                               *)
(* services/orchestrator/app/models.py, offer_models.py and stand_down.py.  *)
(* A state machine is a function from each state to the states its table    *)
(* allows next.                                                             *)
(***************************************************************************)

IncidentState ==
  {"NORMAL", "BREAKDOWN_REPORTED", "TRIAGING", "MATCHING", "RESCUE_OFFERED",
   "RESCUE_ACCEPTED", "DRIVER_EN_ROUTE", "CARGO_TRANSFER", "RESCUE_IN_TRANSIT",
   "DELIVERED", "VERIFICATION", "ESCROW_RELEASED", "DISPUTED", "CANCELLED"}

Transitions ==
  [NORMAL             |-> {"BREAKDOWN_REPORTED"},
   BREAKDOWN_REPORTED |-> {"TRIAGING", "CANCELLED"},
   TRIAGING           |-> {"MATCHING", "CANCELLED"},
   MATCHING           |-> {"RESCUE_OFFERED", "CANCELLED"},
   RESCUE_OFFERED     |-> {"RESCUE_ACCEPTED", "MATCHING", "CANCELLED"},
   RESCUE_ACCEPTED    |-> {"DRIVER_EN_ROUTE", "MATCHING", "CANCELLED"},
   DRIVER_EN_ROUTE    |-> {"CARGO_TRANSFER", "MATCHING", "CANCELLED"},
   CARGO_TRANSFER     |-> {"RESCUE_IN_TRANSIT", "CANCELLED"},
   RESCUE_IN_TRANSIT  |-> {"DELIVERED", "CANCELLED"},
   DELIVERED          |-> {"VERIFICATION"},
   VERIFICATION       |-> {"ESCROW_RELEASED", "DISPUTED"},
   ESCROW_RELEASED    |-> {},
   DISPUTED           |-> {},
   CANCELLED          |-> {}]

\* The states a breakdown can still be taken back from.
StandableDown ==
  {"BREAKDOWN_REPORTED", "TRIAGING", "MATCHING", "RESCUE_OFFERED",
   "RESCUE_ACCEPTED", "DRIVER_EN_ROUTE"}

\* Mutant of Unwindable: only the moment after the agreement is handled.
UnwindableOnceAccepted == {"RESCUE_ACCEPTED"}

\* cancel_bound_offer: the states from which the search for help reopens.
Unwindable == {"RESCUE_ACCEPTED", "DRIVER_EN_ROUTE"}

\* _try_bind steps a lagging incident up to RESCUE_OFFERED first.
SteppedUp(s) == IF s \in {"TRIAGING", "MATCHING"} THEN "RESCUE_OFFERED" ELSE s

MayAccept(s) ==
  /\ SteppedUp(s) \in {s} \cup Transitions[s]
  /\ "RESCUE_ACCEPTED" \in Transitions[SteppedUp(s)]

-----------------------------------------------------------------------------
OfferState ==
  {"PENDING", "CARRIER_ACCEPTED", "OWNER_CONFIRMED", "BOUND", "DECLINED",
   "WITHDRAWN", "EXPIRED", "SUPERSEDED", "CANCELLED"}

Live == {"PENDING", "CARRIER_ACCEPTED", "OWNER_CONFIRMED"}

EndOfAnOffer == {"DECLINED", "WITHDRAWN", "EXPIRED", "SUPERSEDED"}

OfferTransitions ==
  [PENDING          |-> {"CARRIER_ACCEPTED", "OWNER_CONFIRMED"} \cup EndOfAnOffer,
   CARRIER_ACCEPTED |-> {"BOUND"} \cup EndOfAnOffer,
   OWNER_CONFIRMED  |-> {"BOUND"} \cup EndOfAnOffer,
   BOUND            |-> {"CANCELLED"},
   DECLINED         |-> {},
   WITHDRAWN        |-> {},
   EXPIRED          |-> {},
   SUPERSEDED       |-> {},
   CANCELLED        |-> {}]
=============================================================================
