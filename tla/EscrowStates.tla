---------------------------- MODULE EscrowStates ----------------------------
EXTENDS Naturals
(***************************************************************************)
(* The escrow lifecycle as data: the states an escrow row may be in, the    *)
(* edges services/escrow_ledger/app/escrow_service.py accepts, and the walk *)
(* services/orchestrator/app/dispatch.py takes along those edges to make an *)
(* escrow follow its incident.  No state lives here; EscrowLedger and       *)
(* Rescue both extend this module.                                          *)
(***************************************************************************)

EscrowState ==
  {"INITIATED", "ACCEPTED", "IN_TRANSIT", "PENDING_VERIFICATION",
   "RELEASED", "DISPUTED", "CANCELLED"}

\* Mutant of ValidTransitions: a pickup may be taken back.
PickupTakenBack ==
  [INITIATED            |-> {"ACCEPTED", "CANCELLED"},
   ACCEPTED             |-> {"IN_TRANSIT", "CANCELLED"},
   IN_TRANSIT           |-> {"ACCEPTED", "PENDING_VERIFICATION", "CANCELLED"},
   PENDING_VERIFICATION |-> {"RELEASED", "DISPUTED"},
   RELEASED             |-> {},
   DISPUTED             |-> {},
   CANCELLED            |-> {}]

ValidTransitions ==
  [INITIATED            |-> {"ACCEPTED", "CANCELLED"},
   ACCEPTED             |-> {"IN_TRANSIT", "CANCELLED"},
   IN_TRANSIT           |-> {"PENDING_VERIFICATION", "CANCELLED"},
   PENDING_VERIFICATION |-> {"RELEASED", "DISPUTED"},
   RELEASED             |-> {},
   DISPUTED             |-> {},
   CANCELLED            |-> {}]

\* Mutant of PreviouslyHeld: a cancellation in transit reverses nothing.
HeldUntilPickup == {"ACCEPTED"}

\* transition(): the states from which a cancellation posts a reversal.
PreviouslyHeld == {"ACCEPTED", "IN_TRANSIT", "PENDING_VERIFICATION"}

\* The targets POST /escrow/{id}/transition lets the owner ask for.
OwnerMayRequest == EscrowState \ {"RELEASED", "DISPUTED"}

-----------------------------------------------------------------------------
(* Following the incident: dispatch.py.                                     *)

Order ==
  [INITIATED |-> 0, ACCEPTED |-> 1, IN_TRANSIT |-> 2,
   PENDING_VERIFICATION |-> 3, RELEASED |-> 4, DISPUTED |-> 4, CANCELLED |-> 4]

\* Mutant of IncidentToEscrow: the incident's own state name is used.
IncidentToItself ==
  [RESCUE_IN_TRANSIT |-> "IN_TRANSIT",
   DELIVERED         |-> "DELIVERED",
   VERIFICATION      |-> "PENDING_VERIFICATION",
   CANCELLED         |-> "CANCELLED"]

IncidentToEscrow ==
  [RESCUE_IN_TRANSIT |-> "IN_TRANSIT",
   DELIVERED         |-> "PENDING_VERIFICATION",
   VERIFICATION      |-> "PENDING_VERIFICATION",
   CANCELLED         |-> "CANCELLED"]

SyncTargets == {"IN_TRANSIT", "PENDING_VERIFICATION", "CANCELLED"}

\* One turn of the loop over path: skipped when the escrow is already there,
\* not tried beyond the target's rank, abandoned when the edge is illegal.
StepTowards(state, step, rank) ==
  IF /\ Order[state] < Order[step]
     /\ Order[step] <= rank
     /\ step \in ValidTransitions[state]
  THEN step
  ELSE state

\* Mutant of WalkForward: one jump to the target instead of a walk.
JumpForward(state, target) == StepTowards(state, target, Order[target])

\* The loop walks the path for every target, CANCELLED (rank 4) included.
WalkForward(state, target) ==
  StepTowards(StepTowards(state, "IN_TRANSIT", Order[target]),
              "PENDING_VERIFICATION", Order[target])

\* sync_escrow_to_incident: the escrow state it leaves behind.
Follow(state, target) ==
  IF Order[target] <= Order[state]
  THEN state
  ELSE LET walked == WalkForward(state, target)
       IN  IF target = "CANCELLED" /\ "CANCELLED" \in ValidTransitions[walked]
           THEN "CANCELLED"
           ELSE walked
=============================================================================
