------------------------------- MODULE Rescue -------------------------------
(***************************************************************************)
(* The rescue orchestrator: incidents, the offers fanned out for them, the  *)
(* two-way handshake that binds one of them, and the escrow and truck each  *)
(* bound rescue commits (services/orchestrator/app and its callers).        *)
(*                                                                          *)
(* An action is one database transaction.  Most requests are one            *)
(* transaction; two are not, and the gap between their commits is visible   *)
(* here as a pending obligation that another request, or a crash of the     *)
(* process, may come before:                                                *)
(*   - /advance commits the incident and then moves the escrow (syncing);   *)
(*   - /verify commits the escrow and then the incident (settling), from    *)
(*     the incident it loaded when it started.                              *)
(* Transactions themselves do not overlap in this module.                   *)
(*                                                                          *)
(* Abstracted: an offer is its incident, truck and round, which the unique  *)
(* index uq_offer_incident_truck_round makes a key; a bound offer's escrow  *)
(* is named after the offer (an offer binds once); timestamps are sets of   *)
(* offers, the deadline a round's offers share is a set of rounds; prices,  *)
(* scores and events are left out; which idle trucks are compatible and in  *)
(* reach, and the verdict of the condition log, are free choices.           *)
(***************************************************************************)
EXTENDS EscrowStates, Lifecycle

CONSTANTS Incident,        \* breakdowns that may be reported
          Truck,           \* carriers' trucks, initially idle
          MaxRound,        \* bound: offer rounds per incident
          MaxCrash,        \* bound: process restarts
          ByHand,          \* states owners ask POST /incidents/{id}/advance for
          ManualTargets,   \* what owners ask of POST /escrow/{id}/transition
          NamedTrucks      \* trucks the metadata of /advance may name

NoTruck == "none"   \* no truck is assigned: the column is null

ASSUME RescueAssumption ==
  /\ MaxRound \in Nat
  /\ MaxCrash \in Nat
  /\ ByHand \subseteq IncidentState
  /\ ManualTargets \subseteq OwnerMayRequest
  /\ NamedTrucks \subseteq Truck
  /\ NoTruck \notin Truck

Offer == Incident \X Truck \X (1 .. MaxRound)

IncidentOf(o) == o[1]
TruckOf(o)    == o[2]
RoundOf(o)    == o[3]

OffersOf(i) == {o \in Offer : IncidentOf(o) = i}

NoOffer == <<>>

VARIABLES incident,     \* Incident -> incident.state ("NORMAL": no row yet)
          assigned,     \* Incident -> assigned_truck_id, or NoTruck
          offer,        \* Offer -> offer.state, or "ABSENT"
          accepted,     \* offers whose carrier_accepted_at is set
          confirmed,    \* offers whose owner_confirmed_at is set
          lapsed,       \* <<incident, round>> whose deadline has passed
          escrow,       \* Offer -> state of the escrow it opened, or "NONE"
          latest,       \* Incident -> offer whose escrow was opened last
          truck,        \* Truck -> truck.status
          syncing,      \* <<incident, target>>: /advance has yet to sync
          settling,     \* <<offer, seen>>: /verify has yet to record
          crashes       \* restarts so far

vars == <<incident, assigned, offer, accepted, confirmed, lapsed, escrow, latest,
          truck, syncing, settling, crashes>>

handshake == <<accepted, confirmed, lapsed>>
tasks     == <<syncing, settling, crashes>>

TypeOK ==
  /\ incident \in [Incident -> IncidentState]
  /\ assigned \in [Incident -> Truck \cup {NoTruck}]
  /\ offer \in [Offer -> OfferState \cup {"ABSENT"}]
  /\ accepted \subseteq Offer
  /\ confirmed \subseteq Offer
  /\ lapsed \subseteq Incident \X (1 .. MaxRound)
  /\ escrow \in [Offer -> EscrowState \cup {"NONE"}]
  /\ latest \in [Incident -> Offer \cup {NoOffer}]
  /\ truck \in [Truck -> {"idle", "dispatched_rescue"}]
  /\ syncing \subseteq Incident \X SyncTargets
  /\ settling \subseteq Offer \X IncidentState
  /\ crashes \in 0 .. MaxCrash

Init ==
  /\ incident = [i \in Incident |-> "NORMAL"]
  /\ assigned = [i \in Incident |-> NoTruck]
  /\ offer = [o \in Offer |-> "ABSENT"]
  /\ accepted = {}
  /\ confirmed = {}
  /\ lapsed = {}
  /\ escrow = [o \in Offer |-> "NONE"]
  /\ latest = [i \in Incident |-> NoOffer]
  /\ truck = [t \in Truck |-> "idle"]
  /\ syncing = {}
  /\ settling = {}
  /\ crashes = 0

-----------------------------------------------------------------------------
(* The incident row.                                                        *)

\* create_incident.
ReportBreakdown(i) ==
  /\ incident[i] = "NORMAL"
  /\ incident' = [incident EXCEPT ![i] = "BREAKDOWN_REPORTED"]
  /\ UNCHANGED <<assigned, offer, handshake, escrow, latest, truck, tasks>>

\* POST /incidents/{id}/advance, first commit.  Every legal move is open to
\* the owner except RESCUE_ACCEPTED; the request's metadata is handed on, and
\* advance() assigns the truck it names.
Advance(i, new, named) ==
  /\ incident[i] # "NORMAL"
  /\ new \in ByHand \cap (Transitions[incident[i]] \ {"RESCUE_ACCEPTED"})
  /\ incident' = [incident EXCEPT ![i] = new]
  /\ assigned' = IF named = NoTruck THEN assigned ELSE [assigned EXCEPT ![i] = named]
  /\ syncing' = IF new \in DOMAIN IncidentToEscrow
                THEN syncing \cup {<<i, IncidentToEscrow[new]>>}
                ELSE syncing
  /\ UNCHANGED <<offer, handshake, escrow, latest, truck, settling, crashes>>

\* POST /incidents/{id}/advance, second commit: the incident's latest escrow
\* follows it (sync_escrow_to_incident).
SyncEscrow(i, target) ==
  /\ <<i, target>> \in syncing
  /\ syncing' = syncing \ {<<i, target>>}
  /\ escrow' = IF latest[i] = NoOffer
               THEN escrow
               ELSE [escrow EXCEPT ![latest[i]] = Follow(@, target)]
  /\ UNCHANGED <<incident, assigned, offer, handshake, latest, truck, settling, crashes>>

-----------------------------------------------------------------------------
(* Offers.                                                                  *)

Exists(o)  == offer[o] # "ABSENT"
Overdue(o) == <<IncidentOf(o), RoundOf(o)>> \in lapsed

\* The round after the last one that has offers.
OpenRounds(i) == {RoundOf(o) : o \in {p \in OffersOf(i) : Exists(p)}}
IsNextRound(i, r) ==
  /\ r \in 1 .. MaxRound
  /\ r - 1 \in {0} \cup OpenRounds(i)
  /\ r \notin OpenRounds(i)

\* fan_out_offers and create_offer_round: one offer for each chosen idle
\* truck, whatever the incident's state; a TRIAGING incident refuses the step
\* to RESCUE_OFFERED and the round is rolled back.
FanOut(i, trucks, r) ==
  /\ incident[i] # "NORMAL"
  /\ trucks # {}
  /\ \A t \in trucks : truck[t] = "idle"
  /\ IsNextRound(i, r)
  /\ incident[i] \in {"TRIAGING", "MATCHING"} =>
       "RESCUE_OFFERED" \in Transitions[incident[i]]
  /\ offer' = [o \in Offer |-> IF o \in {i} \X trucks \X {r}
                               THEN "PENDING" ELSE offer[o]]
  /\ incident' = IF incident[i] \in {"TRIAGING", "MATCHING"}
                 THEN [incident EXCEPT ![i] = "RESCUE_OFFERED"]
                 ELSE incident
  /\ UNCHANGED <<assigned, handshake, escrow, latest, truck, tasks>>

\* The clock passes a round's shared deadline.
Lapse(i, r) ==
  /\ r \in OpenRounds(i)
  /\ lapsed' = lapsed \cup {<<i, r>>}
  /\ UNCHANGED <<incident, assigned, offer, accepted, confirmed, escrow, latest,
                 truck, tasks>>

\* _expire_if_due followed by the EXPIRED check: the offer may be answered.
Answerable(o) ==
  /\ Exists(o)
  /\ offer[o] # "EXPIRED"
  /\ ~(offer[o] \in Live /\ Overdue(o))

\* Mutant of RecordYes: the first yes already assigns the truck.
RecordYesAndAssign(o, answered) ==
  /\ offer' = [offer EXCEPT ![o] = IF @ = "PENDING" THEN answered ELSE @]
  /\ assigned' = [assigned EXCEPT ![IncidentOf(o)] = TruckOf(o)]
  /\ UNCHANGED <<incident, escrow, latest, truck>>

\* A yes the other party has not matched: the first moves a PENDING offer.
RecordYes(o, answered) ==
  /\ offer' = [offer EXCEPT ![o] = IF @ = "PENDING" THEN answered ELSE @]
  /\ UNCHANGED <<incident, assigned, escrow, latest, truck>>

\* Mutant of Bind: the truck is left idle.
BindWithoutTruck(o) ==
  LET i == IncidentOf(o)
  IN  /\ offer[o] \in Live
      /\ MayAccept(incident[i])
      /\ offer' = [p \in Offer |->
                     IF p = o THEN "BOUND"
                     ELSE IF p \in OffersOf(i) /\ offer[p] \in Live THEN "SUPERSEDED"
                     ELSE offer[p]]
      /\ escrow' = [escrow EXCEPT ![o] = "ACCEPTED"]
      /\ latest' = [latest EXCEPT ![i] = o]
      /\ incident' = [incident EXCEPT ![i] = "RESCUE_ACCEPTED"]
      /\ assigned' = [assigned EXCEPT ![i] = TruckOf(o)]
      /\ UNCHANGED truck

\* _try_bind once both have agreed: the offer binds, its escrow opens with the
\* hold posted, the incident's other live offers are superseded, the truck is
\* dispatched and the incident moves, all in one commit.  A step the tables
\* refuse rolls everything back, the yes included.
Bind(o) ==
  LET i == IncidentOf(o)
  IN  /\ offer[o] \in Live
      /\ MayAccept(incident[i])
      /\ offer' = [p \in Offer |->
                     IF p = o THEN "BOUND"
                     ELSE IF p \in OffersOf(i) /\ offer[p] \in Live THEN "SUPERSEDED"
                     ELSE offer[p]]
      /\ escrow' = [escrow EXCEPT ![o] = "ACCEPTED"]
      /\ latest' = [latest EXCEPT ![i] = o]
      /\ truck' = [truck EXCEPT ![TruckOf(o)] = "dispatched_rescue"]
      /\ incident' = [incident EXCEPT ![i] = "RESCUE_ACCEPTED"]
      /\ assigned' = [assigned EXCEPT ![i] = TruckOf(o)]

\* carrier_accept.
CarrierAccept(o) ==
  /\ Answerable(o)
  /\ accepted' = accepted \cup {o}
  /\ IF o \in confirmed THEN Bind(o) ELSE RecordYes(o, "CARRIER_ACCEPTED")
  /\ UNCHANGED <<confirmed, lapsed, tasks>>

\* Mutant of ConfirmedElsewhere: a bound offer no longer counts.
ConfirmedLiveElsewhere(o) ==
  \E p \in OffersOf(IncidentOf(o)) \ {o} : p \in confirmed /\ offer[p] \in Live

\* Mutant of ConfirmedElsewhere: only a bound offer counts.
BoundElsewhere(o) ==
  \E p \in OffersOf(IncidentOf(o)) \ {o} : p \in confirmed /\ offer[p] = "BOUND"

\* The owner's yes is still standing on another offer of the incident.
ConfirmedElsewhere(o) ==
  \E p \in OffersOf(IncidentOf(o)) \ {o} :
    p \in confirmed /\ offer[p] \in Live \cup {"BOUND"}

\* Mutant of OwnerConfirm: an offer the carrier accepted first is not bound.
OwnerConfirmOnly(o) ==
  /\ Answerable(o)
  /\ o \notin confirmed => ~ConfirmedElsewhere(o)
  /\ confirmed' = confirmed \cup {o}
  /\ RecordYes(o, "OWNER_CONFIRMED")
  /\ UNCHANGED <<accepted, lapsed, tasks>>

\* Mutant of OwnerConfirm: the owner's yes binds the carrier by itself.
OwnerConfirmBinds(o) ==
  /\ Answerable(o)
  /\ o \notin confirmed => ~ConfirmedElsewhere(o)
  /\ confirmed' = confirmed \cup {o}
  /\ Bind(o)
  /\ UNCHANGED <<accepted, lapsed, tasks>>

\* owner_confirm.
OwnerConfirm(o) ==
  /\ Answerable(o)
  /\ o \notin confirmed => ~ConfirmedElsewhere(o)
  /\ confirmed' = confirmed \cup {o}
  /\ IF o \in accepted THEN Bind(o) ELSE RecordYes(o, "OWNER_CONFIRMED")
  /\ UNCHANGED <<accepted, lapsed, tasks>>

\* carrier_decline and owner_withdraw.
Refuse(o, how) ==
  /\ Answerable(o)
  /\ how \in OfferTransitions[offer[o]]
  /\ offer' = [offer EXCEPT ![o] = how]
  /\ UNCHANGED <<incident, assigned, handshake, escrow, latest, truck, tasks>>

CarrierDecline(o) == Refuse(o, "DECLINED")
OwnerWithdraw(o)  == Refuse(o, "WITHDRAWN")

\* Mutant of DueOffers: the sweep does not ask whether the offer is live.
AllOverdueOffers == {o \in Offer : Exists(o) /\ Overdue(o)}

\* expire_due_offers: one sweep takes every overdue live offer.
DueOffers == {o \in Offer : offer[o] \in Live /\ Overdue(o)}

ExpireDueOffers ==
  /\ DueOffers # {}
  /\ offer' = [o \in Offer |-> IF o \in DueOffers THEN "EXPIRED" ELSE offer[o]]
  /\ UNCHANGED <<incident, assigned, handshake, escrow, latest, truck, tasks>>

-----------------------------------------------------------------------------
(* Unwinding.                                                               *)

\* Mutant of CancelBoundOffer: the truck stays marked as dispatched.
CancelKeepingTruck(o) ==
  LET i == IncidentOf(o)
  IN  /\ offer[o] = "BOUND"
      /\ "CANCELLED" \in ValidTransitions[escrow[o]]
      /\ offer' = [offer EXCEPT ![o] = "CANCELLED"]
      /\ escrow' = [escrow EXCEPT ![o] = "CANCELLED"]
      /\ IF incident[i] \in Unwindable
         THEN /\ incident' = [incident EXCEPT ![i] = "MATCHING"]
              /\ assigned' = [assigned EXCEPT ![i] = NoTruck]
         ELSE UNCHANGED <<incident, assigned>>
      /\ UNCHANGED <<handshake, latest, truck, tasks>>

\* Mutant of CancelBoundOffer: a hold that cannot be reversed is ignored.
CancelAnyway(o) ==
  LET i == IncidentOf(o)
  IN  /\ offer[o] = "BOUND"
      /\ offer' = [offer EXCEPT ![o] = "CANCELLED"]
      /\ escrow' = [escrow EXCEPT
                      ![o] = IF "CANCELLED" \in ValidTransitions[@] THEN "CANCELLED" ELSE @]
      /\ truck' = [truck EXCEPT ![TruckOf(o)] = "idle"]
      /\ IF incident[i] \in Unwindable
         THEN /\ incident' = [incident EXCEPT ![i] = "MATCHING"]
              /\ assigned' = [assigned EXCEPT ![i] = NoTruck]
         ELSE UNCHANGED <<incident, assigned>>
      /\ UNCHANGED <<handshake, latest, tasks>>

\* cancel_bound_offer: refused as a whole when the escrow cannot be cancelled.
CancelBoundOffer(o) ==
  LET i == IncidentOf(o)
  IN  /\ offer[o] = "BOUND"
      /\ "CANCELLED" \in ValidTransitions[escrow[o]]
      /\ offer' = [offer EXCEPT ![o] = "CANCELLED"]
      /\ escrow' = [escrow EXCEPT ![o] = "CANCELLED"]
      /\ truck' = [truck EXCEPT ![TruckOf(o)] = "idle"]
      /\ IF incident[i] \in Unwindable
         THEN /\ incident' = [incident EXCEPT ![i] = "MATCHING"]
              /\ assigned' = [assigned EXCEPT ![i] = NoTruck]
         ELSE UNCHANGED <<incident, assigned>>
      /\ UNCHANGED <<handshake, latest, tasks>>

\* Mutant of StandDown: a bound offer is withdrawn like any other and its
\* escrow forgotten.
StandDownForgettingHold(i) ==
  LET open == {o \in OffersOf(i) : offer[o] \in Live \cup {"BOUND"}}
  IN  /\ incident[i] \in StandableDown
      /\ offer' = [o \in Offer |-> IF o \in open THEN "WITHDRAWN" ELSE offer[o]]
      /\ truck' = [t \in Truck |->
                     IF \E o \in open : TruckOf(o) = t THEN "idle" ELSE truck[t]]
      /\ incident' = [incident EXCEPT ![i] = "CANCELLED"]
      /\ assigned' = [assigned EXCEPT ![i] = NoTruck]
      /\ UNCHANGED <<handshake, escrow, latest, tasks>>

\* stand_down_incident: an escrow that cannot be reversed is left behind.
StandDown(i) ==
  LET bound == {o \in OffersOf(i) : offer[o] = "BOUND"}
  IN  /\ incident[i] \in StandableDown
      /\ offer' = [o \in Offer |->
                     IF o \in bound THEN "CANCELLED"
                     ELSE IF o \in OffersOf(i) /\ offer[o] \in Live THEN "WITHDRAWN"
                     ELSE offer[o]]
      /\ escrow' = [o \in Offer |->
                      IF o \in bound /\ "CANCELLED" \in ValidTransitions[escrow[o]]
                      THEN "CANCELLED" ELSE escrow[o]]
      /\ truck' = [t \in Truck |->
                     IF \E o \in bound : TruckOf(o) = t THEN "idle" ELSE truck[t]]
      /\ incident' = [incident EXCEPT ![i] = "CANCELLED"]
      /\ assigned' = [assigned EXCEPT ![i] = NoTruck]
      /\ UNCHANGED <<handshake, latest, tasks>>

-----------------------------------------------------------------------------
(* The escrow's own endpoints.                                              *)

\* POST /escrow/{id}/transition, by the owner.
TransitionEscrow(o, to) ==
  /\ escrow[o] # "NONE"
  /\ to \in ManualTargets \cap ValidTransitions[escrow[o]]
  /\ escrow' = [escrow EXCEPT ![o] = to]
  /\ UNCHANGED <<incident, assigned, offer, handshake, latest, truck, tasks>>

\* POST /escrow/{id}/verify, first commit; the incident was loaded before it.
Verify(o, outcome) ==
  /\ escrow[o] # "NONE"
  /\ outcome \in {"RELEASED", "DISPUTED"} \cap ValidTransitions[escrow[o]]
  /\ escrow' = [escrow EXCEPT ![o] = outcome]
  /\ settling' = settling \cup {<<o, incident[IncidentOf(o)]>>}
  /\ UNCHANGED <<incident, assigned, offer, handshake, latest, truck, syncing, crashes>>

Recorded(o) == IF escrow[o] = "RELEASED" THEN "ESCROW_RELEASED" ELSE "DISPUTED"

\* Mutant of Recordable: DELIVERED is not stepped through VERIFICATION.
RecordableAsIs(o, seen) == Recorded(o) \in Transitions[seen]

\* record_settlement_on_incident works on the incident as /verify loaded it,
\* stepping it through VERIFICATION when that is all that is missing.
Recordable(o, seen) ==
  \/ Recorded(o) \in Transitions[seen]
  \/ /\ "VERIFICATION" \in Transitions[seen]
     /\ Recorded(o) \in Transitions["VERIFICATION"]

RecordSettlement(o, seen) ==
  /\ <<o, seen>> \in settling
  /\ settling' = settling \ {<<o, seen>>}
  /\ incident' = IF Recordable(o, seen)
                 THEN [incident EXCEPT ![IncidentOf(o)] = Recorded(o)]
                 ELSE incident
  /\ UNCHANGED <<assigned, offer, handshake, escrow, latest, truck, syncing, crashes>>

\* The process restarts: whatever came after a commit is never done.
Crash ==
  /\ crashes < MaxCrash
  /\ syncing' = {}
  /\ settling' = {}
  /\ crashes' = crashes + 1
  /\ UNCHANGED <<incident, assigned, offer, handshake, escrow, latest, truck>>

-----------------------------------------------------------------------------
Next ==
  \/ \E i \in Incident : ReportBreakdown(i)
  \/ \E i \in Incident, new \in ByHand, named \in NamedTrucks \cup {NoTruck} :
       Advance(i, new, named)
  \/ \E i \in Incident, target \in SyncTargets : SyncEscrow(i, target)
  \/ \E i \in Incident, trucks \in SUBSET Truck, r \in 1 .. MaxRound :
       FanOut(i, trucks, r)
  \/ \E i \in Incident, r \in 1 .. MaxRound : Lapse(i, r)
  \/ \E o \in Offer : CarrierAccept(o)
  \/ \E o \in Offer : OwnerConfirm(o)
  \/ \E o \in Offer : CarrierDecline(o)
  \/ \E o \in Offer : OwnerWithdraw(o)
  \/ ExpireDueOffers
  \/ \E o \in Offer : CancelBoundOffer(o)
  \/ \E i \in Incident : StandDown(i)
  \/ \E o \in Offer, to \in ManualTargets : TransitionEscrow(o, to)
  \/ \E o \in Offer, outcome \in {"RELEASED", "DISPUTED"} : Verify(o, outcome)
  \/ \E o \in Offer, seen \in IncidentState : RecordSettlement(o, seen)
  \/ Crash

Spec == Init /\ [][Next]_vars

-----------------------------------------------------------------------------
(* Safety of the handshake.                                                 *)

\* At most one offer of an incident is bound, although rounds of offers may be
\* opened at any time, also on an incident that is already being rescued.
\* (Sequential requests never reach uq_offer_bound_per_incident.)
OneBoundOffer ==
  \A o, p \in Offer :
    /\ IncidentOf(o) = IncidentOf(p)
    /\ offer[o] = "BOUND"
    /\ offer[p] = "BOUND"
    => o = p

\* The owner cannot have said yes to two offers that are still in play
\* (uq_offer_owner_confirmed_per_incident is never reached either).
Standing(o) == o \in confirmed /\ offer[o] \in Live \cup {"BOUND"}

OneConfirmedOffer ==
  \A o, p \in Offer :
    IncidentOf(o) = IncidentOf(p) /\ Standing(o) /\ Standing(p) => o = p

\* _try_bind: the rescue is bound if and only if both parties have agreed.
\* An offer both said yes to is bound, or was until it was unwound; no live,
\* declined, expired or superseded offer carries both.
BoundIffBothAgreed ==
  \A o \in Offer :
    o \in accepted \cap confirmed <=> offer[o] \in {"BOUND", "CANCELLED"}

\* A truck is assigned only after its carrier and the owner agreed on it
\* (router.py: a single call from one party must never be able to assign
\* another company's truck to a job).
AssignedByBothParties ==
  \A i \in Incident :
    assigned[i] # NoTruck =>
      \E o \in OffersOf(i) :
        TruckOf(o) = assigned[i] /\ o \in accepted /\ o \in confirmed

\* No path around _transition -- supersession, the sweep, standing down --
\* moves an offer along an edge its table does not have.
OfferMovesAreLegal ==
  [][\A o \in Offer :
       offer'[o] # offer[o] =>
         IF offer[o] = "ABSENT" THEN offer'[o] = "PENDING"
         ELSE offer'[o] \in OfferTransitions[offer[o]]]_vars

\* The handshake implements the two-party agreement of Agreement.tla.
Pact == INSTANCE Agreement WITH
  carrierYes <- accepted,
  ownerYes   <- confirmed,
  bound      <- {o \in Offer : offer[o] = "BOUND"}

PactKept == Pact!Spec

-----------------------------------------------------------------------------
(* Safety of what a bound rescue commits.                                   *)

\* Money held before delivery belongs to a rescue that is still on: nothing
\* unwinds the rescue and forgets the hold.
HeldMoneyHasRescue ==
  \A o \in Offer : escrow[o] \in {"ACCEPTED", "IN_TRANSIT"} => offer[o] = "BOUND"

\* A truck marked dispatched is bound to some rescue, so no path that ends a
\* rescue leaves it dispatched for nothing.
DispatchedHasRescue ==
  \A t \in Truck :
    truck[t] = "dispatched_rescue" =>
      \E o \in Offer : TruckOf(o) = t /\ offer[o] = "BOUND"

-----------------------------------------------------------------------------
(* Claims of the repository the code does not keep.                         *)

\* dispatch.py:20: an incident that is CANCELLED, once its escrow has been
\* synced, has its hold reversed.
CancelledMeansReversed ==
  \A i \in Incident :
    /\ incident[i] = "CANCELLED"
    /\ latest[i] # NoOffer
    /\ \A target \in SyncTargets : <<i, target>> \notin syncing
    => escrow[latest[i]] = "CANCELLED"

\* dispatch.py:22 and 25-28: an incident says ESCROW_RELEASED only when its
\* escrow concluded so.
ReleasedOnlyByEscrow ==
  \A i \in Incident :
    incident[i] = "ESCROW_RELEASED" =>
      latest[i] # NoOffer /\ escrow[latest[i]] = "RELEASED"

\* offer_service.py:334-337: a rescue must not fail to bind because the
\* incident's state lagged behind its outstanding offers.
LaggingIncidentStillBinds ==
  \A o \in Offer :
    offer[o] \in Live /\ incident[IncidentOf(o)] \in {"TRIAGING", "MATCHING"}
      => MayAccept(incident[IncidentOf(o)])
=============================================================================
