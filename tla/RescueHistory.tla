---------------------------- MODULE RescueHistory ----------------------------
(***************************************************************************)
(* Rescue with history variables: what owners did by hand and what a        *)
(* restart dropped, which decides how far the promises of a rescue reach.   *)
(* The variables record and restrain nothing.                               *)
(***************************************************************************)
EXTENDS Rescue

VARIABLES named,       \* Incident -> truck /advance named since the last binding
          handedIn,    \* escrows the owner handed in for verification
          undercut,    \* bound offers whose truck another rescue's end set idle
          unsynced,    \* incidents whose sync a restart dropped
          unrecorded   \* offers whose verdict a restart kept from the incident

history == <<named, handedIn, undercut, unsynced, unrecorded>>

HistoryInit ==
  /\ Init
  /\ named = [i \in Incident |-> NoTruck]
  /\ handedIn = {}
  /\ undercut = {}
  /\ unsynced = {}
  /\ unrecorded = {}

IsNamed(i) == \E t \in NamedTrucks : Advance(i, incident'[i], t)
IsBound(i) == \E o \in OffersOf(i) : offer[o] # "BOUND" /\ offer'[o] = "BOUND"

\* While o is bound, another bound rescue by its truck ends.
IsUndercut(o) ==
  /\ offer[o] = "BOUND"
  /\ \E p \in Offer \ {o} :
       TruckOf(p) = TruckOf(o) /\ offer[p] = "BOUND" /\ offer'[p] = "CANCELLED"

HistoryNext ==
  /\ Next
  /\ named' = [i \in Incident |->
                 IF IsNamed(i) THEN assigned'[i]
                 ELSE IF IsBound(i) THEN NoTruck
                 ELSE named[i]]
  /\ handedIn' = handedIn \cup {o \in Offer : TransitionEscrow(o, "PENDING_VERIFICATION")}
  /\ undercut' = {o \in Offer : offer'[o] = "BOUND" /\ (o \in undercut \/ IsUndercut(o))}
  /\ unsynced' = unsynced \cup (IF Crash THEN {task[1] : task \in syncing} ELSE {})
  /\ unrecorded' = unrecorded \cup (IF Crash THEN {task[1] : task \in settling} ELSE {})

HistorySpec == HistoryInit /\ [][HistoryNext]_<<vars, history>>

\* A request whose first commit succeeded goes on to its second, unless the
\* process dies: nothing in the handler can stop it.
FairHistorySpec ==
  /\ HistorySpec
  /\ \A i \in Incident, target \in SyncTargets : WF_vars(SyncEscrow(i, target))
  /\ \A o \in Offer, seen \in IncidentState : WF_vars(RecordSettlement(o, seen))

-----------------------------------------------------------------------------
(* Safety.                                                                  *)

\* A rescue on its way is bound, and the incident's truck is the bound offer's --
\* whatever was cancelled, stood down or superseded before -- unless the owner has named
\* another in the metadata of /advance since, which hands any truck to the incident
\* unasked (router.py:288-305, orchestrator.py): then it is the one that was named last.
EnRouteIsBound ==
  \A i \in Incident :
    incident[i] \in {"RESCUE_ACCEPTED", "DRIVER_EN_ROUTE"} =>
      \E o \in OffersOf(i) :
        /\ offer[o] = "BOUND"
        /\ assigned[i] = IF named[i] = NoTruck THEN TruckOf(o) ELSE named[i]

\* A rescue that was unwound gave the owner's money back.  The one exception is an escrow
\* the owner had handed in for verification: cancel_bound_offer refuses such a rescue as a
\* whole, but standing the incident down unwinds it and only logs the money it could not
\* reverse (stand_down.py:118-127, against stand_down.py:18-21).
UnwoundMeansReturned ==
  \A o \in Offer :
    offer[o] = "CANCELLED" =>
      \/ escrow[o] = "CANCELLED"
      \/ o \in handedIn /\ incident[IncidentOf(o)] = "CANCELLED"

\* The truck of a bound rescue is marked as taken, so that no later round offers it again,
\* until a rescue that holds the same truck for another incident ends: _try_bind commits
\* a truck without reading its status, and the end of either rescue frees it.
BoundTruckIsTaken ==
  \A o \in Offer :
    offer[o] = "BOUND" => truck[TruckOf(o)] = "dispatched_rescue" \/ o \in undercut

-----------------------------------------------------------------------------
(* Liveness.                                                                *)

\* dispatch.py: a load marked delivered never leaves its carrier looking at funds stuck in
\* IN_TRANSIT, unless the process died between the incident's commit and the escrow's.
DeliveryReachesEscrow ==
  \A o \in Offer :
    (incident[IncidentOf(o)] = "DELIVERED" /\ latest[IncidentOf(o)] = o)
      ~> (escrow[o] \notin {"ACCEPTED", "IN_TRANSIT"} \/ IncidentOf(o) \in unsynced)

\* escrow_ledger/app/router.py:219-225: once the ledger has released or disputed the money
\* of a delivered load, the incident ends up saying just that -- a release as
\* ESCROW_RELEASED, a dispute as DISPUTED, also where the owner advanced it by hand in
\* between -- rather than sitting at VERIFICATION forever; unless the process died between
\* the two commits, or the owner had the escrow judged before the load was delivered.
SettlementReachesIncident ==
  \A o \in Offer :
    (/\ escrow[o] \in {"RELEASED", "DISPUTED"}
     /\ incident[IncidentOf(o)] \in {"DELIVERED", "VERIFICATION"}
     /\ o \notin handedIn)
      ~> (incident[IncidentOf(o)] = Recorded(o) \/ o \in unrecorded)
=============================================================================
