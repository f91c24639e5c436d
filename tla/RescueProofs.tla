---------------------------- MODULE RescueProofs ----------------------------
(***************************************************************************)
(* Theorems about Rescue for every set of incidents and trucks, every       *)
(* number of rounds and restarts, and whatever owners may ask for by hand.  *)
(* None of them has a hypothesis: where what an owner did, or the end of    *)
(* another rescue, makes an exception, RescueHistory says which.            *)
(***************************************************************************)
EXTENDS RescueHistory, TLAPS

-----------------------------------------------------------------------------
(* The walk of EscrowStates.                                                *)

\* The moves a request can have decided to write.
LegalWrite ==
  {<<"ACCEPTED", "IN_TRANSIT">>, <<"ACCEPTED", "PENDING_VERIFICATION">>,
   <<"ACCEPTED", "CANCELLED">>, <<"IN_TRANSIT", "PENDING_VERIFICATION">>,
   <<"IN_TRANSIT", "CANCELLED">>, <<"PENDING_VERIFICATION", "RELEASED">>,
   <<"PENDING_VERIFICATION", "DISPUTED">>}

\* The walk of sync_escrow_to_incident ends in an escrow state.
LEMMA FollowType ==
  ASSUME NEW st \in EscrowState, NEW target \in SyncTargets
  PROVE  Follow(st, target) \in EscrowState
BY DEF EscrowState, SyncTargets, Follow, WalkForward, StepTowards

\* What the walk changes on an open escrow is a legal write.
LEMMA FollowIsLegal ==
  ASSUME NEW st \in EscrowState \ {"INITIATED"}, NEW target \in SyncTargets,
         Follow(st, target) # st
  PROVE  <<st, Follow(st, target)>> \in LegalWrite
<1>1. CASE target = "IN_TRANSIT"
  BY <1>1 DEF EscrowState, Follow, WalkForward, StepTowards, Order,
              ValidTransitions, LegalWrite
<1>2. CASE target = "PENDING_VERIFICATION"
  BY <1>2 DEF EscrowState, Follow, WalkForward, StepTowards, Order,
              ValidTransitions, LegalWrite
<1>3. CASE target = "CANCELLED"
  BY <1>3 DEF EscrowState, Follow, WalkForward, StepTowards, Order,
              ValidTransitions, LegalWrite
<1> QED BY <1>1, <1>2, <1>3 DEF SyncTargets

\* The walk never takes money into custody: where it ends in a state that
\* holds it for a rescue under way, it started in one.
LEMMA FollowTakesNothing ==
  ASSUME NEW st \in EscrowState \ {"INITIATED"}, NEW target \in SyncTargets,
         Follow(st, target) \in {"ACCEPTED", "IN_TRANSIT"}
  PROVE  st \in {"ACCEPTED", "IN_TRANSIT"}
BY FollowIsLegal DEF LegalWrite, EscrowState

-----------------------------------------------------------------------------
(* Offers as tuples: what the proofs use of them.                           *)

\* The parts of an offer have their types.
LEMMA OfferParts ==
  ASSUME NEW o \in Offer
  PROVE  /\ IncidentOf(o) \in Incident
         /\ TruckOf(o) \in Truck
         /\ RoundOf(o) \in 1 .. MaxRound
BY DEF Offer, IncidentOf, TruckOf, RoundOf

\* The offers of a round belong to its incident, its trucks and that round.
LEMMA RoundParts ==
  ASSUME NEW i \in Incident, NEW trucks \in SUBSET Truck, NEW r \in 1 .. MaxRound,
         NEW o \in {i} \X trucks \X {r}
  PROVE  o \in Offer /\ IncidentOf(o) = i /\ TruckOf(o) \in trucks /\ RoundOf(o) = r
BY DEF Offer, IncidentOf, TruckOf, RoundOf

\* A round is opened over offers that do not exist yet.
LEMMA RoundIsNew ==
  ASSUME NEW i \in Incident, NEW trucks \in SUBSET Truck, NEW r \in 1 .. MaxRound,
         IsNextRound(i, r), NEW o \in {i} \X trucks \X {r}
  PROVE  offer[o] = "ABSENT"
BY RoundParts DEF IsNextRound, OpenRounds, OffersOf, Exists

\* An escrow target an incident asks for is one the walk knows.
LEMMA SyncTargetType ==
  ASSUME NEW s \in DOMAIN IncidentToEscrow
  PROVE  IncidentToEscrow[s] \in SyncTargets
BY DEF IncidentToEscrow, SyncTargets

\* Only a live offer can be declined or withdrawn.
LEMMA OnlyLiveEnd ==
  ASSUME NEW s \in OfferState, NEW how \in {"DECLINED", "WITHDRAWN"},
         how \in OfferTransitions[s]
  PROVE  s \in Live
BY DEF OfferState, OfferTransitions, Live, EndOfAnOffer

-----------------------------------------------------------------------------
(* Type correctness.                                                        *)

\* An escrow is opened together with its hold, and the one an incident follows
\* has been opened; so the walk always starts from a state it knows.
EscrowsOpen ==
  /\ \A o \in Offer : escrow[o] # "INITIATED"
  /\ \A i \in Incident : latest[i] # NoOffer => escrow[latest[i]] # "NONE"

TypeInv == TypeOK /\ EscrowsOpen

\* A binding writes values of the right types.
LEMMA BindType ==
  ASSUME TypeInv, NEW o \in Offer, Bind(o), UNCHANGED tasks,
         accepted' \subseteq Offer, confirmed' \subseteq Offer, lapsed' = lapsed
  PROVE  TypeInv'
<1>1. IncidentOf(o) \in Incident /\ TruckOf(o) \in Truck
  BY OfferParts
<1>2. TypeOK'
  BY <1>1 DEF Bind, TypeInv, TypeOK, OfferState, IncidentState, EscrowState, tasks
<1>3. EscrowsOpen'
  BY <1>1 DEF Bind, TypeInv, TypeOK, EscrowsOpen
<1> QED BY <1>2, <1>3 DEF TypeInv

\* So does a yes that stays unmatched.
LEMMA RecordYesType ==
  ASSUME TypeInv, NEW o \in Offer, NEW answered \in OfferState,
         RecordYes(o, answered), UNCHANGED tasks,
         accepted' \subseteq Offer, confirmed' \subseteq Offer, lapsed' = lapsed
  PROVE  TypeInv'
BY DEF RecordYes, TypeInv, TypeOK, EscrowsOpen, tasks

\* An open escrow that is moved along its table stays open.
LEMMA EscrowMoveType ==
  ASSUME TypeInv, NEW o \in Offer, NEW to \in EscrowState \ {"INITIATED"},
         escrow' = [escrow EXCEPT ![o] = to], latest' = latest
  PROVE  escrow' \in [Offer -> EscrowState \cup {"NONE"}] /\ EscrowsOpen'
BY DEF TypeInv, TypeOK, EscrowsOpen, EscrowState

\* No edge of the table leads back to INITIATED.
LEMMA NoWayBack ==
  ASSUME NEW st \in EscrowState
  PROVE  "INITIATED" \notin ValidTransitions[st]
BY DEF EscrowState, ValidTransitions

\* Rows, deadlines and pending second commits keep their types.
LEMMA TypeStep == TypeInv /\ [Next]_vars => TypeInv'
<1> SUFFICES ASSUME TypeInv, [Next]_vars
             PROVE  TypeInv'
  OBVIOUS
<1> USE DEF TypeInv
<1>1. CASE UNCHANGED vars
  BY <1>1 DEF vars, TypeOK, EscrowsOpen
<1>2. ASSUME NEW i \in Incident, ReportBreakdown(i)
      PROVE  TypeInv'
  BY <1>2 DEF ReportBreakdown, TypeOK, EscrowsOpen, IncidentState, handshake, tasks
<1>3. ASSUME NEW i \in Incident, NEW new \in ByHand,
             NEW t \in NamedTrucks \cup {NoTruck}, Advance(i, new, t)
      PROVE  TypeInv'
  <2>1. incident' \in [Incident -> IncidentState]
    BY <1>3, RescueAssumption DEF Advance, TypeOK
  <2>2. assigned' \in [Incident -> Truck \cup {NoTruck}]
    BY <1>3, RescueAssumption DEF Advance, TypeOK
  <2>3. syncing' \subseteq Incident \X SyncTargets
    BY <1>3, SyncTargetType DEF Advance, TypeOK
  <2> QED BY <1>3, <2>1, <2>2, <2>3 DEF Advance, TypeOK, EscrowsOpen, handshake
<1>4. ASSUME NEW i \in Incident, NEW target \in SyncTargets, SyncEscrow(i, target)
      PROVE  TypeInv'
  <2>1. CASE latest[i] = NoOffer
    BY <1>4, <2>1 DEF SyncEscrow, TypeOK, EscrowsOpen, handshake
  <2>2. CASE latest[i] # NoOffer
    <3> DEFINE o  == latest[i]
               to == Follow(escrow[o], target)
    <3>1. o \in Offer /\ escrow[o] \in EscrowState \ {"INITIATED"}
      BY <2>2 DEF TypeOK, EscrowsOpen
    <3>2. to \in EscrowState \ {"INITIATED"}
      <4>1. to \in EscrowState
        BY <3>1, FollowType
      <4>2. to # escrow[o] => to # "INITIATED"
        BY <3>1, FollowIsLegal DEF LegalWrite
      <4> QED BY <3>1, <4>1, <4>2
    <3>3. escrow' = [escrow EXCEPT ![o] = to] /\ latest' = latest
      BY <1>4, <2>2 DEF SyncEscrow
    <3> HIDE DEF o, to
    <3>4. escrow' \in [Offer -> EscrowState \cup {"NONE"}] /\ EscrowsOpen'
      BY <3>1, <3>2, <3>3, EscrowMoveType
    <3> QED BY <1>4, <3>4 DEF SyncEscrow, TypeOK, handshake
  <2> QED BY <2>1, <2>2
<1>5. ASSUME NEW i \in Incident, NEW trucks \in SUBSET Truck, NEW r \in 1 .. MaxRound,
             FanOut(i, trucks, r)
      PROVE  TypeInv'
  BY <1>5 DEF FanOut, TypeOK, EscrowsOpen, OfferState, IncidentState, handshake, tasks
<1>6. ASSUME NEW i \in Incident, NEW r \in 1 .. MaxRound, Lapse(i, r)
      PROVE  TypeInv'
  BY <1>6 DEF Lapse, TypeOK, EscrowsOpen, tasks
<1>7. ASSUME NEW o \in Offer, CarrierAccept(o)
      PROVE  TypeInv'
  <2>1. /\ accepted' \subseteq Offer /\ confirmed' \subseteq Offer
        /\ lapsed' = lapsed /\ UNCHANGED tasks
    BY <1>7 DEF CarrierAccept, TypeOK
  <2>2. CASE o \in confirmed
    BY <1>7, <2>1, <2>2, BindType DEF CarrierAccept
  <2>3. CASE o \notin confirmed
    BY <1>7, <2>1, <2>3, RecordYesType DEF CarrierAccept, OfferState
  <2> QED BY <2>2, <2>3
<1>8. ASSUME NEW o \in Offer, OwnerConfirm(o)
      PROVE  TypeInv'
  <2>1. /\ accepted' \subseteq Offer /\ confirmed' \subseteq Offer
        /\ lapsed' = lapsed /\ UNCHANGED tasks
    BY <1>8 DEF OwnerConfirm, TypeOK
  <2>2. CASE o \in accepted
    BY <1>8, <2>1, <2>2, BindType DEF OwnerConfirm
  <2>3. CASE o \notin accepted
    BY <1>8, <2>1, <2>3, RecordYesType DEF OwnerConfirm, OfferState
  <2> QED BY <2>2, <2>3
<1>9. ASSUME NEW o \in Offer, NEW how \in {"DECLINED", "WITHDRAWN"}, Refuse(o, how)
      PROVE  TypeInv'
  BY <1>9 DEF Refuse, TypeOK, EscrowsOpen, OfferState, handshake, tasks
<1>10. CASE ExpireDueOffers
  BY <1>10 DEF ExpireDueOffers, TypeOK, EscrowsOpen, OfferState, handshake, tasks
<1>11. ASSUME NEW o \in Offer, CancelBoundOffer(o)
       PROVE  TypeInv'
  <2>1. IncidentOf(o) \in Incident
    BY OfferParts
  <2>2. escrow' \in [Offer -> EscrowState \cup {"NONE"}] /\ EscrowsOpen'
    BY <1>11, EscrowMoveType DEF CancelBoundOffer, EscrowState
  <2>3. incident' \in [Incident -> IncidentState]
    BY <1>11, <2>1 DEF CancelBoundOffer, TypeOK, IncidentState
  <2>4. assigned' \in [Incident -> Truck \cup {NoTruck}]
    BY <1>11, <2>1 DEF CancelBoundOffer, TypeOK
  <2> QED BY <1>11, <2>2, <2>3, <2>4
          DEF CancelBoundOffer, TypeOK, OfferState, handshake, tasks
<1>12. ASSUME NEW i \in Incident, StandDown(i)
       PROVE  TypeInv'
  <2>1. escrow' \in [Offer -> EscrowState \cup {"NONE"}] /\ EscrowsOpen'
    BY <1>12 DEF StandDown, TypeOK, EscrowsOpen, EscrowState
  <2>2. offer' \in [Offer -> OfferState \cup {"ABSENT"}]
    BY <1>12 DEF StandDown, TypeOK, OfferState
  <2> QED BY <1>12, <2>1, <2>2
          DEF StandDown, TypeOK, IncidentState, handshake, tasks
<1>13. ASSUME NEW o \in Offer, NEW to \in ManualTargets, TransitionEscrow(o, to)
       PROVE  TypeInv'
  <2>1. escrow[o] \in EscrowState
    BY <1>13 DEF TransitionEscrow, TypeOK
  <2>2. to \in EscrowState \ {"INITIATED"}
    BY <1>13, <2>1, NoWayBack, RescueAssumption DEF TransitionEscrow, OwnerMayRequest
  <2>3. escrow' \in [Offer -> EscrowState \cup {"NONE"}] /\ EscrowsOpen'
    BY <1>13, <2>2, EscrowMoveType DEF TransitionEscrow
  <2> QED BY <1>13, <2>3 DEF TransitionEscrow, TypeOK, handshake, tasks
<1>14. ASSUME NEW o \in Offer, NEW outcome \in {"RELEASED", "DISPUTED"},
              Verify(o, outcome)
       PROVE  TypeInv'
  <2>1. escrow' \in [Offer -> EscrowState \cup {"NONE"}] /\ EscrowsOpen'
    BY <1>14, EscrowMoveType DEF Verify, EscrowState
  <2>2. incident[IncidentOf(o)] \in IncidentState
    BY OfferParts DEF TypeOK
  <2> QED BY <1>14, <2>1, <2>2 DEF Verify, TypeOK, handshake
<1>15. ASSUME NEW o \in Offer, NEW seen \in IncidentState, RecordSettlement(o, seen)
       PROVE  TypeInv'
  BY <1>15 DEF RecordSettlement, Recorded, TypeOK, EscrowsOpen, IncidentState, handshake
<1>16. CASE Crash
  BY <1>16, RescueAssumption DEF Crash, TypeOK, EscrowsOpen, handshake
<1> QED BY <1>1, <1>2, <1>3, <1>4, <1>5, <1>6, <1>7, <1>8, <1>9, <1>10, <1>11,
           <1>12, <1>13, <1>14, <1>15, <1>16
        DEF Next, CarrierDecline, OwnerWithdraw

\* At the start there is nothing but idle trucks.
LEMMA TypeInit == Init => TypeInv
BY RescueAssumption DEF Init, TypeInv, TypeOK, EscrowsOpen, IncidentState

\* Type correctness, with what it rests on.
LEMMA TypeInvariant == Spec => []TypeInv
BY TypeInit, TypeStep, PTL DEF Spec

\* Whatever order the requests, deadlines and restarts come in, every row,
\* deadline and pending second commit has a value its column may hold.
THEOREM TypeCorrect == Spec => []TypeOK
BY TypeInvariant, PTL DEF TypeInv

-----------------------------------------------------------------------------
(* The handshake.                                                           *)

\* Nobody answers an offer that was never made.
AnsweredExists == \A o \in Offer : o \in accepted \cup confirmed => offer[o] # "ABSENT"

\* The inductive invariant: with it, the three promises of the handshake hold
\* each other up.  That a second offer is never bound needs that the owner's
\* standing yes is unique, which needs that a bound offer carries that yes.
HandshakeInv == AnsweredExists /\ BoundIffBothAgreed /\ OneConfirmedOffer

\* The moves of an offer that answer nothing: it is made, it ends, it unwinds.
Unanswered(o) ==
  \/ offer'[o] = offer[o]
  \/ offer[o] = "ABSENT" /\ offer'[o] = "PENDING"
  \/ offer[o] \in Live /\ offer'[o] \in EndOfAnOffer
  \/ offer[o] = "BOUND" /\ offer'[o] = "CANCELLED"

\* Every step either answers nothing or is one of the two answers.
LEMMA StepKinds ==
  ASSUME TypeOK, [Next]_vars
  PROVE  \/ /\ accepted' = accepted /\ confirmed' = confirmed
            /\ \A o \in Offer : Unanswered(o)
         \/ \E o \in Offer : CarrierAccept(o) \/ OwnerConfirm(o)
<1> DEFINE Quiet == /\ accepted' = accepted /\ confirmed' = confirmed
                    /\ \A o \in Offer : Unanswered(o)
<1>1. ASSUME accepted' = accepted, confirmed' = confirmed, offer' = offer
      PROVE  Quiet
  BY <1>1 DEF Unanswered
<1>2. ASSUME NEW i \in Incident, NEW trucks \in SUBSET Truck, NEW r \in 1 .. MaxRound,
             FanOut(i, trucks, r)
      PROVE  Quiet
  BY <1>2, RoundIsNew DEF FanOut, Unanswered, handshake
<1>3. ASSUME NEW o \in Offer, NEW how \in {"DECLINED", "WITHDRAWN"}, Refuse(o, how)
      PROVE  Quiet
  <2>1. offer[o] \in Live
    BY <1>3, OnlyLiveEnd DEF Refuse, Answerable, Exists, TypeOK
  <2> QED BY <1>3, <2>1 DEF Refuse, Unanswered, EndOfAnOffer, TypeOK, handshake
<1>4. CASE ExpireDueOffers
  BY <1>4 DEF ExpireDueOffers, DueOffers, Unanswered, EndOfAnOffer, handshake
<1>5. ASSUME NEW o \in Offer, CancelBoundOffer(o)
      PROVE  Quiet
  BY <1>5 DEF CancelBoundOffer, Unanswered, TypeOK, handshake
<1>6. ASSUME NEW i \in Incident, StandDown(i)
      PROVE  Quiet
  BY <1>6 DEF StandDown, Unanswered, EndOfAnOffer, handshake
<1> QED BY <1>1, <1>2, <1>3, <1>4, <1>5, <1>6
        DEF Next, vars, handshake, CarrierDecline, OwnerWithdraw, ReportBreakdown,
            Advance, SyncEscrow, Lapse, TransitionEscrow, Verify, RecordSettlement, Crash

\* Such moves disturb no promise.
LEMMA UnansweredKeeps ==
  ASSUME HandshakeInv, accepted' = accepted, confirmed' = confirmed,
         \A o \in Offer : Unanswered(o)
  PROVE  HandshakeInv'
<1> USE DEF HandshakeInv
<1>1. AnsweredExists'
  BY DEF AnsweredExists, Unanswered, Live, EndOfAnOffer
<1>2. BoundIffBothAgreed'
  BY DEF BoundIffBothAgreed, AnsweredExists, Unanswered, Live, EndOfAnOffer
<1>3. \A o \in Offer : Standing(o)' => Standing(o)
  BY DEF Standing, AnsweredExists, Unanswered, Live, EndOfAnOffer
<1>4. OneConfirmedOffer'
  BY <1>3 DEF OneConfirmedOffer
<1> QED BY <1>1, <1>2, <1>4

\* A yes the other party has not given binds nothing and, where it is the
\* owner's, is given where no other yes of the owner stands.
LEMMA RecordYesKeeps ==
  ASSUME TypeOK, HandshakeInv, NEW o \in Offer, Answerable(o),
         NEW answered \in Live, RecordYes(o, answered),
         accepted' \subseteq accepted \cup {o}, accepted \subseteq accepted',
         confirmed' \subseteq confirmed \cup {o}, confirmed \subseteq confirmed',
         o \notin accepted' \cap confirmed',
         o \in confirmed' \ confirmed => ~ConfirmedElsewhere(o)
  PROVE  HandshakeInv'
<1> USE DEF HandshakeInv
<1>1. offer' = [offer EXCEPT ![o] = IF @ = "PENDING" THEN answered ELSE @]
  BY DEF RecordYes
<1>2. AnsweredExists'
  BY <1>1 DEF AnsweredExists, Answerable, Exists, Live, TypeOK
<1>3. BoundIffBothAgreed'
  BY <1>1 DEF BoundIffBothAgreed, Live, TypeOK
<1>4. \A p \in Offer \ {o} : Standing(p)' => Standing(p)
  BY <1>1 DEF Standing, TypeOK
<1>5. Standing(o)' => o \in confirmed' /\ (o \in confirmed => Standing(o))
  BY <1>1 DEF Standing, Live, TypeOK
<1>6. ASSUME NEW p \in Offer \ {o}, IncidentOf(p) = IncidentOf(o),
             Standing(p)', Standing(o)'
      PROVE  FALSE
  <2>1. Standing(p)
    BY <1>4, <1>6
  <2>2. CASE o \in confirmed
    BY <1>5, <1>6, <2>1, <2>2 DEF OneConfirmedOffer
  <2>3. CASE o \notin confirmed
    BY <1>5, <1>6, <2>1, <2>3 DEF ConfirmedElsewhere, OffersOf, Standing
  <2> QED BY <2>2, <2>3
<1>7. OneConfirmedOffer'
  BY <1>4, <1>6 DEF OneConfirmedOffer
<1> QED BY <1>2, <1>3, <1>7

\* What a binding changes: the offer binds, its live competitors end.
LEMMA BindMoves ==
  ASSUME TypeOK, NEW o \in Offer, Bind(o)
  PROVE  /\ offer[o] \in Live
         /\ offer'[o] = "BOUND"
         /\ \A p \in Offer \ {o} :
              \/ offer'[p] = offer[p]
              \/ offer[p] \in Live /\ offer'[p] = "SUPERSEDED"
BY DEF Bind, TypeOK

\* The matching yes binds, and keeps every promise, where the owner's yes
\* stands nowhere else.
LEMMA BindKeeps ==
  ASSUME TypeOK, HandshakeInv, NEW o \in Offer, Bind(o),
         accepted' = accepted \cup {o}, confirmed' = confirmed \cup {o},
         \A p \in Offer \ {o} : IncidentOf(p) = IncidentOf(o) => ~Standing(p)
  PROVE  HandshakeInv'
<1> USE DEF HandshakeInv
<1>1. AnsweredExists'
  BY BindMoves DEF AnsweredExists, Live
<1>2. BoundIffBothAgreed'
  BY BindMoves DEF BoundIffBothAgreed, Live
<1>3. \A p \in Offer \ {o} : Standing(p)' => Standing(p)
  BY BindMoves DEF Standing, Live
<1>4. OneConfirmedOffer'
  BY <1>3 DEF OneConfirmedOffer
<1> QED BY <1>1, <1>2, <1>4

\* When the carrier's yes matches the owner's, the owner's is the only one.
LEMMA CarrierMatches ==
  ASSUME HandshakeInv, NEW o \in Offer, o \in confirmed, offer[o] \in Live
  PROVE  \A p \in Offer \ {o} : IncidentOf(p) = IncidentOf(o) => ~Standing(p)
BY DEF HandshakeInv, OneConfirmedOffer, Standing

\* When the owner's yes matches the carrier's, it was not given before.
LEMMA OwnerMatches ==
  ASSUME HandshakeInv, NEW o \in Offer, OwnerConfirm(o), o \in accepted,
         offer[o] \in Live
  PROVE  \A p \in Offer \ {o} : IncidentOf(p) = IncidentOf(o) => ~Standing(p)
<1>1. o \notin confirmed
  BY DEF HandshakeInv, BoundIffBothAgreed, Live
<1> QED BY <1>1 DEF OwnerConfirm, ConfirmedElsewhere, OffersOf, Standing

\* Every step keeps the invariant.
LEMMA HandshakeStep == TypeOK /\ HandshakeInv /\ [Next]_vars => HandshakeInv'
<1> SUFFICES ASSUME TypeOK, HandshakeInv, [Next]_vars
             PROVE  HandshakeInv'
  OBVIOUS
<1>1. ASSUME NEW o \in Offer, CarrierAccept(o)
      PROVE  HandshakeInv'
  <2>1. accepted' = accepted \cup {o} /\ confirmed' = confirmed
    BY <1>1 DEF CarrierAccept
  <2>2. CASE o \in confirmed
    <3>1. Bind(o) /\ offer[o] \in Live /\ confirmed' = confirmed \cup {o}
      BY <1>1, <2>1, <2>2, BindMoves DEF CarrierAccept
    <3> QED BY <2>1, <2>2, <3>1, CarrierMatches, BindKeeps
  <2>3. CASE o \notin confirmed
    <3>1. RecordYes(o, "CARRIER_ACCEPTED") /\ Answerable(o)
      BY <1>1, <2>3 DEF CarrierAccept
    <3> QED BY <2>1, <2>3, <3>1, RecordYesKeeps DEF Live
  <2> QED BY <2>2, <2>3
<1>2. ASSUME NEW o \in Offer, OwnerConfirm(o)
      PROVE  HandshakeInv'
  <2>1. accepted' = accepted /\ confirmed' = confirmed \cup {o}
    BY <1>2 DEF OwnerConfirm
  <2>2. CASE o \in accepted
    <3>1. Bind(o) /\ offer[o] \in Live /\ accepted' = accepted \cup {o}
      BY <1>2, <2>1, <2>2, BindMoves DEF OwnerConfirm
    <3> QED BY <1>2, <2>1, <2>2, <3>1, OwnerMatches, BindKeeps
  <2>3. CASE o \notin accepted
    <3>1. /\ RecordYes(o, "OWNER_CONFIRMED") /\ Answerable(o)
          /\ o \notin confirmed => ~ConfirmedElsewhere(o)
      BY <1>2, <2>3 DEF OwnerConfirm
    <3> QED BY <2>1, <2>3, <3>1, RecordYesKeeps DEF Live
  <2> QED BY <2>2, <2>3
<1>3. CASE /\ accepted' = accepted /\ confirmed' = confirmed
           /\ \A o \in Offer : Unanswered(o)
  BY <1>3, UnansweredKeeps
<1> QED BY <1>1, <1>2, <1>3, StepKinds

\* At the start nobody has said yes to anything.
LEMMA HandshakeInit == Init => HandshakeInv
BY DEF Init, HandshakeInv, AnsweredExists, BoundIffBothAgreed, OneConfirmedOffer, Standing

\* The invariant holds throughout.
LEMMA HandshakeHolds == Spec => []HandshakeInv
BY HandshakeInit, HandshakeStep, TypeCorrect, PTL DEF Spec

\* A rescue is bound exactly when both parties have agreed to it, whatever is
\* declined, superseded, swept or stood down around it (_try_bind).
THEOREM BoundMeansBothAgreed == Spec => []BoundIffBothAgreed
BY HandshakeHolds, PTL DEF HandshakeInv

\* The owner's yes stands on one offer of an incident at most, so the index
\* uq_offer_owner_confirmed_per_incident is never what stops a request.
THEOREM OwnerConfirmsOnce == Spec => []OneConfirmedOffer
BY HandshakeHolds, PTL DEF HandshakeInv

\* An incident has at most one bound offer, however many rounds are opened.
THEOREM AtMostOneBound == Spec => []OneBoundOffer
<1>1. HandshakeInv => OneBoundOffer
  BY DEF HandshakeInv, BoundIffBothAgreed, OneConfirmedOffer, OneBoundOffer, Standing
<1> QED BY <1>1, HandshakeHolds, PTL

-----------------------------------------------------------------------------
(* The handshake implements the agreement.                                  *)

Bound == {o \in Offer : offer[o] = "BOUND"}

\* The matching yes is the step that closes the agreement.
LEMMA BindCloses ==
  ASSUME TypeOK, HandshakeInv, NEW o \in Offer, Bind(o),
         accepted' = accepted \cup {o}, confirmed' = confirmed \cup {o},
         o \in accepted \cup confirmed,
         \A p \in Offer \ {o} : IncidentOf(p) = IncidentOf(o) => ~Standing(p)
  PROVE  Pact!Close(o)
<1>1. o \notin accepted \cap confirmed
  BY BindMoves DEF HandshakeInv, BoundIffBothAgreed, Live
<1>2. \A p \in Bound : IncidentOf(p) # IncidentOf(o)
  BY BindMoves DEF HandshakeInv, BoundIffBothAgreed, Bound, Standing, Live
<1>3. Bound' = Bound \cup {o}
  BY BindMoves DEF Bound, Live
<1> QED BY <1>1, <1>2, <1>3 DEF Pact!Close, Bound

\* A yes the other party has not given leaves everything else as it was.
LEMMA RecordYesBindsNothing ==
  ASSUME TypeOK, NEW o \in Offer, NEW answered \in Live, RecordYes(o, answered)
  PROVE  Bound' = Bound
BY DEF RecordYes, Bound, TypeOK, Live

\* Where an offer only ends, no agreement is made and none falls through.
LEMMA NothingBoundNothingLost ==
  ASSUME \A o \in Offer : \/ offer'[o] = offer[o]
                          \/ offer[o] # "BOUND" /\ offer'[o] # "BOUND"
  PROVE  Bound' = Bound
BY DEF Bound

\* Each request is a step of the agreement, or no step of it at all.
LEMMA PactStep ==
  TypeOK /\ HandshakeInv /\ OneBoundOffer /\ [Next]_vars
    => [Pact!Next]_<<accepted, confirmed, Bound>>
<1> SUFFICES ASSUME TypeOK, HandshakeInv, OneBoundOffer, [Next]_vars
             PROVE  Pact!Next \/ UNCHANGED <<accepted, confirmed, Bound>>
  OBVIOUS
<1>1. ASSUME NEW o \in Offer, CarrierAccept(o)
      PROVE  Pact!Next
  <2>1. accepted' = accepted \cup {o} /\ confirmed' = confirmed
    BY <1>1 DEF CarrierAccept
  <2>2. CASE o \in confirmed
    <3>1. Bind(o) /\ offer[o] \in Live /\ confirmed' = confirmed \cup {o}
      BY <1>1, <2>1, <2>2, BindMoves DEF CarrierAccept
    <3>2. Pact!Close(o)
      BY <2>1, <2>2, <3>1, CarrierMatches, BindCloses
    <3> QED BY <3>2 DEF Pact!Next
  <2>3. CASE o \notin confirmed
    <3>1. Bound' = Bound
      BY <1>1, <2>3, RecordYesBindsNothing DEF CarrierAccept, Live
    <3>2. Pact!CarrierSaysYes(o)
      BY <2>1, <2>3, <3>1 DEF Pact!CarrierSaysYes, Bound
    <3> QED BY <3>2 DEF Pact!Next
  <2> QED BY <2>2, <2>3
<1>2. ASSUME NEW o \in Offer, OwnerConfirm(o)
      PROVE  Pact!Next
  <2>1. accepted' = accepted /\ confirmed' = confirmed \cup {o}
    BY <1>2 DEF OwnerConfirm
  <2>2. CASE o \in accepted
    <3>1. Bind(o) /\ offer[o] \in Live /\ accepted' = accepted \cup {o}
      BY <1>2, <2>1, <2>2, BindMoves DEF OwnerConfirm
    <3>2. Pact!Close(o)
      BY <1>2, <2>1, <2>2, <3>1, OwnerMatches, BindCloses
    <3> QED BY <3>2 DEF Pact!Next
  <2>3. CASE o \notin accepted
    <3>1. Bound' = Bound
      BY <1>2, <2>3, RecordYesBindsNothing DEF OwnerConfirm, Live
    <3>2. Pact!OwnerSaysYes(o)
      BY <2>1, <2>3, <3>1 DEF Pact!OwnerSaysYes, Bound
    <3> QED BY <3>2 DEF Pact!Next
  <2> QED BY <2>2, <2>3
<1>3. ASSUME accepted' = accepted, confirmed' = confirmed, offer' = offer
      PROVE  UNCHANGED <<accepted, confirmed, Bound>>
  BY <1>3 DEF Bound
<1>4. ASSUME NEW i \in Incident, NEW trucks \in SUBSET Truck, NEW r \in 1 .. MaxRound,
             FanOut(i, trucks, r)
      PROVE  UNCHANGED <<accepted, confirmed, Bound>>
  <2>1. Bound' = Bound
    BY <1>4, RoundIsNew, NothingBoundNothingLost DEF FanOut
  <2> QED BY <1>4, <2>1 DEF FanOut, handshake
<1>5. ASSUME NEW o \in Offer, NEW how \in {"DECLINED", "WITHDRAWN"}, Refuse(o, how)
      PROVE  UNCHANGED <<accepted, confirmed, Bound>>
  <2>1. offer[o] \in Live
    BY <1>5, OnlyLiveEnd DEF Refuse, Answerable, Exists, TypeOK
  <2>2. Bound' = Bound
    BY <1>5, <2>1 DEF Refuse, Bound, TypeOK, Live
  <2> QED BY <1>5, <2>2 DEF Refuse, handshake
<1>6. CASE ExpireDueOffers
  <2>1. Bound' = Bound
    BY <1>6, NothingBoundNothingLost DEF ExpireDueOffers, DueOffers, Live
  <2> QED BY <1>6, <2>1 DEF ExpireDueOffers, handshake
<1>7. ASSUME NEW o \in Offer, CancelBoundOffer(o)
      PROVE  Pact!Next
  <2>1. o \in Bound /\ Bound' = Bound \ {o}
    BY <1>7 DEF CancelBoundOffer, Bound, TypeOK
  <2>2. Pact!FallThrough(o)
    BY <1>7, <2>1 DEF Pact!FallThrough, Bound, CancelBoundOffer, handshake
  <2> QED BY <2>2 DEF Pact!Next
<1>8. ASSUME NEW i \in Incident, StandDown(i)
      PROVE  Pact!Next \/ UNCHANGED <<accepted, confirmed, Bound>>
  <2>1. \A o \in Bound : o \in Bound' <=> IncidentOf(o) # i
    BY <1>8 DEF StandDown, Bound, OffersOf, Live
  <2>2. Bound' \subseteq Bound
    BY <1>8 DEF StandDown, Bound
  <2>3. CASE \A o \in Bound : IncidentOf(o) # i
    <3>1. Bound' = Bound
      BY <2>1, <2>2, <2>3
    <3> QED BY <1>8, <3>1 DEF StandDown, handshake
  <2>4. ASSUME NEW o \in Bound, IncidentOf(o) = i
        PROVE  Pact!Next
    <3>1. o \in Offer /\ \A p \in Bound : IncidentOf(p) = i => p = o
      BY <2>4 DEF Bound, OneBoundOffer
    <3>2. Bound' = Bound \ {o}
      BY <2>1, <2>2, <2>4, <3>1
    <3>3. Pact!FallThrough(o)
      BY <1>8, <2>4, <3>2 DEF Pact!FallThrough, Bound, StandDown, handshake
    <3> QED BY <3>1, <3>3 DEF Pact!Next
  <2> QED BY <2>3, <2>4
<1> QED BY <1>1, <1>2, <1>3, <1>4, <1>5, <1>6, <1>7, <1>8
        DEF Next, vars, handshake, CarrierDecline, OwnerWithdraw, ReportBreakdown,
            Advance, SyncEscrow, Lapse, TransitionEscrow, Verify, RecordSettlement, Crash

\* Offers, rounds, deadlines and the sweep implement the two-party agreement
\* of Agreement.tla: the second yes closes it, in one step, and only then.
THEOREM AgreementKept == Spec => PactKept
<1>1. Init => Pact!Init
  BY DEF Init, Pact!Init
<1>2. TypeOK /\ HandshakeInv /\ OneBoundOffer /\ [Next]_vars
        => [Pact!Next]_<<accepted, confirmed, {o \in Offer : offer[o] = "BOUND"}>>
  BY PactStep DEF Bound
<1> QED BY <1>1, <1>2, TypeCorrect, HandshakeHolds, AtMostOneBound, PTL
        DEF Spec, PactKept, Pact!Spec

-----------------------------------------------------------------------------
(* The offers' table.                                                       *)

\* An offer nobody answered carries no yes, so a yes that binds always meets
\* an offer past PENDING, from which the table has an edge to BOUND.
PendingIsUnanswered ==
  \A o \in Offer : offer[o] = "PENDING" => o \notin accepted \cup confirmed

OfferMoves(o) ==
  offer'[o] # offer[o] =>
    IF offer[o] = "ABSENT" THEN offer'[o] = "PENDING"
    ELSE offer'[o] \in OfferTransitions[offer[o]]

\* The moves that answer nothing are edges of the table.
LEMMA UnansweredIsLegal ==
  ASSUME TypeOK, NEW o \in Offer, Unanswered(o)
  PROVE  OfferMoves(o)
BY DEF Unanswered, OfferMoves, TypeOK, OfferState, OfferTransitions, Live, EndOfAnOffer

\* What the two answers do to the offers.
LEMMA AnswerMoves ==
  ASSUME TypeOK, PendingIsUnanswered, NEW o \in Offer,
         CarrierAccept(o) \/ OwnerConfirm(o)
  PROVE  /\ accepted' \cup confirmed' = accepted \cup confirmed \cup {o}
         /\ \/ /\ offer[o] \in Live \ {"PENDING"}
               /\ offer'[o] = "BOUND"
               /\ \A p \in Offer \ {o} :
                    \/ offer'[p] = offer[p]
                    \/ offer[p] \in Live /\ offer'[p] = "SUPERSEDED"
            \/ /\ \/ offer[o] # "PENDING" /\ offer'[o] = offer[o]
                  \/ /\ offer[o] = "PENDING"
                     /\ offer'[o] \in {"CARRIER_ACCEPTED", "OWNER_CONFIRMED"}
               /\ \A p \in Offer \ {o} : offer'[p] = offer[p]
<1>1. accepted' \cup confirmed' = accepted \cup confirmed \cup {o}
  BY DEF CarrierAccept, OwnerConfirm
<1>2. CASE Bind(o) /\ o \in accepted \cup confirmed
  BY <1>1, <1>2, BindMoves DEF PendingIsUnanswered
<1>3. CASE RecordYes(o, "CARRIER_ACCEPTED") \/ RecordYes(o, "OWNER_CONFIRMED")
  BY <1>1, <1>3 DEF RecordYes, TypeOK
<1> QED BY <1>2, <1>3 DEF CarrierAccept, OwnerConfirm

\* Unanswered offers stay without a yes.
LEMMA PendingStep ==
  TypeOK /\ HandshakeInv /\ PendingIsUnanswered /\ [Next]_vars => PendingIsUnanswered'
<1> SUFFICES ASSUME TypeOK, HandshakeInv, PendingIsUnanswered, [Next]_vars
             PROVE  PendingIsUnanswered'
  OBVIOUS
<1>1. CASE /\ accepted' = accepted /\ confirmed' = confirmed
           /\ \A o \in Offer : Unanswered(o)
  BY <1>1 DEF PendingIsUnanswered, Unanswered, EndOfAnOffer, HandshakeInv, AnsweredExists
<1>2. ASSUME NEW o \in Offer, CarrierAccept(o) \/ OwnerConfirm(o)
      PROVE  PendingIsUnanswered'
  BY <1>2, AnswerMoves DEF PendingIsUnanswered
<1> QED BY <1>1, <1>2, StepKinds

\* It holds throughout.
LEMMA PendingHolds == Spec => []PendingIsUnanswered
<1>1. Init => PendingIsUnanswered
  BY DEF Init, PendingIsUnanswered
<1> QED BY <1>1, PendingStep, TypeCorrect, HandshakeHolds, PTL DEF Spec

\* Supersession, the sweep and standing down, which write offers wholesale,
\* and the two answers move every offer along an edge of OFFER_TRANSITIONS.
THEOREM OfferMovesLegal == Spec => OfferMovesAreLegal
<1>1. ASSUME TypeOK, PendingIsUnanswered, [Next]_vars
      PROVE  \A o \in Offer : OfferMoves(o)
  <2>1. CASE \A o \in Offer : Unanswered(o)
    BY <1>1, <2>1, UnansweredIsLegal
  <2>2. ASSUME NEW o \in Offer, CarrierAccept(o) \/ OwnerConfirm(o)
        PROVE  \A p \in Offer : OfferMoves(p)
    BY <1>1, <2>2, AnswerMoves
       DEF OfferMoves, OfferTransitions, TypeOK, OfferState, Live, EndOfAnOffer
  <2> QED BY <1>1, <2>1, <2>2, StepKinds
<1>2. TypeOK /\ PendingIsUnanswered /\ [Next]_vars
        => [\A o \in Offer :
              offer'[o] # offer[o] =>
                IF offer[o] = "ABSENT" THEN offer'[o] = "PENDING"
                ELSE offer'[o] \in OfferTransitions[offer[o]]]_vars
  BY <1>1 DEF OfferMoves
<1> QED BY <1>2, TypeCorrect, PendingHolds, PTL DEF Spec, OfferMovesAreLegal

-----------------------------------------------------------------------------
(* The owner's money.                                                       *)

Held == {"ACCEPTED", "IN_TRANSIT"}

\* Money of a rescue under way stays with it as long as no bound rescue ends
\* with its escrow still in Held.
LEMMA HeldKept ==
  ASSUME HeldMoneyHasRescue,
         \A o \in Offer : escrow'[o] \in Held =>
           \/ offer'[o] = "BOUND"
           \/ escrow[o] \in Held /\ (offer[o] = "BOUND" => offer'[o] = "BOUND")
  PROVE  HeldMoneyHasRescue'
BY DEF HeldMoneyHasRescue, Held

\* Every step leaves the money with its rescue.
LEMMA HeldStep ==
  TypeInv /\ HeldMoneyHasRescue /\ [Next]_vars => HeldMoneyHasRescue'
<1> SUFFICES ASSUME TypeInv, HeldMoneyHasRescue, [Next]_vars
             PROVE  HeldMoneyHasRescue'
  OBVIOUS
<1>0. TypeOK
  BY DEF TypeInv
<1>1. ASSUME escrow' = escrow, offer' = offer
      PROVE  HeldMoneyHasRescue'
  BY <1>1 DEF HeldMoneyHasRescue
<1>2. ASSUME NEW i \in Incident, NEW target \in SyncTargets, SyncEscrow(i, target)
      PROVE  HeldMoneyHasRescue'
  <2>1. CASE latest[i] = NoOffer
    BY <1>1, <1>2, <2>1 DEF SyncEscrow
  <2>2. CASE latest[i] # NoOffer
    <3> DEFINE o  == latest[i]
               to == Follow(escrow[o], target)
    <3>1. o \in Offer /\ escrow[o] \in EscrowState \ {"INITIATED"}
      BY <2>2 DEF TypeInv, TypeOK, EscrowsOpen
    <3>2. to \in Held => escrow[o] \in Held
      BY <3>1, FollowTakesNothing DEF Held
    <3>3. escrow' = [escrow EXCEPT ![o] = to] /\ offer' = offer
      BY <1>2, <2>2 DEF SyncEscrow
    <3> HIDE DEF o, to
    <3>4. \A p \in Offer : escrow'[p] \in Held => escrow[p] \in Held
      BY <3>1, <3>2, <3>3, <1>0 DEF TypeOK
    <3> QED BY <3>3, <3>4, HeldKept
  <2> QED BY <2>1, <2>2
<1>3. ASSUME NEW i \in Incident, NEW trucks \in SUBSET Truck, NEW r \in 1 .. MaxRound,
             FanOut(i, trucks, r)
      PROVE  HeldMoneyHasRescue'
  BY <1>3, RoundIsNew, HeldKept DEF FanOut
<1>4. ASSUME NEW o \in Offer, Bind(o)
      PROVE  HeldMoneyHasRescue'
  <2>1. \A p \in Offer \ {o} : escrow'[p] = escrow[p]
    BY <1>4, <1>0 DEF Bind, TypeOK
  <2>2. \A p \in Offer \ {o} : offer[p] = "BOUND" => offer'[p] = "BOUND"
    BY <1>4, <1>0, BindMoves DEF Live
  <2>3. offer'[o] = "BOUND"
    BY <1>4, <1>0, BindMoves
  <2> QED BY <2>1, <2>2, <2>3, HeldKept
<1>5. ASSUME NEW o \in Offer, NEW answered \in Live, RecordYes(o, answered)
      PROVE  HeldMoneyHasRescue'
  BY <1>5, <1>0, HeldKept DEF RecordYes, TypeOK
<1>6. ASSUME NEW o \in Offer, NEW how \in {"DECLINED", "WITHDRAWN"}, Refuse(o, how)
      PROVE  HeldMoneyHasRescue'
  <2>1. offer[o] \in Live
    BY <1>6, <1>0, OnlyLiveEnd DEF Refuse, Answerable, Exists, TypeOK
  <2> QED BY <1>6, <1>0, <2>1, HeldKept DEF Refuse, TypeOK, Live
<1>7. CASE ExpireDueOffers
  BY <1>7, HeldKept DEF ExpireDueOffers, DueOffers, Live
<1>8. ASSUME NEW o \in Offer, CancelBoundOffer(o)
      PROVE  HeldMoneyHasRescue'
  <2>1. escrow'[o] \notin Held
    BY <1>8, <1>0 DEF CancelBoundOffer, TypeOK, Held
  <2>2. \A p \in Offer \ {o} : escrow'[p] = escrow[p] /\ offer'[p] = offer[p]
    BY <1>8, <1>0 DEF CancelBoundOffer, TypeOK
  <2> QED BY <2>1, <2>2, HeldKept
<1>9. ASSUME NEW i \in Incident, StandDown(i)
      PROVE  HeldMoneyHasRescue'
  <2>1. ASSUME NEW o \in Offer, escrow'[o] \in Held
        PROVE  escrow[o] \in Held /\ (offer[o] = "BOUND" => offer'[o] = "BOUND")
    <3>1. escrow[o] \in Held
      BY <1>9, <2>1 DEF StandDown, Held
    <3>2. "CANCELLED" \in ValidTransitions[escrow[o]]
      BY <3>1 DEF Held, ValidTransitions
    <3>3. ~(o \in OffersOf(i) /\ offer[o] = "BOUND")
      BY <1>9, <2>1, <3>2 DEF StandDown, Held
    <3> QED BY <1>9, <3>1, <3>3 DEF StandDown, Live
  <2> QED BY <2>1, HeldKept
<1>10. ASSUME NEW o \in Offer, NEW to \in ManualTargets, TransitionEscrow(o, to)
       PROVE  HeldMoneyHasRescue'
  <2>1. escrow[o] \in EscrowState \ {"INITIATED"}
    BY <1>10 DEF TransitionEscrow, TypeInv, TypeOK, EscrowsOpen
  <2>2. to \in Held => escrow[o] \in Held
    BY <1>10, <2>1 DEF TransitionEscrow, Held, ValidTransitions, EscrowState
  <2> QED BY <1>10, <1>0, <2>2, HeldKept DEF TransitionEscrow, TypeOK
<1>11. ASSUME NEW o \in Offer, NEW outcome \in {"RELEASED", "DISPUTED"},
              Verify(o, outcome)
       PROVE  HeldMoneyHasRescue'
  BY <1>11, <1>0, HeldKept DEF Verify, TypeOK, Held
<1> QED BY <1>1, <1>2, <1>3, <1>4, <1>5, <1>6, <1>7, <1>8, <1>9, <1>10, <1>11
        DEF Next, vars, CarrierDecline, OwnerWithdraw, CarrierAccept, OwnerConfirm,
            ReportBreakdown, Advance, Lapse, RecordSettlement, Crash, Live

\* Money held before delivery always belongs to a bound rescue: no refusal,
\* sweep, cancellation or stand-down ends a rescue and forgets its hold.
THEOREM MoneyHasRescue == Spec => []HeldMoneyHasRescue
<1>1. Init => HeldMoneyHasRescue
  BY DEF Init, HeldMoneyHasRescue
<1> QED BY <1>1, HeldStep, TypeInvariant, PTL DEF Spec

-----------------------------------------------------------------------------
(* The truck.                                                               *)

\* No truck stays dispatched for a rescue that is over, as long as a truck
\* whose bound offer ends is set idle and only a binding dispatches one.
LEMMA DispatchedKept ==
  ASSUME DispatchedHasRescue,
         \A t \in Truck : truck'[t] = "dispatched_rescue" =>
           \/ \E o \in Offer : TruckOf(o) = t /\ offer'[o] = "BOUND"
           \/ /\ truck[t] = "dispatched_rescue"
              /\ \A o \in Offer :
                   TruckOf(o) = t /\ offer[o] = "BOUND" => offer'[o] = "BOUND"
  PROVE  DispatchedHasRescue'
BY DEF DispatchedHasRescue

\* Every step keeps the two in step.
LEMMA DispatchedStep ==
  TypeOK /\ DispatchedHasRescue /\ [Next]_vars => DispatchedHasRescue'
<1> SUFFICES ASSUME TypeOK, DispatchedHasRescue, [Next]_vars
             PROVE  DispatchedHasRescue'
  OBVIOUS
<1>1. ASSUME truck' = truck, \A o \in Offer : offer[o] = "BOUND" => offer'[o] = "BOUND"
      PROVE  DispatchedHasRescue'
  BY <1>1, DispatchedKept
<1>2. ASSUME NEW i \in Incident, NEW trucks \in SUBSET Truck, NEW r \in 1 .. MaxRound,
             FanOut(i, trucks, r)
      PROVE  DispatchedHasRescue'
  BY <1>1, <1>2, RoundIsNew DEF FanOut
<1>3. ASSUME NEW o \in Offer, Bind(o)
      PROVE  DispatchedHasRescue'
  <2>1. TruckOf(o) \in Truck /\ offer'[o] = "BOUND"
    BY <1>3, OfferParts, BindMoves
  <2>2. \A p \in Offer : offer[p] = "BOUND" => offer'[p] = "BOUND"
    BY <1>3, BindMoves DEF Live
  <2>3. \A t \in Truck \ {TruckOf(o)} : truck'[t] = truck[t]
    BY <1>3, <2>1 DEF Bind, TypeOK
  <2> QED BY <2>1, <2>2, <2>3, DispatchedKept
<1>4. ASSUME NEW o \in Offer, NEW answered \in Live, RecordYes(o, answered)
      PROVE  DispatchedHasRescue'
  BY <1>1, <1>4 DEF RecordYes, TypeOK
<1>5. ASSUME NEW o \in Offer, NEW how \in {"DECLINED", "WITHDRAWN"}, Refuse(o, how)
      PROVE  DispatchedHasRescue'
  <2>1. offer[o] \in Live
    BY <1>5, OnlyLiveEnd DEF Refuse, Answerable, Exists, TypeOK
  <2> QED BY <1>1, <1>5, <2>1 DEF Refuse, TypeOK, Live
<1>6. CASE ExpireDueOffers
  BY <1>1, <1>6 DEF ExpireDueOffers, DueOffers, Live
<1>7. ASSUME NEW o \in Offer, CancelBoundOffer(o)
      PROVE  DispatchedHasRescue'
  <2>1. TruckOf(o) \in Truck
    BY OfferParts
  <2>2. truck'[TruckOf(o)] = "idle"
    BY <1>7, <2>1 DEF CancelBoundOffer, TypeOK
  <2>3. \A t \in Truck \ {TruckOf(o)} : truck'[t] = truck[t]
    BY <1>7, <2>1 DEF CancelBoundOffer, TypeOK
  <2>4. \A p \in Offer \ {o} : offer'[p] = offer[p]
    BY <1>7 DEF CancelBoundOffer, TypeOK
  <2> QED BY <2>2, <2>3, <2>4, DispatchedKept
<1>8. ASSUME NEW i \in Incident, StandDown(i)
      PROVE  DispatchedHasRescue'
  <2>1. ASSUME NEW t \in Truck, truck'[t] = "dispatched_rescue"
        PROVE  /\ truck[t] = "dispatched_rescue"
               /\ \A o \in Offer :
                    TruckOf(o) = t /\ offer[o] = "BOUND" => offer'[o] = "BOUND"
    BY <1>8, <2>1 DEF StandDown, OffersOf, Live
  <2> QED BY <2>1, DispatchedKept
<1>9. CASE UNCHANGED <<truck, offer>>
  BY <1>1, <1>9
<1> QED BY <1>2, <1>3, <1>4, <1>5, <1>6, <1>7, <1>8, <1>9
        DEF Next, vars, CarrierDecline, OwnerWithdraw, CarrierAccept, OwnerConfirm,
            ReportBreakdown, Advance, SyncEscrow, Lapse, TransitionEscrow, Verify,
            RecordSettlement, Crash, Live

\* A truck is never left marked as dispatched when its rescue has ended by a
\* cancellation or by standing the breakdown down.
THEOREM DispatchedTruckHasRescue == Spec => []DispatchedHasRescue
<1>1. Init => DispatchedHasRescue
  BY DEF Init, DispatchedHasRescue
<1> QED BY <1>1, DispatchedStep, TypeCorrect, PTL DEF Spec

-----------------------------------------------------------------------------
(* The history.                                                             *)

\* The history variables add nothing to what Rescue does.
LEMMA HistoryIsRescue == HistorySpec => Spec
<1>1. HistoryInit => Init
  BY DEF HistoryInit
<1>2. [HistoryNext]_<<vars, history>> => [Next]_vars
  BY DEF HistoryNext
<1> QED BY <1>1, <1>2, PTL DEF HistorySpec, Spec

-----------------------------------------------------------------------------
(* The carrier of a rescue on its way.                                      *)

EnRoute == {"RESCUE_ACCEPTED", "DRIVER_EN_ROUTE"}

\* /advance reaches a state of EnRoute only from the other one.
LEMMA OnlyBindingStartsTheRoute ==
  ASSUME NEW s \in IncidentState, NEW new \in EnRoute \ {"RESCUE_ACCEPTED"},
         new \in Transitions[s]
  PROVE  s \in EnRoute
BY DEF IncidentState, EnRoute, Transitions

\* The assigned truck stays, and so does the carrier of a rescue on its way.
Stays(i) ==
  /\ ~IsBound(i)
  /\ assigned'[i] = assigned[i]
  /\ incident'[i] \in EnRoute =>
       /\ incident[i] \in EnRoute
       /\ \A o \in OffersOf(i) : offer[o] = "BOUND" => offer'[o] = "BOUND"

\* The rescue is off.
IsFreed(i) == ~IsBound(i) /\ assigned'[i] = NoTruck /\ incident'[i] \notin EnRoute

\* Both have agreed on the truck that is assigned.
IsAgreed(i) ==
  \E o \in OffersOf(i) :
    /\ offer[o] # "BOUND" /\ offer'[o] = "BOUND"
    /\ assigned'[i] = TruckOf(o)
    /\ o \in accepted' \cap confirmed'

\* What a step that does not bind may do to the offers of an incident.
LEMMA NothingBound ==
  ASSUME NEW i \in Incident,
         \A o \in Offer : offer'[o] = "BOUND" => offer[o] = "BOUND"
  PROVE  ~IsBound(i)
BY DEF IsBound, OffersOf

\* A binding assigns the truck both agreed on, to its own incident only.
LEMMA BindAssigns ==
  ASSUME TypeOK, NEW o \in Offer, Bind(o), o \in accepted' \cap confirmed', NEW i \in Incident
  PROVE  Stays(i) \/ IsAgreed(i)
<1>1. CASE IncidentOf(o) = i
  <2>1. o \in OffersOf(i) /\ offer[o] # "BOUND" /\ offer'[o] = "BOUND"
    BY <1>1, BindMoves DEF OffersOf, Live
  <2>2. assigned'[i] = TruckOf(o)
    BY <1>1 DEF Bind, TypeOK
  <2> QED BY <2>1, <2>2 DEF IsAgreed
<1>2. CASE IncidentOf(o) # i
  <2>1. \A p \in OffersOf(i) : p # o /\ (offer'[p] = "BOUND" <=> offer[p] = "BOUND")
    BY <1>2, BindMoves DEF OffersOf, Live
  <2>2. assigned'[i] = assigned[i] /\ incident'[i] = incident[i]
    BY <1>2 DEF Bind, TypeOK
  <2> QED BY <2>1, <2>2 DEF Stays, IsBound
<1> QED BY <1>1, <1>2

\* A truck is assigned by name, by agreement, or not at all.
LEMMA Assignments ==
  ASSUME TypeOK, HandshakeInv, Next, NEW i \in Incident
  PROVE  IsNamed(i) \/ Stays(i) \/ IsFreed(i) \/ IsAgreed(i)
<1>1. ASSUME incident'[i] = incident[i], assigned'[i] = assigned[i],
             \A o \in OffersOf(i) : offer'[o] = "BOUND" <=> offer[o] = "BOUND"
      PROVE  Stays(i)
  BY <1>1 DEF Stays, IsBound
<1>2. ASSUME NEW j \in Incident, ReportBreakdown(j)
      PROVE  Stays(i)
  BY <1>2, NothingBound DEF ReportBreakdown, Stays, TypeOK, EnRoute
<1>3. ASSUME NEW j \in Incident, NEW new \in ByHand,
             NEW t \in NamedTrucks \cup {NoTruck}, Advance(j, new, t)
      PROVE  IsNamed(i) \/ Stays(i)
  <2>1. offer' = offer /\ incident' = [incident EXCEPT ![j] = new]
    BY <1>3 DEF Advance
  <2>2. CASE j # i
    BY <1>1, <1>3, <2>1, <2>2 DEF Advance, TypeOK
  <2>3. CASE j = i /\ t \in NamedTrucks
    <3>1. incident'[i] = new
      BY <2>1, <2>3 DEF TypeOK
    <3> QED BY <1>3, <2>3, <3>1 DEF IsNamed
  <2>4. CASE j = i /\ t = NoTruck
    <3>1. assigned' = assigned /\ incident'[i] = new
      BY <1>3, <2>1, <2>4 DEF Advance, TypeOK
    <3>2. new \in EnRoute => incident[i] \in EnRoute
      BY <1>3, <2>4, OnlyBindingStartsTheRoute DEF Advance, TypeOK
    <3> QED BY <2>1, <3>1, <3>2, NothingBound DEF Stays
  <2> QED BY <2>2, <2>3, <2>4
<1>4. ASSUME NEW j \in Incident, NEW trucks \in SUBSET Truck, NEW r \in 1 .. MaxRound,
             FanOut(j, trucks, r)
      PROVE  Stays(i)
  <2>1. \A o \in Offer : offer'[o] = "BOUND" <=> offer[o] = "BOUND"
    BY <1>4, RoundIsNew DEF FanOut
  <2>2. incident'[i] \in EnRoute => incident'[i] = incident[i]
    BY <1>4 DEF FanOut, EnRoute, TypeOK
  <2> QED BY <1>4, <2>1, <2>2, NothingBound DEF FanOut, Stays, OffersOf
<1>5. ASSUME NEW o \in Offer, NEW answered \in Live, RecordYes(o, answered)
      PROVE  Stays(i)
  <2>1. \A p \in Offer : offer'[p] = "BOUND" <=> offer[p] = "BOUND"
    BY <1>5 DEF RecordYes, TypeOK, Live
  <2> QED BY <1>1, <1>5, <2>1 DEF RecordYes, OffersOf
<1>6. ASSUME NEW o \in Offer, CarrierAccept(o)
      PROVE  Stays(i) \/ IsAgreed(i)
  BY <1>5, <1>6, BindAssigns DEF CarrierAccept, Live
<1>7. ASSUME NEW o \in Offer, OwnerConfirm(o)
      PROVE  Stays(i) \/ IsAgreed(i)
  BY <1>5, <1>7, BindAssigns DEF OwnerConfirm, Live
<1>8. ASSUME NEW o \in Offer, NEW how \in {"DECLINED", "WITHDRAWN"}, Refuse(o, how)
      PROVE  Stays(i)
  <2>1. offer[o] \in Live
    BY <1>8, OnlyLiveEnd DEF Refuse, Answerable, Exists, TypeOK
  <2> QED BY <1>1, <1>8, <2>1 DEF Refuse, TypeOK, Live, OffersOf
<1>9. CASE ExpireDueOffers
  BY <1>1, <1>9 DEF ExpireDueOffers, DueOffers, Live, OffersOf
<1>10. ASSUME NEW o \in Offer, CancelBoundOffer(o)
       PROVE  Stays(i) \/ IsFreed(i)
  <2> DEFINE j == IncidentOf(o)
  <2>1. j \in Incident
    BY OfferParts
  <2>2. /\ ~IsBound(i)
        /\ \A p \in Offer \ {o} : offer'[p] = offer[p]
    BY <1>10, NothingBound DEF CancelBoundOffer, TypeOK
  <2>3. CASE j = i /\ incident[i] \in Unwindable
    BY <1>10, <2>1, <2>2, <2>3 DEF CancelBoundOffer, IsFreed, TypeOK, EnRoute
  <2>4. CASE j = i /\ incident[i] \notin Unwindable
    BY <1>10, <2>2, <2>4 DEF CancelBoundOffer, Stays, EnRoute, Unwindable
  <2>5. CASE j # i
    BY <1>1, <1>10, <2>1, <2>2, <2>5 DEF CancelBoundOffer, OffersOf, TypeOK
  <2> QED BY <2>3, <2>4, <2>5
<1>11. ASSUME NEW j \in Incident, StandDown(j)
       PROVE  Stays(i) \/ IsFreed(i)
  <2>1. ~IsBound(i)
    BY <1>11, NothingBound DEF StandDown
  <2>2. CASE j = i
    BY <1>11, <2>1, <2>2 DEF StandDown, IsFreed, TypeOK, EnRoute
  <2>3. CASE j # i
    <3>1. \A o \in OffersOf(i) : offer'[o] = offer[o]
      BY <1>11, <2>3 DEF StandDown, OffersOf
    <3> QED BY <1>1, <1>11, <2>3, <3>1 DEF StandDown, TypeOK
  <2> QED BY <2>2, <2>3
<1>12. ASSUME NEW o \in Offer, NEW seen \in IncidentState, RecordSettlement(o, seen)
       PROVE  Stays(i)
  <2>1. incident'[i] \in EnRoute => incident'[i] = incident[i]
    BY <1>12 DEF RecordSettlement, Recorded, TypeOK, EnRoute
  <2> QED BY <1>12, <2>1, NothingBound DEF RecordSettlement, Stays
<1>13. CASE UNCHANGED <<incident, assigned, offer>>
  BY <1>1, <1>13
<1> QED BY <1>2, <1>3, <1>4, <1>6, <1>7, <1>8, <1>9, <1>10, <1>11, <1>12, <1>13
        DEF Next, CarrierDecline, OwnerWithdraw, SyncEscrow, Lapse, TransitionEscrow,
            Verify, Crash

\* What the history says of the name after each of the four.
LEMMA NamesAfter ==
  ASSUME TypeOK, HistoryNext, NEW i \in Incident
  PROVE  /\ IsNamed(i) =>
              /\ named'[i] = assigned'[i] /\ named'[i] # NoTruck
              /\ offer' = offer /\ accepted' = accepted /\ confirmed' = confirmed
              /\ incident'[i] \in EnRoute => incident[i] \in EnRoute
         /\ ~IsNamed(i) /\ IsBound(i) => named'[i] = NoTruck
         /\ ~IsNamed(i) /\ ~IsBound(i) => named'[i] = named[i]
<1>1. named'[i] = IF IsNamed(i) THEN assigned'[i] ELSE IF IsBound(i) THEN NoTruck ELSE named[i]
  BY DEF HistoryNext
<1>2. ASSUME NEW t \in NamedTrucks, Advance(i, incident'[i], t)
      PROVE  /\ assigned'[i] = t /\ t # NoTruck
             /\ offer' = offer /\ accepted' = accepted /\ confirmed' = confirmed
             /\ incident'[i] \in EnRoute => incident[i] \in EnRoute
  <2>1. t # NoTruck
    BY RescueAssumption
  <2>2. incident'[i] \in EnRoute => incident[i] \in EnRoute
    BY <1>2, OnlyBindingStartsTheRoute DEF Advance, TypeOK
  <2> QED BY <1>2, <2>1, <2>2 DEF Advance, TypeOK, handshake
<1> QED BY <1>1, <1>2 DEF IsNamed

\* Every step keeps the carrier, or gives the truck that was named.
LEMMA EnRouteStep ==
  ASSUME TypeOK, HandshakeInv, EnRouteIsBound, [HistoryNext]_<<vars, history>>
  PROVE  EnRouteIsBound'
<1>1. CASE UNCHANGED <<vars, history>>
  BY <1>1 DEF vars, history, EnRouteIsBound
<1>2. CASE HistoryNext
  <2> SUFFICES ASSUME NEW i \in Incident, incident'[i] \in EnRoute
               PROVE  \E o \in OffersOf(i) :
                        /\ offer'[o] = "BOUND"
                        /\ assigned'[i] = IF named'[i] = NoTruck
                                          THEN TruckOf(o) ELSE named'[i]
    BY DEF EnRouteIsBound, EnRoute
  <2>1. CASE IsNamed(i)
    <3>1. \E o \in OffersOf(i) : offer[o] = "BOUND"
      BY <1>2, <2>1, NamesAfter DEF EnRouteIsBound, EnRoute
    <3> QED BY <1>2, <2>1, <3>1, NamesAfter
  <2>2. CASE ~IsNamed(i) /\ Stays(i)
    BY <1>2, <2>2, NamesAfter DEF Stays, EnRouteIsBound, EnRoute
  <2>3. CASE ~IsNamed(i) /\ IsAgreed(i)
    <3>1. IsBound(i)
      BY <2>3 DEF IsAgreed, IsBound
    <3> QED BY <1>2, <2>3, <3>1, NamesAfter DEF IsAgreed
  <2>4. ~IsFreed(i)
    BY DEF IsFreed
  <2> QED BY <1>2, <2>1, <2>2, <2>3, <2>4, Assignments DEF HistoryNext
<1> QED BY <1>1, <1>2

\* A rescue on its way is bound, and has the truck both parties agreed on, or the one
\* the owner has named by /advance since.
THEOREM EnRouteHasCarrier == HistorySpec => []EnRouteIsBound
<1>1. HistoryInit => EnRouteIsBound
  BY DEF HistoryInit, Init, EnRouteIsBound
<1>2. HistorySpec => []TypeOK /\ []HandshakeInv
  BY HistoryIsRescue, TypeCorrect, HandshakeHolds, PTL
<1> QED BY <1>1, <1>2, EnRouteStep, PTL DEF HistorySpec

\* A truck that is assigned is one both parties agreed on, or one /advance named.
AssignedIsAgreedOrNamed ==
  \A i \in Incident :
    assigned[i] # NoTruck =>
      \/ assigned[i] = named[i]
      \/ \E o \in OffersOf(i) : TruckOf(o) = assigned[i] /\ o \in accepted \cap confirmed

\* Every step keeps it so.
LEMMA AssignedStep ==
  ASSUME TypeOK, HandshakeInv, AssignedIsAgreedOrNamed, [HistoryNext]_<<vars, history>>
  PROVE  AssignedIsAgreedOrNamed'
<1>1. CASE UNCHANGED <<vars, history>>
  BY <1>1 DEF vars, history, AssignedIsAgreedOrNamed
<1>2. CASE HistoryNext
  <2>1. accepted \subseteq accepted' /\ confirmed \subseteq confirmed'
    <3>1. Next
      BY <1>2 DEF HistoryNext
    <3> QED BY <3>1, StepKinds DEF CarrierAccept, OwnerConfirm
  <2> SUFFICES ASSUME NEW i \in Incident, assigned'[i] # NoTruck
               PROVE  \/ assigned'[i] = named'[i]
                      \/ \E o \in OffersOf(i) :
                           TruckOf(o) = assigned'[i] /\ o \in accepted' \cap confirmed'
    BY DEF AssignedIsAgreedOrNamed
  <2>2. CASE IsNamed(i)
    BY <1>2, <2>2, NamesAfter
  <2>3. CASE ~IsNamed(i) /\ Stays(i)
    BY <1>2, <2>1, <2>3, NamesAfter DEF Stays, AssignedIsAgreedOrNamed
  <2>4. CASE IsAgreed(i)
    BY <2>4 DEF IsAgreed
  <2>5. ~IsFreed(i)
    BY DEF IsFreed
  <2> QED BY <1>2, <2>2, <2>3, <2>4, <2>5, Assignments DEF HistoryNext
<1> QED BY <1>1, <1>2

\* No single party's yes assigns a truck; the owner's /advance does, by name.
THEOREM AssignmentNeedsBothOrAName == HistorySpec => []AssignedIsAgreedOrNamed
<1>1. HistoryInit => AssignedIsAgreedOrNamed
  BY DEF HistoryInit, Init, AssignedIsAgreedOrNamed
<1>2. HistorySpec => []TypeOK /\ []HandshakeInv
  BY HistoryIsRescue, TypeCorrect, HandshakeHolds, PTL
<1> QED BY <1>1, <1>2, AssignedStep, PTL DEF HistorySpec

-----------------------------------------------------------------------------
(* A rescue that is unwound gives the money back.                           *)

\* Money that left Held without being returned belongs to an incident past
\* the point of standing down, or was handed in for verification by its owner.
Returnable == Held \cup {"CANCELLED"}

Late == {"DELIVERED", "VERIFICATION", "ESCROW_RELEASED", "DISPUTED", "CANCELLED"}

\* The escrow an incident follows is one of its own offers'.
FollowsItsOwn ==
  \A i \in Incident : latest[i] # NoOffer => IncidentOf(latest[i]) = i

\* A sync that takes an escrow out of Held is decided for a late incident.
SyncsWhenLate ==
  \A i \in Incident, target \in SyncTargets :
    <<i, target>> \in syncing /\ target # "IN_TRANSIT" => incident[i] \in Late

\* A bound rescue whose money cannot be reversed any more is a late one, or its
\* owner handed the money in.
GoneMeansLate ==
  \A o \in Offer :
    offer[o] = "BOUND" /\ escrow[o] \notin Returnable =>
      incident[IncidentOf(o)] \in Late \/ o \in handedIn

\* The incidents whose load has arrived.
Arrived == {"DELIVERED", "VERIFICATION", "ESCROW_RELEASED", "DISPUTED"}

\* /verify writes what it concluded over the incident as it loaded it; one it loaded as
\* arrived has not been cancelled since.
SeenArrived ==
  \A o \in Offer, seen \in Arrived :
    <<o, seen>> \in settling => incident[IncidentOf(o)] \in Arrived

ReturnInv ==
  /\ FollowsItsOwn
  /\ SyncsWhenLate
  /\ SeenArrived
  /\ GoneMeansLate
  /\ UnwoundMeansReturned

\* Nothing leads out of Late.
LEMMA LateIsFinal ==
  ASSUME NEW s \in Late
  PROVE  /\ Transitions[s] \subseteq Late
         /\ s \notin StandableDown \cup Unwindable \cup {"NORMAL", "TRIAGING", "MATCHING"}
         /\ ~MayAccept(s)
BY DEF Late, Transitions, StandableDown, Unwindable, MayAccept, SteppedUp

\* A settlement is recorded only on an incident that was loaded as arrived.
LEMMA RecordedWhenArrived ==
  ASSUME NEW o, NEW seen \in IncidentState, Recordable(o, seen)
  PROVE  seen \in Arrived
BY DEF IncidentState, Recordable, Recorded, Transitions, Arrived

\* A late incident moves along its table, or is told how the money was settled.
LEMMA LateMoves ==
  ASSUME TypeOK, [Next]_vars, NEW i \in Incident, incident[i] \in Late
  PROVE  \/ incident'[i] \in {incident[i]} \cup Transitions[incident[i]]
         \/ /\ incident'[i] \in {"ESCROW_RELEASED", "DISPUTED"}
            /\ \E o \in OffersOf(i), seen \in Arrived : <<o, seen>> \in settling
<1> DEFINE Moves ==
      \/ incident'[i] \in {incident[i]} \cup Transitions[incident[i]]
      \/ /\ incident'[i] \in {"ESCROW_RELEASED", "DISPUTED"}
         /\ \E o \in OffersOf(i), seen \in Arrived : <<o, seen>> \in settling
<1>1. ASSUME incident'[i] = incident[i]
      PROVE  Moves
  BY <1>1
<1>2. ASSUME NEW j \in Incident, ReportBreakdown(j)
      PROVE  Moves
  BY <1>1, <1>2, LateIsFinal DEF ReportBreakdown, TypeOK
<1>3. ASSUME NEW j \in Incident, NEW new \in ByHand,
             NEW t \in NamedTrucks \cup {NoTruck}, Advance(j, new, t)
      PROVE  Moves
  BY <1>3 DEF Advance, TypeOK
<1>4. ASSUME NEW j \in Incident, NEW trucks \in SUBSET Truck, NEW r \in 1 .. MaxRound,
             FanOut(j, trucks, r)
      PROVE  Moves
  BY <1>1, <1>4, LateIsFinal DEF FanOut, TypeOK
<1>5. ASSUME NEW o \in Offer, Bind(o)
      PROVE  Moves
  BY <1>1, <1>5, LateIsFinal, OfferParts DEF Bind, TypeOK
<1>6. ASSUME NEW o \in Offer, CancelBoundOffer(o)
      PROVE  Moves
  BY <1>1, <1>6, LateIsFinal, OfferParts DEF CancelBoundOffer, TypeOK
<1>7. ASSUME NEW j \in Incident, StandDown(j)
      PROVE  Moves
  BY <1>1, <1>7, LateIsFinal DEF StandDown, TypeOK
<1>8. ASSUME NEW o \in Offer, NEW seen \in IncidentState, RecordSettlement(o, seen)
      PROVE  Moves
  <2>1. CASE IncidentOf(o) = i /\ Recordable(o, seen)
    <3>1. seen \in Arrived /\ o \in OffersOf(i) /\ <<o, seen>> \in settling
      BY <1>8, <2>1, RecordedWhenArrived DEF RecordSettlement, OffersOf
    <3>2. incident'[i] \in {"ESCROW_RELEASED", "DISPUTED"}
      BY <1>8, <2>1 DEF RecordSettlement, Recorded, TypeOK
    <3> QED BY <3>1, <3>2
  <2>2. CASE ~(IncidentOf(o) = i /\ Recordable(o, seen))
    BY <1>1, <1>8, <2>2 DEF RecordSettlement, TypeOK
  <2> QED BY <2>1, <2>2
<1>9. CASE incident' = incident
  BY <1>1, <1>9
<1> QED BY <1>2, <1>3, <1>4, <1>5, <1>6, <1>7, <1>8, <1>9
        DEF Next, vars, CarrierDecline, OwnerWithdraw, Refuse, CarrierAccept,
            OwnerConfirm, RecordYes, SyncEscrow, Lapse, ExpireDueOffers,
            TransitionEscrow, Verify, Crash

\* So a late incident stays late, whatever is asked of it.
LEMMA LateStep ==
  ASSUME TypeOK, [Next]_vars, NEW i \in Incident, incident[i] \in Late
  PROVE  incident'[i] \in Late
BY LateMoves, LateIsFinal DEF Late

\* An incident whose load has arrived stays arrived.
LEMMA ArrivedStep ==
  ASSUME TypeOK, [Next]_vars, NEW i \in Incident, incident[i] \in Arrived
  PROVE  incident'[i] \in Arrived
BY LateMoves DEF Late, Arrived, Transitions

\* And a cancelled one stays cancelled: no settlement is recorded over it.
LEMMA CancelledStep ==
  ASSUME TypeOK, SeenArrived, [Next]_vars, NEW i \in Incident, incident[i] = "CANCELLED"
  PROVE  incident'[i] = "CANCELLED"
<1>1. \A o \in OffersOf(i), seen \in Arrived : <<o, seen>> \notin settling
  BY DEF SeenArrived, OffersOf, Arrived
<1>2. "CANCELLED" \in Late /\ Transitions["CANCELLED"] = {}
  BY DEF Late, Transitions
<1> QED BY <1>1, <1>2, LateMoves

\* What /verify saw as arrived stays arrived.
LEMMA SeenStep ==
  ASSUME TypeOK, SeenArrived, [Next]_vars
  PROVE  SeenArrived'
<1> SUFFICES ASSUME NEW o \in Offer, NEW seen \in Arrived, <<o, seen>> \in settling'
             PROVE  incident'[IncidentOf(o)] \in Arrived
  BY DEF SeenArrived
<1>1. incident[IncidentOf(o)] \in Arrived
  <2>1. CASE <<o, seen>> \in settling
    BY <2>1 DEF SeenArrived
  <2>2. CASE <<o, seen>> \notin settling
    <3>1. \E p \in Offer, outcome \in {"RELEASED", "DISPUTED"} : Verify(p, outcome)
      BY <2>2 DEF Next, vars, tasks, CarrierDecline, OwnerWithdraw, Refuse, CarrierAccept,
                  OwnerConfirm, SyncEscrow, Lapse, ExpireDueOffers, TransitionEscrow,
                  RecordSettlement, Crash, ReportBreakdown, Advance, FanOut,
                  CancelBoundOffer, StandDown
    <3>2. seen = incident[IncidentOf(o)]
      BY <2>2, <3>1 DEF Verify
    <3> QED BY <3>2
  <2> QED BY <2>1, <2>2
<1> QED BY <1>1, OfferParts, ArrivedStep

\* Where no escrow moves, only a rescue that ends could break it.
LEMMA ReturnKept ==
  ASSUME TypeOK, ReturnInv, [Next]_vars, escrow' = escrow, latest' = latest,
         syncing' \subseteq syncing, handedIn \subseteq handedIn',
         \A o \in Offer : offer'[o] = "BOUND" => offer[o] = "BOUND",
         \A o \in Offer : offer'[o] = "CANCELLED" => offer[o] = "CANCELLED"
  PROVE  ReturnInv'
<1> USE DEF ReturnInv
<1>1. FollowsItsOwn'
  BY DEF FollowsItsOwn
<1>2. SyncsWhenLate'
  BY LateStep DEF SyncsWhenLate
<1>3. GoneMeansLate'
  BY LateStep, OfferParts DEF GoneMeansLate
<1>4. UnwoundMeansReturned'
  BY CancelledStep, OfferParts DEF UnwoundMeansReturned
<1> QED BY <1>1, <1>2, <1>3, <1>4, SeenStep

\* A bound rescue stays returnable, is late or was handed in, when its escrow is moved.
LEMMA EscrowMoves ==
  ASSUME TypeOK, ReturnInv, [Next]_vars, NEW o \in Offer,
         escrow' = [escrow EXCEPT ![o] = escrow'[o]],
         offer' = offer, latest' = latest, syncing' \subseteq syncing,
         handedIn \subseteq handedIn',
         escrow[o] = "CANCELLED" => escrow'[o] = "CANCELLED",
         escrow'[o] \notin Returnable =>
           \/ escrow[o] \notin Returnable
           \/ incident[IncidentOf(o)] \in Late
           \/ o \in handedIn'
  PROVE  ReturnInv'
<1> USE DEF ReturnInv
<1>1. FollowsItsOwn'
  BY DEF FollowsItsOwn
<1>2. SyncsWhenLate'
  BY LateStep DEF SyncsWhenLate
<1>3. GoneMeansLate'
  BY LateStep, OfferParts DEF GoneMeansLate, TypeOK
<1>4. UnwoundMeansReturned'
  BY CancelledStep, OfferParts DEF UnwoundMeansReturned, TypeOK
<1> QED BY <1>1, <1>2, <1>3, <1>4, SeenStep

\* Where the walk takes an escrow out of Returnable, the target did.
LEMMA FollowReturns ==
  ASSUME NEW st \in EscrowState \ {"INITIATED"}, NEW target \in SyncTargets
  PROVE  /\ st = "CANCELLED" => Follow(st, target) = "CANCELLED"
         /\ target = "IN_TRANSIT" /\ st \in Returnable => Follow(st, target) \in Returnable
<1>1. CASE st = "CANCELLED"
  BY <1>1 DEF Follow, Order, SyncTargets, Returnable
<1>2. CASE target = "IN_TRANSIT" /\ st \in Held
  BY <1>2 DEF Follow, WalkForward, StepTowards, Order, ValidTransitions, Held, Returnable
<1> QED BY <1>1, <1>2 DEF Returnable

\* Every step keeps it, as long as the history says what was handed in.
LEMMA ReturnStep ==
  ASSUME TypeInv, ReturnInv, [Next]_vars, handedIn \subseteq handedIn',
         \A o \in Offer : TransitionEscrow(o, "PENDING_VERIFICATION") => o \in handedIn'
  PROVE  ReturnInv'
<1>0. TypeOK
  BY DEF TypeInv
<1>s. SeenArrived'
  BY <1>0, SeenStep DEF ReturnInv
<1>1. ASSUME escrow' = escrow, latest' = latest, syncing' \subseteq syncing, offer' = offer
      PROVE  ReturnInv'
  BY <1>0, <1>1, ReturnKept
<1>2. ASSUME NEW i \in Incident, NEW new \in ByHand,
             NEW t \in NamedTrucks \cup {NoTruck}, Advance(i, new, t)
      PROVE  ReturnInv'
  <2>1. incident' = [incident EXCEPT ![i] = new]
    BY <1>2 DEF Advance
  <2>2. ASSUME NEW j \in Incident, NEW target \in SyncTargets,
               <<j, target>> \in syncing', target # "IN_TRANSIT"
        PROVE  incident'[j] \in Late
    <3>1. CASE <<j, target>> \in syncing
      BY <1>0, <2>2, <3>1, LateStep DEF ReturnInv, SyncsWhenLate
    <3>2. CASE <<j, target>> \notin syncing
      <4>1. new \in DOMAIN IncidentToEscrow /\ j = i /\ target = IncidentToEscrow[new]
        BY <1>2, <2>2, <3>2 DEF Advance
      <4>2. new \in Late
        BY <2>2, <4>1 DEF IncidentToEscrow, Late
      <4> QED BY <1>0, <2>1, <4>1, <4>2 DEF TypeOK
    <3> QED BY <3>1, <3>2
  <2>3. SyncsWhenLate'
    BY <2>2 DEF SyncsWhenLate
  <2>4. FollowsItsOwn'
    BY <1>2 DEF Advance, ReturnInv, FollowsItsOwn
  <2>5. GoneMeansLate'
    BY <1>0, <1>2, LateStep, OfferParts DEF Advance, ReturnInv, GoneMeansLate
  <2>6. UnwoundMeansReturned'
    BY <1>0, <1>2, CancelledStep, OfferParts DEF Advance, ReturnInv, UnwoundMeansReturned
  <2> QED BY <1>s, <2>3, <2>4, <2>5, <2>6 DEF ReturnInv
<1>3. ASSUME NEW i \in Incident, NEW target \in SyncTargets, SyncEscrow(i, target)
      PROVE  ReturnInv'
  <2>1. CASE latest[i] = NoOffer
    BY <1>1, <1>3, <2>1 DEF SyncEscrow
  <2>2. CASE latest[i] # NoOffer
    <3> DEFINE o == latest[i]
               to == Follow(escrow[o], target)
    <3>1. o \in Offer /\ escrow[o] \in EscrowState \ {"INITIATED"} /\ IncidentOf(o) = i
      BY <2>2 DEF TypeInv, TypeOK, EscrowsOpen, ReturnInv, FollowsItsOwn
    <3>2. escrow' = [escrow EXCEPT ![o] = to] /\ escrow'[o] = to
      BY <1>0, <1>3, <2>2, <3>1 DEF SyncEscrow, TypeOK
    <3>3. target # "IN_TRANSIT" => incident[i] \in Late
      BY <1>3 DEF SyncEscrow, ReturnInv, SyncsWhenLate
    <3>4. /\ escrow[o] = "CANCELLED" => to = "CANCELLED"
          /\ target = "IN_TRANSIT" /\ escrow[o] \in Returnable => to \in Returnable
      BY <3>1, FollowReturns
    <3>5. offer' = offer /\ latest' = latest /\ syncing' \subseteq syncing
      BY <1>3 DEF SyncEscrow
    <3> HIDE DEF o, to
    <3> QED BY <1>0, <3>1, <3>2, <3>3, <3>4, <3>5, EscrowMoves
  <2> QED BY <2>1, <2>2
<1>4. ASSUME NEW i \in Incident, NEW trucks \in SUBSET Truck, NEW r \in 1 .. MaxRound,
             FanOut(i, trucks, r)
      PROVE  ReturnInv'
  BY <1>0, <1>4, RoundIsNew, ReturnKept DEF FanOut, tasks
<1>5. ASSUME NEW o \in Offer, Bind(o), UNCHANGED tasks
      PROVE  ReturnInv'
  <2>1. IncidentOf(o) \in Incident
    BY OfferParts
  <2>2. \A p \in Offer \ {o} : escrow'[p] = escrow[p] /\ (offer'[p] = "BOUND" => offer[p] = "BOUND")
    BY <1>0, <1>5, BindMoves DEF Bind, TypeOK
  <2>3. \A p \in Offer : offer'[p] = "CANCELLED" => p # o /\ offer[p] = "CANCELLED"
    BY <1>0, <1>5, BindMoves
  <2>4. escrow'[o] \in Returnable
    BY <1>0, <1>5 DEF Bind, TypeOK, Returnable, Held
  <2>5. FollowsItsOwn'
    BY <1>0, <1>5, <2>1 DEF Bind, TypeOK, ReturnInv, FollowsItsOwn
  <2>6. SyncsWhenLate'
    BY <1>0, <1>5, LateStep DEF tasks, ReturnInv, SyncsWhenLate
  <2>7. GoneMeansLate'
    BY <1>0, <2>2, <2>4, LateStep, OfferParts DEF ReturnInv, GoneMeansLate
  <2>8. UnwoundMeansReturned'
    BY <1>0, <2>2, <2>3, CancelledStep, OfferParts DEF ReturnInv, UnwoundMeansReturned
  <2> QED BY <1>s, <2>5, <2>6, <2>7, <2>8 DEF ReturnInv
<1>6. ASSUME NEW o \in Offer, NEW answered \in Live, RecordYes(o, answered), UNCHANGED tasks
      PROVE  ReturnInv'
  BY <1>0, <1>6, ReturnKept DEF RecordYes, TypeOK, tasks, Live
<1>7. ASSUME NEW o \in Offer, NEW how \in {"DECLINED", "WITHDRAWN"}, Refuse(o, how)
      PROVE  ReturnInv'
  BY <1>0, <1>7, ReturnKept DEF Refuse, TypeOK, tasks
<1>8. CASE ExpireDueOffers
  BY <1>0, <1>8, ReturnKept DEF ExpireDueOffers, tasks
<1>9. ASSUME NEW o \in Offer, CancelBoundOffer(o)
      PROVE  ReturnInv'
  <2>1. \A p \in Offer \ {o} : escrow'[p] = escrow[p] /\ offer'[p] = offer[p]
    BY <1>0, <1>9 DEF CancelBoundOffer, TypeOK
  <2>2. escrow'[o] = "CANCELLED"
    BY <1>0, <1>9 DEF CancelBoundOffer, TypeOK
  <2>3. FollowsItsOwn'
    BY <1>9 DEF CancelBoundOffer, ReturnInv, FollowsItsOwn
  <2>4. SyncsWhenLate'
    BY <1>0, <1>9, LateStep DEF CancelBoundOffer, tasks, ReturnInv, SyncsWhenLate
  <2>5. GoneMeansLate'
    BY <1>0, <2>1, <2>2, LateStep, OfferParts DEF ReturnInv, GoneMeansLate, Returnable
  <2>6. UnwoundMeansReturned'
    BY <1>0, <2>1, <2>2, CancelledStep, OfferParts DEF ReturnInv, UnwoundMeansReturned
  <2> QED BY <1>s, <2>3, <2>4, <2>5, <2>6 DEF ReturnInv
<1>10. ASSUME NEW i \in Incident, StandDown(i)
       PROVE  ReturnInv'
  <2>1. incident[i] \notin Late
    BY <1>10, LateIsFinal DEF StandDown
  <2>2. \A st \in Held : "CANCELLED" \in ValidTransitions[st]
    BY DEF Held, ValidTransitions
  <2>3. ASSUME NEW o \in Offer, offer'[o] = "CANCELLED"
        PROVE  \/ escrow'[o] = "CANCELLED"
               \/ o \in handedIn' /\ incident'[IncidentOf(o)] = "CANCELLED"
    <3>1. CASE o \in OffersOf(i) /\ offer[o] = "BOUND"
      <4>1. CASE escrow[o] \in Returnable
        BY <1>10, <2>2, <3>1, <4>1 DEF StandDown, Returnable
      <4>2. CASE escrow[o] \notin Returnable
        <5>1. o \in handedIn /\ IncidentOf(o) = i
          BY <2>1, <3>1, <4>2 DEF ReturnInv, GoneMeansLate, OffersOf
        <5> QED BY <1>0, <1>10, <5>1 DEF StandDown, TypeOK
      <4> QED BY <4>1, <4>2
    <3>2. CASE ~(o \in OffersOf(i) /\ offer[o] = "BOUND")
      <4>1. offer[o] = "CANCELLED" /\ escrow'[o] = escrow[o]
        BY <1>10, <2>3, <3>2 DEF StandDown
      <4> QED BY <1>0, <4>1, CancelledStep, OfferParts DEF ReturnInv, UnwoundMeansReturned
    <3> QED BY <3>1, <3>2
  <2>4. \A o \in Offer : offer'[o] = "BOUND" => offer[o] = "BOUND" /\ escrow'[o] = escrow[o]
    BY <1>10 DEF StandDown
  <2>5. FollowsItsOwn'
    BY <1>10 DEF StandDown, ReturnInv, FollowsItsOwn
  <2>6. SyncsWhenLate'
    BY <1>0, <1>10, LateStep DEF StandDown, tasks, ReturnInv, SyncsWhenLate
  <2>7. GoneMeansLate'
    BY <1>0, <2>4, LateStep, OfferParts DEF ReturnInv, GoneMeansLate
  <2> QED BY <1>s, <2>3, <2>5, <2>6, <2>7 DEF ReturnInv, UnwoundMeansReturned
<1>11. ASSUME NEW o \in Offer, NEW to \in ManualTargets, TransitionEscrow(o, to)
       PROVE  ReturnInv'
  <2>1. escrow[o] \in EscrowState \ {"INITIATED"} /\ to \in ValidTransitions[escrow[o]]
    BY <1>11 DEF TransitionEscrow, TypeInv, TypeOK, EscrowsOpen
  <2>2. (to \in Returnable \/ o \in handedIn') /\ escrow[o] # "CANCELLED"
    BY <1>11, <2>1, RescueAssumption
       DEF EscrowState, ValidTransitions, OwnerMayRequest, Returnable, Held
  <2>3. escrow'[o] = to /\ escrow' = [escrow EXCEPT ![o] = escrow'[o]]
    BY <1>0, <1>11 DEF TransitionEscrow, TypeOK
  <2> QED BY <1>0, <1>11, <2>2, <2>3, EscrowMoves DEF TransitionEscrow, tasks
<1>12. ASSUME NEW o \in Offer, NEW outcome \in {"RELEASED", "DISPUTED"},
              Verify(o, outcome)
       PROVE  ReturnInv'
  <2>1. escrow[o] \in EscrowState \ {"INITIATED"} /\ outcome \in ValidTransitions[escrow[o]]
    BY <1>12 DEF Verify, TypeInv, TypeOK, EscrowsOpen
  <2>2. escrow[o] = "PENDING_VERIFICATION"
    BY <2>1 DEF EscrowState, ValidTransitions
  <2>3. escrow'[o] = outcome /\ escrow' = [escrow EXCEPT ![o] = escrow'[o]]
    BY <1>0, <1>12 DEF Verify, TypeOK
  <2> QED BY <1>0, <1>12, <2>2, <2>3, EscrowMoves DEF Verify, Returnable, Held
<1>13. CASE Crash
  BY <1>1, <1>13 DEF Crash
<1>14. CASE UNCHANGED <<escrow, latest, syncing, offer>>
  BY <1>1, <1>14
<1> QED BY <1>2, <1>3, <1>4, <1>5, <1>6, <1>7, <1>8, <1>9, <1>10, <1>11, <1>12,
           <1>13, <1>14
        DEF Next, vars, tasks, CarrierDecline, OwnerWithdraw, CarrierAccept,
            OwnerConfirm, ReportBreakdown, Lapse, RecordSettlement, Live

\* A rescue that fell through, cancelled or stood down, has given the owner's
\* money back, whatever second commits are pending and however the incident
\* was moved by hand -- except where the owner had handed the money in for
\* verification and then stood the incident down.
THEOREM UnwoundIsReturned == HistorySpec => []UnwoundMeansReturned
<1>1. HistoryInit => ReturnInv
  BY DEF HistoryInit, Init, ReturnInv, FollowsItsOwn, SyncsWhenLate, SeenArrived,
         GoneMeansLate, UnwoundMeansReturned
<1>2. ASSUME TypeInv, ReturnInv, [HistoryNext]_<<vars, history>>
      PROVE  ReturnInv'
  <2>1. [Next]_vars /\ handedIn \subseteq handedIn'
    BY <1>2 DEF HistoryNext, history
  <2>2. CASE HistoryNext
    <3>1. \A o \in Offer : TransitionEscrow(o, "PENDING_VERIFICATION") => o \in handedIn'
      BY <2>2 DEF HistoryNext
    <3> QED BY <1>2, <2>1, <3>1, ReturnStep
  <2>3. CASE UNCHANGED <<vars, history>>
    BY <1>2, <2>3 DEF vars, history, ReturnInv, FollowsItsOwn, SyncsWhenLate, SeenArrived,
                      GoneMeansLate, UnwoundMeansReturned
  <2> QED BY <1>2, <2>2, <2>3
<1>3. ReturnInv => UnwoundMeansReturned
  BY DEF ReturnInv
<1>4. HistorySpec => []TypeInv
  BY HistoryIsRescue, TypeInvariant, PTL
<1> QED BY <1>1, <1>2, <1>3, <1>4, PTL DEF HistorySpec

-----------------------------------------------------------------------------
(* The truck of a bound rescue.                                             *)

\* The converse of DispatchedHasRescue, up to where another rescue's end frees the truck.
LEMMA TakenStep ==
  ASSUME TypeOK, BoundTruckIsTaken, [HistoryNext]_<<vars, history>>
  PROVE  BoundTruckIsTaken'
<1>0. CASE UNCHANGED <<vars, history>>
  BY <1>0 DEF vars, history, BoundTruckIsTaken
<1> SUFFICES ASSUME HistoryNext
             PROVE  BoundTruckIsTaken'
  BY <1>0
<1>1. \A o \in Offer : offer'[o] = "BOUND" /\ (o \in undercut \/ IsUndercut(o)) => o \in undercut'
  BY DEF HistoryNext
<1>2. ASSUME truck' = truck, \A o \in Offer : offer'[o] = "BOUND" => offer[o] = "BOUND"
      PROVE  BoundTruckIsTaken'
  BY <1>1, <1>2 DEF BoundTruckIsTaken
<1>3. ASSUME NEW i \in Incident, NEW trucks \in SUBSET Truck, NEW r \in 1 .. MaxRound,
             FanOut(i, trucks, r)
      PROVE  BoundTruckIsTaken'
  BY <1>2, <1>3 DEF FanOut
<1>4. ASSUME NEW o \in Offer, Bind(o)
      PROVE  BoundTruckIsTaken'
  <2>1. \A p \in Offer \ {o} : offer'[p] = "BOUND" => offer[p] = "BOUND"
    BY <1>4, BindMoves
  <2>2. /\ truck'[TruckOf(o)] = "dispatched_rescue"
        /\ \A t \in Truck : truck[t] = "dispatched_rescue" => truck'[t] = truck[t]
    BY <1>4, OfferParts DEF Bind, TypeOK
  <2> QED BY <1>1, <2>1, <2>2, OfferParts DEF BoundTruckIsTaken
<1>5. ASSUME NEW o \in Offer, NEW answered \in Live, RecordYes(o, answered)
      PROVE  BoundTruckIsTaken'
  BY <1>2, <1>5 DEF RecordYes, TypeOK, Live
<1>6. ASSUME NEW o \in Offer, NEW how \in {"DECLINED", "WITHDRAWN"}, Refuse(o, how)
      PROVE  BoundTruckIsTaken'
  BY <1>2, <1>6 DEF Refuse, TypeOK
<1>7. CASE ExpireDueOffers
  BY <1>2, <1>7 DEF ExpireDueOffers
<1>8. ASSUME NEW o \in Offer, CancelBoundOffer(o)
      PROVE  BoundTruckIsTaken'
  <2>1. /\ offer[o] = "BOUND" /\ offer'[o] = "CANCELLED"
        /\ \A p \in Offer \ {o} : offer'[p] = offer[p]
        /\ \A t \in Truck \ {TruckOf(o)} : truck'[t] = truck[t]
    BY <1>8, OfferParts DEF CancelBoundOffer, TypeOK
  <2> SUFFICES ASSUME NEW p \in Offer, offer'[p] = "BOUND"
               PROVE  truck'[TruckOf(p)] = "dispatched_rescue" \/ p \in undercut'
    BY DEF BoundTruckIsTaken
  <2>2. CASE TruckOf(p) = TruckOf(o)
    BY <1>1, <2>1, <2>2 DEF IsUndercut
  <2>3. CASE TruckOf(p) # TruckOf(o)
    BY <1>1, <2>1, <2>3, OfferParts DEF BoundTruckIsTaken
  <2> QED BY <2>2, <2>3
<1>9. ASSUME NEW i \in Incident, StandDown(i)
      PROVE  BoundTruckIsTaken'
  <2> DEFINE bound == {o \in OffersOf(i) : offer[o] = "BOUND"}
  <2>1. /\ \A o \in bound : o \in Offer /\ offer[o] = "BOUND" /\ offer'[o] = "CANCELLED"
        /\ \A o \in Offer : offer'[o] = "BOUND" => offer[o] = "BOUND" /\ o \notin bound
    BY <1>9 DEF StandDown, OffersOf
  <2>2. \A t \in Truck : (\A o \in bound : TruckOf(o) # t) => truck'[t] = truck[t]
    BY <1>9 DEF StandDown
  <2> HIDE DEF bound
  <2> SUFFICES ASSUME NEW p \in Offer, offer'[p] = "BOUND"
               PROVE  truck'[TruckOf(p)] = "dispatched_rescue" \/ p \in undercut'
    BY DEF BoundTruckIsTaken
  <2>3. ASSUME NEW o \in bound, TruckOf(o) = TruckOf(p)
        PROVE  p \in undercut'
    BY <1>1, <2>1, <2>3 DEF IsUndercut
  <2>4. CASE \A o \in bound : TruckOf(o) # TruckOf(p)
    BY <1>1, <2>1, <2>2, <2>4, OfferParts DEF BoundTruckIsTaken
  <2> QED BY <2>3, <2>4
<1>10. CASE UNCHANGED <<truck, offer>>
  BY <1>2, <1>10
<1> QED BY <1>3, <1>4, <1>5, <1>6, <1>7, <1>8, <1>9, <1>10
        DEF HistoryNext, Next, CarrierDecline, OwnerWithdraw, CarrierAccept, OwnerConfirm,
            ReportBreakdown, Advance, SyncEscrow, Lapse, TransitionEscrow, Verify,
            RecordSettlement, Crash, Live

\* The truck of a bound rescue stays marked as taken, over any number of rounds and
\* whatever ends, unless what ends is another incident's rescue with the same truck.
THEOREM BoundTruckStaysTaken == HistorySpec => []BoundTruckIsTaken
<1>1. HistoryInit => BoundTruckIsTaken
  BY DEF HistoryInit, Init, BoundTruckIsTaken
<1>2. HistorySpec => []TypeOK
  BY HistoryIsRescue, TypeCorrect, PTL
<1> QED BY <1>1, <1>2, TakenStep, PTL DEF HistorySpec
=============================================================================
