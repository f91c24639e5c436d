--------------------------- MODULE HandshakeProofs ---------------------------
(***************************************************************************)
(* Theorems about Handshake for every number of offers: what stale rows and *)
(* lost updates cannot break, for every number of sessions that overlap;    *)
(* and what else is kept as long as no two of them do, the two-party        *)
(* agreement of Agreement.tla among it.                                     *)
(***************************************************************************)
EXTENDS Reopening, TLAPS

-----------------------------------------------------------------------------
(* Types.                                                                   *)

\* What a yes loads about its offer is a row.
LEMMA LoadedType ==
  ASSUME TypeOK, NEW op \in Yes, NEW o \in Offer
  PROVE  Loaded(op, o) \in Yeses
<1>1. offer[o] \in OfferState
  BY DEF TypeOK
<1> QED BY <1>1 DEF Loaded, Yeses, Row

\* A session holds a record of one of six kinds, told apart by its operation.
LEMMA SessionKinds ==
  ASSUME TypeOK, NEW s \in Session
  PROVE  session[s] \in Yeses \cup Nos \cup Cancel \cup Many \cup Owners \cup {Closed}
BY DEF TypeOK

\* The session of a yes holds its row.
LEMMA YesSession ==
  ASSUME TypeOK, NEW s \in Session, session[s].op \in Yes
  PROVE  /\ session[s] \in Yeses
         /\ session[s].offer \in Offer
         /\ session[s].row \in Row
<1>1. session[s] \in Yeses
  BY SessionKinds DEF Nos, Cancel, Many, Owners, Closed, Yes, No
<1> QED BY <1>1 DEF Yeses

\* The session of a refusal holds its offer.
LEMMA NoSession ==
  ASSUME TypeOK, NEW s \in Session, session[s].op \in No
  PROVE  session[s].offer \in Offer
<1>1. session[s] \in Nos
  BY SessionKinds DEF Yeses, Cancel, Many, Owners, Closed, Yes, No
<1> QED BY <1>1 DEF Nos

\* The session of a cancellation holds the escrow it will reverse.
LEMMA CancelSession ==
  ASSUME TypeOK, NEW s \in Session, session[s].op = "cancel"
  PROVE  session[s].hold \in Hold /\ session[s].hold[1] \in Offer
<1>1. session[s] \in Cancel
  BY SessionKinds DEF Yeses, Nos, Many, Owners, Closed, Yes, No
<1> QED BY <1>1 DEF Cancel, Hold

\* The session of a call of /advance holds the state it will write.
LEMMA AdvanceSession ==
  ASSUME TypeOK, NEW s \in Session, session[s].op = "advance"
  PROVE  session[s].to \in IncidentState
<1>1. session[s] \in Owners
  BY SessionKinds DEF Yeses, Nos, Cancel, Many, Closed, Yes, No
<1> QED BY <1>1 DEF Owners

\* Its second commit holds the state the escrow has to follow.
LEMMA SyncSession ==
  ASSUME TypeOK, NEW s \in Session, session[s].op = "sync"
  PROVE  session[s].to \in SyncTargets
<1>1. session[s] \in Owners
  BY SessionKinds DEF Yeses, Nos, Cancel, Many, Closed, Yes, No
<1> QED BY <1>1 DEF Owners

\* The session of a sweep or a stand-down holds the offers it found.
LEMMA ManySession ==
  ASSUME TypeOK, NEW s \in Session, session[s].op \in {"sweep", "stand_down"}
  PROVE  /\ session[s] \in Many
         /\ session[s].live \subseteq Offer
         /\ session[s].bound \subseteq Hold
<1>1. session[s] \in Many
  BY SessionKinds DEF Yeses, Nos, Cancel, Owners, Closed, Yes, No
<1> QED BY <1>1 DEF Many

\* The answer of a row is a state of an offer.
LEMMA AnsweredType ==
  ASSUME NEW row \in Row, NEW op
  PROVE  Answered(row, op) \in OfferState
BY DEF Row, Answered, OfferState

\* A session that loads keeps the types.
LEMMA LoadType ==
  ASSUME TypeOK, NEW s \in Session,
         NEW seen \in Yeses \cup Nos \cup Cancel \cup Many \cup Owners, Load(s, seen)
  PROVE  TypeOK'
BY DEF Load, TypeOK, commitment

\* The states of an escrow that was opened.
OpenedState == EscrowState \ {"INITIATED"}

\* Following the incident leaves an escrow opened, and with the owner's money or without
\* it as it was: the walk stops at the door of the verification.
LEMMA FollowKeeps ==
  ASSUME NEW st \in OpenedState, NEW to \in SyncTargets
  PROVE  /\ Follow(st, to) \in OpenedState
         /\ Follow(st, to) \in InCustody <=> st \in InCustody
BY DEF OpenedState, EscrowState, SyncTargets, InCustody, Follow, WalkForward, StepTowards,
       Order, ValidTransitions

\* An edge of the table leaves a state in which the money is held, for a later one.
LEMMA EdgeType ==
  ASSUME NEW st \in OpenedState, NEW to \in ValidTransitions[st]
  PROVE  to \in OpenedState /\ st \in InCustody
BY DEF OpenedState, EscrowState, InCustody, ValidTransitions

\* A move of one opened escrow keeps the types.
LEMMA EscrowMoveType ==
  ASSUME TypeOK, NEW h \in Hold, NEW st \in OpenedState,
         escrow' = [escrow EXCEPT ![h] = st], UNCHANGED <<offers, incident>>,
         session' \in [Session -> Yeses \cup Nos \cup Cancel \cup Many \cup Owners \cup {Closed}]
  PROVE  TypeOK'
<1>1. escrow' \in [Hold -> (EscrowState \ {"INITIATED"}) \cup {"NONE"}]
  BY DEF TypeOK, OpenedState
<1>2. latest' # NoHold => escrow'[latest'] # "NONE"
  BY DEF TypeOK, offers, OpenedState, EscrowState
<1> QED BY <1>1, <1>2 DEF TypeOK, offers

\* Every step keeps the types.
LEMMA TypeStep == TypeOK /\ [Next]_vars => TypeOK'
<1> SUFFICES ASSUME TypeOK, [Next]_vars
             PROVE  TypeOK'
  OBVIOUS
<1>1. CASE UNCHANGED vars
  BY <1>1 DEF vars, TypeOK
<1>2. ASSUME NEW s \in Session, NEW op \in Yes, NEW o \in Offer, LoadYes(s, op, o)
      PROVE  TypeOK'
  BY <1>2, LoadedType, LoadType DEF LoadYes
<1>3. ASSUME NEW s \in Session, NEW how \in No, NEW o \in Offer, LoadNo(s, how, o)
      PROVE  TypeOK'
  <2>1. [op |-> how, offer |-> o] \in Nos
    BY DEF Nos
  <2> QED BY <1>3, <2>1, LoadType DEF LoadNo
<1>4. ASSUME NEW s \in Session, NEW o \in Offer, LoadCancel(s, o)
      PROVE  TypeOK'
  <2>1. [op |-> "cancel", hold |-> <<o, opened[o]>>] \in Cancel
    BY DEF Cancel, Hold, TypeOK
  <2> QED BY <1>4, <2>1, LoadType DEF LoadCancel
<1>5. ASSUME NEW s \in Session, LoadSweep(s)
      PROVE  TypeOK'
  <2>1. [op |-> "sweep", live |-> LiveOffers, bound |-> {}] \in Many
    BY DEF Many, LiveOffers
  <2> QED BY <1>5, <2>1, LoadType DEF LoadSweep
<1>6. ASSUME NEW s \in Session, LoadStandDown(s)
      PROVE  TypeOK'
  <2> DEFINE bound == {<<o, opened[o]>> : o \in {p \in Offer : offer[p] = "BOUND"}}
  <2>1. bound \subseteq Hold
    BY DEF TypeOK, Hold
  <2>2. [op |-> "stand_down", live |-> LiveOffers, bound |-> bound] \in Many
    BY <2>1 DEF Many, LiveOffers
  <2> QED BY <1>6, <2>2, LoadType DEF LoadStandDown
<1>7. ASSUME NEW s \in Session, Clear(s)
      PROVE  TypeOK'
  <2>1. session[s] \in Yeses
    BY <1>7, YesSession DEF Clear, Yes
  <2>2. [session[s] EXCEPT !.cleared = TRUE] \in Yeses
    BY <2>1 DEF Yeses
  <2>3. session' = [session EXCEPT ![s] = [session[s] EXCEPT !.cleared = TRUE]]
    BY <1>7 DEF Clear
  <2> QED BY <1>7, <2>2, <2>3 DEF Clear, TypeOK, commitment
<1>8. ASSUME NEW s \in Session, CommitYes(s)
      PROVE  TypeOK'
  <2>1. session[s].offer \in Offer /\ session[s].row \in Row
    BY <1>8, YesSession DEF CommitYes
  <2>2. Answered(session[s].row, session[s].op) \in OfferState
    BY <2>1, AnsweredType
  <2> QED BY <1>8, <2>1, <2>2 DEF CommitYes, SetYes, Done, TypeOK, commitment
<1>9. ASSUME NEW s \in Session, CommitBinding(s)
      PROVE  TypeOK'
  <2> DEFINE o == session[s].offer
  <2>1. o \in Offer
    BY <1>9, YesSession DEF CommitBinding
  <2>2. opened[o] \in 0 .. MaxEscrow /\ opened[o] + 1 \in 0 .. MaxEscrow
    BY <1>9, <2>1, HandshakeAssumption DEF CommitBinding, TypeOK
  <2>3. offer' \in [Offer -> OfferState]
    BY <1>9, <2>1 DEF CommitBinding, TypeOK, OfferState
  <2>4. accepted' \subseteq Offer /\ confirmed' \subseteq Offer
    BY <1>9, <2>1 DEF CommitBinding, SetYes, TypeOK
  <2>5. opened' \in [Offer -> 0 .. MaxEscrow]
    BY <1>9, <2>1, <2>2 DEF CommitBinding, TypeOK
  <2>6. <<o, opened[o] + 1>> \in Hold
    BY <2>1, <2>2 DEF Hold
  <2>7. /\ escrow' \in [Hold -> (EscrowState \ {"INITIATED"}) \cup {"NONE"}]
        /\ latest' \in Hold /\ escrow'[latest'] # "NONE"
    BY <1>9, <2>6 DEF CommitBinding, TypeOK, EscrowState
  <2>8. dispatched' \subseteq Offer /\ incident' \in IncidentState /\ late' \in BOOLEAN
    BY <1>9, <2>1 DEF CommitBinding, TypeOK, IncidentState
  <2>9. session' \in [Session -> Yeses \cup Nos \cup Cancel \cup Many \cup Owners \cup {Closed}]
    BY <1>9 DEF CommitBinding, Done, TypeOK
  <2> QED BY <2>3, <2>4, <2>5, <2>7, <2>8, <2>9 DEF TypeOK
<1>10. ASSUME NEW s \in Session, CommitNo(s)
       PROVE  TypeOK'
  <2>1. session[s].offer \in Offer
    BY <1>10, NoSession DEF CommitNo
  <2> QED BY <1>10, <2>1 DEF CommitNo, No, Done, TypeOK, OfferState, commitment
<1>11. ASSUME NEW s \in Session, CommitCancel(s)
       PROVE  TypeOK'
  <2> DEFINE h == session[s].hold
  <2>1. h \in Hold /\ h[1] \in Offer
    BY <1>11, CancelSession DEF CommitCancel
  <2>2. offer' \in [Offer -> OfferState] /\ incident' \in IncidentState
    BY <1>11, <2>1 DEF CommitCancel, TypeOK, OfferState, IncidentState
  <2>3. /\ escrow' \in [Hold -> (EscrowState \ {"INITIATED"}) \cup {"NONE"}]
        /\ latest' # NoHold => escrow'[latest'] # "NONE"
    BY <1>11, <2>1 DEF CommitCancel, TypeOK, EscrowState
  <2> QED BY <1>11, <2>2, <2>3 DEF CommitCancel, Done, TypeOK
<1>12. ASSUME NEW s \in Session, CommitSweep(s)
       PROVE  TypeOK'
  BY <1>12 DEF CommitSweep, Done, TypeOK, OfferState, commitment
<1>13. ASSUME NEW s \in Session, CommitStandDown(s)
       PROVE  TypeOK'
  <2>1. offer' \in [Offer -> OfferState] /\ incident' \in IncidentState
    BY <1>13 DEF CommitStandDown, TypeOK, OfferState, IncidentState
  <2>2. /\ escrow' \in [Hold -> (EscrowState \ {"INITIATED"}) \cup {"NONE"}]
        /\ latest' # NoHold => escrow'[latest'] # "NONE"
    BY <1>13 DEF CommitStandDown, TypeOK, EscrowState
  <2> QED BY <1>13, <2>1, <2>2 DEF CommitStandDown, Done, TypeOK
<1>14. ASSUME NEW s \in Session, Abandon(s)
       PROVE  TypeOK'
  BY <1>14 DEF Abandon, Done, TypeOK, commitment
<1>15. ASSUME NEW s \in Session, NEW new \in ByHand, LoadAdvance(s, new)
       PROVE  TypeOK'
  <2>1. [op |-> "advance", to |-> new] \in Owners
    BY HandshakeAssumption DEF Owners
  <2> QED BY <1>15, <2>1, LoadType DEF LoadAdvance
<1>16. ASSUME NEW s \in Session, CommitAdvance(s)
       PROVE  TypeOK'
  <2>1. session[s].to \in IncidentState
    BY <1>16, AdvanceSession DEF CommitAdvance
  <2>2. session[s].to \in DOMAIN IncidentToEscrow
          => [op |-> "sync", to |-> IncidentToEscrow[session[s].to]] \in Owners
    BY DEF Owners, IncidentToEscrow, SyncTargets
  <2> QED BY <1>16, <2>1, <2>2 DEF CommitAdvance, TypeOK, offers
<1>17. ASSUME NEW s \in Session, SyncEscrow(s)
       PROVE  TypeOK'
  <2>1. session[s].to \in SyncTargets
    BY <1>17, SyncSession DEF SyncEscrow
  <2>2. session' \in [Session -> Yeses \cup Nos \cup Cancel \cup Many \cup Owners \cup {Closed}]
    BY <1>17 DEF SyncEscrow, Done, TypeOK
  <2>3. CASE latest = NoHold
    BY <1>17, <2>2, <2>3 DEF SyncEscrow, TypeOK, offers
  <2>4. CASE latest # NoHold
    <3>1. latest \in Hold /\ escrow[latest] \in OpenedState
      BY <2>4 DEF TypeOK, OpenedState
    <3>2. Follow(escrow[latest], session[s].to) \in OpenedState
      BY <2>1, <3>1, FollowKeeps
    <3> QED BY <1>17, <2>2, <2>4, <3>1, <3>2, EscrowMoveType DEF SyncEscrow
  <2> QED BY <2>3, <2>4
<1>18. ASSUME NEW h \in Hold, NEW to \in ManualTargets, TransitionEscrow(h, to)
       PROVE  TypeOK'
  <2>1. escrow[h] \in OpenedState /\ to \in OpenedState
    BY <1>18, EdgeType DEF TransitionEscrow, TypeOK, OpenedState
  <2> QED BY <1>18, <2>1, EscrowMoveType DEF TransitionEscrow, TypeOK
<1>19. ASSUME NEW h \in Hold, NEW outcome \in {"RELEASED", "DISPUTED"}, Verify(h, outcome)
       PROVE  TypeOK'
  <2>1. escrow[h] \in OpenedState /\ outcome \in OpenedState
    BY <1>19, EdgeType DEF Verify, TypeOK, OpenedState
  <2> QED BY <1>19, <2>1, EscrowMoveType DEF Verify, TypeOK
<1>20. CASE Lapse
  BY <1>20 DEF Lapse, TypeOK, commitment
<1> QED BY <1>1, <1>2, <1>3, <1>4, <1>5, <1>6, <1>7, <1>8, <1>9, <1>10, <1>11, <1>12,
           <1>13, <1>14, <1>15, <1>16, <1>17, <1>18, <1>19, <1>20 DEF Next

\* Rows and sessions have values of their types, however requests overlap.
THEOREM TypeCorrect == Spec => []TypeOK
<1>1. ASSUME Init
      PROVE  TypeOK
  <2>1. 0 \in 0 .. MaxEscrow
    BY HandshakeAssumption
  <2> QED BY <1>1, <2>1 DEF Init, TypeOK, OfferState, IncidentState
<1> QED BY <1>1, TypeStep, PTL DEF Spec

-----------------------------------------------------------------------------
(* Consent.                                                                 *)

\* A session never believes in a consent that was not given: the columns it
\* read are only ever set, never cleared, so an old row errs on the safe side.
SeenConsent(w, carriers, owners) ==
  /\ w.op \in Yes =>
       /\ w.row.accepted => w.offer \in carriers
       /\ w.row.confirmed => w.offer \in owners
  /\ w.op = "cancel" => w.hold[1] \in carriers \cap owners
  /\ w.op = "stand_down" => \A h \in w.bound : h[1] \in carriers \cap owners

SessionsSeeConsent == \A s \in Session : SeenConsent(session[s], accepted, confirmed)

ConsentInv == SessionsSeeConsent /\ ConsentBeforeBinding

\* What sessions have seen stays given.
LEMMA ConsentIsKept ==
  ASSUME SessionsSeeConsent, accepted \subseteq accepted', confirmed \subseteq confirmed',
         \A s \in Session : \/ session'[s] = session[s]
                            \/ SeenConsent(session'[s], accepted', confirmed')
  PROVE  SessionsSeeConsent'
BY DEF SessionsSeeConsent, SeenConsent

\* A commit closes its session, which has then seen nothing, and leaves the
\* others alone.
LEMMA DoneKeeps ==
  ASSUME TypeOK, NEW s \in Session, Done(s), SessionsSeeConsent,
         accepted \subseteq accepted', confirmed \subseteq confirmed'
  PROVE  SessionsSeeConsent'
<1>1. \A t \in Session : session'[t] = session[t] \/ session'[t] = Closed
  BY DEF Done, TypeOK
<1>2. SeenConsent(Closed, accepted', confirmed')
  BY DEF SeenConsent, Closed, Yes, No
<1> QED BY <1>1, <1>2, ConsentIsKept

\* A load sees what is there.
LEMMA LoadKeeps ==
  ASSUME TypeOK, ConsentInv, NEW s \in Session, NEW seen, Load(s, seen),
         SeenConsent(seen, accepted, confirmed)
  PROVE  ConsentInv'
<1>1. accepted' = accepted /\ confirmed' = confirmed /\ offer' = offer
  BY DEF Load
<1>2. \A t \in Session : session'[t] = session[t] \/ session'[t] = seen
  BY DEF Load, TypeOK
<1>3. SessionsSeeConsent'
  BY <1>1, <1>2, ConsentIsKept DEF ConsentInv
<1> QED BY <1>1, <1>3 DEF ConsentInv, ConsentBeforeBinding

\* Every step keeps the consents in order.
LEMMA ConsentStep == TypeOK /\ ConsentInv /\ [Next]_vars => ConsentInv'
<1> SUFFICES ASSUME TypeOK, ConsentInv, [Next]_vars
             PROVE  ConsentInv'
  OBVIOUS
<1> USE DEF ConsentInv
<1>1. CASE UNCHANGED vars
  BY <1>1 DEF vars, SessionsSeeConsent, SeenConsent, ConsentBeforeBinding
<1>2. ASSUME NEW s \in Session, NEW op \in Yes, NEW o \in Offer, LoadYes(s, op, o)
      PROVE  ConsentInv'
  <2>1. SeenConsent(Loaded(op, o), accepted, confirmed)
    BY DEF SeenConsent, Loaded, Yes
  <2> QED BY <1>2, <2>1, LoadKeeps DEF LoadYes
<1>3. ASSUME NEW s \in Session, NEW how \in No, NEW o \in Offer, LoadNo(s, how, o)
      PROVE  ConsentInv'
  <2>1. SeenConsent([op |-> how, offer |-> o], accepted, confirmed)
    BY DEF SeenConsent, Yes, No
  <2> QED BY <1>3, <2>1, LoadKeeps DEF LoadNo
<1>4. ASSUME NEW s \in Session, NEW o \in Offer, LoadCancel(s, o)
      PROVE  ConsentInv'
  <2>1. o \in accepted \cap confirmed
    BY <1>4 DEF LoadCancel, ConsentBeforeBinding
  <2>2. SeenConsent([op |-> "cancel", hold |-> <<o, opened[o]>>], accepted, confirmed)
    BY <2>1 DEF SeenConsent, Yes
  <2> QED BY <1>4, <2>2, LoadKeeps DEF LoadCancel
<1>5. ASSUME NEW s \in Session, LoadSweep(s)
      PROVE  ConsentInv'
  <2>1. SeenConsent([op |-> "sweep", live |-> LiveOffers, bound |-> {}],
                    accepted, confirmed)
    BY DEF SeenConsent, Yes, No
  <2> QED BY <1>5, <2>1, LoadKeeps DEF LoadSweep
<1>6. ASSUME NEW s \in Session, LoadStandDown(s)
      PROVE  ConsentInv'
  <2> DEFINE bound == {<<o, opened[o]>> : o \in {p \in Offer : offer[p] = "BOUND"}}
  <2>1. \A h \in bound : h[1] \in accepted \cap confirmed
    BY DEF ConsentBeforeBinding
  <2>2. SeenConsent([op |-> "stand_down", live |-> LiveOffers, bound |-> bound],
                    accepted, confirmed)
    BY <2>1 DEF SeenConsent, Yes, No
  <2> QED BY <1>6, <2>2, LoadKeeps DEF LoadStandDown
<1>7. ASSUME NEW s \in Session, Clear(s)
      PROVE  ConsentInv'
  <2>1. session[s] \in Yeses
    BY <1>7, YesSession DEF Clear, Yes
  <2>2. UNCHANGED <<accepted, confirmed, offer>>
    BY <1>7 DEF Clear
  <2>3. \A t \in Session \ {s} : session'[t] = session[t]
    BY <1>7 DEF Clear, TypeOK
  <2>4. session'[s] = [session[s] EXCEPT !.cleared = TRUE]
    BY <1>7 DEF Clear, TypeOK
  <2>5. /\ session'[s].op = session[s].op
        /\ session'[s].row = session[s].row
        /\ session'[s].offer = session[s].offer
    BY <2>1, <2>4 DEF Yeses
  <2>6. SeenConsent(session'[s], accepted', confirmed')
    BY <1>7, <2>2, <2>5 DEF SessionsSeeConsent, SeenConsent, Clear
  <2>7. SessionsSeeConsent'
    BY <2>2, <2>3, <2>6, ConsentIsKept
  <2> QED BY <2>2, <2>7 DEF ConsentBeforeBinding
<1>8. ASSUME NEW s \in Session, CommitYes(s)
      PROVE  ConsentInv'
  <2>1. session[s].offer \in Offer /\ session[s].row \in Row
    BY <1>8, YesSession DEF CommitYes
  <2>2. accepted \subseteq accepted' /\ confirmed \subseteq confirmed'
    BY <1>8 DEF CommitYes, SetYes
  <2>3. \A o \in Offer : offer'[o] \in {"BOUND", "CANCELLED"} => offer'[o] = offer[o]
    BY <1>8, <2>1 DEF CommitYes, Answered, TypeOK
  <2>4. SessionsSeeConsent'
    BY <1>8, <2>2, DoneKeeps DEF CommitYes
  <2> QED BY <2>2, <2>3, <2>4 DEF ConsentBeforeBinding
<1>9. ASSUME NEW s \in Session, CommitBinding(s)
      PROVE  ConsentInv'
  <2> DEFINE w == session[s]
  <2>1. w.offer \in Offer /\ SeenConsent(w, accepted, confirmed)
    BY <1>9, YesSession DEF CommitBinding, SessionsSeeConsent
  <2>2. accepted \subseteq accepted' /\ confirmed \subseteq confirmed'
    BY <1>9 DEF CommitBinding, SetYes
  <2>3. w.offer \in accepted' \cap confirmed'
    BY <1>9, <2>1 DEF CommitBinding, SetYes, BothAgreed, SeenConsent
  <2>4. \A o \in Offer \ {w.offer} :
          offer'[o] \in {"BOUND", "CANCELLED"} => offer'[o] = offer[o]
    BY <1>9, <2>1 DEF CommitBinding, TypeOK
  <2>5. SessionsSeeConsent'
    BY <1>9, <2>2, DoneKeeps DEF CommitBinding
  <2> QED BY <2>2, <2>3, <2>4, <2>5 DEF ConsentBeforeBinding
<1>10. ASSUME NEW s \in Session, CommitNo(s)
       PROVE  ConsentInv'
  <2>1. session[s].offer \in Offer
    BY <1>10, NoSession DEF CommitNo
  <2>2. \A o \in Offer : offer'[o] \in {"BOUND", "CANCELLED"} => offer'[o] = offer[o]
    BY <1>10, <2>1 DEF CommitNo, No, TypeOK
  <2>3. SessionsSeeConsent'
    BY <1>10, DoneKeeps DEF CommitNo
  <2> QED BY <1>10, <2>2, <2>3 DEF CommitNo, ConsentBeforeBinding
<1>11. ASSUME NEW s \in Session, CommitCancel(s)
       PROVE  ConsentInv'
  <2>1. session[s].hold[1] \in accepted \cap confirmed
    BY <1>11 DEF CommitCancel, SessionsSeeConsent, SeenConsent
  <2>2. SessionsSeeConsent'
    BY <1>11, DoneKeeps DEF CommitCancel
  <2> QED BY <1>11, <2>1, <2>2 DEF CommitCancel, ConsentBeforeBinding, TypeOK
<1>12. ASSUME NEW s \in Session, CommitSweep(s)
       PROVE  ConsentInv'
  <2>1. SessionsSeeConsent'
    BY <1>12, DoneKeeps DEF CommitSweep
  <2> QED BY <1>12, <2>1 DEF CommitSweep, ConsentBeforeBinding
<1>13. ASSUME NEW s \in Session, CommitStandDown(s)
       PROVE  ConsentInv'
  <2>1. \A h \in session[s].bound : h[1] \in accepted \cap confirmed
    BY <1>13 DEF CommitStandDown, SessionsSeeConsent, SeenConsent
  <2>2. SessionsSeeConsent'
    BY <1>13, DoneKeeps DEF CommitStandDown
  <2> QED BY <1>13, <2>1, <2>2 DEF CommitStandDown, ConsentBeforeBinding
<1>14. ASSUME NEW s \in Session, Abandon(s)
       PROVE  ConsentInv'
  <2>1. SessionsSeeConsent'
    BY <1>14, DoneKeeps DEF Abandon
  <2> QED BY <1>14, <2>1 DEF Abandon, ConsentBeforeBinding
<1>15. ASSUME NEW s \in Session, NEW new \in ByHand, LoadAdvance(s, new)
       PROVE  ConsentInv'
  <2>1. SeenConsent([op |-> "advance", to |-> new], accepted, confirmed)
    BY DEF SeenConsent, Yes
  <2> QED BY <1>15, <2>1, LoadKeeps DEF LoadAdvance
<1>16. ASSUME NEW s \in Session, CommitAdvance(s)
       PROVE  ConsentInv'
  <2>1. UNCHANGED <<accepted, confirmed, offer>>
    BY <1>16 DEF CommitAdvance, offers
  <2>2. SeenConsent(session'[s], accepted, confirmed)
    BY <1>16 DEF CommitAdvance, SeenConsent, Closed, Yes, TypeOK
  <2>3. \A t \in Session \ {s} : session'[t] = session[t]
    BY <1>16 DEF CommitAdvance, TypeOK
  <2>4. SessionsSeeConsent'
    BY <2>1, <2>2, <2>3, ConsentIsKept
  <2> QED BY <2>1, <2>4 DEF ConsentBeforeBinding
<1>17. ASSUME NEW s \in Session, SyncEscrow(s)
       PROVE  ConsentInv'
  <2>1. SessionsSeeConsent'
    BY <1>17, DoneKeeps DEF SyncEscrow, offers
  <2> QED BY <1>17, <2>1 DEF SyncEscrow, offers, ConsentBeforeBinding
<1>18. CASE UNCHANGED <<offer, accepted, confirmed, session>>
  BY <1>18 DEF SessionsSeeConsent, SeenConsent, ConsentBeforeBinding
<1> QED BY <1>1, <1>2, <1>3, <1>4, <1>5, <1>6, <1>7, <1>8, <1>9, <1>10, <1>11, <1>12,
           <1>13, <1>14, <1>15, <1>16, <1>17, <1>18
        DEF Next, TransitionEscrow, Verify, offers, Lapse

\* No rescue is ever bound without the consent of both parties, however stale
\* the rows its requests decided on.
THEOREM ConsentSurvivesRaces == Spec => []ConsentBeforeBinding
<1>1. Init => ConsentInv
  BY DEF Init, ConsentInv, SessionsSeeConsent, SeenConsent, Closed, Yes, No,
         ConsentBeforeBinding
<1> QED BY <1>1, ConsentStep, TypeCorrect, PTL DEF Spec, ConsentInv

-----------------------------------------------------------------------------
(* The money.                                                               *)

\* While help is sought no money is held: so the binding that finds the
\* incident seeking is the only one with a hold.
MoneyInv == HeldOnce /\ (held # {} => incident \notin Seeking)

\* A binding is refused unless help is still sought.
LEMMA BindingWhileSeeking ==
  ASSUME NEW st \in IncidentState, MayAccept(st)
  PROVE  st \in Seeking
BY DEF IncidentState, Transitions, Seeking, MayAccept, SteppedUp

\* What happens to the state of one escrow happens to its being held.
LEMMA OneMoves ==
  ASSUME TypeOK, NEW h \in Hold, NEW st,
         escrow' = [escrow EXCEPT ![h] = st]
  PROVE  /\ st \in InCustody /\ escrow[h] \in InCustody => held' = held
         /\ st \notin InCustody => held' = held \ {h}
         /\ escrow[h] \in InCustody => held' \subseteq held
<1>1. \A g \in Hold : escrow'[g] = IF g = h THEN st ELSE escrow[g]
  BY DEF TypeOK
<1> QED BY <1>1 DEF held

\* The second commit of /advance takes no money and gives none back.
LEMMA SyncKeepsHeld ==
  ASSUME TypeOK, NEW s \in Session, SyncEscrow(s)
  PROVE  held' = held
<1>1. CASE latest = NoHold
  BY <1>1 DEF SyncEscrow, held
<1>2. CASE latest # NoHold
  <2> DEFINE st == Follow(escrow[latest], session[s].to)
  <2>1. latest \in Hold /\ escrow[latest] \in OpenedState
    BY <1>2 DEF TypeOK, OpenedState
  <2>2. st \in InCustody <=> escrow[latest] \in InCustody
    BY <2>1, SyncSession, FollowKeeps DEF SyncEscrow
  <2>3. escrow' = [escrow EXCEPT ![latest] = st]
    BY <1>2 DEF SyncEscrow
  <2> HIDE DEF st
  <2>4. \A g \in Hold : escrow'[g] = IF g = latest THEN st ELSE escrow[g]
    BY <2>3 DEF TypeOK
  <2> QED BY <2>1, <2>2, <2>4 DEF held
<1> QED BY <1>1, <1>2

\* A move by the owner leaves only the escrow it moves without the money.
LEMMA OwnersMove ==
  ASSUME TypeOK, NEW h \in Hold, NEW to,
         escrow[h] # "NONE", to \in ValidTransitions[escrow[h]],
         escrow' = [escrow EXCEPT ![h] = to]
  PROVE  /\ held' \subseteq held
         /\ to \in InCustody => held' = held
         /\ held \ {h} \subseteq held'
<1>1. escrow[h] \in InCustody
  BY EdgeType DEF TypeOK, OpenedState
<1> QED BY <1>1, OneMoves

\* A cancellation gives back the money of the escrow it loaded.
LEMMA CancelGivesBack ==
  ASSUME TypeOK, NEW s \in Session, CommitCancel(s)
  PROVE  session[s].hold \in held /\ held' = held \ {session[s].hold}
<1> DEFINE h == session[s].hold
<1>1. h \in Hold
  BY CancelSession DEF CommitCancel
<1>2. escrow[h] \in InCustody
  BY <1>1 DEF CommitCancel, Reversible, InCustody, ValidTransitions, EscrowState, TypeOK
<1>3. escrow' = [escrow EXCEPT ![h] = "CANCELLED"]
  BY DEF CommitCancel
<1>4. "CANCELLED" \notin InCustody
  BY DEF InCustody
<1>5. held' = held \ {h}
  BY <1>1, <1>3, <1>4, OneMoves
<1> QED BY <1>1, <1>2, <1>5 DEF held

\* Only a binding takes money.
LEMMA HeldShrinks ==
  ASSUME TypeOK, [Next]_vars, \A s \in Session : ~CommitBinding(s)
  PROVE  held' \subseteq held
<1>1. CASE escrow' = escrow
  BY <1>1 DEF held
<1>2. ASSUME NEW s \in Session, CommitCancel(s)
      PROVE  held' \subseteq held
  BY <1>2, CancelGivesBack
<1>3. ASSUME NEW s \in Session, CommitStandDown(s)
      PROVE  held' \subseteq held
  BY <1>3 DEF CommitStandDown, held, InCustody
<1>4. ASSUME NEW s \in Session, SyncEscrow(s)
      PROVE  held' \subseteq held
  BY <1>4, SyncKeepsHeld
<1>5. ASSUME NEW h \in Hold, NEW to \in ManualTargets, TransitionEscrow(h, to)
      PROVE  held' \subseteq held
  BY <1>5, OwnersMove DEF TransitionEscrow
<1>6. ASSUME NEW h \in Hold, NEW outcome \in {"RELEASED", "DISPUTED"}, Verify(h, outcome)
      PROVE  held' \subseteq held
  BY <1>6, OwnersMove DEF Verify
<1> QED BY <1>1, <1>2, <1>3, <1>4, <1>5, <1>6
        DEF Next, vars, commitment, LoadYes, LoadNo, LoadCancel, LoadSweep,
            LoadStandDown, LoadAdvance, Load, Clear, CommitYes, CommitNo, CommitSweep,
            Abandon, CommitAdvance, Lapse

\* A binding opens one escrow, with the money in it.
LEMMA BindingHolds ==
  ASSUME TypeOK, NEW s \in Session, CommitBinding(s)
  PROVE  LET o == session[s].offer
         IN  /\ o \in Offer
             /\ opened'[o] = opened[o] + 1
             /\ \A p \in Offer \ {o} : opened'[p] = opened[p]
             /\ held' = held \cup {<<o, opened[o] + 1>>}
<1> DEFINE o == session[s].offer
           h == <<o, opened[o] + 1>>
<1>1. o \in Offer
  BY YesSession DEF CommitBinding
<1>2. h \in Hold
  BY <1>1, HandshakeAssumption DEF CommitBinding, TypeOK, Hold
<1>3. escrow' = [escrow EXCEPT ![h] = "ACCEPTED"]
  BY DEF CommitBinding
<1> HIDE DEF h
<1>4. \A g \in Hold : escrow'[g] = IF g = h THEN "ACCEPTED" ELSE escrow[g]
  BY <1>3 DEF TypeOK
<1>5. held' = held \cup {h}
  BY <1>2, <1>4 DEF held, InCustody
<1>6. opened' = [opened EXCEPT ![o] = opened[o] + 1]
  BY DEF CommitBinding
<1> QED BY <1>1, <1>5, <1>6 DEF h, TypeOK

\* What leaves the incident where it is, or out of the search, takes no money there.
LEMMA QuietStep ==
  ASSUME MoneyInv, held' \subseteq held, incident' = incident \/ incident' \notin Seeking
  PROVE  MoneyInv'
BY DEF MoneyInv, HeldOnce

\* Every step keeps the money in one place, but the one that reopens the
\* search over a hold.
LEMMA MoneyStep ==
  ASSUME TypeOK, MoneyInv, [Next]_vars, ~Reopens
  PROVE  MoneyInv'
<1>1. ASSUME NEW s \in Session, CommitBinding(s)
      PROVE  MoneyInv'
  <2>1. held = {}
    BY <1>1, BindingWhileSeeking DEF CommitBinding, TypeOK, MoneyInv
  <2>2. \A h, k \in held' : h = k
    BY <1>1, <2>1, BindingHolds
  <2> QED BY <1>1, <2>2 DEF CommitBinding, MoneyInv, HeldOnce, Seeking
<1>2. CASE \A s \in Session : ~CommitBinding(s)
  <2>1. held' \subseteq held
    BY <1>2, HeldShrinks
  <2>2. ASSUME NEW s \in Session, CommitCancel(s)
        PROVE  MoneyInv'
    <3>1. session[s].hold \in held /\ held' = held \ {session[s].hold}
      BY <2>2, CancelGivesBack
    <3>2. held' = {}
      BY <3>1 DEF MoneyInv, HeldOnce
    <3> QED BY <3>2 DEF MoneyInv, HeldOnce
  <2>3. ASSUME NEW s \in Session, CommitStandDown(s)
        PROVE  MoneyInv'
    BY <2>1, <2>3, QuietStep DEF CommitStandDown, Seeking
  <2>4. ASSUME NEW s \in Session, CommitAdvance(s)
        PROVE  MoneyInv'
    <3>1. held' = held
      BY <2>4 DEF CommitAdvance, held
    <3>2. held = {} \/ incident' \notin Seeking
      BY <2>4 DEF Reopens
    <3> QED BY <3>1, <3>2 DEF MoneyInv, HeldOnce
  <2>5. CASE incident' = incident
    BY <2>1, <2>5, QuietStep
  <2> QED BY <1>2, <2>2, <2>3, <2>4, <2>5
          DEF Next, vars, commitment, offers, LoadYes, LoadNo, LoadCancel, LoadSweep,
              LoadStandDown, LoadAdvance, Load, Clear, CommitYes, CommitNo, CommitSweep,
              Abandon, SyncEscrow, TransitionEscrow, Verify, Lapse
<1> QED BY <1>1, <1>2

\* The history variables add nothing to what Handshake does.
LEMMA HistoryIsHandshake == HistorySpec => Spec
<1>1. HistoryInit => Init
  BY DEF HistoryInit
<1>2. [HistoryNext]_<<vars, history>> => [Next]_vars
  BY DEF HistoryNext
<1> QED BY <1>1, <1>2, PTL DEF HistorySpec, Spec

\* However many requests race to bind, and through any number of rescues that
\* are bound and cancelled, the owner's money is held once for the incident
\* until the owner reopens the search by hand over a hold.
THEOREM MoneyHeldOnce == HistorySpec => []HeldOnceUntilReopened
<1> DEFINE Inv == ~reopened => MoneyInv
<1>1. HistoryInit => Inv
  <2>1. Init => held = {}
    BY DEF Init, held, InCustody
  <2> QED BY <2>1 DEF HistoryInit, MoneyInv, HeldOnce
<1>2. TypeOK /\ Inv /\ [HistoryNext]_<<vars, history>> => Inv'
  <2>1. CASE UNCHANGED <<vars, history>>
    BY <2>1 DEF vars, commitment, history, MoneyInv, HeldOnce, held
  <2>2. ASSUME TypeOK, Inv, HistoryNext
        PROVE  Inv'
    <3> SUFFICES ASSUME ~reopened'
                 PROVE  MoneyInv'
      OBVIOUS
    <3>1. ~reopened /\ ~Reopens /\ Next
      BY <2>2 DEF HistoryNext
    <3> QED BY <2>2, <3>1, MoneyStep
  <2> QED BY <2>1, <2>2
<1>3. Inv => HeldOnceUntilReopened
  BY DEF MoneyInv, HeldOnceUntilReopened
<1>4. HistorySpec => []TypeOK
  BY HistoryIsHandshake, TypeCorrect, PTL
<1> QED BY <1>1, <1>2, <1>3, <1>4, PTL DEF HistorySpec

\* A step that binds nothing and takes no money from a bound offer keeps all funded.
LEMMA StillFunded ==
  ASSUME BoundIsFunded, opened' = opened, ended \subseteq ended',
         \A o \in Offer : offer'[o] = "BOUND" =>
           offer[o] = "BOUND" /\ (<<o, opened[o]>> \in held => <<o, opened[o]>> \in held' \cup ended')
  PROVE  BoundIsFunded'
BY DEF BoundIsFunded

\* Every step keeps the hold of a bound offer, but for the owner's own.
LEMMA FundedStep == TypeOK /\ BoundIsFunded /\ HistoryNext => BoundIsFunded'
<1> SUFFICES ASSUME TypeOK, BoundIsFunded, HistoryNext
             PROVE  BoundIsFunded'
  OBVIOUS
<1>0. Next /\ ended \subseteq ended' /\ \A h \in Hold : OwnerEnds(h) => h \in ended'
  BY DEF HistoryNext
<1>1. ASSUME held' = held, opened' = opened,
             \A o \in Offer : offer'[o] = "BOUND" => offer[o] = "BOUND"
      PROVE  BoundIsFunded'
  BY <1>0, <1>1, StillFunded
<1>2. ASSUME NEW s \in Session, CommitYes(s)
      PROVE  BoundIsFunded'
  <2>1. session[s].offer \in Offer
    BY <1>2, YesSession DEF CommitYes
  <2>2. held' = held
    BY <1>2 DEF CommitYes, commitment, held
  <2> QED BY <1>1, <1>2, <2>1, <2>2 DEF CommitYes, Answered, TypeOK, commitment
<1>3. ASSUME NEW s \in Session, CommitBinding(s)
      PROVE  BoundIsFunded'
  <2> DEFINE o == session[s].offer
  <2>1. /\ o \in Offer
        /\ opened'[o] = opened[o] + 1 /\ \A p \in Offer \ {o} : opened'[p] = opened[p]
        /\ held' = held \cup {<<o, opened[o] + 1>>}
    BY <1>3, BindingHolds
  <2>2. \A p \in Offer \ {o} : offer'[p] = "BOUND" => offer[p] = "BOUND"
    BY <1>3, <2>1 DEF CommitBinding, TypeOK
  <2> QED BY <1>0, <2>1, <2>2 DEF BoundIsFunded
<1>4. ASSUME NEW s \in Session, CommitNo(s)
      PROVE  BoundIsFunded'
  <2>1. session[s].offer \in Offer
    BY <1>4, NoSession DEF CommitNo
  <2>2. held' = held
    BY <1>4 DEF CommitNo, commitment, held
  <2> QED BY <1>1, <1>4, <2>1, <2>2 DEF CommitNo, No, TypeOK, commitment
<1>5. ASSUME NEW s \in Session, CommitCancel(s)
      PROVE  BoundIsFunded'
  <2> DEFINE h == session[s].hold
  <2>1. h \in Hold /\ h[1] \in Offer
    BY <1>5, CancelSession DEF CommitCancel
  <2>2. offer'[h[1]] # "BOUND" /\ \A p \in Offer \ {h[1]} : offer'[p] = offer[p]
    BY <1>5, <2>1 DEF CommitCancel, TypeOK
  <2>3. held' = held \ {h}
    BY <1>5, CancelGivesBack
  <2>4. \A p \in Offer : p # h[1] => <<p, opened[p]>> # h
    OBVIOUS
  <2>5. opened' = opened
    BY <1>5 DEF CommitCancel
  <2> QED BY <1>0, <2>2, <2>3, <2>4, <2>5, StillFunded
<1>6. ASSUME NEW s \in Session, CommitSweep(s)
      PROVE  BoundIsFunded'
  BY <1>1, <1>6 DEF CommitSweep, commitment, held
<1>7. ASSUME NEW s \in Session, CommitStandDown(s)
      PROVE  BoundIsFunded'
  <2>1. ASSUME NEW o \in Offer, offer'[o] = "BOUND", <<o, opened[o]>> \in held
        PROVE  <<o, opened[o]>> \in held'
    <3>1. <<o, opened[o]>> \notin session[s].bound
      BY <1>7, <2>1 DEF CommitStandDown
    <3>2. escrow'[<<o, opened[o]>>] = escrow[<<o, opened[o]>>]
      BY <1>7, <2>1, <3>1 DEF CommitStandDown, held
    <3> QED BY <2>1, <3>2 DEF held
  <2>2. \A o \in Offer : offer'[o] = "BOUND" => offer[o] = "BOUND"
    BY <1>7 DEF CommitStandDown
  <2> QED BY <1>0, <1>7, <2>1, <2>2, StillFunded DEF CommitStandDown
<1>8. ASSUME NEW s \in Session, SyncEscrow(s)
      PROVE  BoundIsFunded'
  BY <1>1, <1>8, SyncKeepsHeld DEF SyncEscrow, offers
<1>9. ASSUME NEW h \in Hold, NEW to, to \in InCustody \/ OwnerEnds(h),
             escrow[h] # "NONE", to \in ValidTransitions[escrow[h]],
             escrow' = [escrow EXCEPT ![h] = to], UNCHANGED offers
      PROVE  BoundIsFunded'
  <2>1. CASE to \in InCustody
    <3>1. held' = held
      BY <1>9, <2>1, OwnersMove
    <3> QED BY <1>1, <1>9, <3>1 DEF offers
  <2>2. CASE OwnerEnds(h)
    <3>1. held \ {h} \subseteq held' /\ h \in ended'
      <4>1. held \ {h} \subseteq held'
        BY <1>9, OwnersMove
      <4> QED BY <1>0, <1>9, <2>2, <4>1
    <3> QED BY <1>0, <1>9, <3>1, StillFunded DEF offers
  <2> QED BY <1>9, <2>1, <2>2
<1>10. ASSUME NEW h \in Hold, NEW to \in ManualTargets, TransitionEscrow(h, to)
       PROVE  BoundIsFunded'
  <2>1. to \in InCustody \/ to = "CANCELLED"
    BY <1>10, HandshakeAssumption
       DEF TransitionEscrow, ValidTransitions, InCustody, OwnerMayRequest, TypeOK, EscrowState
  <2> QED BY <1>9, <1>10, <2>1 DEF TransitionEscrow, OwnerEnds
<1>11. ASSUME NEW h \in Hold, NEW outcome \in {"RELEASED", "DISPUTED"}, Verify(h, outcome)
       PROVE  BoundIsFunded'
  BY <1>9, <1>11 DEF Verify, OwnerEnds, InCustody
<1>12. CASE UNCHANGED <<offer, opened, escrow>>
  BY <1>1, <1>12 DEF held
<1> QED BY <1>0, <1>2, <1>3, <1>4, <1>5, <1>6, <1>7, <1>8, <1>10, <1>11, <1>12
        DEF Next, commitment, offers, LoadYes, LoadNo, LoadCancel, LoadSweep,
            LoadStandDown, LoadAdvance, Load, Clear, Abandon, CommitAdvance, Lapse

\* A carrier whose offer is bound has the money of that rescue held for it, at
\* every moment and whatever overlaps, unless the owner's own call of the escrow's
\* endpoints ended the custody.
THEOREM BoundIsAlwaysFunded == HistorySpec => []BoundIsFunded
<1>1. HistoryInit => BoundIsFunded
  BY DEF HistoryInit, Init, BoundIsFunded
<1>2. TypeOK /\ BoundIsFunded /\ [HistoryNext]_<<vars, history>> => BoundIsFunded'
  <2>1. CASE UNCHANGED <<vars, history>>
    BY <2>1 DEF vars, commitment, history, BoundIsFunded, held
  <2> QED BY <2>1, FundedStep
<1>3. HistorySpec => []TypeOK
  BY HistoryIsHandshake, TypeCorrect, PTL
<1> QED BY <1>1, <1>2, <1>3, PTL DEF HistorySpec

-----------------------------------------------------------------------------
(* The two partial unique indexes.                                          *)

IndexInv == OneBoundOffer /\ OneConfirmedOffer

Standing == Live \cup {"BOUND"}

\* A step that records no yes and only ends offers leaves both indexes with
\* fewer rows.
LEMMA EndingKeepsIndexes ==
  ASSUME IndexInv, confirmed' = confirmed, confirmed \subseteq Offer,
         \A o \in Offer : offer'[o] = offer[o] \/ offer'[o] \notin Standing
  PROVE  IndexInv'
BY DEF IndexInv, OneBoundOffer, OneConfirmedOffer, Standing

\* A commit under an index has at most one row in it.
LEMMA UnderIndexes ==
  ASSUME UniqueBound(offer'), UniqueConfirmed(offer', confirmed')
  PROVE  IndexInv'
<1>1. OneBoundOffer'
  BY DEF OneBoundOffer, UniqueBound, AtMostOne
<1>2. OneConfirmedOffer'
  BY DEF OneConfirmedOffer, UniqueConfirmed, AtMostOne
<1> QED BY <1>1, <1>2 DEF IndexInv

\* Every step keeps both.
LEMMA IndexStep == TypeOK /\ IndexInv /\ [Next]_vars => IndexInv'
<1> SUFFICES ASSUME TypeOK, IndexInv, [Next]_vars
             PROVE  IndexInv'
  OBVIOUS
<1>0. confirmed \subseteq Offer
  BY DEF TypeOK
<1>1. CASE UNCHANGED <<offer, confirmed>>
  BY <1>0, <1>1, EndingKeepsIndexes
<1>2. ASSUME NEW s \in Session, CommitYes(s)
      PROVE  IndexInv'
  \* The offer it writes is left where it is or gets its first yes, so the
  \* bound offers are those there were.
  <2>1. session[s].offer \in Offer
    BY <1>2, YesSession DEF CommitYes
  <2>2. \A o \in Offer : offer'[o] = "BOUND" => offer[o] = "BOUND"
    BY <1>2, <2>1 DEF CommitYes, Answered, TypeOK
  <2>3. OneBoundOffer'
    BY <2>2 DEF IndexInv, OneBoundOffer
  <2>4. OneConfirmedOffer'
    BY <1>2 DEF CommitYes, OneConfirmedOffer, UniqueConfirmed, AtMostOne
  <2> QED BY <2>3, <2>4 DEF IndexInv
<1>3. ASSUME NEW s \in Session, CommitBinding(s)
      PROVE  IndexInv'
  \* Both indexes accept the row as written; superseding then ends offers.
  <2> DEFINE o == session[s].offer
             written == [offer EXCEPT ![o] = "BOUND"]
  <2>1. /\ UniqueBound(written)
        /\ UniqueConfirmed(written, confirmed')
        /\ offer' = [p \in Offer |-> IF p # o /\ offer[p] \in Live
                                     THEN "SUPERSEDED" ELSE written[p]]
    BY <1>3 DEF CommitBinding
  <2>2. \A p \in Offer : offer'[p] \in Standing => written[p] = offer'[p]
    BY <2>1 DEF Standing, Live
  <2>3. confirmed' \subseteq Offer
    BY <1>3, TypeStep DEF TypeOK
  <2>4. UniqueBound(offer')
    BY <2>1, <2>2 DEF UniqueBound, AtMostOne, Standing
  <2>5. UniqueConfirmed(offer', confirmed')
    BY <2>1, <2>2, <2>3 DEF UniqueConfirmed, AtMostOne, Standing
  <2> QED BY <2>4, <2>5, UnderIndexes
<1>4. ASSUME NEW s \in Session, CommitNo(s)
      PROVE  IndexInv'
  <2>1. session[s].offer \in Offer
    BY <1>4, NoSession DEF CommitNo
  <2> QED BY <1>0, <1>4, <2>1, EndingKeepsIndexes DEF CommitNo, No, Standing, Live, TypeOK
<1>5. ASSUME NEW s \in Session, CommitCancel(s)
      PROVE  IndexInv'
  BY <1>0, <1>5, CancelSession, EndingKeepsIndexes
     DEF CommitCancel, Standing, Live, TypeOK
<1>6. ASSUME NEW s \in Session, CommitSweep(s)
      PROVE  IndexInv'
  BY <1>0, <1>6, EndingKeepsIndexes DEF CommitSweep, Standing, Live
<1>7. ASSUME NEW s \in Session, CommitStandDown(s)
      PROVE  IndexInv'
  BY <1>0, <1>7, EndingKeepsIndexes DEF CommitStandDown, Standing, Live
<1> QED BY <1>1, <1>2, <1>3, <1>4, <1>5, <1>6, <1>7
        DEF Next, vars, LoadYes, LoadNo, LoadCancel, LoadSweep, LoadStandDown,
            LoadAdvance, Load, Clear, Abandon, CommitAdvance, SyncEscrow, TransitionEscrow,
            Verify, offers, Lapse

\* No two offers of an incident are ever bound, however requests overlap and
\* whatever the owner does to the incident by hand (docs/ARCHITECTURE.md 3.3).
THEOREM AtMostOneBoundEver == Spec => []OneBoundOffer
<1>1. Init => IndexInv
  BY DEF Init, IndexInv, OneBoundOffer, OneConfirmedOffer
<1> QED BY <1>1, IndexStep, TypeCorrect, PTL DEF Spec, IndexInv

\* Nor does the owner's yes ever stand on two.
THEOREM OwnerYesStandsOnce == Spec => []OneConfirmedOffer
<1>1. Init => IndexInv
  BY DEF Init, IndexInv, OneBoundOffer, OneConfirmedOffer
<1> QED BY <1>1, IndexStep, TypeCorrect, PTL DEF Spec, IndexInv

-----------------------------------------------------------------------------
(* Requests that do not overlap.                                            *)

\* The hypothesis of the theorems below.
OneAtATime == \A s, t \in Session : s = t

Bound == {o \in Offer : offer[o] = "BOUND"}

\* What a session loaded is what is there still.
Fresh(w) ==
  /\ w.op \in Yes =>
       /\ w.row.state = offer[w.offer]
       /\ w.row.accepted <=> w.offer \in accepted
       /\ w.row.confirmed <=> w.offer \in confirmed
  /\ w.op \in No => w.op \in OfferTransitions[offer[w.offer]]
  /\ w.op = "cancel" => offer[w.hold[1]] = "BOUND"
  /\ w.op \in {"sweep", "stand_down"} => w.live \subseteq LiveOffers
  /\ w.op = "stand_down" => {h[1] : h \in w.bound} = Bound

NothingStale == \A s \in Session : Fresh(session[s])

\* Once both have agreed the offer is bound, or dead for good.
AgreedIsSettled == \A o \in accepted \cap confirmed : offer[o] \notin Live

SerialInv == NothingStale /\ AgreedIsSettled

\* A load is fresh, and there is no other session it could make stale.
LEMMA LoadIsFresh ==
  ASSUME OneAtATime, TypeOK, NEW s \in Session, NEW seen, Load(s, seen), Fresh(seen)
  PROVE  NothingStale'
<1>1. \A t \in Session : session'[t] = seen
  BY DEF Load, TypeOK, OneAtATime
<1>2. Fresh(seen)'
  BY DEF Load, Fresh, LiveOffers, Bound
<1> QED BY <1>1, <1>2 DEF NothingStale

\* A commit leaves no session that could be stale.
LEMMA DoneIsFresh ==
  ASSUME OneAtATime, TypeOK, NEW s \in Session, Done(s)
  PROVE  NothingStale'
<1>1. \A t \in Session : session'[t] = Closed
  BY DEF Done, TypeOK, OneAtATime
<1> QED BY <1>1 DEF NothingStale, Fresh, Closed, Yes, No

\* What happens beside a session touches nothing that it loaded.
LEMMA BesideASession ==
  ASSUME NothingStale,
         UNCHANGED <<offer, accepted, confirmed, session>>
  PROVE  NothingStale'
BY DEF NothingStale, Fresh, LiveOffers, Bound

\* Nothing that is loaded goes stale, whatever the request does next.
LEMMA FreshStep ==
  ASSUME OneAtATime, TypeOK, NothingStale, [Next]_vars
  PROVE  NothingStale'
<1>1. CASE UNCHANGED <<offer, accepted, confirmed, session>>
  BY <1>1, BesideASession
<1>2. ASSUME NEW s \in Session, NEW op \in Yes, NEW o \in Offer, LoadYes(s, op, o)
      PROVE  NothingStale'
  <2>1. Fresh(Loaded(op, o))
    BY DEF Fresh, Loaded, Yes, No
  <2> QED BY <1>2, <2>1, LoadIsFresh DEF LoadYes
<1>3. ASSUME NEW s \in Session, NEW how \in No, NEW o \in Offer, LoadNo(s, how, o)
      PROVE  NothingStale'
  <2>1. Fresh([op |-> how, offer |-> o])
    BY <1>3 DEF LoadNo, Fresh, Yes, No
  <2> QED BY <1>3, <2>1, LoadIsFresh DEF LoadNo
<1>4. ASSUME NEW s \in Session, NEW o \in Offer, LoadCancel(s, o)
      PROVE  NothingStale'
  <2>1. Fresh([op |-> "cancel", hold |-> <<o, opened[o]>>])
    BY <1>4 DEF LoadCancel, Fresh, Yes, No
  <2> QED BY <1>4, <2>1, LoadIsFresh DEF LoadCancel
<1>5. ASSUME NEW s \in Session, LoadSweep(s)
      PROVE  NothingStale'
  <2>1. Fresh([op |-> "sweep", live |-> LiveOffers, bound |-> {}])
    BY DEF Fresh, Yes, No
  <2> QED BY <1>5, <2>1, LoadIsFresh DEF LoadSweep
<1>6. ASSUME NEW s \in Session, LoadStandDown(s)
      PROVE  NothingStale'
  <2> DEFINE found == {<<o, opened[o]>> : o \in {p \in Offer : offer[p] = "BOUND"}}
             seen == [op |-> "stand_down", live |-> LiveOffers, bound |-> found]
  <2>1. \A h \in found : h[1] \in Bound
    BY DEF Bound
  <2>2. \A o \in Bound : <<o, opened[o]>> \in found /\ <<o, opened[o]>>[1] = o
    BY DEF Bound
  <2> HIDE DEF found
  <2>3. {h[1] : h \in found} = Bound
    BY <2>1, <2>2
  <2>4. Fresh(seen)
    BY <2>3 DEF Fresh, Yes, No
  <2> QED BY <1>6, <2>4, LoadIsFresh DEF LoadStandDown, found
<1>7. ASSUME NEW s \in Session, Clear(s)
      PROVE  NothingStale'
  <2>1. session[s] \in Yeses
    BY <1>7, YesSession DEF Clear, Yes
  <2>2. \A t \in Session : session'[t] = [session[s] EXCEPT !.cleared = TRUE]
    BY <1>7 DEF Clear, TypeOK, OneAtATime
  <2>3. \A t \in Session : /\ session'[t].op = "owner_confirm"
                           /\ session'[t].row = session[s].row
                           /\ session'[t].offer = session[s].offer
    BY <1>7, <2>1, <2>2 DEF Yeses, Clear
  <2>4. Fresh(session[s]) /\ session[s].op = "owner_confirm"
    BY <1>7 DEF NothingStale, Clear
  <2> QED BY <1>7, <2>3, <2>4 DEF Clear, NothingStale, Fresh, Yes, No
<1>8. ASSUME NEW s \in Session, Done(s)
      PROVE  NothingStale'
  BY <1>8, DoneIsFresh
<1>9. ASSUME NEW s \in Session, NEW new \in ByHand, LoadAdvance(s, new)
      PROVE  NothingStale'
  <2>1. Fresh([op |-> "advance", to |-> new])
    BY DEF Fresh, Yes, No
  <2> QED BY <1>9, <2>1, LoadIsFresh DEF LoadAdvance
<1>10. ASSUME NEW s \in Session, CommitAdvance(s)
       PROVE  NothingStale'
  <2>1. \A t \in Session : session'[t].op \in {"sync", "none"}
    BY <1>10 DEF CommitAdvance, Closed, TypeOK, OneAtATime
  <2> QED BY <2>1 DEF NothingStale, Fresh, Yes, No
<1> QED BY <1>1, <1>2, <1>3, <1>4, <1>5, <1>6, <1>7, <1>8, <1>9, <1>10
        DEF Next, vars, CommitYes, CommitBinding, CommitNo, CommitCancel, CommitSweep,
            CommitStandDown, Abandon, SyncEscrow, TransitionEscrow, Verify, offers, Lapse

-----------------------------------------------------------------------------
(* What a request does when nothing overlaps it.                            *)

\* It has committed nothing about the offers.
NothingMoves == UNCHANGED <<offer, accepted, confirmed>>

\* It records a yes the other party has not matched.
FirstYes(o) ==
  /\ \/ /\ o \notin confirmed
        /\ accepted' = accepted \cup {o} /\ confirmed' = confirmed
     \/ /\ o \notin accepted
        /\ confirmed' = confirmed \cup {o} /\ accepted' = accepted
  /\ \A p \in Offer : offer'[p] # offer[p] => {offer[p], offer'[p]} \subseteq Live

\* It binds the offer the other party has said yes to, and no other was bound.
SecondYes(o) ==
  /\ o \in accepted \cup confirmed
  /\ offer[o] \in Live
  /\ Bound = {} /\ Bound' = {o}
  /\ accepted' = accepted \cup {o} /\ confirmed' = confirmed \cup {o}
  /\ \A p \in Offer : offer'[p] \notin Live

\* It ends offers nobody is bound to.
OffersEnd ==
  /\ \A o \in Offer : offer'[o] # offer[o] =>
       offer[o] \in Live /\ offer'[o] \notin Live \cup {"BOUND"}
  /\ UNCHANGED <<accepted, confirmed>>

\* It unwinds the rescue that is bound, if one is.
RescueFallsThrough ==
  /\ Bound' = {}
  /\ \A o \in Offer : offer'[o] # offer[o] =>
       /\ offer'[o] \notin Live
       /\ offer[o] = "BOUND" => offer'[o] = "CANCELLED"
  /\ UNCHANGED <<accepted, confirmed>>

\* A first yes is recorded on the row as it is.
LEMMA CommitYesIsFirst ==
  ASSUME TypeOK, NothingStale, NEW s \in Session, CommitYes(s)
  PROVE  \E o \in Offer : FirstYes(o)
<1> DEFINE w == session[s]
<1>1. w.offer \in Offer /\ w.op \in Yes /\ Fresh(w)
  BY YesSession DEF CommitYes, NothingStale
<1>2. /\ w.row.state = offer[w.offer]
      /\ w.row.accepted <=> w.offer \in accepted
      /\ w.row.confirmed <=> w.offer \in confirmed
  BY <1>1 DEF Fresh
<1>3. CASE w.op = "carrier_accept"
  BY <1>1, <1>2, <1>3 DEF CommitYes, SetYes, BothAgreed, FirstYes, Answered, Live, TypeOK
<1>4. CASE w.op = "owner_confirm"
  BY <1>1, <1>2, <1>4 DEF CommitYes, SetYes, BothAgreed, FirstYes, Answered, Live, TypeOK
<1> QED BY <1>1, <1>3, <1>4 DEF Yes

\* The second one binds the offer it found live.
LEMMA CommitBindingIsSecond ==
  ASSUME TypeOK, NothingStale, NEW s \in Session, CommitBinding(s)
  PROVE  \E o \in Offer : SecondYes(o)
<1> DEFINE w == session[s]
           o == w.offer
           written == [offer EXCEPT ![o] = "BOUND"]
<1>1. o \in Offer /\ w.op \in Yes /\ Fresh(w) /\ w.row \in Row
  BY YesSession DEF CommitBinding, NothingStale
<1>2. /\ w.row.state = offer[o]
      /\ w.row.accepted <=> o \in accepted
      /\ w.row.confirmed <=> o \in confirmed
  BY <1>1 DEF Fresh
<1>3. offer[o] \in Live
  BY <1>1, <1>2 DEF CommitBinding, Answered, OfferTransitions, EndOfAnOffer, Live,
                    TypeOK, OfferState
<1>4. /\ o \in accepted \cup confirmed
      /\ accepted' = accepted \cup {o} /\ confirmed' = confirmed \cup {o}
  BY <1>1, <1>2 DEF CommitBinding, SetYes, BothAgreed, Yes
<1>5. \A p \in Offer : written[p] = IF p = o THEN "BOUND" ELSE offer[p]
  BY <1>1 DEF TypeOK
<1>6. UniqueBound(written)
  BY DEF CommitBinding
<1>7. Bound = {}
  BY <1>1, <1>3, <1>5, <1>6 DEF UniqueBound, AtMostOne, Bound, Live
<1>8. \A p \in Offer : offer'[p] = IF p # o /\ offer[p] \in Live
                                   THEN "SUPERSEDED" ELSE written[p]
  BY DEF CommitBinding
<1> HIDE DEF written
<1>9. Bound' = {o} /\ \A p \in Offer : offer'[p] \notin Live
  BY <1>1, <1>5, <1>7, <1>8 DEF Bound, Live
<1>10. SecondYes(o)
  BY <1>3, <1>4, <1>7, <1>9 DEF SecondYes
<1> QED BY <1>1, <1>10

\* A cancellation finds the one bound offer still bound.
LEMMA CommitCancelUnwinds ==
  ASSUME TypeOK, OneBoundOffer, NothingStale, NEW s \in Session, CommitCancel(s)
  PROVE  RescueFallsThrough
<1> DEFINE o == session[s].hold[1]
<1>1. o \in Offer /\ offer[o] = "BOUND"
  BY CancelSession DEF CommitCancel, NothingStale, Fresh
<1>2. Bound = {o}
  BY <1>1 DEF Bound, OneBoundOffer
<1>3. /\ offer'[o] = "CANCELLED"
      /\ \A p \in Offer \ {o} : offer'[p] = offer[p]
  BY <1>1 DEF CommitCancel, TypeOK
<1>4. Bound' = {}
  BY <1>2, <1>3 DEF Bound
<1> QED BY <1>3, <1>4 DEF CommitCancel, RescueFallsThrough, Live

\* So does a stand-down.
LEMMA CommitStandDownUnwinds ==
  ASSUME TypeOK, NothingStale, NEW s \in Session, CommitStandDown(s)
  PROVE  RescueFallsThrough
<1> DEFINE w == session[s]
           bound == {h[1] : h \in w.bound}
<1>1. w.live \subseteq LiveOffers /\ bound = Bound
  BY DEF CommitStandDown, NothingStale, Fresh
<1>2. \A o \in Offer : offer'[o] = IF o \in bound THEN "CANCELLED"
                                   ELSE IF o \in w.live THEN "WITHDRAWN" ELSE offer[o]
  BY DEF CommitStandDown
<1> HIDE DEF bound
<1>3. Bound' = {}
  BY <1>1, <1>2 DEF Bound
<1>4. \A o \in Offer : offer'[o] # offer[o] =>
        offer'[o] \notin Live /\ (offer[o] = "BOUND" => offer'[o] = "CANCELLED")
  BY <1>1, <1>2 DEF Bound, Live
<1> QED BY <1>3, <1>4 DEF CommitStandDown, RescueFallsThrough

\* There is nothing else a step can be.
LEMMA OneAtATimeKinds ==
  ASSUME TypeOK, OneBoundOffer, NothingStale, [Next]_vars
  PROVE  \/ NothingMoves
         \/ \E o \in Offer : FirstYes(o) \/ SecondYes(o)
         \/ OffersEnd
         \/ RescueFallsThrough
<1>1. CASE UNCHANGED <<offer, accepted, confirmed>>
  BY <1>1 DEF NothingMoves
<1>2. ASSUME NEW s \in Session, CommitNo(s)
      PROVE  OffersEnd
  <2>1. session[s].offer \in Offer /\ Fresh(session[s])
    BY <1>2, NoSession DEF CommitNo, NothingStale
  <2>2. offer[session[s].offer] \in Live
    BY <1>2, <2>1 DEF CommitNo, Fresh, No, OfferTransitions, EndOfAnOffer, Live,
                      TypeOK, OfferState
  <2> QED BY <1>2, <2>1, <2>2 DEF CommitNo, No, OffersEnd, Live, TypeOK
<1>3. ASSUME NEW s \in Session, CommitSweep(s)
      PROVE  OffersEnd
  <2>1. session[s].live \subseteq LiveOffers
    BY <1>3 DEF CommitSweep, NothingStale, Fresh
  <2> QED BY <1>3, <2>1 DEF CommitSweep, OffersEnd, LiveOffers, Live
<1> QED BY <1>1, <1>2, <1>3, CommitYesIsFirst, CommitBindingIsSecond,
           CommitCancelUnwinds, CommitStandDownUnwinds
        DEF Next, vars, LoadYes, LoadNo, LoadCancel, LoadSweep,
            LoadStandDown, LoadAdvance, Load, Clear, Abandon, CommitAdvance, SyncEscrow,
            TransitionEscrow, Verify, offers, Lapse

\* Every step keeps the agreement settled.
LEMMA SerialStep ==
  ASSUME OneAtATime, TypeOK, OneBoundOffer, SerialInv, [Next]_vars
  PROVE  SerialInv'
<1> USE DEF SerialInv
<1>1. NothingStale'
  BY FreshStep
<1>2. CASE NothingMoves
  BY <1>1, <1>2 DEF NothingMoves, AgreedIsSettled
<1>3. ASSUME NEW o \in Offer, FirstYes(o)
      PROVE  AgreedIsSettled'
  BY <1>3 DEF FirstYes, AgreedIsSettled, TypeOK
<1>4. ASSUME NEW o \in Offer, SecondYes(o)
      PROVE  AgreedIsSettled'
  <2>1. accepted' \subseteq Offer
    BY <1>4 DEF SecondYes, TypeOK
  <2> QED BY <1>4, <2>1 DEF SecondYes, AgreedIsSettled
<1>5. CASE OffersEnd
  BY <1>1, <1>5 DEF OffersEnd, AgreedIsSettled, TypeOK
<1>6. CASE RescueFallsThrough
  BY <1>1, <1>6 DEF RescueFallsThrough, AgreedIsSettled, TypeOK
<1> QED BY <1>1, <1>2, <1>3, <1>4, <1>5, <1>6, OneAtATimeKinds

\* The invariant holds while requests do not overlap.
LEMMA SerialHolds == ASSUME OneAtATime PROVE Spec => []SerialInv
<1>1. Init => SerialInv
  BY DEF Init, SerialInv, NothingStale, Fresh, Closed, Yes, No, AgreedIsSettled
<1>2. TypeOK /\ OneBoundOffer /\ SerialInv /\ [Next]_vars => SerialInv'
  BY SerialStep
<1> QED BY <1>1, <1>2, TypeCorrect, AtMostOneBoundEver, PTL DEF Spec

\* While requests do not overlap, an offer with both yeses is never left
\* waiting for a third (offer_service.py, _try_bind).
THEOREM TwoYesesBindOneAtATime == ASSUME OneAtATime PROVE Spec => []BothAgreedBinds
<1>1. SerialInv => BothAgreedBinds
  BY DEF SerialInv, AgreedIsSettled, BothAgreedBinds
<1> QED BY <1>1, SerialHolds, PTL

\* While requests do not overlap, a bound rescue is only ever cancelled: no
\* refusal, no late yes and no sweep writes over it.
THEOREM BoundStaysOneAtATime == ASSUME OneAtATime PROVE Spec => BoundDoesNotRevert
<1>1. TypeOK /\ OneBoundOffer /\ SerialInv /\ [Next]_vars
        => [\A o \in Offer : offer[o] = "BOUND" => offer'[o] \in {"BOUND", "CANCELLED"}]_vars
  <2> SUFFICES ASSUME TypeOK, OneBoundOffer, SerialInv, [Next]_vars,
                      NEW o \in Offer, offer[o] = "BOUND"
               PROVE  offer'[o] \in {"BOUND", "CANCELLED"}
    OBVIOUS
  <2> QED BY OneAtATimeKinds DEF SerialInv, NothingMoves, FirstYes, SecondYes, OffersEnd,
                                 RescueFallsThrough, Bound, Live
<1> QED BY <1>1, SerialHolds, TypeCorrect, AtMostOneBoundEver, PTL
        DEF Spec, BoundDoesNotRevert

\* Each step is a step of the agreement, or no step of it at all.
LEMMA PactStep ==
  ASSUME TypeOK, OneBoundOffer, SerialInv, [Next]_vars
  PROVE  [Pact!Next]_<<accepted, confirmed, Bound>>
<1>1. CASE NothingMoves
  BY <1>1 DEF NothingMoves, Bound
<1>2. ASSUME NEW o \in Offer, FirstYes(o)
      PROVE  Pact!Next
  <2>1. Bound' = Bound
    BY <1>2 DEF FirstYes, Bound, Live
  <2>2. Pact!CarrierSaysYes(o) \/ Pact!OwnerSaysYes(o)
    BY <1>2, <2>1 DEF FirstYes, Pact!CarrierSaysYes, Pact!OwnerSaysYes, Bound
  <2> QED BY <2>2 DEF Pact!Next
<1>3. ASSUME NEW o \in Offer, SecondYes(o)
      PROVE  Pact!Next
  <2>1. o \notin accepted \cap confirmed
    BY <1>3 DEF SecondYes, SerialInv, AgreedIsSettled
  <2>2. Pact!Close(o)
    BY <1>3, <2>1 DEF SecondYes, Pact!Close, Bound
  <2> QED BY <2>2 DEF Pact!Next
<1>4. CASE OffersEnd
  BY <1>4 DEF OffersEnd, Bound, Live
<1>5. CASE RescueFallsThrough
  <2>1. CASE Bound = {}
    BY <1>5, <2>1 DEF RescueFallsThrough
  <2>2. ASSUME NEW o \in Bound
        PROVE  Pact!Next
    <3>1. o \in Offer /\ Bound = {o}
      BY <2>2 DEF Bound, OneBoundOffer
    <3>2. Pact!FallThrough(o)
      BY <1>5, <2>2, <3>1 DEF RescueFallsThrough, Pact!FallThrough, Bound
    <3> QED BY <3>1, <3>2 DEF Pact!Next
  <2> QED BY <2>1, <2>2
<1> QED BY <1>1, <1>2, <1>3, <1>4, <1>5, OneAtATimeKinds DEF SerialInv

\* While requests do not overlap, loading, deciding, giving up and committing
\* implement the two-party agreement of Agreement.tla: the second yes closes
\* it, in one step, and only then.
THEOREM AgreementKeptOneAtATime == ASSUME OneAtATime PROVE Spec => PactKept
<1>1. Init => Pact!Init
  BY DEF Init, Pact!Init
<1>2. TypeOK /\ OneBoundOffer /\ SerialInv /\ [Next]_vars
        => [Pact!Next]_<<accepted, confirmed, {o \in Offer : offer[o] = "BOUND"}>>
  BY PactStep DEF Bound
<1> QED BY <1>1, <1>2, SerialHolds, TypeCorrect, AtMostOneBoundEver, PTL
        DEF Spec, PactKept, Pact!Spec
=============================================================================
