------------------------------ MODULE Handshake ------------------------------
(***************************************************************************)
(* One round of offers on one incident, answered by overlapping requests    *)
(* (services/orchestrator/app/offer_service.py and stand_down.py).          *)
(*                                                                          *)
(* Rescue takes each request as one step.  Here a request is a database     *)
(* session: it loads the offer rows it works on, decides on them, and       *)
(* commits later.  Nothing locks or versions a loaded row, so the commit    *)
(* writes the columns it changed over whatever was committed since.  What   *)
(* it reads after its first write -- the incident, the escrow, the offers a *)
(* bulk UPDATE selects -- is current, because that write holds the row      *)
(* until the commit; the two partial unique indexes are checked by it.      *)
(*                                                                          *)
(* A session that is refused, or loses to an index, leaves no trace: it is  *)
(* one that Abandons.  The owner's other endpoints work beside the offers:  *)
(* /advance, whose second commit moves the incident's latest escrow, and    *)
(* the escrow's own /transition and /verify.  Escrows are numbered per      *)
(* offer; a move of an escrow is a single step, because overlapping ones    *)
(* are the subject of EscrowLedger.  A rescue is followed until its load is *)
(* on the way: the delivery, which Rescue has, is left out.                 *)
(***************************************************************************)
EXTENDS EscrowStates, Lifecycle

CONSTANTS Offer,        \* the offers of the round, each with a truck of its own
          Session,      \* database sessions: requests that may overlap
          ByHand,       \* states the owner asks POST /incidents/{id}/advance for
          ManualTargets,  \* what the owner asks of POST /escrow/{id}/transition
          MaxEscrow     \* bound: escrows opened for one offer

ASSUME HandshakeAssumption ==
  /\ ByHand \subseteq IncidentState \ {"DELIVERED"}
  /\ ManualTargets \subseteq OwnerMayRequest
  /\ MaxEscrow \in Nat

Hold   == Offer \X (0 .. MaxEscrow)
NoHold == <<>>

VARIABLES offer,        \* Offer -> offer.state
          accepted,     \* offers whose carrier_accepted_at is set
          confirmed,    \* offers whose owner_confirmed_at is set
          late,         \* the round's deadline has passed
          incident,     \* incident.state
          opened,       \* Offer -> escrows opened for it; escrow_id is the last
          escrow,       \* <<offer, number>> -> state of that escrow, or "NONE"
          latest,       \* the escrow opened last, or NoHold
          dispatched,   \* offers whose truck is dispatched_rescue
          session       \* Session -> what it loaded, or Closed

vars == <<offer, accepted, confirmed, late, incident, opened, escrow, latest,
          dispatched, session>>

commitment == <<opened, escrow, latest, dispatched>>

Yes == {"carrier_accept", "owner_confirm"}
No  == {"DECLINED", "WITHDRAWN"}

Row == [state : OfferState, accepted : BOOLEAN, confirmed : BOOLEAN]

\* What a request keeps of what it loaded.  A yes decides on the whole row; cleared: its
\* search for another confirmed offer is behind it.  A cancellation keeps the escrow.
\* Two kinds of request are about many offers: the live and the bound ones they found.
\* The owner's keep where they will move the incident, or its escrow, next.
Yeses  == [op : Yes, offer : Offer, row : Row, cleared : BOOLEAN]
Nos    == [op : No, offer : Offer]
Cancel == [op : {"cancel"}, hold : Hold]
Many   == [op : {"sweep", "stand_down"}, live : SUBSET Offer, bound : SUBSET Hold]
Owners == [op : {"advance"}, to : IncidentState] \cup [op : {"sync"}, to : SyncTargets]
Closed == [op |-> "none"]

TypeOK ==
  /\ offer \in [Offer -> OfferState]
  /\ accepted \subseteq Offer
  /\ confirmed \subseteq Offer
  /\ late \in BOOLEAN
  /\ incident \in IncidentState
  /\ opened \in [Offer -> 0 .. MaxEscrow]
  /\ escrow \in [Hold -> (EscrowState \ {"INITIATED"}) \cup {"NONE"}]
  /\ latest \in Hold \cup {NoHold}
  /\ latest # NoHold => escrow[latest] # "NONE"
  /\ dispatched \subseteq Offer
  /\ session \in [Session -> Yeses \cup Nos \cup Cancel \cup Many \cup Owners \cup {Closed}]

\* create_offer_round has committed: the incident is at RESCUE_OFFERED.
Init ==
  /\ offer = [o \in Offer |-> "PENDING"]
  /\ accepted = {}
  /\ confirmed = {}
  /\ late = FALSE
  /\ incident = "RESCUE_OFFERED"
  /\ opened = [o \in Offer |-> 0]
  /\ escrow = [h \in Hold |-> "NONE"]
  /\ latest = NoHold
  /\ dispatched = {}
  /\ session = [s \in Session |-> Closed]

-----------------------------------------------------------------------------
(* Loading.                                                                 *)

Load(s, seen) ==
  /\ session[s] = Closed
  /\ session' = [session EXCEPT ![s] = seen]
  /\ UNCHANGED <<offer, accepted, confirmed, late, incident, commitment>>

Loaded(op, o) ==
  [op |-> op, offer |-> o, cleared |-> op # "owner_confirm",
   row |-> [state |-> offer[o], accepted |-> o \in accepted,
            confirmed |-> o \in confirmed]]

\* _expire_if_due.
Overdue(o) == offer[o] \in Live /\ late

\* carrier_accept and owner_confirm.
LoadYes(s, op, o) ==
  /\ offer[o] # "EXPIRED"
  /\ ~Overdue(o)
  /\ Load(s, Loaded(op, o))

\* carrier_decline and owner_withdraw.
LoadNo(s, how, o) ==
  /\ how \in OfferTransitions[offer[o]]
  /\ ~Overdue(o)
  /\ Load(s, [op |-> how, offer |-> o])

\* cancel_bound_offer.
LoadCancel(s, o) ==
  /\ offer[o] = "BOUND"
  /\ Load(s, [op |-> "cancel", hold |-> <<o, opened[o]>>])

LiveOffers == {o \in Offer : offer[o] \in Live}

\* expire_due_offers.
LoadSweep(s) ==
  /\ late
  /\ LiveOffers # {}
  /\ Load(s, [op |-> "sweep", live |-> LiveOffers, bound |-> {}])

\* stand_down_incident.
LoadStandDown(s) ==
  /\ incident \in StandableDown
  /\ Load(s, [op |-> "stand_down", live |-> LiveOffers,
              bound |-> {<<o, opened[o]>> : o \in {p \in Offer : offer[p] = "BOUND"}}])

\* POST /incidents/{id}/advance: any legal move but RESCUE_ACCEPTED.
LoadAdvance(s, new) ==
  /\ new \in ByHand \cap (Transitions[incident] \ {"RESCUE_ACCEPTED"})
  /\ Load(s, [op |-> "advance", to |-> new])

\* owner_confirm looks for another offer the owner's yes still stands on,
\* unless the row it loaded already carries that yes.
Clear(s) ==
  /\ session[s].op = "owner_confirm"
  /\ ~session[s].cleared
  /\ \/ session[s].row.confirmed
     \/ \A p \in confirmed \ {session[s].offer} : offer[p] \notin Live \cup {"BOUND"}
  /\ session' = [session EXCEPT ![s].cleared = TRUE]
  /\ UNCHANGED <<offer, accepted, confirmed, late, incident, commitment>>

-----------------------------------------------------------------------------
(* Committing.                                                              *)

\* Mutant of AtMostOne: the two indexes are created without unique.
AnyNumber(offers) == TRUE

\* What a partial unique index over the round's incident accepts.
AtMostOne(offers) == \A o, p \in offers : o = p

\* uq_offer_bound_per_incident.
UniqueBound(state) == AtMostOne({o \in Offer : state[o] = "BOUND"})

\* uq_offer_owner_confirmed_per_incident.
UniqueConfirmed(state, yes) == AtMostOne({o \in yes : state[o] \in Live \cup {"BOUND"}})

\* Mutant of BothAgreed: one yes is enough.
EitherAgreed(row, op) ==
  row.accepted \/ op = "carrier_accept" \/ row.confirmed \/ op = "owner_confirm"

\* both_parties_agreed, once the request has set its own column.
BothAgreed(row, op) ==
  /\ row.accepted \/ op = "carrier_accept"
  /\ row.confirmed \/ op = "owner_confirm"

\* The state of the loaded row once the yes is recorded.
Answered(row, op) ==
  IF row.state # "PENDING" THEN row.state
  ELSE IF op = "carrier_accept" THEN "CARRIER_ACCEPTED" ELSE "OWNER_CONFIRMED"

SetYes(w) ==
  /\ accepted' = accepted \cup (IF w.op = "carrier_accept" THEN {w.offer} ELSE {})
  /\ confirmed' = confirmed \cup (IF w.op = "owner_confirm" THEN {w.offer} ELSE {})

Done(s) == session' = [session EXCEPT ![s] = Closed]

\* The state column is written only if the session changed it.
CommitYes(s) ==
  LET w == session[s]
      answered == Answered(w.row, w.op)
  IN  /\ w.op \in Yes /\ w.cleared
      /\ ~BothAgreed(w.row, w.op)
      /\ SetYes(w)
      /\ offer' = [offer EXCEPT ![w.offer] = IF answered = w.row.state THEN @ ELSE answered]
      /\ UniqueConfirmed(offer', confirmed')
      /\ Done(s)
      /\ UNCHANGED <<late, incident, commitment>>

\* Mutant of CommitBinding: the incident was loaded with the offer, so its
\* state does not stop a second binding.
CommitBindingUnchecked(s) ==
  LET w == session[s]
      o == w.offer
      written == [offer EXCEPT ![o] = "BOUND"]
  IN  /\ w.op \in Yes /\ w.cleared
      /\ BothAgreed(w.row, w.op)
      /\ "BOUND" \in OfferTransitions[Answered(w.row, w.op)]
      /\ opened[o] < MaxEscrow
      /\ SetYes(w)
      /\ UniqueBound(written) /\ UniqueConfirmed(written, confirmed')
      /\ offer' = [p \in Offer |-> IF p # o /\ offer[p] \in Live
                                   THEN "SUPERSEDED" ELSE written[p]]
      /\ opened' = [opened EXCEPT ![o] = @ + 1]
      /\ latest' = <<o, opened[o] + 1>>
      /\ escrow' = [escrow EXCEPT ![latest'] = "ACCEPTED"]
      /\ dispatched' = dispatched \cup {o}
      /\ incident' = "RESCUE_ACCEPTED"
      /\ Done(s)
      /\ UNCHANGED late

\* _try_bind: the row is written first, under both indexes; the escrow, the
\* other offers, the truck and the incident follow in the same transaction.
CommitBinding(s) ==
  LET w == session[s]
      o == w.offer
      written == [offer EXCEPT ![o] = "BOUND"]
  IN  /\ w.op \in Yes /\ w.cleared
      /\ BothAgreed(w.row, w.op)
      /\ "BOUND" \in OfferTransitions[Answered(w.row, w.op)]
      /\ MayAccept(incident)
      /\ opened[o] < MaxEscrow
      /\ SetYes(w)
      /\ UniqueBound(written) /\ UniqueConfirmed(written, confirmed')
      /\ offer' = [p \in Offer |-> IF p # o /\ offer[p] \in Live
                                   THEN "SUPERSEDED" ELSE written[p]]
      /\ opened' = [opened EXCEPT ![o] = @ + 1]
      /\ latest' = <<o, opened[o] + 1>>
      /\ escrow' = [escrow EXCEPT ![latest'] = "ACCEPTED"]
      /\ dispatched' = dispatched \cup {o}
      /\ incident' = "RESCUE_ACCEPTED"
      /\ Done(s)
      /\ UNCHANGED late

CommitNo(s) ==
  /\ session[s].op \in No
  /\ offer' = [offer EXCEPT ![session[s].offer] = session[s].op]
  /\ Done(s)
  /\ UNCHANGED <<accepted, confirmed, late, incident, commitment>>

\* The escrow states transition() accepts CANCELLED from.
Reversible == {st \in EscrowState : "CANCELLED" \in ValidTransitions[st]}

\* Mutant of CommitCancel: the money is returned, the offer stays bound.
CommitCancelMoney(s) ==
  LET h == session[s].hold
  IN  /\ session[s].op = "cancel"
      /\ escrow[h] \in Reversible
      /\ escrow' = [escrow EXCEPT ![h] = "CANCELLED"]
      /\ dispatched' = dispatched \ {h[1]}
      /\ incident' = IF incident \in Unwindable THEN "MATCHING" ELSE incident
      /\ Done(s)
      /\ UNCHANGED <<offer, accepted, confirmed, late, opened, latest>>

\* cancel_bound_offer: an escrow that can no longer be reversed, because it already was
\* or the owner has moved it on, rolls it back.
CommitCancel(s) ==
  LET h == session[s].hold
  IN  /\ session[s].op = "cancel"
      /\ escrow[h] \in Reversible
      /\ escrow' = [escrow EXCEPT ![h] = "CANCELLED"]
      /\ offer' = [offer EXCEPT ![h[1]] = "CANCELLED"]
      /\ dispatched' = dispatched \ {h[1]}
      /\ incident' = IF incident \in Unwindable THEN "MATCHING" ELSE incident
      /\ Done(s)
      /\ UNCHANGED <<accepted, confirmed, late, opened, latest>>

CommitSweep(s) ==
  /\ session[s].op = "sweep"
  /\ offer' = [o \in Offer |-> IF o \in session[s].live THEN "EXPIRED" ELSE offer[o]]
  /\ Done(s)
  /\ UNCHANGED <<accepted, confirmed, late, incident, commitment>>

\* stand_down_incident: an escrow that can no longer be reversed is only logged.
CommitStandDown(s) ==
  LET bound == {h[1] : h \in session[s].bound}
  IN  /\ session[s].op = "stand_down"
      /\ offer' = [o \in Offer |-> IF o \in bound THEN "CANCELLED"
                                   ELSE IF o \in session[s].live THEN "WITHDRAWN"
                                   ELSE offer[o]]
      /\ escrow' = [h \in Hold |-> IF h \in session[s].bound /\ escrow[h] \in Reversible
                                   THEN "CANCELLED" ELSE escrow[h]]
      /\ dispatched' = dispatched \ bound
      /\ incident' = "CANCELLED"
      /\ Done(s)
      /\ UNCHANGED <<accepted, confirmed, late, opened, latest>>

\* Refused, rolled back, or gone with its process.
Abandon(s) ==
  /\ session[s] # Closed
  /\ Done(s)
  /\ UNCHANGED <<offer, accepted, confirmed, late, incident, commitment>>

-----------------------------------------------------------------------------
(* The owner's other endpoints.                                             *)

offers == <<offer, accepted, confirmed, late, opened, latest, dispatched>>

\* POST /incidents/{id}/advance writes the move it decided on, over whatever the incident
\* has become; what the escrow has to follow is a second commit.
CommitAdvance(s) ==
  LET new == session[s].to
  IN  /\ session[s].op = "advance"
      /\ incident' = new
      /\ session' = [session EXCEPT
                       ![s] = IF new \in DOMAIN IncidentToEscrow
                              THEN [op |-> "sync", to |-> IncidentToEscrow[new]]
                              ELSE Closed]
      /\ UNCHANGED <<offers, escrow>>

\* sync_escrow_to_incident moves the incident's latest escrow.
SyncEscrow(s) ==
  /\ session[s].op = "sync"
  /\ escrow' = IF latest = NoHold THEN escrow
               ELSE [escrow EXCEPT ![latest] = Follow(@, session[s].to)]
  /\ Done(s)
  /\ UNCHANGED <<offers, incident>>

\* POST /escrow/{id}/transition.
TransitionEscrow(h, to) ==
  /\ escrow[h] # "NONE"
  /\ to \in ManualTargets \cap ValidTransitions[escrow[h]]
  /\ escrow' = [escrow EXCEPT ![h] = to]
  /\ UNCHANGED <<offers, incident, session>>

\* POST /escrow/{id}/verify.  What it records on the incident needs a delivered load.
Verify(h, outcome) ==
  /\ escrow[h] # "NONE"
  /\ outcome \in {"RELEASED", "DISPUTED"} \cap ValidTransitions[escrow[h]]
  /\ escrow' = [escrow EXCEPT ![h] = outcome]
  /\ UNCHANGED <<offers, incident, session>>

-----------------------------------------------------------------------------
\* The clock passes expires_at.
Lapse ==
  /\ ~late
  /\ late' = TRUE
  /\ UNCHANGED <<offer, accepted, confirmed, incident, commitment, session>>

Next ==
  \/ \E s \in Session, op \in Yes, o \in Offer : LoadYes(s, op, o)
  \/ \E s \in Session, how \in No, o \in Offer : LoadNo(s, how, o)
  \/ \E s \in Session, o \in Offer : LoadCancel(s, o)
  \/ \E s \in Session : LoadSweep(s)
  \/ \E s \in Session : LoadStandDown(s)
  \/ \E s \in Session, new \in ByHand : LoadAdvance(s, new)
  \/ \E s \in Session : Clear(s)
  \/ \E s \in Session : CommitYes(s)
  \/ \E s \in Session : CommitBinding(s)
  \/ \E s \in Session : CommitNo(s)
  \/ \E s \in Session : CommitCancel(s)
  \/ \E s \in Session : CommitSweep(s)
  \/ \E s \in Session : CommitStandDown(s)
  \/ \E s \in Session : Abandon(s)
  \/ \E s \in Session : CommitAdvance(s)
  \/ \E s \in Session : SyncEscrow(s)
  \/ \E h \in Hold, to \in ManualTargets : TransitionEscrow(h, to)
  \/ \E h \in Hold, outcome \in {"RELEASED", "DISPUTED"} : Verify(h, outcome)
  \/ Lapse

Spec == Init /\ [][Next]_vars

-----------------------------------------------------------------------------
(* Properties that hold however the requests overlap.                       *)

\* docs/ARCHITECTURE.md 3.3: even under high concurrency one offer at most is
\* bound.  No check in Python ensures it: the requests race past those.
OneBoundOffer ==
  \A o, p \in Offer : offer[o] = "BOUND" /\ offer[p] = "BOUND" => o = p

\* The owner's yes stands on one offer at most, although two confirmations may
\* both have found no other one.
OneConfirmedOffer ==
  \A o, p \in confirmed :
    {offer[o], offer[p]} \subseteq Live \cup {"BOUND"} => o = p

\* test_offer_handshake.py: neither party alone can commit the other.  What a
\* session believes both agreed to, both did agree to, however old its row is.
ConsentBeforeBinding ==
  \A o \in Offer :
    offer[o] \in {"BOUND", "CANCELLED"} => o \in accepted \cap confirmed

\* The escrows that have the owner's money: a dispute keeps it where it is.
InCustody == {"ACCEPTED", "IN_TRANSIT", "PENDING_VERIFICATION", "DISPUTED"}

held == {h \in Hold : escrow[h] \in InCustody}

\* The owner's money is held once for the incident, however many times either
\* party clicks: the second binding meets the incident the first one moved.
HeldOnce == \A h, k \in held : h = k

-----------------------------------------------------------------------------
(* Claims of the repository that hold as long as no two requests overlap.   *)

\* offer_models.py:86-87: a bound rescue can fall through, but cannot quietly
\* revert to an offer: every write of a row agrees with the row it replaces.
BoundDoesNotRevert ==
  [][\A o \in Offer : offer[o] = "BOUND" => offer'[o] \in {"BOUND", "CANCELLED"}]_vars

\* offer_service.py:285: the rescue binds if both parties have agreed, so an
\* offer with both yeses and no request under way is not still waiting.
BothAgreedBinds ==
  (\A s \in Session : session[s] = Closed)
    => \A o \in accepted \cap confirmed : offer[o] \notin Live

\* The offers of a round are all of one incident (rescue_offers.incident_id).
IncidentOf(o) == "the incident of the round"

Pact == INSTANCE Agreement WITH
  carrierYes <- accepted,
  ownerYes <- confirmed,
  bound <- {o \in Offer : offer[o] = "BOUND"}

\* The agreement is implemented by loads and commits, with the requests that
\* give up between the two: the second yes closes it, in one step.
PactKept == Pact!Spec

-----------------------------------------------------------------------------
(* A claim the code does not keep, overlapping requests or not.             *)

\* stand_down.py:18-21: everything the breakdown set in motion is unwound in one
\* transaction, the bound rescue's truck and hold included.  A cancelled incident keeps
\* them where the owner cancelled by /advance, where the escrow had been handed in for
\* verification, and where a binding overlaps the stand-down.
StoodDownMeansUnwound == incident = "CANCELLED" => held = {} /\ dispatched = {}
=============================================================================
