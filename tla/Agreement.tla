------------------------------ MODULE Agreement ------------------------------
(***************************************************************************)
(* What the rescue handshake promises, with no offers states, deadlines,    *)
(* trucks or money: a rescue is binding exactly when the carrier and the    *)
(* owner have both said yes to it, the second yes is what binds it, and an  *)
(* incident has at most one binding rescue at a time.  Saying yes to an     *)
(* offer that is already dead is allowed and binds nothing; a binding       *)
(* rescue that falls through never binds again.                             *)
(***************************************************************************)
CONSTANTS Offer, IncidentOf(_)

VARIABLES carrierYes, ownerYes, bound

Init == carrierYes = {} /\ ownerYes = {} /\ bound = {}

\* A yes that the other party has not matched.
CarrierSaysYes(o) ==
  /\ o \notin ownerYes
  /\ carrierYes' = carrierYes \cup {o}
  /\ UNCHANGED <<ownerYes, bound>>

OwnerSaysYes(o) ==
  /\ o \notin carrierYes
  /\ ownerYes' = ownerYes \cup {o}
  /\ UNCHANGED <<carrierYes, bound>>

\* The yes that matches the other party's closes the deal, in one step.
Close(o) ==
  /\ o \in carrierYes \cup ownerYes
  /\ o \notin carrierYes \cap ownerYes
  /\ \A p \in bound : IncidentOf(p) # IncidentOf(o)
  /\ carrierYes' = carrierYes \cup {o}
  /\ ownerYes' = ownerYes \cup {o}
  /\ bound' = bound \cup {o}

FallThrough(o) ==
  /\ o \in bound
  /\ bound' = bound \ {o}
  /\ UNCHANGED <<carrierYes, ownerYes>>

Next ==
  \E o \in Offer :
    CarrierSaysYes(o) \/ OwnerSaysYes(o) \/ Close(o) \/ FallThrough(o)

Spec == Init /\ [][Next]_<<carrierYes, ownerYes, bound>>
=============================================================================
