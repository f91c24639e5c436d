------------------------------ MODULE Reopening ------------------------------
(***************************************************************************)
(* Handshake with history variables: what the owner did with the incident   *)
(* and with its money beside the offers, which decides how far the promises *)
(* about the money reach.  The variables record and restrain nothing.       *)
(***************************************************************************)
EXTENDS Handshake

VARIABLES reopened,   \* /advance has put the incident back to seeking help over a hold
          ended       \* escrows the owner reversed, or had released, by their own endpoints

history == <<reopened, ended>>

HistoryInit == Init /\ reopened = FALSE /\ ended = {}

\* The states of an incident nobody has been bound to yet.
Seeking == {"NORMAL", "BREAKDOWN_REPORTED", "TRIAGING", "MATCHING", "RESCUE_OFFERED"}

\* POST /incidents/{id}/advance commits a seeking state while money is held.
Reopens == held # {} /\ incident' \in Seeking /\ \E s \in Session : CommitAdvance(s)

\* The owner's own calls end the custody of h.
OwnerEnds(h) == TransitionEscrow(h, "CANCELLED") \/ Verify(h, "RELEASED")

HistoryNext ==
  /\ Next
  /\ reopened' = (reopened \/ Reopens)
  /\ ended' = ended \cup {h \in Hold : OwnerEnds(h)}

HistorySpec == HistoryInit /\ [][HistoryNext]_<<vars, history>>

\* The owner's money is held for one offer at a time, however many bindings overlap and
\* however often a bound rescue is cancelled and the search goes on, as long as the owner
\* does not reopen the search over a hold -- by /advance, also one that was decided on a
\* row loaded before the binding: bind_if_agreed takes the hold before it knows whether it
\* won, and its rollback is all that gives it back.
HeldOnceUntilReopened == ~reopened => HeldOnce

\* A carrier whose offer is bound has the money of that rescue held for it, however stale
\* the cancellations, refusals and stand-downs under way are: only the owner's own call of
\* POST /escrow/{id}/transition or /verify takes it away from under the binding.
BoundIsFunded ==
  \A o \in Offer : offer[o] = "BOUND" => <<o, opened[o]>> \in held \cup ended
=============================================================================
