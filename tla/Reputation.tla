----------------------------- MODULE Reputation -----------------------------
(***************************************************************************)
(* What a carrier's record says of it: orchestrator/app/reputation.py and   *)
(* CompanyReputation.                                                       *)
(*                                                                          *)
(* A past is what the rows of rescue_offers and rescue_ratings add up to:   *)
(* [received, accepted, expired, bound, cancelled, ratings, stars, quick],  *)
(* quick when it answers within two minutes on average.  Scores are in      *)
(* tenths of a point.  Disputes and breaches are counted by nobody, so they *)
(* stay 0 and are left out, as is the wording of the signals.               *)
(***************************************************************************)
EXTENDS Integers

Baseline == 750
NoRow == [received |-> -1]

\* Ratings are of one to five stars.
Counts == [received : Nat, accepted : Nat, expired : Nat, bound : Nat, cancelled : Nat,
           ratings : Nat, stars : Nat, quick : BOOLEAN]
Record == {past \in Counts : past.stars <= 5 * past.ratings}

NewPast == [received |-> 0, accepted |-> 0, expired |-> 0, bound |-> 0, cancelled |-> 0,
            ratings |-> 0, stars |-> 0, quick |-> FALSE]

\* The events that change a past.
Received(past) == [past EXCEPT !.received = past.received + 1]
Accepted(past) == [past EXCEPT !.accepted = past.accepted + 1]
Expired(past)  == [past EXCEPT !.expired = past.expired + 1]
Bound(past)    == [past EXCEPT !.bound = past.bound + 1]
Abandoned(past) == [past EXCEPT !.bound = past.bound - 1, !.cancelled = past.cancelled + 1]

Clamped(x) == IF x < 0 THEN 0 ELSE IF x > 1000 THEN 1000 ELSE x
AtMost(x, y) == IF x <= y THEN x ELSE y

\* What completed work, ratings and quick answers add.
Earned(past) ==
  AtMost(120, 6 * past.bound)
    + (IF past.ratings = 0 THEN 0 ELSE (60 * past.stars) \div past.ratings - 180)
    + (IF past.quick /\ past.accepted >= 3 THEN 40 ELSE 0)

\* A rate of acceptance is read only from three offers on.
Availability(past) ==
  IF past.received < 3 THEN 0
  ELSE IF 10 * past.accepted >= 6 * past.received THEN 50
  ELSE IF 4 * past.accepted < past.received THEN -80 ELSE 0

\* Mutant of Penalties: the rescues that were abandoned are not held against anybody.
PenaltiesForSilence(past) == IF past.expired >= 3 THEN AtMost(100, 15 * past.expired) ELSE 0

Penalties(past) ==
  (IF past.expired >= 3 THEN AtMost(100, 15 * past.expired) ELSE 0) + 90 * past.cancelled

IsNew(past) == past.bound = 0 /\ past.ratings = 0

\* score_reputation
ScoreOf(past) ==
  IF IsNew(past) THEN Baseline
  ELSE Clamped(Baseline + Earned(past) + Availability(past) - Penalties(past))

\* trust_scores_for and acceptance_rates_for, in points and percent, of the row as it was
\* when it was computed.
TrustOf(row)   == IF row = NoRow THEN 75 ELSE ScoreOf(row) \div 10
AcceptsOf(row) ==
  IF row = NoRow \/ row.received = 0 THEN 50 ELSE (100 * row.accepted) \div row.received
=============================================================================
