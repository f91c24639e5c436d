------------------------------- MODULE Pricing -------------------------------
(***************************************************************************)
(* What a rescue costs: calculate_price (pricing_engine/app/pricing.py).    *)
(*                                                                          *)
(* A job is [km, class, volume, weight, minutes, nearby, value, trust]:     *)
(* volumes are in hundredths of a cubic metre, weights in tenths of a       *)
(* kilogram, minutes the time until the cargo spoils, nearby the number of  *)
(* compatible trucks, value the cargo's in INR (0: not given), trust the    *)
(* carrier's score.  Unknown minutes or trust are Unknown.                  *)
(*                                                                          *)
(* The code computes in floating point and rounds at the end.  Here the     *)
(* subtotal and each factor applied to it are rounded to whole rupees, and  *)
(* caps, floor and payout are exact, in paise.                              *)
(***************************************************************************)
EXTENDS Integers

Unknown == -999

Larger(a, b)  == IF a >= b THEN a ELSE b
Smaller(a, b) == IF a <= b THEN a ELSE b

\* x times num / den, to the nearest.
Scaled(x, num, den) == (x * num + den \div 2) \div den

-----------------------------------------------------------------------------
(* PricingPolicy.                                                           *)

Rate == [standard |-> 40, refrigerated |-> 65, hazmat |-> 90, fragile |-> 55]
Callout == 900
Condition == [standard |-> 100, refrigerated |-> 115, hazmat |-> 130, fragile |-> 108]
Horizon == 240          \* minutes beyond which urgency adds nothing
FreightMultiple == 3
ValueShare == 25        \* percent of the cargo's value
MarginFloor == 118      \* percent of the subtotal
CarrierShare == 88      \* percent of the total

\* _cargo_class
CargoClass(cold, hazmat) ==
  CASE hazmat -> "hazmat" [] cold /\ ~hazmat -> "refrigerated" [] OTHER -> "standard"

-----------------------------------------------------------------------------
(* The factors.                                                             *)

\* Mutant of Urgency: the pressure falls as the cargo's time runs out.
UrgencyReversed(job) ==
  IF job.minutes = Unknown THEN 4800 ELSE 4800 + 17 * Smaller(job.minutes, Horizon)

\* _urgency_multiplier, in 4800ths: 1 at the horizon, 1.85 when no time is left.
Urgency(job) ==
  IF job.minutes = Unknown THEN 4800
  ELSE 4800 + 17 * (Horizon - Larger(0, Smaller(job.minutes, Horizon)))

\* _scarcity_multiplier, in 25ths: 1.4 for a single truck, 1 from the sixth.
Scarcity(job) == 25 + 2 * (6 - Smaller(6, Larger(1, job.nearby)))

\* _reputation_multiplier, in 4000ths: up to 8 percent above 80, 10 below.
Reputed(job) ==
  IF job.trust = Unknown THEN 4000
  ELSE LET score == Larger(0, Smaller(100, job.trust))
       IN  IF score >= 80 THEN 4000 + 16 * (score - 80) ELSE 4000 - 5 * (80 - score)

-----------------------------------------------------------------------------
(* The quote.                                                               *)

TransferFee(job) == (job.weight * 220) \div 10000 + (job.volume * 45) \div 100

Subtotal(job) == job.km * Rate[job.class] + Callout + TransferFee(job)

Uncapped(job) ==
  Scaled(Scaled(Scaled(Scaled(Subtotal(job), Urgency(job), 4800),
                       Scarcity(job), 25),
                Condition[job.class], 100),
         Reputed(job), 4000)

NormalFreight(job) == Larger(job.km * Rate["standard"] + Callout, 1)

FreightCap(job) == 100 * FreightMultiple * NormalFreight(job)
ValueCap(job)   == ValueShare * job.value
Floor(job)      == MarginFloor * Subtotal(job)

Capped(job) ==
  LET freight == Smaller(100 * Uncapped(job), FreightCap(job))
  IN  IF job.value > 0 THEN Smaller(freight, ValueCap(job)) ELSE freight

\* Mutant of Total: the caps are applied last.
TotalCappedLast(job) ==
  Smaller(Larger(Capped(job), Floor(job)),
          IF job.value > 0 THEN Smaller(FreightCap(job), ValueCap(job)) ELSE FreightCap(job))

\* The floor is applied last.
Total(job) == Larger(Capped(job), Floor(job))

\* carrier_payout_inr, to the paisa.
Payout(job) == Scaled(Total(job), CarrierShare, 100)

PlatformFee(job) == Total(job) - Payout(job)
=============================================================================
