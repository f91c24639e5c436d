------------------------------- MODULE Custody -------------------------------
(***************************************************************************)
(* What an escrow promises about money, with no state machine, no requests  *)
(* and no sessions: the owner's money is taken into custody at most once,   *)
(* and leaves custody at most once -- to the carrier and the platform, or   *)
(* back to the owner -- unless a dispute freezes it where it is.            *)
(* EscrowLedger implements this as long as requests do not overlap.         *)
(***************************************************************************)
EXTENDS Integers

CONSTANTS Escrow, Amount, Payout

VARIABLES books,      \* Escrow -> credit minus debit of each ledger account
          settled     \* Escrow -> nothing may be posted any more

Untouched(e) ==
  [payer_payable |-> 0, escrow_liability |-> 0,
   carrier_receivable |-> 0, platform_fee_income |-> 0]

InCustody(e) ==
  [payer_payable |-> -Amount[e], escrow_liability |-> Amount[e],
   carrier_receivable |-> 0, platform_fee_income |-> 0]

PaidOut(e) ==
  [payer_payable |-> -Amount[e], escrow_liability |-> 0,
   carrier_receivable |-> Payout[e],
   platform_fee_income |-> Amount[e] - Payout[e]]

Init ==
  /\ books = [e \in Escrow |-> Untouched(e)]
  /\ settled = [e \in Escrow |-> FALSE]

Hold(e) ==
  /\ ~settled[e]
  /\ books[e] = Untouched(e)
  /\ books' = [books EXCEPT ![e] = InCustody(e)]
  /\ UNCHANGED settled

\* Custody ends: the books move to outcome (or stay, when it is a freeze).
Settle(e, outcome) ==
  /\ ~settled[e]
  /\ books[e] = InCustody(e)
  /\ books' = [books EXCEPT ![e] = outcome]
  /\ settled' = [settled EXCEPT ![e] = TRUE]

Pay(e)    == Settle(e, PaidOut(e))
Return(e) == Settle(e, Untouched(e))
Freeze(e) == Settle(e, InCustody(e))

Next == \E e \in Escrow : Hold(e) \/ Pay(e) \/ Return(e) \/ Freeze(e)

Spec == Init /\ [][Next]_<<books, settled>>
=============================================================================
