---------------------------- MODULE EscrowLedger ----------------------------
(***************************************************************************)
(* The escrow ledger: services/escrow_ledger/app/escrow_service.py, its     *)
(* router, and the callers in the orchestrator that move an escrow.         *)
(*                                                                          *)
(* Every request runs in a database session of its own.  It loads the       *)
(* escrow row (and, to verify, the condition log) when it starts, decides   *)
(* on what it loaded, and writes the new state with the postings in one     *)
(* commit.  Nothing locks the row in between and the row has no version     *)
(* column, so two open sessions may decide on the same loaded state.  The   *)
(* number of sessions is a parameter: one element of Session is a server    *)
(* that handles one request at a time, more are overlapping requests.       *)
(*                                                                          *)
(* Abstracted: amounts are whole paise and constants of the escrow (the     *)
(* columns are written once, when a rescue binds); an account is the sum of *)
(* its entries; the condition log is the kinds of reading it contains.      *)
(***************************************************************************)
EXTENDS Integers, EscrowStates

CONSTANTS Escrow,       \* the escrows that may be opened
          Session,      \* database sessions: requests that may overlap
          Amount,       \* Escrow -> what the owner commits (amount_inr)
          Payout,       \* Escrow -> the carrier's share (carrier_payout_inr)
          Limited       \* escrows whose shipment declares a maximum temperature

\* The CHECK constraints of the escrow and offer tables (amount >= 0,
\* 0 <= payout <= price).
ASSUME AmountAssumption ==
  /\ Amount \in [Escrow -> Nat]
  /\ Payout \in [Escrow -> Nat]
  /\ \A e \in Escrow : Payout[e] <= Amount[e]
  /\ Limited \subseteq Escrow

VARIABLES state,        \* Escrow -> the state column, or "NONE": no row yet
          balance,      \* Escrow -> credit minus debit of each account
          readings,     \* Escrow -> kinds of temperature recorded so far
          session       \* Session -> the write it will commit, or Closed

vars == <<state, balance, readings, session>>

Account == {"payer_payable", "escrow_liability",
            "carrier_receivable", "platform_fee_income"}

Reading == {"in_spec", "breach"}

Write  == [escrow : Escrow, from : EscrowState, to : EscrowState]
Closed == [escrow |-> "none"]

TypeOK ==
  /\ state \in [Escrow -> EscrowState \cup {"NONE"}]
  /\ balance \in [Escrow -> [Account -> Int]]
  /\ readings \in [Escrow -> SUBSET Reading]
  /\ session \in [Session -> Write \cup {Closed}]

-----------------------------------------------------------------------------
(* Postings: what each one adds to the accounts of its escrow.              *)

\* Mutant of ReleasePosting: the platform fee line is forgotten.
ReleaseWithoutFee(e) ==
  [payer_payable |-> 0, escrow_liability |-> -Amount[e],
   carrier_receivable |-> Payout[e], platform_fee_income |-> 0]

HoldPosting(e) ==
  [payer_payable |-> -Amount[e], escrow_liability |-> Amount[e],
   carrier_receivable |-> 0, platform_fee_income |-> 0]

ReleasePosting(e) ==
  [payer_payable |-> 0, escrow_liability |-> -Amount[e],
   carrier_receivable |-> Payout[e],
   platform_fee_income |-> Amount[e] - Payout[e]]

ReversalPosting(e) ==
  [payer_payable |-> Amount[e], escrow_liability |-> -Amount[e],
   carrier_receivable |-> 0, platform_fee_income |-> 0]

NoPosting == [a \in Account |-> 0]

\* transition(): the posting that goes with a change of state.
PostingOf(e, from, to) ==
  IF to = "ACCEPTED" THEN HoldPosting(e)
  ELSE IF to = "RELEASED" THEN ReleasePosting(e)
  ELSE IF to = "CANCELLED" /\ from \in PreviouslyHeld THEN ReversalPosting(e)
  ELSE NoPosting

\* Mutant of Post: only the accounts of the custody are carried over.
PostCustodyOnly(books, posting) ==
  [a \in {"escrow_liability", "carrier_receivable"} |-> books[a] + posting[a]]

Post(books, posting) == [a \in Account |-> books[a] + posting[a]]

\* Mutant of Verdict: breaches are looked for in an empty log, none is found.
VerdictOfEmptyLogPasses(limited, log) ==
  IF limited /\ "breach" \in log THEN "FAIL" ELSE "PASS"

\* evaluate_temperature_log: no limit or no reading proves nothing.
Verdict(limited, log) ==
  IF ~limited \/ log = {} THEN "INSUFFICIENT_DATA"
  ELSE IF "breach" \in log THEN "FAIL"
  ELSE "PASS"

-----------------------------------------------------------------------------
Init ==
  /\ state = [e \in Escrow |-> "NONE"]
  /\ balance = [e \in Escrow |-> NoPosting]
  /\ readings = [e \in Escrow |-> {}]
  /\ session = [s \in Session |-> Closed]

\* _try_bind: create_escrow and the transition to ACCEPTED share one commit.
OpenAndHold(e) ==
  /\ state[e] = "NONE"
  /\ state' = [state EXCEPT ![e] = "ACCEPTED"]
  /\ balance' = [balance EXCEPT
                   ![e] = Post(@, PostingOf(e, "INITIATED", "ACCEPTED"))]
  /\ UNCHANGED <<readings, session>>

\* Telemetry ingest appends a temperature to the shipment's condition log.
RecordReading(e, r) ==
  /\ readings' = [readings EXCEPT ![e] = @ \cup {r}]
  /\ UNCHANGED <<state, balance, session>>

\* A session loads the row and decides; a request that decides to write
\* nothing (illegal transition, already there) leaves no trace.
Decide(s, e, to) ==
  /\ session[s] = Closed
  /\ to # state[e]
  /\ session' = [session EXCEPT ![s] = [escrow |-> e, from |-> state[e], to |-> to]]
  /\ UNCHANGED <<state, balance, readings>>

\* POST /escrow/{id}/transition; also cancel_bound_offer and
\* stand_down_incident, which ask for CANCELLED.
LoadTransition(s, e, to) ==
  /\ state[e] # "NONE"
  /\ to \in OwnerMayRequest \cap ValidTransitions[state[e]]
  /\ Decide(s, e, to)

\* sync_escrow_to_incident.
LoadSync(s, e, target) ==
  /\ state[e] # "NONE"
  /\ Decide(s, e, Follow(state[e], target))

\* POST /escrow/{id}/verify: the verdict comes from the log as loaded.
LoadVerify(s, e) ==
  LET verdict == Verdict(e \in Limited, readings[e])
      target  == IF verdict = "PASS" THEN "RELEASED" ELSE "DISPUTED"
  IN  /\ state[e] # "NONE"
      /\ verdict # "INSUFFICIENT_DATA"
      /\ target \in ValidTransitions[state[e]]
      /\ Decide(s, e, target)

\* The row is overwritten with what the session decided, whatever another
\* session has committed since; the postings are inserted beside it.
Commit(s) ==
  /\ session[s] # Closed
  /\ LET w == session[s]
     IN  /\ state' = [state EXCEPT ![w.escrow] = w.to]
         /\ balance' = [balance EXCEPT
                          ![w.escrow] = Post(@, PostingOf(w.escrow, w.from, w.to))]
  /\ session' = [session EXCEPT ![s] = Closed]
  /\ UNCHANGED readings

\* The process dies or the client goes away before the commit.
Abandon(s) ==
  /\ session[s] # Closed
  /\ session' = [session EXCEPT ![s] = Closed]
  /\ UNCHANGED <<state, balance, readings>>

Next ==
  \/ \E e \in Escrow : OpenAndHold(e)
  \/ \E e \in Escrow, r \in Reading : RecordReading(e, r)
  \/ \E s \in Session, e \in Escrow, to \in EscrowState : LoadTransition(s, e, to)
  \/ \E s \in Session, e \in Escrow, t \in SyncTargets : LoadSync(s, e, t)
  \/ \E s \in Session, e \in Escrow : LoadVerify(s, e)
  \/ \E s \in Session : Commit(s)
  \/ \E s \in Session : Abandon(s)

Spec == Init /\ [][Next]_vars

-----------------------------------------------------------------------------
(* Properties that hold however many sessions overlap.                      *)

\* The books of every escrow balance at every point of its life, not only at
\* the end (the second guarantee of escrow_service.py's header).  Postings of
\* overlapping commits add up, so each one must balance by itself.
TrialBalance ==
  \A e \in Escrow :
    balance[e].payer_payable + balance[e].escrow_liability
      + balance[e].carrier_receivable + balance[e].platform_fee_income = 0

\* Nobody is paid on no evidence: a released escrow had a declared limit and
\* at least one in-spec temperature on record, whatever else was recorded
\* while its verification was under way (evaluate_temperature_log).
ReleasedOnEvidence ==
  \A e \in Escrow : state[e] = "RELEASED" => e \in Limited /\ "in_spec" \in readings[e]

-----------------------------------------------------------------------------
(* Properties of a server whose requests do not overlap.                    *)

\* Where the money must be in each state of the escrow.
BooksIn(e, st) ==
  IF st \in {"ACCEPTED", "IN_TRANSIT", "PENDING_VERIFICATION", "DISPUTED"}
  THEN HoldPosting(e)
  ELSE IF st = "RELEASED" THEN Post(HoldPosting(e), ReleasePosting(e))
  ELSE NoPosting

\* The state column and the ledger tell the same story: funds are held from
\* acceptance until release or reversal, frozen by a dispute, paid exactly
\* once by a release and returned exactly once by a cancellation.
LedgerMatchesState == \A e \in Escrow : balance[e] = BooksIn(e, state[e])

\* The ledger implements the custody of the owner's money (Custody.tla).
Final == {"RELEASED", "DISPUTED", "CANCELLED"}

Settled == [e \in Escrow |-> state[e] \in Final]

Books == INSTANCE Custody WITH books <- balance, settled <- Settled

\* Money is taken at most once, leaves at most once and a dispute freezes it.
CustodyKept == Books!Spec

-----------------------------------------------------------------------------
(* Claims of the repository that overlapping sessions break.                *)

\* escrow_service.py:186: only a hold that was actually posted is reversed,
\* so the platform never owes back more than it took.
OnlyPostedHoldsAreReversed == \A e \in Escrow : balance[e].escrow_liability >= 0

\* test_escrow_ledger.py:125: a breach disputes and pays nobody.
DisputePaysNobody ==
  \A e \in Escrow : state[e] = "DISPUTED" => balance[e].carrier_receivable = 0
=============================================================================
