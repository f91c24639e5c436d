------------------------- MODULE EscrowLedgerProofs -------------------------
(***************************************************************************)
(* Theorems about EscrowLedger for every set of escrows and every amount.   *)
(* Type correctness and the trial balance hold for any number of sessions;  *)
(* the match of ledger and state, and the custody of the money, hold when   *)
(* no two sessions overlap, which is their only hypothesis.                 *)
(***************************************************************************)
EXTENDS EscrowLedger, TLAPS

-----------------------------------------------------------------------------
(* The walk of EscrowStates.                                                *)

\* The moves a request can have decided to write.
LegalWrite ==
  {<<"ACCEPTED", "IN_TRANSIT">>, <<"ACCEPTED", "PENDING_VERIFICATION">>,
   <<"ACCEPTED", "CANCELLED">>, <<"IN_TRANSIT", "PENDING_VERIFICATION">>,
   <<"IN_TRANSIT", "CANCELLED">>, <<"PENDING_VERIFICATION", "RELEASED">>,
   <<"PENDING_VERIFICATION", "DISPUTED">>}

\* The walk of sync_escrow_to_incident ends in an escrow state.
LEMMA FollowType ==
  ASSUME NEW st \in EscrowState, NEW target \in SyncTargets
  PROVE  Follow(st, target) \in EscrowState
BY DEF EscrowState, SyncTargets, Follow, WalkForward, StepTowards

\* What the walk changes on an open escrow is a legal write.
LEMMA FollowIsLegal ==
  ASSUME NEW st \in EscrowState \ {"INITIATED"}, NEW target \in SyncTargets,
         Follow(st, target) # st
  PROVE  <<st, Follow(st, target)>> \in LegalWrite
<1>1. CASE target = "IN_TRANSIT"
  BY <1>1 DEF EscrowState, Follow, WalkForward, StepTowards, Order,
              ValidTransitions, LegalWrite
<1>2. CASE target = "PENDING_VERIFICATION"
  BY <1>2 DEF EscrowState, Follow, WalkForward, StepTowards, Order,
              ValidTransitions, LegalWrite
<1>3. CASE target = "CANCELLED"
  BY <1>3 DEF EscrowState, Follow, WalkForward, StepTowards, Order,
              ValidTransitions, LegalWrite
<1> QED BY <1>1, <1>2, <1>3 DEF SyncTargets

-----------------------------------------------------------------------------
(* Postings and types.                                                      *)

\* A posting is an integer for each account.
LEMMA PostingType ==
  ASSUME NEW e \in Escrow, NEW from, NEW to
  PROVE  PostingOf(e, from, to) \in [Account -> Int]
<1> USE AmountAssumption DEF Account
<1>1. HoldPosting(e) \in [Account -> Int]  BY DEF HoldPosting
<1>2. ReleasePosting(e) \in [Account -> Int]  BY DEF ReleasePosting
<1>3. ReversalPosting(e) \in [Account -> Int]  BY DEF ReversalPosting
<1>4. NoPosting \in [Account -> Int]  BY DEF NoPosting
<1> QED BY <1>1, <1>2, <1>3, <1>4 DEF PostingOf

\* Every posting balances by itself (Posting.validate).
LEMMA PostingBalances ==
  ASSUME NEW e \in Escrow, NEW from, NEW to
  PROVE  LET p == PostingOf(e, from, to)
         IN  p.payer_payable + p.escrow_liability
               + p.carrier_receivable + p.platform_fee_income = 0
<1> USE AmountAssumption
<1>1. NoPosting.payer_payable = 0 /\ NoPosting.escrow_liability = 0 /\
      NoPosting.carrier_receivable = 0 /\ NoPosting.platform_fee_income = 0
  BY DEF NoPosting, Account
<1> QED BY <1>1 DEF PostingOf, HoldPosting, ReleasePosting, ReversalPosting

\* Rows, accounts, logs and sessions keep their types.
THEOREM TypeCorrect == Spec => []TypeOK
<1>1. Init => TypeOK
  BY DEF Init, TypeOK, NoPosting
<1>2. ASSUME TypeOK, [Next]_vars
      PROVE  TypeOK'
  <2> USE <1>2
  <2>1. CASE UNCHANGED vars
    BY <2>1 DEF TypeOK, vars
  <2>2. ASSUME NEW e \in Escrow, OpenAndHold(e)
        PROVE  TypeOK'
    <3>1. PostingOf(e, "INITIATED", "ACCEPTED") \in [Account -> Int]
      BY PostingType
    <3>2. Post(balance[e], PostingOf(e, "INITIATED", "ACCEPTED")) \in [Account -> Int]
      BY <3>1 DEF TypeOK, Post
    <3> QED BY <2>2, <3>2 DEF OpenAndHold, TypeOK, EscrowState
  <2>3. ASSUME NEW e \in Escrow, NEW r \in Reading, RecordReading(e, r)
        PROVE  TypeOK'
    BY <2>3 DEF RecordReading, TypeOK
  <2>4. ASSUME NEW s \in Session, NEW e \in Escrow, NEW to \in EscrowState,
               state[e] # "NONE", Decide(s, e, to)
        PROVE  TypeOK'
    BY <2>4 DEF Decide, TypeOK, Write
  <2>5. ASSUME NEW s \in Session, NEW e \in Escrow, NEW to \in EscrowState,
               LoadTransition(s, e, to)
        PROVE  TypeOK'
    BY <2>4, <2>5 DEF LoadTransition
  <2>6. ASSUME NEW s \in Session, NEW e \in Escrow, NEW t \in SyncTargets,
               LoadSync(s, e, t)
        PROVE  TypeOK'
    <3>1. Follow(state[e], t) \in EscrowState
      BY <2>6, FollowType DEF LoadSync, TypeOK
    <3> QED BY <2>4, <2>6, <3>1 DEF LoadSync
  <2>7. ASSUME NEW s \in Session, NEW e \in Escrow, LoadVerify(s, e)
        PROVE  TypeOK'
    BY <2>4, <2>7 DEF LoadVerify, EscrowState
  <2>8. ASSUME NEW s \in Session, Commit(s)
        PROVE  TypeOK'
    <3>1. session[s] \in Write
      BY <2>8 DEF Commit, TypeOK
    <3> DEFINE w == session[s]
               p == PostingOf(w.escrow, w.from, w.to)
    <3>2. w.escrow \in Escrow /\ w.to \in EscrowState
      BY <3>1 DEF Write
    <3>3. p \in [Account -> Int]
      BY <3>2, PostingType
    <3>4. Post(balance[w.escrow], p) \in [Account -> Int]
      BY <3>2, <3>3 DEF TypeOK, Post
    <3> QED BY <2>8, <3>2, <3>4 DEF Commit, TypeOK
  <2>9. ASSUME NEW s \in Session, Abandon(s)
        PROVE  TypeOK'
    BY <2>9 DEF Abandon, TypeOK
  <2> QED BY <2>1, <2>2, <2>3, <2>5, <2>6, <2>7, <2>8, <2>9 DEF Next
<1> QED BY <1>1, <1>2, PTL DEF Spec

\* The books of every escrow balance, however many sessions overlap: the
\* state decides which postings are written, never whether they balance.
THEOREM BooksBalance == Spec => []TrialBalance
<1>1. Init => TrialBalance
  BY DEF Init, TrialBalance, NoPosting, Account
<1>2. ASSUME TypeOK, TrialBalance, [Next]_vars
      PROVE  TrialBalance'
  <2> USE <1>2
  <2>1. ASSUME NEW e \in Escrow, NEW from, NEW to,
               balance' = [balance EXCEPT ![e] = Post(@, PostingOf(e, from, to))]
        PROVE  TrialBalance'
    <3> DEFINE p == PostingOf(e, from, to)
    <3>1. p \in [Account -> Int]
      BY PostingType
    <3>2. p.payer_payable + p.escrow_liability
            + p.carrier_receivable + p.platform_fee_income = 0
      BY PostingBalances
    <3> HIDE DEF p
    <3>3. balance' = [balance EXCEPT ![e] = Post(@, p)]
      BY <2>1 DEF p
    <3> DEFINE b == balance[e]
    <3>4. b \in [Account -> Int]
      BY DEF TypeOK
    <3>5. b.payer_payable + b.escrow_liability
            + b.carrier_receivable + b.platform_fee_income = 0
      BY DEF TrialBalance
    <3>6. balance'[e] = Post(b, p)
      BY <3>3 DEF TypeOK
    <3>7. \A f \in Escrow \ {e} : balance'[f] = balance[f]
      BY <3>3 DEF TypeOK
    <3> HIDE DEF b
    <3>8. LET c == Post(b, p)
          IN  c.payer_payable + c.escrow_liability
                + c.carrier_receivable + c.platform_fee_income = 0
      BY <3>1, <3>2, <3>4, <3>5 DEF Post, Account
    <3> QED BY <3>6, <3>7, <3>8 DEF TrialBalance
  <2>2. CASE UNCHANGED balance
    BY <2>2 DEF TrialBalance
  <2>3. ASSUME NEW e \in Escrow, OpenAndHold(e)
        PROVE  TrialBalance'
    BY <2>1, <2>3 DEF OpenAndHold
  <2>4. ASSUME NEW s \in Session, Commit(s)
        PROVE  TrialBalance'
    <3>1. session[s] \in Write
      BY <2>4 DEF Commit, TypeOK
    <3> QED BY <2>1, <2>4, <3>1 DEF Commit, Write
  <2> QED
    BY <2>2, <2>3, <2>4 DEF Next, vars, RecordReading, LoadTransition, LoadSync,
       LoadVerify, Decide, Abandon
<1> QED BY <1>1, <1>2, TypeCorrect, PTL DEF Spec

-----------------------------------------------------------------------------
(* Any number of sessions: nobody is paid on no evidence.                   *)

\* INITIATED never outlives the commit that creates it.
NeverLeftInitiated == \A e \in Escrow : state[e] # "INITIATED"

\* A session that will write RELEASED found evidence in the log, or found the
\* escrow released already; what it found cannot go away before it commits,
\* because a log only grows.
EvidenceInHand ==
  \A s \in Session :
    session[s] # Closed /\ session[s].to = "RELEASED" =>
      session[s].escrow \in Limited /\ "in_spec" \in readings[session[s].escrow]

\* No session writes INITIATED, so no row is ever left in it.
NeverWritesInitiated ==
  \A s \in Session : session[s] # Closed => session[s].to # "INITIATED"

EvidenceInv ==
  NeverLeftInitiated /\ NeverWritesInitiated /\ EvidenceInHand /\ ReleasedOnEvidence

\* Every step keeps it: only a verification decides to release.
LEMMA EvidenceStep == TypeOK /\ EvidenceInv /\ [Next]_vars => EvidenceInv'
<1> SUFFICES ASSUME TypeOK, EvidenceInv, [Next]_vars
             PROVE  EvidenceInv'
  OBVIOUS
<1> USE DEF EvidenceInv
<1>1. CASE UNCHANGED vars
  BY <1>1 DEF vars, NeverLeftInitiated, NeverWritesInitiated, EvidenceInHand, ReleasedOnEvidence
<1>2. ASSUME NEW e \in Escrow, OpenAndHold(e)
      PROVE  EvidenceInv'
  BY <1>2 DEF OpenAndHold, TypeOK, NeverLeftInitiated, NeverWritesInitiated,
              EvidenceInHand, ReleasedOnEvidence
<1>3. ASSUME NEW e \in Escrow, NEW r \in Reading, RecordReading(e, r)
      PROVE  EvidenceInv'
  <2>1. \A f \in Escrow : readings[f] \subseteq readings'[f]
    BY <1>3 DEF RecordReading, TypeOK
  <2>2. \A s \in Session : session[s] # Closed => session[s].escrow \in Escrow
    BY DEF TypeOK, Write
  <2> QED BY <1>3, <2>1, <2>2 DEF RecordReading, NeverLeftInitiated, NeverWritesInitiated,
             EvidenceInHand, ReleasedOnEvidence
<1>4. ASSUME NEW s \in Session, NEW e \in Escrow, NEW to \in EscrowState \ {"INITIATED"},
             Decide(s, e, to),
             to = "RELEASED" => e \in Limited /\ "in_spec" \in readings[e]
      PROVE  EvidenceInv'
  <2>1. session'[s] = [escrow |-> e, from |-> state[e], to |-> to]
    BY <1>4 DEF Decide, TypeOK
  <2>2. \A t \in Session \ {s} : session'[t] = session[t]
    BY <1>4 DEF Decide, TypeOK
  <2> QED BY <1>4, <2>1, <2>2 DEF Decide, NeverLeftInitiated, NeverWritesInitiated,
             EvidenceInHand, ReleasedOnEvidence
<1>5. ASSUME NEW s \in Session, NEW e \in Escrow, NEW to \in EscrowState,
             LoadTransition(s, e, to)
      PROVE  EvidenceInv'
  <2>1. state[e] \in EscrowState /\ to \in ValidTransitions[state[e]]
    BY <1>5 DEF LoadTransition, TypeOK
  <2>2. to # "INITIATED"
    BY <2>1 DEF EscrowState, ValidTransitions
  <2>3. to # "RELEASED"
    BY <1>5 DEF LoadTransition, OwnerMayRequest
  <2> QED BY <1>4, <1>5, <2>2, <2>3 DEF LoadTransition
<1>6. ASSUME NEW s \in Session, NEW e \in Escrow, NEW t \in SyncTargets,
             LoadSync(s, e, t)
      PROVE  EvidenceInv'
  <2> DEFINE to == Follow(state[e], t)
  <2>1. state[e] \in EscrowState \ {"INITIATED"} /\ to # state[e]
    BY <1>6 DEF LoadSync, Decide, TypeOK, NeverLeftInitiated
  <2>2. <<state[e], to>> \in LegalWrite
    BY <2>1, FollowIsLegal
  <2>3. state[e] = "PENDING_VERIFICATION" => to = state[e]
    BY DEF Follow, WalkForward, StepTowards, Order, ValidTransitions, SyncTargets
  <2>4. to \in EscrowState \ {"INITIATED"} /\ to # "RELEASED"
    BY <2>1, <2>2, <2>3 DEF LegalWrite, EscrowState
  <2>5. Decide(s, e, to)
    BY <1>6 DEF LoadSync
  <2> HIDE DEF to
  <2> QED BY <1>4, <2>4, <2>5
<1>7. ASSUME NEW s \in Session, NEW e \in Escrow, LoadVerify(s, e)
      PROVE  EvidenceInv'
  <2>1. PICK to \in {"RELEASED", "DISPUTED"} :
          /\ Decide(s, e, to)
          /\ to = "RELEASED" => Verdict(e \in Limited, readings[e]) = "PASS"
    BY <1>7 DEF LoadVerify
  <2>2. readings[e] \in SUBSET Reading
    BY DEF TypeOK
  <2>3. to = "RELEASED" => e \in Limited /\ "in_spec" \in readings[e]
    BY <2>1, <2>2 DEF Verdict, Reading
  <2> QED BY <1>4, <2>1, <2>3 DEF EscrowState
<1>8. ASSUME NEW s \in Session, Commit(s)
      PROVE  EvidenceInv'
  <2> DEFINE w == session[s]
  <2>1. w \in Write /\ w # Closed
    BY <1>8 DEF Commit, TypeOK
  <2>2. w.escrow \in Escrow /\ state' = [state EXCEPT ![w.escrow] = w.to]
    BY <1>8, <2>1 DEF Commit, Write
  <2>3. /\ w.to # "INITIATED"
        /\ w.to = "RELEASED" => w.escrow \in Limited /\ "in_spec" \in readings[w.escrow]
    BY <2>1 DEF NeverWritesInitiated, EvidenceInHand
  <2>4. session'[s] = Closed /\ \A t \in Session \ {s} : session'[t] = session[t]
    BY <1>8 DEF Commit, TypeOK
  <2> HIDE DEF w
  <2>5. readings' = readings
    BY <1>8 DEF Commit
  <2> QED BY <2>2, <2>3, <2>4, <2>5 DEF TypeOK, NeverLeftInitiated, NeverWritesInitiated,
             EvidenceInHand, ReleasedOnEvidence
<1>9. ASSUME NEW s \in Session, Abandon(s)
      PROVE  EvidenceInv'
  <2>1. session'[s] = Closed /\ \A t \in Session \ {s} : session'[t] = session[t]
    BY <1>9 DEF Abandon, TypeOK
  <2> QED BY <1>9, <2>1 DEF Abandon, NeverLeftInitiated, NeverWritesInitiated,
             EvidenceInHand, ReleasedOnEvidence
<1> QED BY <1>1, <1>2, <1>3, <1>5, <1>6, <1>7, <1>8, <1>9 DEF Next

\* However many requests overlap, an escrow is released only where a limit
\* was declared and an in-spec temperature is on record.
THEOREM ReleaseHasEvidence == Spec => []ReleasedOnEvidence
<1>1. Init => EvidenceInv
  BY DEF Init, EvidenceInv, NeverLeftInitiated, NeverWritesInitiated, EvidenceInHand,
         ReleasedOnEvidence
<1>2. EvidenceInv => ReleasedOnEvidence
  BY DEF EvidenceInv
<1> QED BY <1>1, <1>2, EvidenceStep, TypeCorrect, PTL DEF Spec

-----------------------------------------------------------------------------
(* One session: the ledger matches the state column.                        *)

\* The inductive invariant.  A session that has loaded an escrow still sees
\* its current state when it commits, because no other session can have
\* written meanwhile.
WritesAreFresh ==
  \A s \in Session : session[s] # Closed =>
    /\ state[session[s].escrow] = session[s].from
    /\ <<session[s].from, session[s].to>> \in LegalWrite

SerialInv == TypeOK /\ NeverLeftInitiated /\ WritesAreFresh /\ LedgerMatchesState

\* A legal write moves the books from those of its source state to those of
\* its target state.
LEMMA LegalWritePosts ==
  ASSUME NEW e \in Escrow, NEW from, NEW to, <<from, to>> \in LegalWrite
  PROVE  Post(BooksIn(e, from), PostingOf(e, from, to)) = BooksIn(e, to)
<1> USE AmountAssumption DEF Post, BooksIn, PostingOf, PreviouslyHeld,
        HoldPosting, ReleasePosting, ReversalPosting, NoPosting, Account
<1>1. CASE to \in {"IN_TRANSIT", "PENDING_VERIFICATION", "DISPUTED"}
  BY <1>1 DEF LegalWrite
<1>2. CASE to = "RELEASED"
  BY <1>2 DEF LegalWrite
<1>3. CASE to = "CANCELLED"
  BY <1>3 DEF LegalWrite
<1> QED BY <1>1, <1>2, <1>3 DEF LegalWrite

\* The hypothesis of the theorems below: requests do not overlap.
OneAtATime == \A s, t \in Session : s = t

\* The ledger and the state column of every escrow tell the same story, for
\* all amounts and however many escrows, while requests do not overlap.
LEMMA SerialInvariant == ASSUME OneAtATime PROVE Spec => []SerialInv
<1>1. Init => SerialInv
  <2>1. Init => TypeOK
    BY DEF Init, TypeOK, NoPosting
  <2> QED BY <2>1 DEF Init, SerialInv, NeverLeftInitiated, WritesAreFresh,
             LedgerMatchesState, BooksIn
<1>2. ASSUME SerialInv, TypeOK', [Next]_vars
      PROVE  SerialInv'
  <2> USE <1>2 DEF SerialInv
  <2>1. CASE UNCHANGED vars
    BY <2>1 DEF vars, NeverLeftInitiated, WritesAreFresh, LedgerMatchesState
  <2>2. ASSUME NEW e \in Escrow, OpenAndHold(e)
        PROVE  SerialInv'
    <3>1. NeverLeftInitiated'
      BY <2>2 DEF OpenAndHold, NeverLeftInitiated, TypeOK
    <3>2. WritesAreFresh'
      <4> SUFFICES ASSUME NEW s \in Session, session[s] # Closed
                   PROVE  /\ state'[session[s].escrow] = session[s].from
                          /\ <<session[s].from, session[s].to>> \in LegalWrite
        BY <2>2 DEF WritesAreFresh, OpenAndHold
      <4>1. session[s].from \in EscrowState /\ session[s].escrow \in Escrow
        BY DEF TypeOK, Write
      <4>2. session[s].escrow # e
        BY <4>1, <2>2 DEF WritesAreFresh, OpenAndHold, EscrowState
      <4> QED BY <4>1, <4>2, <2>2 DEF WritesAreFresh, OpenAndHold, TypeOK
    <3>3. LedgerMatchesState'
      <4>1. balance[e] = NoPosting
        BY <2>2 DEF OpenAndHold, LedgerMatchesState, BooksIn
      <4>2. Post(NoPosting, PostingOf(e, "INITIATED", "ACCEPTED")) = BooksIn(e, "ACCEPTED")
        BY AmountAssumption
           DEF Post, NoPosting, PostingOf, BooksIn, HoldPosting, Account
      <4> QED BY <4>1, <4>2, <2>2 DEF OpenAndHold, LedgerMatchesState, TypeOK
    <3> QED BY <3>1, <3>2, <3>3
  <2>3. ASSUME NEW e \in Escrow, NEW r \in Reading, RecordReading(e, r)
        PROVE  SerialInv'
    BY <2>3 DEF RecordReading, NeverLeftInitiated, WritesAreFresh, LedgerMatchesState
  <2>4. ASSUME NEW s \in Session, NEW e \in Escrow, NEW to,
               Decide(s, e, to), <<state[e], to>> \in LegalWrite
        PROVE  SerialInv'
    <3>1. NeverLeftInitiated' /\ LedgerMatchesState'
      BY <2>4 DEF Decide, NeverLeftInitiated, LedgerMatchesState
    <3>2. WritesAreFresh'
      <4>1. session'[s] = [escrow |-> e, from |-> state[e], to |-> to]
        BY <2>4 DEF Decide, TypeOK
      <4>2. \A t \in Session : t = s
        BY DEF OneAtATime
      <4> QED BY <2>4, <4>1, <4>2 DEF Decide, WritesAreFresh
    <3> QED BY <3>1, <3>2
  <2>5. ASSUME NEW s \in Session, NEW e \in Escrow, NEW to \in EscrowState,
               LoadTransition(s, e, to)
        PROVE  SerialInv'
    <3>1. state[e] \in EscrowState \ {"INITIATED"}
      BY <2>5 DEF LoadTransition, NeverLeftInitiated, TypeOK
    <3>2. <<state[e], to>> \in LegalWrite
      BY <2>5, <3>1 DEF LoadTransition, OwnerMayRequest, ValidTransitions,
                        EscrowState, LegalWrite
    <3> QED BY <2>4, <2>5, <3>2 DEF LoadTransition
  <2>6. ASSUME NEW s \in Session, NEW e \in Escrow, NEW t \in SyncTargets,
               LoadSync(s, e, t)
        PROVE  SerialInv'
    <3>1. state[e] \in EscrowState \ {"INITIATED"}
      BY <2>6 DEF LoadSync, NeverLeftInitiated, TypeOK
    <3>2. <<state[e], Follow(state[e], t)>> \in LegalWrite
      BY <2>6, <3>1, FollowIsLegal DEF LoadSync, Decide
    <3> QED BY <2>4, <2>6, <3>2 DEF LoadSync
  <2>7. ASSUME NEW s \in Session, NEW e \in Escrow, LoadVerify(s, e)
        PROVE  SerialInv'
    <3>1. state[e] \in EscrowState \ {"INITIATED"}
      BY <2>7 DEF LoadVerify, NeverLeftInitiated, TypeOK
    <3>2. PICK to \in {"RELEASED", "DISPUTED"} :
            Decide(s, e, to) /\ to \in ValidTransitions[state[e]]
      BY <2>7 DEF LoadVerify
    <3>3. <<state[e], to>> \in LegalWrite
      BY <3>1, <3>2 DEF ValidTransitions, EscrowState, LegalWrite
    <3> QED BY <2>4, <3>2, <3>3
  <2>8. ASSUME NEW s \in Session, Commit(s)
        PROVE  SerialInv'
    <3> DEFINE w == session[s]
    <3>1. w \in Write
      BY <2>8 DEF Commit, TypeOK
    <3>2. state[w.escrow] = w.from /\ <<w.from, w.to>> \in LegalWrite
      BY <2>8 DEF Commit, WritesAreFresh
    <3>3. NeverLeftInitiated'
      BY <2>8, <3>1, <3>2 DEF Commit, NeverLeftInitiated, LegalWrite, TypeOK
    <3>4. WritesAreFresh'
      <4>1. session'[s] = Closed
        BY <2>8 DEF Commit, TypeOK
      <4> QED BY <4>1 DEF WritesAreFresh, OneAtATime
    <3>5. LedgerMatchesState'
      <4>1. w.escrow \in Escrow
        BY <3>1 DEF Write
      <4>2. balance'[w.escrow]
              = Post(BooksIn(w.escrow, w.from), PostingOf(w.escrow, w.from, w.to))
        BY <2>8, <3>2, <4>1 DEF Commit, LedgerMatchesState, TypeOK
      <4>3. balance'[w.escrow] = BooksIn(w.escrow, w.to)
        BY <3>2, <4>1, <4>2, LegalWritePosts
      <4>4. state'[w.escrow] = w.to
        BY <2>8, <4>1 DEF Commit, TypeOK
      <4>5. \A f \in Escrow \ {w.escrow} :
              balance'[f] = balance[f] /\ state'[f] = state[f]
        BY <2>8, <4>1 DEF Commit, TypeOK
      <4> HIDE DEF w
      <4> QED BY <4>3, <4>4, <4>5 DEF LedgerMatchesState
    <3> QED BY <3>3, <3>4, <3>5
  <2>9. ASSUME NEW s \in Session, Abandon(s)
        PROVE  SerialInv'
    <3>1. session'[s] = Closed
      BY <2>9 DEF Abandon, TypeOK
    <3> QED BY <2>9, <3>1 DEF Abandon, NeverLeftInitiated, LedgerMatchesState,
               WritesAreFresh, OneAtATime
  <2> QED BY <2>1, <2>2, <2>3, <2>5, <2>6, <2>7, <2>8, <2>9 DEF Next
<1> QED BY <1>1, <1>2, TypeCorrect, PTL DEF Spec

\* Funds are held from acceptance to settlement, paid once or returned once.
THEOREM LedgerIsExact == ASSUME OneAtATime PROVE Spec => []LedgerMatchesState
<1>1. SerialInv => LedgerMatchesState
  BY DEF SerialInv
<1> QED BY <1>1, SerialInvariant, PTL

-----------------------------------------------------------------------------
(* One session: the ledger implements the custody of the owner's money.     *)

\* The books a state calls for are those the custodian knows.
LEMMA BooksAreCustodys ==
  ASSUME NEW e \in Escrow
  PROVE  /\ BooksIn(e, "NONE") = Books!Untouched(e)
         /\ BooksIn(e, "CANCELLED") = Books!Untouched(e)
         /\ \A st \in {"ACCEPTED", "IN_TRANSIT", "PENDING_VERIFICATION", "DISPUTED"} :
              BooksIn(e, st) = Books!InCustody(e)
         /\ BooksIn(e, "RELEASED") = Books!PaidOut(e)
<1> USE AmountAssumption
<1>1. /\ BooksIn(e, "NONE") = Books!Untouched(e)
      /\ BooksIn(e, "CANCELLED") = Books!Untouched(e)
  BY DEF BooksIn, NoPosting, Books!Untouched, Account
<1>2. \A st \in {"ACCEPTED", "IN_TRANSIT", "PENDING_VERIFICATION", "DISPUTED"} :
        BooksIn(e, st) = Books!InCustody(e)
  BY DEF BooksIn, HoldPosting, Books!InCustody
<1>3. BooksIn(e, "RELEASED") = Books!PaidOut(e)
  BY DEF BooksIn, Post, HoldPosting, ReleasePosting, Books!PaidOut, Account
<1> QED BY <1>1, <1>2, <1>3

\* Settled and the books of one escrow move with its row; the others stay.
LEMMA OneRowMoves ==
  ASSUME NEW e \in Escrow, NEW to,
         state \in [Escrow -> EscrowState \cup {"NONE"}],
         balance \in [Escrow -> [Account -> Int]],
         LedgerMatchesState', LedgerMatchesState,
         state' = [state EXCEPT ![e] = to],
         balance' \in [Escrow -> [Account -> Int]]
  PROVE  /\ balance' = [balance EXCEPT ![e] = BooksIn(e, to)]
         /\ to \in Final => Settled' = [Settled EXCEPT ![e] = TRUE]
         /\ to \notin Final /\ state[e] \notin Final => Settled' = Settled
<1>1. \A f \in Escrow : balance'[f] = IF f = e THEN BooksIn(e, to) ELSE balance[f]
  BY DEF LedgerMatchesState
<1>2. balance' = [balance EXCEPT ![e] = BooksIn(e, to)]
  BY <1>1
<1>3. ASSUME to \in Final
      PROVE  Settled' = [Settled EXCEPT ![e] = TRUE]
  <2>1. \A f \in Escrow : (state'[f] \in Final) = IF f = e THEN TRUE ELSE state[f] \in Final
    BY <1>3
  <2> QED BY <2>1, Zenon DEF Settled
<1>4. ASSUME to \notin Final, state[e] \notin Final
      PROVE  Settled' = Settled
  <2>1. \A f \in Escrow : (state'[f] \in Final) = (state[f] \in Final)
    BY <1>4
  <2> QED BY <2>1, Zenon DEF Settled
<1> QED BY <1>2, <1>3, <1>4

\* Custody.tla is implemented: the owner's money is taken at most once,
\* leaves at most once, and a dispute freezes it.
THEOREM CustodyIsKept == ASSUME OneAtATime PROVE Spec => CustodyKept
<1>1. ASSUME Init
      PROVE  Books!Init
  <2>1. \A e \in Escrow : NoPosting = Books!Untouched(e)
    BY DEF NoPosting, Books!Untouched, Account
  <2>2. \A e \in Escrow : (state[e] \in Final) = FALSE
    BY <1>1 DEF Init, Final
  <2>3. Settled = [e \in Escrow |-> FALSE]
    BY <2>2, Zenon DEF Settled
  <2> QED BY <1>1, <2>1, <2>3 DEF Init, Books!Init
<1>2. ASSUME SerialInv, SerialInv', [Next]_vars
      PROVE  [Books!Next]_<<balance, Settled>>
  <2> USE <1>2 DEF SerialInv
  <2>1. CASE UNCHANGED <<state, balance>>
    BY <2>1 DEF Settled
  <2>2. ASSUME NEW e \in Escrow, OpenAndHold(e)
        PROVE  Books!Next
    <3>1. /\ balance' = [balance EXCEPT ![e] = BooksIn(e, "ACCEPTED")]
          /\ Settled' = Settled
      <4> DEFINE to == "ACCEPTED"
      <4>1. to \notin Final /\ state[e] \notin Final
        BY <2>2 DEF OpenAndHold, Final
      <4>2. state' = [state EXCEPT ![e] = to]
        BY <2>2 DEF OpenAndHold
      <4> HIDE DEF to
      <4>3. /\ balance' = [balance EXCEPT ![e] = BooksIn(e, to)]
            /\ Settled' = Settled
        BY <4>1, <4>2, OneRowMoves DEF TypeOK
      <4> QED BY <4>3 DEF to
    <3>2. ~Settled[e]
      BY <2>2 DEF OpenAndHold, Settled, Final
    <3>3. balance[e] = Books!Untouched(e)
      BY <2>2, BooksAreCustodys DEF OpenAndHold, LedgerMatchesState
    <3>4. BooksIn(e, "ACCEPTED") = Books!InCustody(e)
      BY BooksAreCustodys
    <3>5. Books!Hold(e)
      BY <3>1, <3>2, <3>3, <3>4 DEF Books!Hold
    <3> QED BY <3>5 DEF Books!Next
  <2>3. ASSUME NEW s \in Session, Commit(s)
        PROVE  [Books!Next]_<<balance, Settled>>
    <3> DEFINE e  == session[s].escrow
               to == session[s].to
    <3>1. session[s] \in Write /\ e \in Escrow
      BY <2>3 DEF Commit, TypeOK, Write
    <3>2. <<state[e], to>> \in LegalWrite
      BY <2>3 DEF Commit, WritesAreFresh
    <3>3. state' = [state EXCEPT ![e] = to]
      BY <2>3 DEF Commit
    <3> HIDE DEF e, to
    <3>4. /\ balance' = [balance EXCEPT ![e] = BooksIn(e, to)]
          /\ to \in Final => Settled' = [Settled EXCEPT ![e] = TRUE]
          /\ to \notin Final => Settled' = Settled
      BY <3>1, <3>2, <3>3, OneRowMoves DEF TypeOK, LegalWrite, Final
    <3>5. balance[e] = Books!InCustody(e) /\ ~Settled[e]
      BY <3>1, <3>2, BooksAreCustodys DEF LedgerMatchesState, LegalWrite, Settled, Final
    <3>6. CASE to \in {"IN_TRANSIT", "PENDING_VERIFICATION"}
      <4>1. BooksIn(e, to) = balance[e]
        BY <3>1, <3>5, <3>6, BooksAreCustodys
      <4>2. balance' = balance
        BY <3>1, <3>4, <4>1 DEF TypeOK
      <4>3. Settled' = Settled
        BY <3>4, <3>6 DEF Final
      <4> QED BY <4>2, <4>3
    <3>7. CASE to = "RELEASED"
      <4>1. Books!Pay(e)
        BY <3>1, <3>4, <3>5, <3>7, BooksAreCustodys
           DEF Books!Pay, Books!Settle, Final
      <4> QED BY <3>1, <4>1 DEF Books!Next
    <3>8. CASE to = "CANCELLED"
      <4>1. Books!Return(e)
        BY <3>1, <3>4, <3>5, <3>8, BooksAreCustodys
           DEF Books!Return, Books!Settle, Final
      <4> QED BY <3>1, <4>1 DEF Books!Next
    <3>9. CASE to = "DISPUTED"
      <4>1. Books!Freeze(e)
        BY <3>1, <3>4, <3>5, <3>9, BooksAreCustodys
           DEF Books!Freeze, Books!Settle, Final
      <4> QED BY <3>1, <4>1 DEF Books!Next
    <3> QED BY <3>2, <3>6, <3>7, <3>8, <3>9 DEF LegalWrite
  <2> QED
    BY <2>1, <2>2, <2>3 DEF Next, vars, RecordReading, LoadTransition, LoadSync,
       LoadVerify, Decide, Abandon
<1> QED BY <1>1, <1>2, SerialInvariant, PTL DEF Spec, CustodyKept, Books!Spec
====
