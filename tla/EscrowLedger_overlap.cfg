SPECIFICATION Spec
CONSTANTS
  e1 = e1
  e2 = e2
  Escrow = {e1, e2}
  Session = {s1, s2}
  Amount <- MCAmount
  Payout <- MCPayout
  Limited <- MCLimited
INVARIANTS
  TrialBalance
  ReleasedOnEvidence
