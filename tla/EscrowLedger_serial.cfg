SPECIFICATION Spec
CONSTANTS
  e1 = e1
  e2 = e2
  Escrow = {e1, e2}
  Session = {s1}
  Amount <- MCAmount
  Payout <- MCPayout
  Limited <- MCLimited
INVARIANTS
  LedgerMatchesState
PROPERTIES
  CustodyKept
