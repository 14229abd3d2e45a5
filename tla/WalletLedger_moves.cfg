SPECIFICATION Spec
CONSTANTS
  d1 = d1  d2 = d2  b1 = b1  b2 = b2  b3 = b3
  Call = {d1, d2, b1, b2, b3}
  Deposits = {d1, d2}
  amount <- Amounts
  InitBalance = 2
INVARIANTS TypeOK RowsTellTheMove LedgerExplainsBalance
