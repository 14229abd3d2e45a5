SPECIFICATION Spec
CONSTANTS
  o1 = o1  o2 = o2  u1 = u1  s1 = s1  s2 = s2  k1 = k1
  NoKey = NoKey  NoPrice = NoPrice
  Order = {o1, o2}
  User = {u1}
  Symbol = {s1}
  Price = {1, 2, 3}
  userOf <- SameUser
  symbolOf <- SameStock
  target <- Targets
  qty <- Quantities
  key <- NoKeys
  InitPrice <- MidPrice
  InitBalance <- Wallets
  TopUp = {1}
  ExecConcurrency = 5
  MaxStalls = 1
  MaxPrice = 1  MaxDeposit = 0  MaxCrash = 1  MaxError = 1  MaxCollision = 0
  Limit <- MCLimit
INVARIANTS TypeOK PositionWithinTrades BooksAgree
PROPERTIES TerminalIsFinal ClaimIsExclusive KeepsContract
