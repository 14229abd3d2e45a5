SPECIFICATION FairSpec
CONSTANTS
  o1 = o1  o2 = o2  u1 = u1  s1 = s1  s2 = s2  k1 = k1
  NoKey = NoKey  NoPrice = NoPrice
  Order = {o1, o2}
  User = {u1}
  Symbol = {s1}
  Price = {1, 3}
  userOf <- SameUser
  symbolOf <- SameStock
  target <- Targets
  qty <- Quantities
  key <- SameKeys
  InitPrice <- LowPrice
  InitBalance <- Wallets
  TopUp = {1}
  ExecConcurrency = 5
  MaxStalls = 1
  MaxPrice = 1  MaxDeposit = 1  MaxCrash = 1  MaxError = 0  MaxCollision = 1
  Limit <- MCLimit
INVARIANT OneOrderPerKey
PROPERTIES EvaluationTriggers TriggeredJobRuns
