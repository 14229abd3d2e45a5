SPECIFICATION InlineSpec
CONSTANTS
  o1 = o1  o2 = o2  u1 = u1  s1 = s1  w1 = w1
  NoKey = NoKey  NoPrice = NoPrice
  Order = {o1, o2}
  User = {u1}
  Symbol = {s1}
  Price = {1, 3}
  userOf <- SameUser
  symbolOf <- SameStock
  target <- Targets
  qty <- Quantities
  key <- NoKeys
  InitPrice <- LowPrice
  InitBalance <- Wallets
  TopUp = {1}
  ExecConcurrency = 5
  MaxStalls = 1
  Hook = {w1}
  about <- OneStock
  MaxPrice = 1  MaxDeposit = 1  MaxCrash = 1  MaxError = 1
  Limit <- MCLimit
INVARIANT OneHandlerPerOrder
PROPERTIES KeepsContract TriggeredIsServed
