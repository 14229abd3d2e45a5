SPECIFICATION SyncSpec
CONSTANTS
  aapl = aapl  ibm = ibm  Absent = Absent
  Symbol = {aapl, ibm}
  Seeded = {aapl}
  Price = {1, 2, 3}
  SeedPrice <- Seeds
  MaxStalls = 1
  MaxUpdates = 1
  MaxErrors = 1
  MaxRestarts = 1
  bars <- Bars
  lookbackDays = 2
  quotes = {2}
  FirstDay = 2
  LastDay = 4
  MaxSyncs = 2
INVARIANTS SyncTypeOK LeastIsLowest AppliedIsRecorded AlertsAreTrue FeedIsExact NoDayPassedOver MarketDaysInOrder EndpointsAgree
