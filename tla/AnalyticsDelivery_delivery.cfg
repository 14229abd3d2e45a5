SPECIFICATION FairSpec
CONSTANTS
  e1 = e1  e2 = e2  e3 = e3  i1 = i1  i2 = i2  user = user  admin = admin
  m1 = m1  m2 = m2  m3 = m3  m4 = m4
  Event = {e1, e2, e3}
  Id = {i1, i2}
  idOf <- Ids
  Doc = {user, admin}
  docsOf <- Docs
  Message = {m1, m2, m3, m4}
  eventOf <- Copies
  BatchSize = 2
  MaxFaults = 2
INVARIANTS TypeOK ProcessedIsCounted DeletedIsProcessed OneCountPerFault
PROPERTY Drained
