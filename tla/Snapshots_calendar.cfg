SPECIFICATION Spec
CONSTANTS
  e1 = e1  e2 = e2  e3 = e3  e4 = e4  e5 = e5  e6 = e6  e7 = e7
  i1 = i1  i3 = i3  i4 = i4  i5 = i5  i6 = i6  i7 = i7  u1 = u1  u2 = u2  s1 = s1  s2 = s2
  Everybody = Everybody  NoUser = NoUser  NoPrice = NoPrice  NoEvent = NoEvent
  TicksPerDay = 2
  LastYear = 2025
  User = {u1, u2}
  Stock = {s1, s2}
  Event = {e1, e2, e3, e4, e5, e6, e7}
  Id = {i1, i3, i4, i5, i6, i7}
  idOf <- Ids
  data <- Data
  Reading <- Readings
  MaxFaults = 1
INVARIANTS ReadIsExact RepetitionIsHarmless EverybodyWithinUsers
