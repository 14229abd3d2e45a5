SPECIFICATION Spec
CONSTANTS
  Email = {ann, bob, cid}
  Call = {c1, c2}
  None = None
  MaxFaults = 1
SYMMETRY Symmetry
INVARIANTS RecordsAreBacked NobodyIsHalfRegistered
