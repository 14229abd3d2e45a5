SPECIFICATION Spec
CONSTANTS
  a = a  b = b  add1 = add1  add2 = add2  add3 = add3  drop1 = drop1  drop2 = drop2
  Call = {add1, add2, add3, drop1, drop2}
  Subscribing = {add1, add2, add3}
  Stock = {a, b}
  stockOf <- Stocks
INVARIANTS TypeOK FilterWasDocument LoneRequestHeals
