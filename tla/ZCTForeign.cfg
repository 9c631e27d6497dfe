\* A foreign source with two downstream operators.
CONSTANTS
  l1 = l1  c1 = c1  c2 = c2  t1 = t1  A = A  B = B
  Leaves = {l1}
  Conses = {c1}
  Tables = {}
  Width = 1
  Operators = {A, B}
  Holds <- FanHolds
  Down <- FanDown
  Entry <- FanEntry
  Foreign = TRUE
  ZctSize = 3
  Source = Source
  Null = Null
SPECIFICATION Spec
CHECK_DEADLOCK FALSE
INVARIANTS SafeToBlast
