\* ZctSize is below the number of objects, so the table can overflow.
CONSTANTS
  l1 = l1  c1 = c1  c2 = c2  t1 = t1  A = A  B = B
  Leaves = {l1}
  Conses = {c1, c2}
  Tables = {t1}
  Width = 2
  Operators = {A, B}
  Holds <- MCHolds
  Down <- MCDown
  Entry <- MCEntry
  Foreign = FALSE
  ZctSize = 3
  Source = Source
  Null = Null
SPECIFICATION Spec
SYMMETRY Symmetry
CHECK_DEADLOCK FALSE
INVARIANTS CountsAreExact NoDangling FreedOnce Collected
