\* Three cells: one popped, one queued, one being filled, then reuse.
CONSTANTS
  Producer = {p1, p2}
  Reader = reader
  Monitor = monitor
  Cell = {c1, c2, c3}
  NULL = NULL
  MaxPuts = 2
  MaxScans = 1
SPECIFICATION Spec
INVARIANTS FifoOrder NoUseAfterFree HeapIsOwned SizeIsExact NoLostWakeup
PROPERTY ImplementsWSFifo
