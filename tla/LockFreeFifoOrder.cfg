\* Three cells for four elements: one is taken, two are queued, all are reused.
CONSTANTS
  p1 = p1  p2 = p2  c1 = c1  c2 = c2  c3 = c3
  Producer = {p1, p2}
  Reader = reader
  Cell = {c1, c2, c3}
  NULL = NULL
  Dummy = Dummy
  End = End
  MaxPuts = 2
SPECIFICATION Spec
SYMMETRY Symmetry
\* The program ends when the reader is given a null cell.
CHECK_DEADLOCK FALSE
INVARIANT ProducersFifo
