CONSTANTS
  a = a
  b = b
  c = c
  Node = {a, b, c}
  Programs <- MCPrograms
  HdrLen = 2
  PayLen <- MCPayLen
  MaxMsg = 2
  NULL = NULL
SPECIFICATION Spec
\* All processes may have exited.
CHECK_DEADLOCK FALSE
INVARIANT ClosesAllBeforeExit
