CONSTANTS
  a = a
  b = b
  c = c
  Node = {a, b, c}
  Programs <- MCPrograms
  HdrLen = 2
  PayLen <- MCPayLen
  MaxMsg = 3
  NULL = NULL
SPECIFICATION Spec
\* All processes may have exited.
CHECK_DEADLOCK FALSE
INVARIANTS BytesAccounted NoHoles ReadsNeverBlock
PROPERTIES ShotIsEmitted EosEndsReader
