CONSTANTS
  NoName = NoName
  BASE = BASE
  MaxLets = 5
SPECIFICATION WiringSpec
\* A program ends at its sink.
CHECK_DEADLOCK FALSE
INVARIANTS NoDanglingInput OutgoingAscends
