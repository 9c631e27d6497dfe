CONSTANTS
  c1 = c1
  c2 = c2
  Conn = {c1, c2}
  Plans <- MCPlans
  BufferSize = 2
  Passes <- MCPasses
  RecLen = 3
  MaxRecv = 4
  WireCap = 1
  NULL = NULL
SPECIFICATION Spec
\* The file may be at its end.
CHECK_DEADLOCK FALSE
INVARIANTS EventInHand EventsInOrder SubscribersGetRun 
PROPERTY Quiescent
