CONSTANTS
  NoName = NoName
  src = src
  filter = filter
  branch = branch
  BASE = BASE
  None = None
  Source = {src}
  Op <- MCOp
  Out <- MCOut
  Rank <- MCRank
  Builds <- MCBuilds
  MaxFires = 2
  MaxEmits = 1
SPECIFICATION Spec
\* The program ends when every source has stopped and every worker waits.
CHECK_DEADLOCK FALSE
INVARIANTS NoCircularWait NothingPendingForReader Delivered
PROPERTIES DrainedOnRelease RunsEnd
