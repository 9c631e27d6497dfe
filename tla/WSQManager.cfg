CONSTANTS
  source = source
  udf = udf
  udfargs = udfargs
  printer = printer
  e1 = e1
  e2 = e2
  None = None
  Op <- MCOp
  Edge = {e1, e2}
  Subgraph = {g1, g2}
  Reads <- MCReads
  Writes <- MCWrites
  UDF = {udf, udfargs}
  ParseArgs = {udfargs}
  MaxPid = 2
SPECIFICATION Spec
\* The host ends, or has started MaxPid queries.
CHECK_DEADLOCK FALSE
INVARIANTS  OneWriterPerEdge NoStrayQuery ChildRunsCommitted
PROPERTY ShutdownStopsQueries
