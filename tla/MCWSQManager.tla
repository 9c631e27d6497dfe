--------------------------- MODULE MCWSQManager -----------------------------
(***************************************************************************)
(* A source, two user-defined functions that read it and write the same    *)
(* edge (one added as UDF, one as UDF_PARSEARGS), and a printer of that    *)
(* edge.                                                                   *)
(***************************************************************************)
EXTENDS WSQManager

CONSTANTS source, udf, udfargs, printer, e1, e2

MCOp == {source, udf, udfargs, printer}
MCReads ==
  [op \in MCOp |-> CASE op = source -> {} [] op = printer -> {e2} [] OTHER -> {e1}]
MCWrites ==
  [op \in MCOp |-> CASE op = source -> {e1} [] op = printer -> {} [] OTHER -> {e2}]
=============================================================================
