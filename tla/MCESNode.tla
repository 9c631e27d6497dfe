------------------------------ MODULE MCESNode ------------------------------
(***************************************************************************)
(* The nodes of app/verify: Node1 (a file, its buffer made and registered  *)
(* before the start), Node (a file and a filter) and Node2 (a client of    *)
(* another node).                                                          *)
(***************************************************************************)
EXTENDS ESNode

CONSTANTS c1, c2

Plan(root, filtered, preset, conns, events) ==
  [root |-> root, filtered |-> filtered, preset |-> preset, conns |-> conns,
   events |-> events]

MCPlans ==
  {Plan("file", FALSE, TRUE, {c1, c2}, 2), Plan("file", FALSE, TRUE, {c1}, 4),
   Plan("file", TRUE, FALSE, {c1}, 4),
   Plan("client", FALSE, FALSE, {c1}, 2), Plan("client", FALSE, FALSE, {}, 3)}

MCPasses == {1, 3, 4}
=============================================================================
