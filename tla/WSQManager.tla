----------------------------- MODULE WSQManager -----------------------------
(***************************************************************************)
(* The runtime manager of WaveScope Query.  A host program opens           *)
(* transactions and, within them, subgraphs, and adds operators one call   *)
(* at a time; ending a transaction compiles all operators added so far to  *)
(* one executable, kills the process that ran the previous query and       *)
(* starts a new one.                                                       *)
(*                                                                         *)
(* The host's calls come one after the other, in any order.  What runs     *)
(* beside them is the query processes: one may end on its own at any time, *)
(* and one that was sent a signal takes its time to go.  An error raised   *)
(* in the manager leaves a C-callable entry point, which ends the host;    *)
(* the query process outlives it.                                          *)
(*                                                                         *)
(* The back end is C.  An operator is its id, the edges it reads and those *)
(* it writes; a program is a sequence of operators.                        *)
(***************************************************************************)
EXTENDS Naturals, Sequences, FiniteSets, SequencesExt

CONSTANTS Op,       \* the operators the host may add, by id
          Edge, Subgraph,
          Reads,    \* Reads[op], Writes[op]: sets of edges
          Writes,
          UDF,      \* the operators that are user-defined functions, in a file each
          ParseArgs, \* those added as UDF_PARSEARGS
          MaxPid,   \* bound: query processes started
          None

\* The internal operator that keeps output e of a UDF alive, under a fresh id.
Tug(op, e) == <<op, e>>
Id == Op \cup {Tug(op, e) : op \in UDF, e \in Edge}

ASSUME WSQAssumption ==
  /\ Reads \in [Op -> SUBSET Edge] /\ Writes \in [Op -> SUBSET Edge]
  /\ UDF \subseteq Op /\ ParseArgs \subseteq UDF
  /\ \A op \in Op : IsFiniteSet(Writes[op])
  /\ MaxPid \in Nat
  /\ None \notin Subgraph /\ None \notin 1..MaxPid
  /\ \A S \in SUBSET Id : S # None
  /\ Op \cap {Tug(op, e) : op \in UDF, e \in Edge} = {}

Pid == 1..MaxPid

VARIABLES curtransaction,  \* is a transaction open?
          cursubgraph, cur_ops,
          extra_includes,  \* None, or the UDFs whose files the program will include
          op_table, op_log,
          edge_table,      \* the writers counted for each edge
          subgraph_table,  \* the operators of each installed subgraph
          paused, child,
          exe,             \* the program in the executable file
          host,            \* what the host, or its call in progress, is doing
          proc, prog,      \* each query process, and the program it runs
          removed, committed, gccFailed \* history

graphVars == <<op_table, op_log, edge_table, cur_ops>>
txnVars == <<curtransaction, cursubgraph, extra_includes, subgraph_table>>
procVars == <<child, exe, proc, prog>>
histVars == <<removed, committed, gccFailed>>
vars == <<graphVars, txnVars, paused, procVars, host, histVars>>

Init ==
  /\ curtransaction = FALSE /\ extra_includes = None
  /\ cursubgraph = None /\ cur_ops = None
  /\ op_table = {} /\ op_log = <<>>
  /\ edge_table = [e \in Edge |-> 0]
  /\ subgraph_table = [g \in {} |-> {}]
  /\ paused = FALSE /\ child = None /\ exe = <<>> /\ host = "ready"
  /\ proc = [p \in Pid |-> "unused"] /\ prog = [p \in Pid |-> <<>>]
  /\ removed = {} /\ committed = <<>> /\ gccFailed = FALSE

\* An error in the manager: the host's program ends, nothing else changes.
Refuse ==
  /\ host' = "failed"
  /\ UNCHANGED <<graphVars, txnVars, paused, procVars, histVars>>

-----------------------------------------------------------------------------
(* Transactions and subgraphs.                                             *)

BeginTransaction ==
  /\ host = "ready"
  /\ ~curtransaction
  /\ curtransaction' = TRUE /\ extra_includes' = {}
  /\ UNCHANGED <<graphVars, cursubgraph, subgraph_table, paused, procVars, host, histVars>>

NestedTransaction == host = "ready" /\ curtransaction /\ Refuse

\* Mutant: a subgraph may be begun again although it is installed.
MayBegin_Twice(g) == cursubgraph = None /\ cur_ops = None

MayBegin(g) ==
  /\ cursubgraph = None /\ cur_ops = None
  /\ g \notin DOMAIN subgraph_table

BeginSubgraph(g) ==
  /\ host = "ready"
  /\ MayBegin(g)
  /\ cursubgraph' = g /\ cur_ops' = {}
  /\ UNCHANGED <<op_table, op_log, edge_table, curtransaction, extra_includes,
                 subgraph_table, paused, procVars, host, histVars>>

BeginSubgraphRefused(g) == host = "ready" /\ ~MayBegin(g) /\ Refuse

OpsAfterEnd == None

EndSubgraph ==
  /\ host = "ready"
  /\ cursubgraph # None
  /\ subgraph_table' = [g \in DOMAIN subgraph_table \cup {cursubgraph} |->
                          IF g = cursubgraph THEN cur_ops ELSE subgraph_table[g]]
  /\ cursubgraph' = None /\ cur_ops' = OpsAfterEnd
  /\ UNCHANGED <<op_table, op_log, edge_table, curtransaction, extra_includes,
                 paused, procVars, host, histVars>>

EndSubgraphRefused == host = "ready" /\ cursubgraph = None /\ Refuse

\* Only the table of subgraphs forgets it; op_log and op_table are not touched.
RemSubgraph(g) ==
  /\ host = "ready"
  /\ g \in DOMAIN subgraph_table
  /\ subgraph_table' = [h \in DOMAIN subgraph_table \ {g} |-> subgraph_table[h]]
  /\ removed' = removed \cup subgraph_table[g]
  /\ UNCHANGED <<graphVars, curtransaction, cursubgraph, extra_includes, paused,
                 procVars, host, committed, gccFailed>>

RemSubgraphRefused(g) == host = "ready" /\ g \notin DOMAIN subgraph_table /\ Refuse

-----------------------------------------------------------------------------
(* Operators.                                                              *)

\* The ids that adding op enters: a UDF brings a tug for each of its outputs.
Added(op) ==
  <<op>> \o (IF op \in UDF THEN SetToSeq({Tug(op, e) : e \in Writes[op]}) ELSE <<>>)

\* Mutant: reading an edge resets its count of writers.
EdgesAfter_ReadResets(op) ==
  [e \in Edge |-> IF e \in Writes[op] THEN 1
                  ELSE IF e \in Reads[op] THEN 0 ELSE edge_table[e]]

\* add-in-edge! leaves the count alone, add-out-edge! sets it to 1.
EdgesAfter(op) == [e \in Edge |-> IF e \in Writes[op] THEN 1 ELSE edge_table[e]]

Entered(op) ==
  /\ op_table' = op_table \cup ToSet(Added(op))
  /\ cur_ops' = cur_ops \cup ToSet(Added(op))
  /\ op_log' = op_log \o Added(op)

\* make-args-file puts the arguments of a UDF_PARSEARGS into extra_includes before
\* WSQ_UDF looks whether it is a list, so that only a plain UDF is refused.
HasIncludes(op) == op \in UDF \ ParseArgs => extra_includes # None

\* WSQ_UDF includes the function's file before add-op! may fail.
Included(op) ==
  extra_includes' =
    IF op \in UDF /\ HasIncludes(op)
      THEN {op} \cup (IF extra_includes = None THEN {} ELSE extra_includes)
      ELSE extra_includes

CanEnter(op) == op \notin op_table /\ HasIncludes(op)

AddOp(op) ==
  /\ host = "ready"
  /\ CanEnter(op) /\ cur_ops # None
  /\ \A e \in Writes[op] : edge_table[e] = 0
  /\ Included(op) /\ Entered(op)
  /\ edge_table' = EdgesAfter(op)
  /\ UNCHANGED <<curtransaction, cursubgraph, subgraph_table, paused, procVars, host,
                 histVars>>

\* An id that exists, or a UDF outside a transaction: no operator is recorded.
AddOpRefused(op) ==
  /\ host = "ready"
  /\ ~CanEnter(op)
  /\ Included(op)
  /\ host' = "failed"
  /\ UNCHANGED <<graphVars, curtransaction, cursubgraph, subgraph_table, paused,
                 procVars, histVars>>

\* add-op! writes op_table before it finds that no subgraph is open.
AddOpOutside(op) ==
  /\ host = "ready"
  /\ CanEnter(op) /\ cur_ops = None
  /\ Included(op) /\ op_table' = op_table \cup {op}
  /\ host' = "failed"
  /\ UNCHANGED <<op_log, edge_table, cur_ops, curtransaction, cursubgraph,
                 subgraph_table, paused, procVars, histVars>>

\* The second writer of an edge is noticed when the operator is already recorded
\* (other edges the operator writes may be counted by then; the host ends anyway).
AddOpSecondWriter(op) ==
  /\ host = "ready"
  /\ CanEnter(op) /\ cur_ops # None
  /\ \E e \in Writes[op] : edge_table[e] # 0
  /\ Included(op) /\ Entered(op)
  /\ host' = "failed"
  /\ UNCHANGED <<edge_table, curtransaction, cursubgraph, subgraph_table, paused,
                 procVars, histVars>>

-----------------------------------------------------------------------------
(* Ending a transaction, and the query processes.                          *)

IdReads(id) == IF id \in Op THEN Reads[id] ELSE {id[2]}
IdWrites(id) == IF id \in Op THEN Writes[id] ELSE {}

\* Mutant: the operators of a subgraph that is still open are left out.
Binds_Ended ==
  IF cur_ops = None THEN op_log ELSE SelectSeq(op_log, LAMBDA id : id \notin cur_ops)

\* (reverse op_log), which the code keeps latest first.
Binds == op_log

\* Each definition sees those before it, so an edge must be written before it is read;
\* and a function must be in an included file, which BeginTransaction forgets.
Compiles(p) ==
  /\ \A i \in DOMAIN p : \A e \in IdReads(p[i]) : \E j \in 1..(i - 1) : e \in IdWrites(p[j])
  /\ UDF \cap ToSet(p) \subseteq extra_includes

EndTransactionRefused ==
  /\ host = "ready"
  /\ curtransaction => ~Compiles(Binds)
  /\ Refuse

\* wscomp and then wsc2-gcc, whose exit status is ignored: when gcc fails, the
\* executable of an earlier transaction stays.
Compile ==
  /\ host = "ready"
  /\ curtransaction /\ Compiles(Binds)
  /\ \E p \in Pid : proc[p] = "unused"
  /\ \E ok \in BOOLEAN :
       /\ exe' = IF ok THEN Binds ELSE exe
       /\ gccFailed' = ~ok
  /\ host' = IF paused THEN "finish" ELSE "kill"
  /\ committed' = IF paused THEN committed ELSE op_log
  /\ UNCHANGED <<graphVars, txnVars, paused, child, proc, prog, removed>>

Told(p) == [proc EXCEPT ![p] = IF @ = "running" THEN "told" ELSE @]

\* Mutant: the old query is left running.
KillOld_Forgotten == proc

KillOld == IF child = None THEN proc ELSE Told(child)

Kill ==
  /\ host = "kill"
  /\ proc' = KillOld
  /\ host' = "start"
  /\ UNCHANGED <<graphVars, txnVars, paused, child, exe, prog, histVars>>

\* exec ./query.exe; with no such file the process ends at once.
Start ==
  /\ host = "start"
  /\ \E p \in Pid :
       /\ \A q \in Pid : proc[q] = "unused" <=> q >= p
       /\ proc' = [proc EXCEPT ![p] = "running"]
       /\ prog' = [prog EXCEPT ![p] = exe]
       /\ child' = p
  /\ host' = "finish"
  /\ UNCHANGED <<graphVars, txnVars, paused, exe, histVars>>

\* The transaction is closed and current-child-process returned.
EndTransaction ==
  /\ host = "finish"
  /\ curtransaction' = FALSE /\ extra_includes' = None
  /\ host' = "ready"
  /\ UNCHANGED <<graphVars, cursubgraph, subgraph_table, paused, procVars, histVars>>

\* A query reaches its tuple limit, or the end of its input, or fails.
QueryEnds(p) ==
  /\ proc[p] = "running"
  /\ proc' = [proc EXCEPT ![p] = "ended"]
  /\ UNCHANGED <<graphVars, txnVars, paused, child, exe, prog, host, histVars>>

\* The signal sent by kill takes effect.
QueryKilled(p) ==
  /\ proc[p] = "told"
  /\ proc' = [proc EXCEPT ![p] = "ended"]
  /\ UNCHANGED <<graphVars, txnVars, paused, child, exe, prog, host, histVars>>

Pause ==
  /\ host = "ready"
  /\ paused' = TRUE
  /\ UNCHANGED <<graphVars, txnVars, procVars, host, histVars>>

Unpause == host = "ready" /\ Refuse

\* WSQ_Shutdown kills the query and takes Scheme down; a transaction may be open.
Shutdown ==
  /\ host = "ready"
  /\ proc' = KillOld
  /\ host' = "down"
  /\ UNCHANGED <<graphVars, txnVars, paused, child, exe, prog, histVars>>

-----------------------------------------------------------------------------
HostCall ==
  \/ BeginTransaction \/ NestedTransaction
  \/ \E g \in Subgraph : \/ BeginSubgraph(g) \/ BeginSubgraphRefused(g)
                         \/ RemSubgraph(g) \/ RemSubgraphRefused(g)
  \/ EndSubgraph \/ EndSubgraphRefused
  \/ \E op \in Op : \/ AddOp(op) \/ AddOpRefused(op)
                    \/ AddOpOutside(op) \/ AddOpSecondWriter(op)
  \/ Compile \/ EndTransactionRefused
  \/ Pause \/ Unpause \/ Shutdown

InCall == Kill \/ Start \/ EndTransaction

Next == HostCall \/ InCall \/ \E p \in Pid : QueryEnds(p) \/ QueryKilled(p)

\* A signal that was sent is delivered, and a call that was made goes on; the host
\* need not make another.
Spec ==
  /\ Init /\ [][Next]_vars
  /\ WF_vars(InCall) /\ \A p \in Pid : WF_vars(QueryKilled(p))

-----------------------------------------------------------------------------
\* Every variable holds a value of its type; an open subgraph has a list of operators,
\* and what is in the table was entered by add-op!.
TypeOK ==
  /\ curtransaction \in BOOLEAN
  /\ curtransaction => extra_includes # None
  /\ extra_includes # None => extra_includes \subseteq UDF
  /\ cursubgraph \in Subgraph \cup {None}
  /\ IF cursubgraph = None THEN cur_ops = None ELSE cur_ops \subseteq op_table
  /\ op_table \subseteq Id /\ op_log \in Seq(op_table)
  /\ edge_table \in [Edge -> 0..1]
  /\ DOMAIN subgraph_table \subseteq Subgraph
  /\ paused \in BOOLEAN /\ child \in Pid \cup {None}
  /\ host \in {"ready", "kill", "start", "finish", "failed", "down"}
  /\ proc \in [Pid -> {"unused", "running", "told", "ended"}]

OpenOps == IF cur_ops = None THEN {} ELSE cur_ops
InstalledOps == UNION {subgraph_table[g] : g \in DOMAIN subgraph_table}

\* op_log, subgraph_table and cur_ops are kept separately by different calls: still
\* every operator that will be compiled belongs to the open subgraph, to an installed
\* one or to one that was removed, and no operator was added twice.
OpsAccountedFor ==
  /\ ToSet(op_log) = OpenOps \cup InstalledOps \cup removed
  /\ IsInjective(op_log)
  /\ OpenOps \cap InstalledOps = {}

\* "More than one output to a given edge id not currently allowed": the program that is
\* compiled never has two operators writing one edge, however reads and writes of the
\* edge were interleaved over several subgraphs and transactions.
OneWriterPerEdge ==
  host # "failed" =>
    \A i, j \in DOMAIN op_log :
      IdWrites(op_log[i]) \cap IdWrites(op_log[j]) # {} => i = j

\* A query process that nobody has told to stop is the current child: over any number of
\* transactions, early deaths and errors the manager loses track of none.
NoStrayQuery == \A p \in Pid : proc[p] = "running" => p = child

\* After a transaction that gcc compiled and that was not paused, the child runs exactly
\* the operators added so far, also those of a subgraph that is still open.
ChildRunsCommitted ==
  (host = "finish" /\ ~paused /\ ~gccFailed) => prog[child] = committed

\* After WSQ_Shutdown no query keeps running, even if a replaced one was still dying.
ShutdownStopsQueries ==
  (host = "down") ~> (\A p \in Pid : proc[p] \in {"unused", "ended"})

=============================================================================
