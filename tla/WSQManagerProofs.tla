-------------------------- MODULE WSQManagerProofs ---------------------------
(***************************************************************************)
(* The runtime manager keeps its tables and its query process in step, for *)
(* any operators and subgraphs, however the host's calls come.             *)
(***************************************************************************)
EXTENDS WSQManager, FiniteSetTheorems, SequenceTheorems, TLAPS

Tugs(op) == {Tug(op, e) : e \in Writes[op]}
AddedIds(op) == {op} \cup (IF op \in UDF THEN Tugs(op) ELSE {})

-----------------------------------------------------------------------------
(* The sequence of ids that an operator adds.                              *)

\* A finite set can be put into a sequence that has each element once.
LEMMA SetToSeqOf ==
  ASSUME NEW S, IsFiniteSet(S)
  PROVE  /\ SetToSeq(S) \in Seq(S)
         /\ ToSet(SetToSeq(S)) = S
         /\ IsInjective(SetToSeq(S))
<1> DEFINE n == Cardinality(S)
<1>1. n \in Nat /\ ExistsBijection(1..n, S)
  BY FS_CardinalityType
<1>2. PICK f \in [1..n -> S] : IsInjective(f)
  BY <1>1 DEF ExistsBijection, Bijection, Injection
<1>3. SetToSeq(S) \in [1..n -> S] /\ IsInjective(SetToSeq(S))
  BY <1>2 DEF SetToSeq
<1> DEFINE g == SetToSeq(S)
<1>4. g \in Seq(S)
  BY <1>1, <1>3
<1>5. g \in Surjection(1..n, S)
  <2>1. IsFiniteSet(1..n) /\ Cardinality(1..n) = n
    BY <1>1, FS_Interval
  <2>2. g \in Injection(1..n, S)
    BY <1>3 DEF Injection
  <2> QED BY <2>1, <2>2, FS_Injection
<1>6. ToSet(g) = S
  BY <1>3, <1>5 DEF Surjection, ToSet
<1> QED BY <1>3, <1>4, <1>6

\* What is in a concatenation, and when it repeats nothing.
LEMMA ConcatSets ==
  ASSUME NEW S, NEW s \in Seq(S), NEW t \in Seq(S)
  PROVE  /\ s \o t \in Seq(S)
         /\ ToSet(s \o t) = ToSet(s) \cup ToSet(t)
         /\ IsInjective(s) /\ IsInjective(t) /\ ToSet(s) \cap ToSet(t) = {}
              => IsInjective(s \o t)
<1>1. /\ s \o t \in Seq(S) /\ Len(s \o t) = Len(s) + Len(t)
      /\ \A i \in 1..(Len(s) + Len(t)) :
           (s \o t)[i] = IF i <= Len(s) THEN s[i] ELSE t[i - Len(s)]
  BY ConcatProperties
<1>2. /\ Len(s) \in Nat /\ Len(t) \in Nat /\ DOMAIN s = 1..Len(s) /\ DOMAIN t = 1..Len(t)
      /\ DOMAIN (s \o t) = 1..(Len(s) + Len(t))
  BY <1>1, LenProperties
<1>3. ToSet(s \o t) \subseteq ToSet(s) \cup ToSet(t)
  <2> SUFFICES ASSUME NEW i \in 1..(Len(s) + Len(t))
               PROVE  (s \o t)[i] \in ToSet(s) \cup ToSet(t)
    BY <1>2 DEF ToSet
  <2>1. CASE i <= Len(s)
    BY <1>1, <1>2, <2>1 DEF ToSet
  <2>2. CASE i > Len(s)
    <3>1. i - Len(s) \in DOMAIN t /\ (s \o t)[i] = t[i - Len(s)]
      BY <1>1, <1>2, <2>2
    <3> QED BY <3>1 DEF ToSet
  <2> QED BY <1>2, <2>1, <2>2
<1>4. ASSUME NEW i \in DOMAIN s PROVE s[i] \in ToSet(s \o t)
  <2>1. i \in DOMAIN (s \o t) /\ (s \o t)[i] = s[i]
    BY <1>1, <1>2
  <2> QED BY <2>1 DEF ToSet
<1>5. ASSUME NEW i \in DOMAIN t PROVE t[i] \in ToSet(s \o t)
  <2>1. i + Len(s) \in DOMAIN (s \o t) /\ (s \o t)[i + Len(s)] = t[i]
    <3>1. i + Len(s) \in 1..(Len(s) + Len(t)) /\ ~(i + Len(s) <= Len(s))
          /\ (i + Len(s)) - Len(s) = i
      BY <1>2
    <3> QED BY <1>1, <1>2, <3>1
  <2> QED BY <2>1 DEF ToSet
<1>6. ToSet(s \o t) = ToSet(s) \cup ToSet(t)
  BY <1>3, <1>4, <1>5 DEF ToSet
<1>7. ASSUME IsInjective(s), IsInjective(t), ToSet(s) \cap ToSet(t) = {}
      PROVE  IsInjective(s \o t)
  <2> SUFFICES ASSUME NEW a \in 1..(Len(s) + Len(t)), NEW b \in 1..(Len(s) + Len(t)),
                      (s \o t)[a] = (s \o t)[b]
               PROVE  a = b
    BY <1>2 DEF IsInjective
  <2>1. ASSUME NEW c \in 1..(Len(s) + Len(t)), c > Len(s)
        PROVE  c - Len(s) \in DOMAIN t /\ (s \o t)[c] = t[c - Len(s)] /\ (s \o t)[c] \in ToSet(t)
    <3>1. c - Len(s) \in DOMAIN t /\ (s \o t)[c] = t[c - Len(s)]
      BY <1>1, <1>2, <2>1
    <3> QED BY <3>1 DEF ToSet
  <2>2. ASSUME NEW c \in 1..(Len(s) + Len(t)), c <= Len(s)
        PROVE  c \in DOMAIN s /\ (s \o t)[c] = s[c] /\ (s \o t)[c] \in ToSet(s)
    <3>1. c \in DOMAIN s /\ (s \o t)[c] = s[c]
      BY <1>1, <1>2, <2>2
    <3> QED BY <3>1 DEF ToSet
  <2>3. CASE a <= Len(s) /\ b <= Len(s)
    <3>1. s[a] = s[b] /\ a \in DOMAIN s /\ b \in DOMAIN s
      BY <2>2, <2>3
    <3> QED BY <1>7, <3>1 DEF IsInjective
  <2>4. CASE a > Len(s) /\ b > Len(s)
    <3>1. t[a - Len(s)] = t[b - Len(s)] /\ a - Len(s) \in DOMAIN t /\ b - Len(s) \in DOMAIN t
      BY <2>1, <2>4
    <3>2. a - Len(s) = b - Len(s)
      BY <1>7, <3>1 DEF IsInjective
    <3> QED BY <1>2, <3>2
  <2>5. CASE a <= Len(s) /\ b > Len(s)
    BY <1>7, <2>1, <2>2, <2>5
  <2>6. CASE a > Len(s) /\ b <= Len(s)
    BY <1>7, <2>1, <2>2, <2>6
  <2> QED BY <1>2, <2>3, <2>4, <2>5, <2>6
<1> QED BY <1>1, <1>6, <1>7

\* The ids that an operator adds: itself and its tugs, each once.
LEMMA AddedOf ==
  ASSUME NEW op \in Op
  PROVE  /\ Added(op) \in Seq(Id)
         /\ ToSet(Added(op)) = AddedIds(op)
         /\ IsInjective(Added(op))
<1> DEFINE ts == IF op \in UDF THEN SetToSeq(Tugs(op)) ELSE <<>>
           T == IF op \in UDF THEN Tugs(op) ELSE {}
<1>1. Added(op) = <<op>> \o ts
  BY DEF Added, Tugs
<1>2. IsFiniteSet(Tugs(op))
  <2>1. IsFiniteSet(Writes[op])
    BY WSQAssumption
  <2>2. [e \in Writes[op] |-> Tug(op, e)] \in Surjection(Writes[op], Tugs(op))
    BY DEF Surjection, Tugs
  <2> QED BY <2>1, <2>2, FS_Surjection
<1>3. Tugs(op) \subseteq {Tug(o, e) : o \in {op}, e \in Edge}
  BY WSQAssumption DEF Tugs
<1>4. T \subseteq Id /\ op \in Id /\ op \notin T
  BY <1>3, WSQAssumption DEF Id
<1>5. ts \in Seq(T) /\ ToSet(ts) = T /\ IsInjective(ts)
  <2>1. CASE op \in UDF
    BY <1>2, <2>1, SetToSeqOf
  <2>2. CASE op \notin UDF
    BY <2>2 DEF ToSet, IsInjective
  <2> QED BY <2>1, <2>2
<1>6. ts \in Seq(Id)
  BY <1>4, <1>5, SeqMonotonic
<1>7. <<op>> \in Seq(Id) /\ ToSet(<<op>>) = {op} /\ IsInjective(<<op>>)
  BY <1>4 DEF ToSet, IsInjective
<1>8. Added(op) \in Seq(Id) /\ ToSet(Added(op)) = {op} \cup T /\ IsInjective(Added(op))
  <2>1. ToSet(<<op>>) \cap ToSet(ts) = {}
    BY <1>4, <1>5, <1>7
  <2> HIDE DEF ts, T
  <2> DEFINE u == <<op>>
  <2>2. u \in Seq(Id) /\ ToSet(u) = {op} /\ IsInjective(u) /\ ToSet(u) \cap ToSet(ts) = {}
        /\ Added(op) = u \o ts
    BY <1>1, <1>7, <2>1
  <2> HIDE DEF u
  <2>3. u \o ts \in Seq(Id) /\ ToSet(u \o ts) = ToSet(u) \cup ToSet(ts) /\ IsInjective(u \o ts)
    BY <1>5, <1>6, <2>2, ConcatSets
  <2> QED BY <1>5, <2>2, <2>3
<1> QED BY <1>8 DEF AddedIds

-----------------------------------------------------------------------------
(* Types.                                                                  *)

\* A sequence is one over any set that holds all its elements.
LEMMA OverSet ==
  ASSUME NEW S, NEW T, NEW s \in Seq(S), ToSet(s) \subseteq T
  PROVE  s \in Seq(T)
<1>1. Len(s) \in Nat /\ DOMAIN s = 1..Len(s) /\ s = [i \in 1..Len(s) |-> s[i]]
  BY LenProperties
<1>2. \A i \in 1..Len(s) : s[i] \in T
  BY <1>1 DEF ToSet
<1> QED BY <1>1, <1>2

\* add-op!: the table, the log and the open subgraph get the same new ids.
LEMMA EnteredTypes ==
  ASSUME NEW op \in Op, TypeOK, Entered(op), cur_ops # None, UNCHANGED cursubgraph
  PROVE  /\ op_table' = op_table \cup AddedIds(op) /\ op_table' \subseteq Id
         /\ op_log' \in Seq(op_table') /\ ToSet(op_log') = ToSet(op_log) \cup AddedIds(op)
         /\ cursubgraph # None /\ cur_ops' = cur_ops \cup AddedIds(op)
         /\ cur_ops \subseteq op_table /\ cur_ops' \subseteq op_table'
<1>1. /\ Added(op) \in Seq(Id) /\ ToSet(Added(op)) = AddedIds(op)
      /\ op_table' = op_table \cup AddedIds(op) /\ cur_ops' = cur_ops \cup AddedIds(op)
      /\ op_log' = op_log \o Added(op)
  BY AddedOf DEF Entered
<1>2. op_table \subseteq Id /\ op_log \in Seq(op_table)
      /\ cursubgraph # None /\ cur_ops \subseteq op_table
  BY DEF TypeOK
<1>3. op_log \in Seq(op_table') /\ Added(op) \in Seq(op_table')
  BY <1>1, <1>2, SeqMonotonic, OverSet
<1>4. op_log' \in Seq(op_table') /\ ToSet(op_log') = ToSet(op_log) \cup AddedIds(op)
  BY <1>1, <1>3, ConcatSets
<1>5. AddedIds(op) \subseteq Id
  <2>1. ASSUME NEW i \in DOMAIN Added(op) PROVE Added(op)[i] \in Id
    BY <1>1, LenProperties
  <2> QED BY <1>1, <2>1 DEF ToSet
<1> QED BY <1>1, <1>2, <1>4, <1>5

\* The host's calls that open and close things keep the types.
LEMMA TxnTypes ==
  ASSUME TypeOK,
         \/ BeginTransaction \/ EndSubgraph \/ EndTransaction \/ Refuse \/ Pause
         \/ \E g \in Subgraph : BeginSubgraph(g) \/ RemSubgraph(g)
  PROVE  TypeOK'
<1>1. CASE BeginTransaction
  <2>1. extra_includes' = {} /\ {} # None
    BY <1>1, WSQAssumption DEF BeginTransaction
  <2> QED BY <1>1, <2>1 DEF TypeOK, BeginTransaction, graphVars, procVars, histVars
<1>2. CASE EndSubgraph
  <2>1. DOMAIN subgraph_table' \subseteq Subgraph
    BY <1>2 DEF TypeOK, EndSubgraph
  <2> QED BY <1>2, <2>1 DEF TypeOK, EndSubgraph, OpsAfterEnd, procVars, histVars
<1>3. CASE EndTransaction
  BY <1>3 DEF TypeOK, EndTransaction, graphVars, procVars, histVars
<1>4. CASE Refuse
  BY <1>4 DEF TypeOK, Refuse, graphVars, txnVars, procVars, histVars
<1>5. CASE Pause
  BY <1>5 DEF TypeOK, Pause, graphVars, txnVars, procVars, histVars
<1>6. ASSUME NEW g \in Subgraph, BeginSubgraph(g) PROVE TypeOK'
  BY <1>6, WSQAssumption DEF TypeOK, BeginSubgraph, procVars, histVars
<1>7. ASSUME NEW g \in Subgraph, RemSubgraph(g) PROVE TypeOK'
  <2>1. DOMAIN subgraph_table' \subseteq Subgraph
    BY <1>7 DEF TypeOK, RemSubgraph
  <2> QED BY <1>7, <2>1 DEF TypeOK, RemSubgraph, graphVars, procVars
<1> QED BY <1>1, <1>2, <1>3, <1>4, <1>5, <1>6, <1>7

\* Including a function's file keeps the set of files one of functions.
LEMMA IncludedTypes ==
  ASSUME TypeOK, NEW op \in Op, Included(op)
  PROVE  /\ curtransaction => extra_includes' # None
         /\ extra_includes' # None => extra_includes' \subseteq UDF
<1>1. CASE extra_includes' = extra_includes
  BY <1>1 DEF TypeOK
<1>2. CASE extra_includes' # extra_includes
  <2>1. extra_includes' = {op} \cup (IF extra_includes = None THEN {} ELSE extra_includes)
        /\ op \in UDF
    BY <1>2 DEF Included
  <2>2. extra_includes' \subseteq UDF
    BY <2>1 DEF TypeOK
  <2>3. extra_includes' \in SUBSET Id
    BY <2>2, WSQAssumption DEF Id
  <2> QED BY <2>2, <2>3, WSQAssumption
<1> QED BY <1>1, <1>2

\* Adding an operator keeps the types, however it ends.
LEMMA AddTypes ==
  ASSUME TypeOK, NEW op \in Op,
         AddOp(op) \/ AddOpRefused(op) \/ AddOpOutside(op) \/ AddOpSecondWriter(op)
  PROVE  TypeOK'
<1>1. Included(op)
  BY DEF AddOp, AddOpRefused, AddOpOutside, AddOpSecondWriter
<1>2. /\ curtransaction => extra_includes' # None
      /\ extra_includes' # None => extra_includes' \subseteq UDF
  BY <1>1, IncludedTypes
<1>3. CASE AddOp(op) \/ AddOpSecondWriter(op)
  <2>1. /\ Entered(op) /\ cur_ops # None
        /\ UNCHANGED <<curtransaction, cursubgraph, subgraph_table, paused, procVars>>
        /\ edge_table' \in {edge_table, EdgesAfter(op)} /\ host' \in {host, "failed"}
    BY <1>3 DEF AddOp, AddOpSecondWriter
  <2>2. /\ op_table' \subseteq Id /\ op_log' \in Seq(op_table')
        /\ cursubgraph # None /\ cur_ops' \subseteq op_table'
    BY <2>1, EnteredTypes
  <2>3. edge_table' \in [Edge -> 0..1]
    BY <2>1 DEF TypeOK, EdgesAfter
  <2> QED BY <1>2, <2>1, <2>2, <2>3 DEF TypeOK, procVars
<1>4. CASE AddOpRefused(op)
  BY <1>2, <1>4 DEF TypeOK, AddOpRefused, graphVars, procVars
<1>5. CASE AddOpOutside(op)
  <2>1. op_table' = op_table \cup {op} /\ UNCHANGED <<op_log, cur_ops, cursubgraph>>
    BY <1>5 DEF AddOpOutside
  <2>2. op_table' \subseteq Id
    BY <2>1 DEF TypeOK, Id
  <2>3. op_log' \in Seq(op_table')
    BY <2>1, SeqMonotonic DEF TypeOK
  <2>4. IF cursubgraph' = None THEN cur_ops' = None ELSE cur_ops' \subseteq op_table'
    BY <2>1 DEF TypeOK
  <2> QED BY <1>2, <1>5, <2>1, <2>2, <2>3, <2>4 DEF TypeOK, AddOpOutside, procVars
<1> QED BY <1>3, <1>4, <1>5

\* What is done with query processes keeps the types.
LEMMA ProcTypes ==
  ASSUME TypeOK,
         \/ Compile \/ Kill \/ Start \/ Shutdown
         \/ \E p \in Pid : QueryEnds(p) \/ QueryKilled(p)
  PROVE  TypeOK'
<1>1. /\ UNCHANGED <<graphVars, txnVars, paused>>
      /\ host' \in {host, "finish", "kill", "start", "down"}
  BY DEF Compile, Kill, Start, Shutdown, QueryEnds, QueryKilled
<1>2. child' \in Pid \cup {None}
  BY DEF TypeOK, Compile, Kill, Start, Shutdown, QueryEnds, QueryKilled
<1>3. proc' \in [Pid -> {"unused", "running", "told", "ended"}]
  <2>1. KillOld \in [Pid -> {"unused", "running", "told", "ended"}]
    BY DEF TypeOK, KillOld, Told
  <2>2. CASE Compile
    BY <2>2 DEF TypeOK, Compile
  <2>3. CASE Kill \/ Shutdown
    BY <2>1, <2>3 DEF Kill, Shutdown
  <2>4. CASE Start
    BY <2>4 DEF TypeOK, Start
  <2>5. ASSUME NEW p \in Pid, QueryEnds(p) \/ QueryKilled(p)
        PROVE  proc' \in [Pid -> {"unused", "running", "told", "ended"}]
    BY <2>5 DEF TypeOK, QueryEnds, QueryKilled
  <2> QED BY <2>2, <2>3, <2>4, <2>5
<1> QED BY <1>1, <1>2, <1>3 DEF TypeOK, graphVars, txnVars

\* The call, or the process, that takes a step.
LEMMA Steps ==
  ASSUME Next
  PROVE  \/ BeginTransaction \/ EndSubgraph \/ EndTransaction \/ Refuse \/ Pause
         \/ \E g \in Subgraph : BeginSubgraph(g) \/ RemSubgraph(g)
         \/ \E op \in Op : \/ AddOp(op) \/ AddOpRefused(op)
                           \/ AddOpOutside(op) \/ AddOpSecondWriter(op)
         \/ Compile \/ Kill \/ Start \/ Shutdown
         \/ \E p \in Pid : QueryEnds(p) \/ QueryKilled(p)
BY DEF Next, HostCall, InCall, NestedTransaction, BeginSubgraphRefused, RemSubgraphRefused,
       EndSubgraphRefused, EndTransactionRefused, Unpause

\* At first everything is empty.
LEMMA InitTypes == Init => TypeOK
<1> SUFFICES ASSUME Init PROVE TypeOK
  OBVIOUS
<1>1. op_log \in Seq(op_table) /\ op_table \subseteq Id
  BY DEF Init
<1>2. DOMAIN subgraph_table \subseteq Subgraph
  BY DEF Init
<1>3. edge_table \in [Edge -> 0..1]
  BY DEF Init
<1>4. proc \in [Pid -> {"unused", "running", "told", "ended"}]
  BY DEF Init
<1> QED BY <1>1, <1>2, <1>3, <1>4 DEF Init, TypeOK

\* The manager's tables keep their types.
THEOREM TypeCorrect == Spec => []TypeOK
<1>1. TypeOK /\ [Next]_vars => TypeOK'
  <2> SUFFICES ASSUME TypeOK, [Next]_vars PROVE TypeOK'
    OBVIOUS
  <2>1. CASE Next
    BY <2>1, Steps, TxnTypes, AddTypes, ProcTypes
  <2>2. CASE UNCHANGED vars
    BY <2>2 DEF vars, graphVars, txnVars, procVars, histVars, TypeOK
  <2> QED BY <2>1, <2>2
<1> QED BY <1>1, InitTypes, PTL DEF Spec

-----------------------------------------------------------------------------
(* The tables of operators.                                                *)

\* A tug is entered together with its function only.
TugInv == \A op \in UDF : \A e \in Edge : Tug(op, e) \in op_table => op \in op_table

\* Every edge that an operator of the log writes is counted, and no other writes it.
WriterInv ==
  host # "failed" =>
    \A a \in ToSet(op_log) :
      /\ \A e \in IdWrites(a) : edge_table[e] = 1
      /\ \A b \in ToSet(op_log) : IdWrites(a) \cap IdWrites(b) # {} => a = b

GraphInv ==
  /\ TypeOK /\ TugInv /\ WriterInv /\ OpsAccountedFor
  /\ cursubgraph \notin DOMAIN subgraph_table

\* What is open or installed is in the table, and what is logged too.
LEMMA InTable ==
  ASSUME GraphInv
  PROVE  /\ ToSet(op_log) \subseteq op_table
         /\ InstalledOps \subseteq op_table
<1>1. op_log \in Seq(op_table)
  BY DEF GraphInv, TypeOK
<1>2. ToSet(op_log) \subseteq op_table
  BY <1>1, LenProperties DEF ToSet
<1> QED BY <1>2 DEF GraphInv, OpsAccountedFor

\* The ids that an operator adds are new when the operator is.
LEMMA AddedAreNew ==
  ASSUME GraphInv, NEW op \in Op, op \notin op_table
  PROVE  /\ AddedIds(op) \cap op_table = {}
         /\ \A a \in AddedIds(op) : IdWrites(a) = IF a = op THEN Writes[op] ELSE {}
<1>1. ASSUME NEW a \in AddedIds(op), a # op
      PROVE  a \notin op_table /\ a \notin Op
  <2>1. PICK e \in Writes[op] : op \in UDF /\ a = Tug(op, e)
    BY <1>1 DEF AddedIds, Tugs
  <2>2. e \in Edge
    BY WSQAssumption
  <2> QED BY <2>1, <2>2, WSQAssumption DEF GraphInv, TugInv
<1> QED BY <1>1 DEF IdWrites

\* Entering an operator keeps the log, the table and the open subgraph in step.
LEMMA EnteredKeeps ==
  ASSUME GraphInv, NEW op \in Op, op \notin op_table, Entered(op), cur_ops # None,
         UNCHANGED <<cursubgraph, subgraph_table, removed>>
  PROVE  TugInv' /\ OpsAccountedFor'
<1> DEFINE A == AddedIds(op)
<1>1. /\ op_table' = op_table \cup A /\ op_log' \in Seq(op_table')
      /\ ToSet(op_log') = ToSet(op_log) \cup A
      /\ cur_ops' = cur_ops \cup A /\ cur_ops \subseteq op_table
      /\ cur_ops' \subseteq op_table' /\ op_table' \subseteq Id
  BY EnteredTypes DEF GraphInv
<1>2. A \cap op_table = {} /\ A \subseteq Id
  BY <1>1, AddedAreNew
<1>3. TugInv'
  <2> SUFFICES ASSUME NEW o \in UDF, NEW e \in Edge, Tug(o, e) \in op_table'
               PROVE  o \in op_table'
    BY DEF TugInv
  <2>1. CASE Tug(o, e) \in op_table
    BY <1>1, <2>1 DEF GraphInv, TugInv
  <2>2. CASE Tug(o, e) \in A
    <3>1. Tug(o, e) \notin Op
      BY WSQAssumption
    <3>2. PICK d \in Writes[op] : Tug(o, e) = Tug(op, d)
      BY <2>2, <3>1 DEF AddedIds, Tugs
    <3>3. o = op
      BY <3>2 DEF Tug
    <3> QED BY <1>1, <3>3 DEF AddedIds
  <2> QED BY <1>1, <2>1, <2>2
<1>4. OpenOps = cur_ops /\ OpenOps' = cur_ops \cup A
  <2>1. cur_ops' # None
    <3>1. cur_ops' \in SUBSET Id
      BY <1>1
    <3> QED BY <3>1, WSQAssumption
  <2> QED BY <1>1, <2>1 DEF OpenOps
<1>5. InstalledOps' = InstalledOps
  BY DEF InstalledOps
<1>6. IsInjective(op_log')
  <2>1. op_log \in Seq(Id) /\ Added(op) \in Seq(Id) /\ op_log' = op_log \o Added(op)
        /\ IsInjective(Added(op)) /\ ToSet(Added(op)) = A
    BY AddedOf, SeqMonotonic DEF Entered, GraphInv, TypeOK
  <2>2. IsInjective(op_log) /\ ToSet(op_log) \subseteq op_table
    BY InTable DEF GraphInv, OpsAccountedFor
  <2>3. ToSet(op_log) \cap ToSet(Added(op)) = {}
    BY <1>2, <2>1, <2>2
  <2> QED BY <2>1, <2>2, <2>3, ConcatSets
<1>7. OpenOps' \cap InstalledOps' = {}
  BY <1>2, <1>4, <1>5, InTable DEF GraphInv, OpsAccountedFor
<1>8. ToSet(op_log') = OpenOps' \cup InstalledOps' \cup removed'
  BY <1>1, <1>4, <1>5 DEF GraphInv, OpsAccountedFor
<1> QED BY <1>3, <1>6, <1>7, <1>8 DEF OpsAccountedFor

\* Adding an operator keeps the tables in step, however it ends.
LEMMA AddKeeps ==
  ASSUME GraphInv, TypeOK', NEW op \in Op,
         AddOp(op) \/ AddOpRefused(op) \/ AddOpOutside(op) \/ AddOpSecondWriter(op)
  PROVE  GraphInv'
<1>1. (cursubgraph \notin DOMAIN subgraph_table)'
      /\ UNCHANGED <<cursubgraph, subgraph_table, removed>>
  BY DEF GraphInv, AddOp, AddOpRefused, AddOpOutside, AddOpSecondWriter, histVars
<1>2. CASE AddOpRefused(op)
  BY <1>1, <1>2 DEF GraphInv, TugInv, WriterInv, OpsAccountedFor, OpenOps, InstalledOps,
     AddOpRefused, graphVars
<1>3. CASE AddOpOutside(op)
  <2>1. TugInv'
    <3>1. op_table' = op_table \cup {op}
      BY <1>3 DEF AddOpOutside
    <3> QED BY <3>1, WSQAssumption DEF GraphInv, TugInv
  <2>2. WriterInv'
    BY <1>3 DEF WriterInv, AddOpOutside
  <2>3. OpsAccountedFor'
    BY <1>1, <1>3 DEF GraphInv, OpsAccountedFor, OpenOps, InstalledOps, AddOpOutside
  <2> QED BY <1>1, <2>1, <2>2, <2>3 DEF GraphInv
<1>4. CASE AddOpSecondWriter(op)
  <2>1. TugInv' /\ OpsAccountedFor'
    BY <1>1, <1>4, EnteredKeeps DEF AddOpSecondWriter, CanEnter
  <2> QED BY <1>1, <1>4, <2>1 DEF GraphInv, WriterInv, AddOpSecondWriter
<1>5. CASE AddOp(op)
  <2>1. /\ op \notin op_table /\ Entered(op) /\ cur_ops # None
        /\ \A e \in Writes[op] : edge_table[e] = 0
        /\ edge_table' = EdgesAfter(op) /\ host = "ready"
    BY <1>5 DEF AddOp, CanEnter
  <2>2. TugInv' /\ OpsAccountedFor'
    BY <1>1, <2>1, EnteredKeeps
  <2>3. /\ ToSet(op_log') = ToSet(op_log) \cup AddedIds(op)
        /\ AddedIds(op) \cap ToSet(op_log) = {}
        /\ \A a \in AddedIds(op) : IdWrites(a) = IF a = op THEN Writes[op] ELSE {}
    BY <1>1, <2>1, EnteredTypes, AddedAreNew, InTable DEF GraphInv
  <2>4. /\ \A a \in ToSet(op_log) : \A e \in IdWrites(a) : edge_table[e] = 1
        /\ \A a, b \in ToSet(op_log) : IdWrites(a) \cap IdWrites(b) # {} => a = b
    BY <2>1 DEF GraphInv, WriterInv
  <2>5. ASSUME NEW a \in ToSet(op_log') PROVE IdWrites(a) \subseteq Edge
    BY <2>3, WSQAssumption DEF IdWrites
  <2>6. \A a \in ToSet(op_log') : \A e \in IdWrites(a) : edge_table'[e] = 1
    BY <2>1, <2>3, <2>4, <2>5 DEF EdgesAfter
  <2>7. ASSUME NEW a \in ToSet(op_log'), NEW b \in ToSet(op_log'),
               NEW e \in IdWrites(a) \cap IdWrites(b)
        PROVE  a = b
    <3>1. CASE a \in ToSet(op_log) /\ b \in ToSet(op_log)
      BY <2>4, <2>7, <3>1
    <3>2. CASE a \in ToSet(op_log) /\ b \in AddedIds(op)
      BY <2>1, <2>3, <2>4, <2>7, <3>2
    <3>3. CASE a \in AddedIds(op) /\ b \in ToSet(op_log)
      BY <2>1, <2>3, <2>4, <2>7, <3>3
    <3>4. CASE a \in AddedIds(op) /\ b \in AddedIds(op)
      BY <2>3, <2>7, <3>4
    <3> QED BY <2>3, <3>1, <3>2, <3>3, <3>4
  <2>8. WriterInv'
    BY <2>6, <2>7 DEF WriterInv
  <2> QED BY <1>1, <2>2, <2>8 DEF GraphInv
<1> QED BY <1>2, <1>3, <1>4, <1>5

\* Ending a subgraph moves its operators, removing one forgets where they were.
LEMMA SubgraphKeeps ==
  ASSUME GraphInv, TypeOK',
         \/ EndSubgraph
         \/ \E g \in Subgraph : BeginSubgraph(g) \/ RemSubgraph(g)
  PROVE  GraphInv'
<1>1. UNCHANGED <<op_table, op_log, edge_table, host>>
  BY DEF EndSubgraph, BeginSubgraph, RemSubgraph, graphVars
<1>2. TugInv' /\ WriterInv'
  BY <1>1 DEF GraphInv, TugInv, WriterInv
<1>3. CASE EndSubgraph
  <2>1. /\ cursubgraph # None /\ cursubgraph \notin DOMAIN subgraph_table
        /\ cursubgraph' = None /\ cur_ops' = None /\ removed' = removed
        /\ DOMAIN subgraph_table' = DOMAIN subgraph_table \cup {cursubgraph}
        /\ subgraph_table'[cursubgraph] = cur_ops
        /\ \A g \in DOMAIN subgraph_table : subgraph_table'[g] = subgraph_table[g]
    BY <1>3 DEF EndSubgraph, OpsAfterEnd, histVars, GraphInv
  <2>2. cur_ops # None
    <3>1. cur_ops \in SUBSET Id
      BY <2>1 DEF GraphInv, TypeOK
    <3> QED BY <3>1, WSQAssumption
  <2>3. OpenOps = cur_ops /\ OpenOps' = {}
    BY <2>1, <2>2 DEF OpenOps
  <2>4. InstalledOps' = InstalledOps \cup cur_ops
    BY <2>1 DEF InstalledOps
  <2>5. cursubgraph' \notin DOMAIN subgraph_table'
    <3>1. DOMAIN subgraph_table' \subseteq Subgraph
      BY DEF TypeOK
    <3> QED BY <2>1, <3>1, WSQAssumption
  <2>6. OpsAccountedFor'
    BY <1>1, <2>1, <2>3, <2>4 DEF GraphInv, OpsAccountedFor
  <2> QED BY <1>2, <2>5, <2>6 DEF GraphInv
<1>4. ASSUME NEW g \in Subgraph, BeginSubgraph(g) PROVE GraphInv'
  <2>1. /\ cur_ops = None /\ cur_ops' = {} /\ cursubgraph' = g
        /\ g \notin DOMAIN subgraph_table /\ subgraph_table' = subgraph_table
        /\ removed' = removed
    BY <1>4 DEF BeginSubgraph, MayBegin, histVars
  <2>2. OpenOps = {} /\ OpenOps' = {} /\ InstalledOps' = InstalledOps
    BY <2>1 DEF OpenOps, InstalledOps
  <2>3. OpsAccountedFor'
    BY <1>1, <2>1, <2>2 DEF GraphInv, OpsAccountedFor
  <2> QED BY <1>2, <2>1, <2>3 DEF GraphInv
<1>5. ASSUME NEW g \in Subgraph, RemSubgraph(g) PROVE GraphInv'
  <2>1. /\ g \in DOMAIN subgraph_table /\ UNCHANGED <<cur_ops, cursubgraph>>
        /\ DOMAIN subgraph_table' = DOMAIN subgraph_table \ {g}
        /\ \A h \in DOMAIN subgraph_table \ {g} : subgraph_table'[h] = subgraph_table[h]
        /\ removed' = removed \cup subgraph_table[g]
    BY <1>5 DEF RemSubgraph, graphVars
  <2>2. InstalledOps = InstalledOps' \cup subgraph_table[g]
    BY <2>1 DEF InstalledOps
  <2>3. OpenOps' = OpenOps
    BY <2>1 DEF OpenOps
  <2>4. OpsAccountedFor'
    BY <1>1, <2>1, <2>2, <2>3 DEF GraphInv, OpsAccountedFor
  <2>5. cursubgraph' \notin DOMAIN subgraph_table'
    BY <2>1 DEF GraphInv
  <2> QED BY <1>2, <2>4, <2>5 DEF GraphInv
<1> QED BY <1>3, <1>4, <1>5

\* No other call, and no query process, touches the tables.
LEMMA OtherKeeps ==
  ASSUME GraphInv, TypeOK',
         \/ BeginTransaction \/ EndTransaction \/ Refuse \/ Pause
         \/ Compile \/ Kill \/ Start \/ Shutdown
         \/ \E p \in Pid : QueryEnds(p) \/ QueryKilled(p)
         \/ UNCHANGED vars
  PROVE  GraphInv'
<1>1. UNCHANGED <<op_table, op_log, edge_table, cur_ops, cursubgraph, subgraph_table, removed>>
      /\ (host' # "failed" => host # "failed")
  BY DEF BeginTransaction, EndTransaction, Refuse, Pause, Compile, Kill, Start, Shutdown,
     QueryEnds, QueryKilled, vars, graphVars, txnVars, histVars
<1> QED BY <1>1 DEF GraphInv, TugInv, WriterInv, OpsAccountedFor, OpenOps, InstalledOps

\* The tables of operators, edges and subgraphs agree with one another.
THEOREM TablesAgree == Spec => []GraphInv
<1>1. Init => GraphInv
  <2> SUFFICES ASSUME Init PROVE GraphInv
    OBVIOUS
  <2>1. TypeOK
    BY InitTypes
  <2>2. ToSet(op_log) = {} /\ IsInjective(op_log) /\ OpenOps = {} /\ InstalledOps = {}
        /\ removed = {} /\ op_table = {} /\ DOMAIN subgraph_table = {}
    BY DEF Init, ToSet, IsInjective, OpenOps, InstalledOps
  <2> QED BY <2>1, <2>2 DEF GraphInv, TugInv, WriterInv, OpsAccountedFor
<1>2. TypeOK' /\ GraphInv /\ [Next]_vars => GraphInv'
  BY Steps, AddKeeps, SubgraphKeeps, OtherKeeps
<1> QED BY <1>1, <1>2, TypeCorrect, PTL DEF Spec

\* Every operator that will be compiled belongs to the open subgraph, to an installed
\* or to a removed one, and none was added twice, ...
THEOREM AllAccountedFor == Spec => []OpsAccountedFor
<1>1. GraphInv => OpsAccountedFor
  BY DEF GraphInv
<1> QED BY <1>1, TablesAgree, PTL

\* ... and no two of them write one edge.
THEOREM SingleWriter == Spec => []OneWriterPerEdge
<1>1. GraphInv => OneWriterPerEdge
  <2> SUFFICES ASSUME GraphInv, host # "failed", NEW i \in DOMAIN op_log,
                      NEW j \in DOMAIN op_log,
                      IdWrites(op_log[i]) \cap IdWrites(op_log[j]) # {}
               PROVE  i = j
    BY DEF OneWriterPerEdge
  <2>1. op_log[i] \in ToSet(op_log) /\ op_log[j] \in ToSet(op_log)
    BY DEF ToSet
  <2>2. op_log[i] = op_log[j]
    BY <2>1 DEF GraphInv, WriterInv
  <2> QED BY <2>2 DEF GraphInv, OpsAccountedFor, IsInjective
<1> QED BY <1>1, TablesAgree, PTL

-----------------------------------------------------------------------------
(* The query process.                                                      *)

\* While one call compiles, kills and starts: what was compiled is in the file unless
\* gcc failed, and nothing runs between kill and start.
QueryInv ==
  /\ prog = [p \in Pid |-> prog[p]]
  /\ host \in {"kill", "start"} => ~paused /\ (gccFailed \/ exe = committed)
  /\ host = "start" => \A p \in Pid : proc[p] # "running"
  /\ NoStrayQuery /\ ChildRunsCommitted

\* The invariant of the query process is kept by every step.
LEMMA QueryStep ==
  ASSUME TypeOK, QueryInv, [Next]_vars
  PROVE  QueryInv'
<1>1. CASE /\ UNCHANGED procVars
           /\ \/ UNCHANGED <<paused, host, histVars>>
              \/ host' \in {"failed", "ready"}
              \/ host' = host /\ UNCHANGED <<paused, committed, gccFailed>>
  BY <1>1 DEF QueryInv, NoStrayQuery, ChildRunsCommitted, procVars, histVars
<1>2. CASE \/ BeginTransaction \/ EndSubgraph \/ EndTransaction \/ Refuse \/ Pause
           \/ \E g \in Subgraph : BeginSubgraph(g) \/ RemSubgraph(g)
           \/ \E op \in Op : \/ AddOp(op) \/ AddOpRefused(op)
                             \/ AddOpOutside(op) \/ AddOpSecondWriter(op)
           \/ UNCHANGED vars
  BY <1>1, <1>2 DEF BeginTransaction, EndSubgraph, EndTransaction, Refuse, Pause, BeginSubgraph,
     RemSubgraph, AddOp, AddOpRefused, AddOpOutside, AddOpSecondWriter, vars, histVars
<1>3. CASE Compile
  BY <1>3 DEF QueryInv, NoStrayQuery, ChildRunsCommitted, Compile, Binds
<1>4. \A p \in Pid : KillOld[p] # "running"
  BY WSQAssumption DEF TypeOK, QueryInv, NoStrayQuery, KillOld, Told, Pid
<1>5. CASE Kill \/ Shutdown
  BY <1>4, <1>5 DEF QueryInv, NoStrayQuery, ChildRunsCommitted, Kill, Shutdown, histVars
<1>6. CASE Start
  <2>1. PICK p \in Pid : /\ proc' = [proc EXCEPT ![p] = "running"]
                         /\ prog' = [prog EXCEPT ![p] = exe] /\ child' = p
    BY <1>6 DEF Start
  <2>2. \A q \in Pid : proc'[q] = "running" => q = p
    BY <1>6, <2>1 DEF TypeOK, QueryInv, Start
  <2>3. prog'[p] = exe /\ prog' = [q \in Pid |-> prog'[q]]
    BY <2>1 DEF QueryInv
  <2>4. host = "start" /\ host' = "finish" /\ UNCHANGED <<paused, exe, committed, gccFailed>>
    BY <1>6 DEF Start, histVars
  <2> QED BY <2>1, <2>2, <2>3, <2>4 DEF QueryInv, NoStrayQuery, ChildRunsCommitted
<1>7. ASSUME NEW p \in Pid, QueryEnds(p) \/ QueryKilled(p) PROVE QueryInv'
  <2>1. /\ proc' = [proc EXCEPT ![p] = "ended"]
        /\ UNCHANGED <<paused, child, exe, prog, host, histVars>>
    BY <1>7 DEF QueryEnds, QueryKilled
  <2>2. \A q \in Pid : proc'[q] = "running" => proc[q] = "running"
    BY <2>1 DEF TypeOK
  <2> QED BY <2>1, <2>2 DEF QueryInv, NoStrayQuery, ChildRunsCommitted, histVars
<1> QED BY <1>2, <1>3, <1>5, <1>6, <1>7, Steps

\* The host, the executable and the query processes fit together.
THEOREM QueryInvariance == Spec => []QueryInv
<1>1. Init => QueryInv
  BY DEF Init, QueryInv, NoStrayQuery, ChildRunsCommitted
<1>2. TypeOK /\ QueryInv /\ [Next]_vars => QueryInv'
  BY QueryStep
<1> QED BY <1>1, <1>2, TypeCorrect, PTL DEF Spec

\* A query that nobody told to stop is the current child, ...
THEOREM NoneStray == Spec => []NoStrayQuery
<1>1. QueryInv => NoStrayQuery
  BY DEF QueryInv
<1> QED BY <1>1, QueryInvariance, PTL

\* ... and after a transaction it runs what was added so far.
THEOREM ChildIsCurrent == Spec => []ChildRunsCommitted
<1>1. QueryInv => ChildRunsCommitted
  BY DEF QueryInv
<1> QED BY <1>1, QueryInvariance, PTL
=============================================================================
