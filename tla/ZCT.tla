-------------------------------- MODULE ZCT --------------------------------
(***************************************************************************)
(* Deferred reference counting in a single-threaded build (WS_USE_ZCT):    *)
(* the zero-count table of wsc2.h, the reference-count code emit-c2.sls    *)
(* generates for <emitC2-zct>, and the places where insert-refcounts.sls   *)
(* asks for it.                                                            *)
(*                                                                         *)
(* Only references from the heap (operator state, cells of objects) are    *)
(* counted.  A fresh object has count 0 and goes into the table, as does   *)
(* an object whose count falls to 0, because a local variable of a running *)
(* operator may still hold it.  Operators call one another depth first;    *)
(* the table is "blasted" when the outermost of them returns, and every    *)
(* object in it that still has count 0 is freed.                           *)
(*                                                                         *)
(* The count and the "already pushed" bit share one word, so the generated *)
(* test "is the count 0 now?" is false while the bit is set.               *)
(***************************************************************************)
EXTENDS Integers, Sequences, FiniteSets

CONSTANTS Leaves,    \* addresses for arrays of scalars
          Conses,    \* addresses for cells of lists of such arrays
          Tables,    \* addresses for arrays of such lists
          Width,     \* bound: elements of a table
          Operators,
          Holds,     \* the objects the state variable of an operator may hold
          Down,      \* the operators each one emits to, in order
          Entry,     \* the operators the source emits to, in order
          Foreign,   \* does C code outside call the source, with an array?
          ZctSize,   \* ZCT_SIZE
          Source, Null

Objects == Leaves \cup Conses \cup Tables

ASSUME HeapAssumption ==
  /\ IsFiniteSet(Objects) /\ IsFiniteSet(Operators)
  /\ Leaves \cap Conses = {} /\ Leaves \cap Tables = {} /\ Conses \cap Tables = {}
  /\ Null \notin Objects
  /\ Source \notin Operators
  /\ Holds \in [Operators -> SUBSET Objects]
  /\ Down \in [Operators -> Seq(Operators)] /\ Entry \in Seq(Operators)
  /\ ZctSize \in Nat /\ Width \in Nat

VARIABLES heap,     \* per address: live, rc, pushed (the mask bit), cells
          zct,      \* the pointers in the table
          failed,   \* wserror_builtin("ZCT overflow") ended the program
          state,    \* the state variable of each operator
          stack,    \* the active work functions, outermost first
          depth,    \* iterate_depth
          blasting, \* BLAST_ZCT is running ...
          scan,     \* ... with zct[1..scan] yet to be examined ...
          tofree    \* ... and these objects about to be freed

mem == <<heap, zct, failed>>
vars == <<heap, zct, failed, state, stack, depth, blasting, scan, tofree>>
blastVars == <<blasting, scan, tofree>>

\* The contents an object can be given, by the type of the object.
Contents(o) ==
  CASE o \in Leaves -> {<<>>}
    [] o \in Conses -> (Leaves \cup {Null}) \X (Conses \cup {Null})
    [] o \in Tables -> [1..Width -> Conses \cup {Null}]

Live == {o \in Objects : heap[o].live}
Set(s) == {s[i] : i \in DOMAIN s}
Occurrences(s, x) == Cardinality({i \in DOMAIN s : s[i] = x})

Init ==
  /\ heap = [o \in Objects |->
               [live |-> FALSE, rc |-> 0, pushed |-> FALSE, cells |-> <<>>]]
  /\ zct = <<>> /\ failed = FALSE
  /\ state = [op \in Operators |-> Null]
  /\ stack = <<>> /\ depth = 0
  /\ blasting = FALSE /\ scan = 0 /\ tofree = {}

-----------------------------------------------------------------------------
(* The reference-count code; m stands for <<heap, zct, failed>>.           *)

\* INCR_ARR_RC.
Incr(m, o) == IF o = Null THEN m ELSE [m EXCEPT ![1][o].rc = @ + 1]

Decr(m, o) == [m EXCEPT ![1][o].rc = @ - 1]

\* Mutant: the mask bit is stripped before the comparison.
ZeroWord_Masked(m, o) == m[1][o].rc = 0

\* The comparison in DECR_ARR_RC_PRED: count and mask bit are one word.
ZeroWord(m, o) == m[1][o].rc = 0 /\ ~m[1][o].pushed

\* PUSH_ZCT.
Push(m, o) ==
  IF o = Null \/ m[1][o].pushed THEN m
  ELSE IF Len(m[2]) = ZctSize THEN [m EXCEPT ![3] = TRUE]
  ELSE <<[m[1] EXCEPT ![o].pushed = TRUE], Append(m[2], o), m[3]>>

\* A decrement in an operator: the object is pushed when the word is now 0.
DecrHeap(m, o) ==
  IF o = Null THEN m
  ELSE LET n == Decr(m, o) IN IF ZeroWord(n, o) THEN Push(n, o) ELSE n

\* Mutant: the old referent keeps its count.
Assign_NoDecr(m, new, old) == Incr(m, new)

\* set! and Array:set: count the new referent, then release the old one.
Assign(m, new, old) == DecrHeap(Incr(m, new), old)

\* One increment, or decrement, for each reference in the contents c.
IncrAll(m, c) ==
  [m EXCEPT ![1] = [o \in Objects |->
                     [m[1][o] EXCEPT !.rc = @ + Occurrences(c, o)]]]
DecrAll(m, c) ==
  [m EXCEPT ![1] = [o \in Objects |->
                     [m[1][o] EXCEPT !.rc = @ - Occurrences(c, o)]]]

\* Put m in memory.
Memory(m) == heap' = m[1] /\ zct' = m[2] /\ failed' = m[3]

-----------------------------------------------------------------------------
(* Work functions.  A frame holds the references its locals have, the      *)
(* element it is emitting and the operators it has still to emit it to.    *)

Frame(op, arg, targets) ==
  [op |-> op, refs |-> {arg} \ {Null}, arg |-> arg, todo |-> targets]

Top == stack[Len(stack)]

\* The operator whose code runs now, and is not in the middle of an emit.
Running(op) ==
  /\ ~failed /\ ~blasting
  /\ stack # <<>> /\ Top.op = op /\ Top.todo = <<>>

SetTop(f) == stack' = [stack EXCEPT ![Len(stack)] = f]
AddLocal(o) == SetTop([Top EXCEPT !.refs = @ \cup ({o} \ {Null})])
Locals == Top.refs \cup {Null}

\* A source fires: a timer with the unit value, foreign C code with an array
\* of its own, whose count is 0 and which is not in the table.
SourceFires ==
  /\ ~failed /\ ~blasting /\ stack = <<>>
  /\ IF Foreign
       THEN \E o \in Leaves \ Live :
              /\ heap' = [heap EXCEPT ![o] = [live |-> TRUE, rc |-> 0,
                                      pushed |-> FALSE, cells |-> <<>>]]
              /\ stack' = <<Frame(Source, o, Entry)>>
       ELSE stack' = <<Frame(Source, Null, Entry)>> /\ UNCHANGED heap
  /\ UNCHANGED <<zct, failed, state, depth, blastVars>>

SourceDone ==
  /\ Running(Source)
  /\ stack' = <<>>
  /\ UNCHANGED <<mem, state, depth, blastVars>>

\* EMIT to the next downstream operator: a call of its work function, which
\* starts with INCR_ITERATE_DEPTH.
CallNext ==
  /\ ~failed /\ ~blasting /\ stack # <<>> /\ Top.todo # <<>>
  /\ stack' = Append([stack EXCEPT ![Len(stack)].todo = Tail(@)],
                     Frame(Head(Top.todo), Top.arg, <<>>))
  /\ depth' = depth + 1
  /\ UNCHANGED <<mem, state, blastVars>>

\* emit in the body of an iterate: one _emit_to per downstream operator.
Emit(op) ==
  /\ Running(op) /\ Down[op] # <<>>
  /\ \E v \in Locals :
       SetTop([Top EXCEPT !.arg = v, !.todo = Down[op]])
  /\ UNCHANGED <<mem, state, depth, blastVars>>

\* cons, Array:make, Array:makeUNSAFE: the contents are counted and the new
\* object goes into the table.
Alloc(op) ==
  /\ Running(op)
  /\ \E o \in Objects \ Live : \E c \in Contents(o) :
       /\ Set(c) \subseteq Locals
       /\ LET new == [live |-> TRUE, rc |-> 0, pushed |-> FALSE, cells |-> c]
          IN Memory(Push(IncrAll(<<[heap EXCEPT ![o] = new], zct, failed>>, c),
                         o))
       /\ AddLocal(o)
  /\ UNCHANGED <<state, depth, blastVars>>

\* Reading the state variable, or a cell of an object, into a local.
Read(op) ==
  /\ Running(op)
  /\ \E v \in {state[op]} \cup UNION {Set(heap[o].cells) : o \in Top.refs} :
       AddLocal(v)
  /\ UNCHANGED <<mem, state, depth, blastVars>>

\* set! of the state variable.
SetState(op) ==
  /\ Running(op)
  /\ \E v \in Locals \cap (Holds[op] \cup {Null}) :
       /\ Memory(Assign(mem, v, state[op]))
       /\ state' = [state EXCEPT ![op] = v]
  /\ AddLocal(state[op])
  /\ UNCHANGED <<depth, blastVars>>

\* Array:set of an array of lists.
SetElement(op) ==
  /\ Running(op)
  /\ \E t \in Top.refs \cap Tables, i \in 1..Width,
        v \in Locals \cap (Conses \cup {Null}) :
       /\ Memory(Assign(<<[heap EXCEPT ![t].cells[i] = v], zct, failed>>,
                        v, heap[t].cells[i]))
       /\ AddLocal(heap[t].cells[i])
  /\ UNCHANGED <<state, depth, blastVars>>

\* Mutant: the table is blasted whatever the depth.
IterEnd_AnyDepth(op) ==
  /\ Running(op)
  /\ stack' = SubSeq(stack, 1, Len(stack) - 1)
  /\ depth' = depth - 1
  /\ blasting' = TRUE /\ scan' = Len(zct)
  /\ UNCHANGED <<mem, state, tofree>>

\* The end of a work function: BLAST_ZCT(zct, DECR_ITERATE_DEPTH()), which
\* gets the depth before the decrement.
IterEnd(op) ==
  /\ Running(op)
  /\ stack' = SubSeq(stack, 1, Len(stack) - 1)
  /\ depth' = depth - 1
  /\ blasting' = (depth <= 1)
  /\ scan' = IF depth <= 1 THEN Len(zct) ELSE scan
  /\ UNCHANGED <<mem, state, tofree>>

-----------------------------------------------------------------------------
(* BLAST_ZCT.                                                              *)

\* Mutant: an object that is kept stays marked.
BlastEntry_KeepMark ==
  /\ blasting /\ tofree = {} /\ scan > 0
  /\ tofree' = IF heap[zct[scan]].rc = 0 THEN {zct[scan]} ELSE {}
  /\ scan' = scan - 1
  /\ UNCHANGED <<mem, state, stack, depth, blasting>>

\* One turn of the loop: free the object, or take its mark off.
BlastEntry ==
  /\ blasting /\ tofree = {} /\ scan > 0
  /\ LET o == zct[scan] IN
       IF heap[o].rc = 0
         THEN tofree' = {o} /\ UNCHANGED heap
         ELSE heap' = [heap EXCEPT ![o].pushed = FALSE] /\ UNCHANGED tofree
  /\ scan' = scan - 1
  /\ UNCHANGED <<zct, failed, state, stack, depth, blasting>>

\* free_by_numbers, and the free functions it calls in turn: release what the
\* cells of an object refer to; what has no reference left is freed at once.
Free ==
  /\ blasting
  /\ \E o \in tofree :
       LET c == heap[o].cells
           d == DecrAll(mem, c)
       IN  /\ heap' = [d[1] EXCEPT ![o].live = FALSE, ![o].cells = <<>>]
           /\ tofree' = (tofree \ {o})
                          \cup {x \in Set(c) \ {Null} : ZeroWord(d, x)}
  /\ UNCHANGED <<zct, failed, state, stack, depth, blasting, scan>>

\* zct->count = 0.
BlastDone ==
  /\ blasting /\ tofree = {} /\ scan = 0
  /\ blasting' = FALSE /\ zct' = <<>>
  /\ UNCHANGED <<heap, failed, state, stack, depth, scan, tofree>>

Next ==
  \/ SourceFires \/ SourceDone \/ CallNext
  \/ \E op \in Operators :
       \/ Emit(op) \/ Alloc(op) \/ Read(op) \/ SetState(op)
       \/ SetElement(op) \/ IterEnd(op)
  \/ BlastEntry \/ Free \/ BlastDone

Spec == Init /\ [][Next]_vars

-----------------------------------------------------------------------------
(* What the table and the counts promise.                                  *)

\* Types: in particular the table never holds more than ZCT_SIZE pointers and
\* no count goes below 0 (PUSH_ZCT, DECR_ARR_RC_PRED).
TypeOK ==
  /\ \A o \in Objects : heap[o].live => heap[o].cells \in Contents(o)
  /\ \A o \in Objects : heap[o].rc \in Nat /\ heap[o].pushed \in BOOLEAN
  /\ zct \in Seq(Objects) /\ Len(zct) <= ZctSize
  /\ \A op \in Operators : state[op] \in Holds[op] \cup {Null}
  /\ \A i \in DOMAIN stack : stack[i].refs \subseteq Objects
  /\ depth \in Nat /\ blasting \in BOOLEAN /\ failed \in BOOLEAN
  /\ scan \in 0..Len(zct) /\ tofree \subseteq Objects

\* Every count is the number of references from the heap: state variables and
\* cells of live objects (insert-refcounts.sls, the free functions).
CountsAreExact ==
  \A o \in Live :
    heap[o].rc = Cardinality({op \in Operators : state[op] = o})
                 + Cardinality({at \in Live \X (1..(Width + 2)) :
                       /\ at[2] \in DOMAIN heap[at[1]].cells
                       /\ heap[at[1]].cells[at[2]] = o})

\* No reference in a local, a state variable or a cell is to freed memory,
\* although the references of locals are not counted (BLAST_ZCT's test of the
\* depth is what protects them).
NoDangling ==
  /\ \A i \in DOMAIN stack : stack[i].refs \subseteq Live
  /\ \A op \in Operators : state[op] \in Live \cup {Null}
  /\ \A o \in Live : Set(heap[o].cells) \subseteq Live \cup {Null}

\* The part of the table that is still to be examined.
Pending == SubSeq(zct, 1, IF blasting THEN scan ELSE Len(zct))

\* "We mark everything that's added to the ZCT so that we don't double-add
\* objects resulting in double-frees" (wsc2.h): the marked objects are those
\* still in the table, each is there once, and nothing is freed twice.
FreedOnce ==
  /\ \A i, j \in DOMAIN Pending : Pending[i] = Pending[j] => i = j
  /\ tofree \subseteq Live /\ Set(Pending) \subseteq Live
  /\ tofree \cap Set(Pending) = {}
  /\ ~failed => {o \in Live : heap[o].pushed} \ tofree = Set(Pending)

\* Objects reachable from a set, by following cells n times.
Reach(S) ==
  LET R[n \in 0..Cardinality(Objects)] ==
        IF n = 0 THEN S
        ELSE R[n - 1] \cup UNION {Set(heap[o].cells) : o \in R[n - 1] \ {Null}}
  IN  R[Cardinality(Objects)] \ {Null}

\* Between two firings no garbage is left: every object is reachable from the
\* state of an operator, and the table is empty (BLAST_ZCT at depth 1).
Collected ==
  stack = <<>> /\ ~blasting =>
    Live = Reach({state[op] : op \in Operators}) /\ zct = <<>>

\* "iterate_depth lets us know when it's safe to blast the ZCT"
\* (emit-c2.sls:2550): no object a local of an active function, a source's
\* entry point included, refers to is freed.
SafeToBlast == \A i \in DOMAIN stack : stack[i].refs \subseteq Live
=============================================================================
