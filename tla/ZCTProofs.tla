----------------------------- MODULE ZCTProofs -----------------------------
(***************************************************************************)
(* The counts and the zero-count table, for any operators, objects and     *)
(* size of the table: counts are exact, nothing that is referred to is     *)
(* freed, nothing is freed twice, and no garbage is left between firings.  *)
(* All of it needs ~Foreign: what becomes of an array that C code outside  *)
(* hands to the source is in a run.                                        *)
(*                                                                         *)
(* The table is exact because it has two meanings at once: it holds what   *)
(* has count 0, and the marks say what it holds.  Blasting is safe because *)
(* it begins only when the source alone is on the stack, which holds no    *)
(* reference.                                                              *)
(***************************************************************************)
EXTENDS ZCT, SequenceTheorems, WellFoundedInduction, FiniteSetTheorems, TLAPS

References == Objects \cup {Null}
Records == [live : BOOLEAN, rc : Nat, pushed : BOOLEAN, cells : Seq(References)]
Heaps == [Objects -> Records]

\* g has the objects of h, with the contents they have there.
SameObjects(h, g) ==
  \A o \in Objects : g[o].live = h[o].live /\ g[o].cells = h[o].cells

\* One more, or one less, when the first argument is the second.
One(x, o) == IF x = o THEN 1 ELSE 0

\* The null pointer points to nothing.
LEMMA NullIsNoObject == Null \notin Objects
  BY HeapAssumption DEF HeapAssumption

\* INCR_ARR_RC adds one to the count of x, and to nothing else.
LEMMA IncrIs ==
  ASSUME NEW h \in Heaps, NEW z, NEW f, NEW x \in References
  PROVE  \E g \in Heaps :
           /\ Incr(<<h, z, f>>, x) = <<g, z, f>>
           /\ SameObjects(h, g)
           /\ \A o \in Objects : g[o].pushed = h[o].pushed
           /\ \A o \in Objects : g[o].rc = h[o].rc + One(x, o)
<1>1. CASE x = Null
  <2>1. Incr(<<h, z, f>>, x) = <<h, z, f>>
    BY <1>1 DEF Incr
  <2>2. \A o \in Objects : One(x, o) = 0 /\ h[o].rc \in Nat
    BY <1>1, NullIsNoObject DEF One, Heaps, Records
  <2> QED BY <2>1, <2>2 DEF SameObjects
<1>2. CASE x # Null
  <2> DEFINE g == [h EXCEPT ![x].rc = @ + 1]
  <2>1. x \in Objects
    BY <1>2 DEF References
  <2>2. Incr(<<h, z, f>>, x) = <<g, z, f>>
    BY <1>2 DEF Incr
  <2>3. g \in Heaps
    BY <2>1 DEF Heaps, Records
  <2>4. \A o \in Objects : g[o] = IF o = x THEN [h[x] EXCEPT !.rc = @ + 1] ELSE h[o]
    BY <2>1 DEF Heaps
  <2>5. \A o \in Objects : h[o] \in Records
    BY DEF Heaps
  <2> HIDE DEF g
  <2>6. SameObjects(h, g) /\ \A o \in Objects : g[o].pushed = h[o].pushed
    BY <2>1, <2>4, <2>5 DEF SameObjects, Records
  <2>7. \A o \in Objects : g[o].rc = h[o].rc + One(x, o)
    BY <2>1, <2>4, <2>5 DEF Records, One
  <2> QED BY <2>2, <2>3, <2>6, <2>7
<1> QED BY <1>1, <1>2

\* A decrement takes one from the count of x, and from nothing else.
LEMMA DecrIs ==
  ASSUME NEW h \in Heaps, NEW z, NEW f, NEW x \in Objects, h[x].rc > 0
  PROVE  \E g \in Heaps :
           /\ Decr(<<h, z, f>>, x) = <<g, z, f>>
           /\ SameObjects(h, g)
           /\ \A o \in Objects : g[o].pushed = h[o].pushed
           /\ \A o \in Objects : g[o].rc = h[o].rc - One(x, o)
<1> DEFINE g == [h EXCEPT ![x].rc = @ - 1]
<1>2. Decr(<<h, z, f>>, x) = <<g, z, f>>
  BY DEF Decr
<1>3. g \in Heaps
  BY DEF Heaps, Records
<1>4. \A o \in Objects : g[o] = IF o = x THEN [h[x] EXCEPT !.rc = @ - 1] ELSE h[o]
  BY DEF Heaps
<1>5. \A o \in Objects : h[o] \in Records
  BY DEF Heaps
<1> HIDE DEF g
<1>6. SameObjects(h, g) /\ \A o \in Objects : g[o].pushed = h[o].pushed
  BY <1>4, <1>5 DEF SameObjects, Records
<1>7. \A o \in Objects : g[o].rc = h[o].rc - One(x, o)
  BY <1>4, <1>5 DEF Records, One
<1> QED BY <1>2, <1>3, <1>6, <1>7

\* What a push did: nothing, since x was in the table; it stopped the program, with
\* the table full; or it put x into the table and marked it.
Pushed(h, z, f, x, g, y, e) ==
  /\ SameObjects(h, g) /\ \A o \in Objects : g[o].rc = h[o].rc
  /\ \/ h[x].pushed /\ g = h /\ y = z /\ e = f
     \/ ~h[x].pushed /\ g = h /\ y = z /\ e = TRUE
     \/ /\ ~h[x].pushed /\ Len(z) < ZctSize /\ y = Append(z, x) /\ e = f
        /\ \A o \in Objects : g[o].pushed = IF o = x THEN TRUE ELSE h[o].pushed

\* A pointer is a mere tuple.
LEMMA SetThird ==
  ASSUME NEW a, NEW b, NEW c, NEW d
  PROVE  [<<a, b, c>> EXCEPT ![3] = d] = <<a, b, d>>
  OBVIOUS

\* PUSH_ZCT of an object.
LEMMA PushIs ==
  ASSUME NEW h \in Heaps, NEW z \in Seq(Objects), Len(z) <= ZctSize, NEW f \in BOOLEAN,
         NEW x \in Objects
  PROVE  \E g \in Heaps, y \in Seq(Objects), e \in BOOLEAN :
           Push(<<h, z, f>>, x) = <<g, y, e>> /\ Pushed(h, z, f, x, g, y, e)
<1>0. x # Null
  BY NullIsNoObject
<1>1. CASE h[x].pushed
  <2>1. Push(<<h, z, f>>, x) = <<h, z, f>>
    BY <1>1 DEF Push
  <2> QED BY <1>1, <2>1 DEF Pushed, SameObjects
<1>2. CASE ~h[x].pushed /\ Len(z) = ZctSize
  <2>1. [<<h, z, f>> EXCEPT ![3] = TRUE] = <<h, z, TRUE>>
    <3>1. \A d : [<<h, z, f>> EXCEPT ![3] = d] = <<h, z, d>>
      BY SetThird
    <3> QED BY <3>1, Zenon
  <2>2. Push(<<h, z, f>>, x) = [<<h, z, f>> EXCEPT ![3] = TRUE]
    BY <1>0, <1>2 DEF Push
  <2> QED BY <1>2, <2>1, <2>2 DEF Pushed, SameObjects
<1>3. CASE ~h[x].pushed /\ Len(z) # ZctSize
  <2> DEFINE g == [h EXCEPT ![x].pushed = TRUE]
  <2>2. Push(<<h, z, f>>, x) = <<g, Append(z, x), f>>
    BY <1>0, <1>3 DEF Push
  <2>3. g \in Heaps
    BY DEF Heaps, Records
  <2>4. \A o \in Objects : g[o] = IF o = x THEN [h[x] EXCEPT !.pushed = TRUE] ELSE h[o]
    BY DEF Heaps
  <2>5. \A o \in Objects : h[o] \in Records
    BY DEF Heaps
  <2> HIDE DEF g
  <2>6. SameObjects(h, g)
    BY <2>4, <2>5 DEF SameObjects, Records
  <2>10. \A o \in Objects : g[o].rc = h[o].rc
    BY <2>4, <2>5 DEF Records
  <2>7. \A o \in Objects : g[o].pushed = IF o = x THEN TRUE ELSE h[o].pushed
    BY <2>4, <2>5 DEF Records
  <2>8. Len(z) < ZctSize
    BY <1>3, HeapAssumption DEF HeapAssumption
  <2>9. Pushed(h, z, f, x, g, Append(z, x), f)
    BY <1>3, <2>6, <2>7, <2>8, <2>10 DEF Pushed
  <2>11. Append(z, x) \in Seq(Objects)
    OBVIOUS
  <2> QED BY <2>2, <2>3, <2>9, <2>11
<1> QED BY <1>1, <1>2, <1>3

\* What set! and Array:set do to the memory.
Assigned(h, z, f, new, old, g, y, e) ==
  /\ SameObjects(h, g)
  /\ \A o \in Objects : g[o].rc = h[o].rc + One(new, o) - One(old, o)
  /\ \/ /\ y = z /\ e = f
        /\ \A o \in Objects : g[o].pushed = h[o].pushed
        /\ old = Null \/ g[old].rc # 0 \/ h[old].pushed
     \/ y = z /\ e = TRUE /\ \A o \in Objects : g[o].pushed = h[o].pushed
     \/ /\ old # Null /\ ~h[old].pushed /\ Len(z) < ZctSize /\ y = Append(z, old) /\ e = f
        /\ \A o \in Objects : g[o].pushed = IF o = old THEN TRUE ELSE h[o].pushed

\* The increment and the decrement of an assignment together.
LEMMA AssignIs ==
  ASSUME NEW h \in Heaps, NEW z \in Seq(Objects), Len(z) <= ZctSize, NEW f \in BOOLEAN,
         NEW new \in References, NEW old \in References, old # Null => h[old].rc > 0
  PROVE  \E g \in Heaps, y \in Seq(Objects), e \in BOOLEAN :
           /\ Assign(<<h, z, f>>, new, old) = <<g, y, e>>
           /\ Assigned(h, z, f, new, old, g, y, e)
<1>1. PICK k \in Heaps :
        /\ Incr(<<h, z, f>>, new) = <<k, z, f>>
        /\ SameObjects(h, k)
        /\ \A o \in Objects : k[o].pushed = h[o].pushed
        /\ \A o \in Objects : k[o].rc = h[o].rc + One(new, o)
  BY IncrIs
<1>2. \A o \in Objects : h[o].rc \in Nat /\ k[o].rc \in Nat
  BY DEF Heaps, Records
<1>3. Assign(<<h, z, f>>, new, old) = DecrHeap(<<k, z, f>>, old)
  BY <1>1 DEF Assign
<1>4. CASE old = Null
  <2>1. Assign(<<h, z, f>>, new, old) = <<k, z, f>>
    BY <1>3, <1>4 DEF DecrHeap
  <2>2. \A o \in Objects : One(old, o) = 0
    BY <1>4, NullIsNoObject DEF One
  <2>3. \A o \in Objects : k[o].rc = h[o].rc + One(new, o) - One(old, o)
    BY <1>1, <1>2, <2>2 DEF One
  <2>4. Assigned(h, z, f, new, old, k, z, f)
    BY <1>1, <1>4, <2>3 DEF Assigned
  <2> QED BY <2>1, <2>4
<1>5. CASE old # Null
  <2>1. old \in Objects
    BY <1>5 DEF References
  <2>2. k[old].rc > 0
    BY <1>1, <1>2, <1>5, <2>1 DEF One
  <2>3. PICK n \in Heaps :
           /\ Decr(<<k, z, f>>, old) = <<n, z, f>>
           /\ SameObjects(k, n)
           /\ \A o \in Objects : n[o].pushed = k[o].pushed
           /\ \A o \in Objects : n[o].rc = k[o].rc - One(old, o)
    BY <2>1, <2>2, DecrIs
  <2>4. SameObjects(h, n)
    BY <1>1, <2>3 DEF SameObjects
  <2>5. \A o \in Objects : n[o].rc = h[o].rc + One(new, o) - One(old, o)
    BY <1>1, <1>2, <2>3 DEF One
  <2>6. \A o \in Objects : n[o].pushed = h[o].pushed
    BY <1>1, <2>3
  <2>7. Assign(<<h, z, f>>, new, old)
          = IF n[old].rc = 0 /\ ~n[old].pushed THEN Push(<<n, z, f>>, old) ELSE <<n, z, f>>
    BY <1>3, <1>5, <2>3 DEF DecrHeap, ZeroWord
  <2>8. CASE n[old].rc = 0 /\ ~n[old].pushed
    <3>1. PICK g \in Heaps, y \in Seq(Objects), e \in BOOLEAN :
            Push(<<n, z, f>>, old) = <<g, y, e>> /\ Pushed(n, z, f, old, g, y, e)
      BY <2>1, PushIs
    <3>2. SameObjects(h, g)
      BY <2>4, <3>1 DEF SameObjects, Pushed
    <3>3. \A o \in Objects : g[o].rc = h[o].rc + One(new, o) - One(old, o)
      BY <2>5, <3>1 DEF Pushed
    <3>4. \/ y = z /\ e = TRUE /\ \A o \in Objects : g[o].pushed = h[o].pushed
          \/ /\ old # Null /\ ~h[old].pushed /\ Len(z) < ZctSize /\ y = Append(z, old) /\ e = f
             /\ \A o \in Objects : g[o].pushed = IF o = old THEN TRUE ELSE h[o].pushed
      BY <1>5, <2>1, <2>6, <2>8, <3>1 DEF Pushed
    <3>5. Assigned(h, z, f, new, old, g, y, e)
      BY <3>2, <3>3, <3>4 DEF Assigned
    <3> QED BY <2>7, <2>8, <3>1, <3>5
  <2>9. CASE ~(n[old].rc = 0 /\ ~n[old].pushed)
    <3>1. Assigned(h, z, f, new, old, n, z, f)
      BY <1>5, <2>1, <2>4, <2>5, <2>6, <2>9 DEF Assigned
    <3> QED BY <2>7, <2>9, <3>1
  <2> QED BY <2>8, <2>9
<1> QED BY <1>4, <1>5

-----------------------------------------------------------------------------
(* Contents.                                                               *)

\* The contents of an object are a sequence of at most Width + 2 references.
LEMMA ContentsAre ==
  ASSUME NEW o \in Objects, NEW c \in Contents(o)
  PROVE  /\ c \in Seq(References) /\ DOMAIN c = 1..Len(c) /\ Len(c) \in 0..(Width + 2)
         /\ \A i \in 1..Len(c) : c[i] \in References
         /\ o \in Conses => \A i \in 1..Len(c) : c[i] \in Leaves \cup Conses \cup {Null}
         /\ o \in Tables => \A i \in 1..Len(c) : c[i] \in Conses \cup {Null}
         /\ o \in Tables => Len(c) = Width
         /\ o \in Leaves => c = <<>>
<1>0. Width \in Nat
  BY HeapAssumption DEF HeapAssumption
<1>1. CASE o \in Leaves
  <2>1. c = <<>> /\ o \notin Conses /\ o \notin Tables
    BY <1>1, HeapAssumption DEF Contents, HeapAssumption
  <2> QED BY <1>0, <2>1
<1>2. CASE o \in Conses
  <2>1. o \notin Leaves /\ o \notin Tables
    BY <1>2, HeapAssumption DEF HeapAssumption
  <2>2. c \in (Leaves \cup {Null}) \X (Conses \cup {Null})
    BY <1>2, <2>1 DEF Contents
  <2>3. PICK a \in Leaves \cup {Null}, b \in Conses \cup {Null} : c = <<a, b>>
    BY <2>2
  <2>4. a \in References /\ b \in References
    BY DEF References, Objects
  <2>5. c \in Seq(References) /\ Len(c) = 2 /\ DOMAIN c = 1..2
    BY <2>3, <2>4
  <2>6. \A i \in 1..2 : c[i] = a \/ c[i] = b
    BY <2>3
  <2> HIDE <2>2, <2>3
  <2> QED BY <1>0, <2>1, <2>4, <2>5, <2>6
<1>3. CASE o \in Tables
  <2>1. o \notin Leaves /\ o \notin Conses
    BY <1>3, HeapAssumption DEF HeapAssumption
  <2>2. c \in [1..Width -> Conses \cup {Null}]
    BY <1>3, <2>1 DEF Contents
  <2>3. \A i \in 1..Width : c[i] \in Conses \cup {Null}
    BY <2>2
  <2>4. \A i \in 1..Width : c[i] \in References
    BY <2>3 DEF References, Objects
  <2>5. c \in [1..Width -> References]
    BY <2>2, <2>4
  <2>6. c \in Seq(References) /\ Len(c) = Width /\ DOMAIN c = 1..Width
    BY <1>0, <2>5
  <2> QED BY <1>0, <2>1, <2>3, <2>4, <2>6
<1> QED BY <1>1, <1>2, <1>3 DEF Objects

-----------------------------------------------------------------------------
(* Counting references.                                                    *)

LiveIn(h) == {o \in Objects : h[o].live}

\* The contents of each live object are contents for its type.
CellsOK(h) == \A o \in Objects : h[o].live => h[o].cells \in Contents(o)

StateRefs(st, o) == {op \in Operators : st[op] = o}
CellRefs(h, o) ==
  {at \in LiveIn(h) \X (1..(Width + 2)) :
     at[2] \in DOMAIN h[at[1]].cells /\ h[at[1]].cells[at[2]] = o}

Exact(h, st) ==
  \A o \in Objects : h[o].live =>
    h[o].rc = Cardinality(StateRefs(st, o)) + Cardinality(CellRefs(h, o))

\* There are finitely many references to an object.
LEMMA RefsAreFinite ==
  ASSUME NEW h, NEW st, NEW o
  PROVE  /\ IsFiniteSet(StateRefs(st, o)) /\ Cardinality(StateRefs(st, o)) \in Nat
         /\ IsFiniteSet(CellRefs(h, o)) /\ Cardinality(CellRefs(h, o)) \in Nat
<1>1. IsFiniteSet(Operators) /\ IsFiniteSet(Objects) /\ Width + 2 \in Int /\ 1 \in Int
  BY HeapAssumption DEF HeapAssumption
<1>2. StateRefs(st, o) \in SUBSET Operators
  BY DEF StateRefs
<1>3. IsFiniteSet(StateRefs(st, o))
  BY <1>1, <1>2, FS_Subset
<1>4. LiveIn(h) \in SUBSET Objects
  BY DEF LiveIn
<1>5. IsFiniteSet(LiveIn(h))
  BY <1>1, <1>4, FS_Subset
<1>6. IsFiniteSet(1..(Width + 2))
  BY <1>1, FS_Interval
<1>7. IsFiniteSet(LiveIn(h) \X (1..(Width + 2)))
  BY <1>5, <1>6, FS_Product
<1>8. CellRefs(h, o) \in SUBSET (LiveIn(h) \X (1..(Width + 2)))
  BY DEF CellRefs
<1>9. IsFiniteSet(CellRefs(h, o))
  BY <1>7, <1>8, FS_Subset
<1> QED BY <1>3, <1>9, FS_CardinalityType

In(x, S) == IF x \in S THEN 1 ELSE 0

\* Sets that differ in x only.
LEMMA DifferInOne ==
  ASSUME NEW S, NEW T, NEW x, IsFiniteSet(S), IsFiniteSet(T), S \ {x} = T \ {x}
  PROVE  Cardinality(T) = Cardinality(S) + In(x, T) - In(x, S)
<1>1. /\ Cardinality(S \ {x}) = IF x \in S THEN Cardinality(S) - 1 ELSE Cardinality(S)
      /\ Cardinality(T \ {x}) = IF x \in T THEN Cardinality(T) - 1 ELSE Cardinality(T)
  BY FS_RemoveElement
<1>2. Cardinality(S) \in Nat /\ Cardinality(T) \in Nat
  BY FS_CardinalityType
<1> QED BY <1>1, <1>2 DEF In

\* The state variable of one operator changes.
LEMMA StateMoves ==
  ASSUME NEW st, NEW su, NEW op \in Operators, NEW o,
         \A q \in Operators : q # op => su[q] = st[q]
  PROVE  Cardinality(StateRefs(su, o))
           = Cardinality(StateRefs(st, o)) + One(su[op], o) - One(st[op], o)
<1>1. StateRefs(st, o) \ {op} = StateRefs(su, o) \ {op}
  BY DEF StateRefs
<1>2. In(op, StateRefs(st, o)) = One(st[op], o) /\ In(op, StateRefs(su, o)) = One(su[op], o)
  BY DEF StateRefs, In, One
<1>3. IsFiniteSet(StateRefs(st, o)) /\ IsFiniteSet(StateRefs(su, o))
  BY RefsAreFinite
<1> QED BY <1>1, <1>2, <1>3, DifferInOne

\* h and g differ in what is at cell i of t.
OneCell(h, g, t, i) ==
  /\ t \in Objects /\ h[t].live /\ i \in 1..(Width + 2)
  /\ \A p \in Objects : g[p].live = h[p].live
  /\ \A p \in Objects : p # t => g[p].cells = h[p].cells
  /\ i \in DOMAIN h[t].cells /\ DOMAIN g[t].cells = DOMAIN h[t].cells
  /\ \A j \in DOMAIN h[t].cells : j # i => g[t].cells[j] = h[t].cells[j]

\* A cell of one live object changes.
LEMMA CellMoves ==
  ASSUME NEW h, NEW g, NEW t, NEW i, NEW o, OneCell(h, g, t, i)
  PROVE  Cardinality(CellRefs(g, o))
           = Cardinality(CellRefs(h, o)) + One(g[t].cells[i], o) - One(h[t].cells[i], o)
<1>9. /\ t \in Objects /\ h[t].live /\ i \in 1..(Width + 2)
      /\ \A p \in Objects : g[p].live = h[p].live
      /\ \A p \in Objects : p # t => g[p].cells = h[p].cells
      /\ i \in DOMAIN h[t].cells /\ DOMAIN g[t].cells = DOMAIN h[t].cells
      /\ \A j \in DOMAIN h[t].cells : j # i => g[t].cells[j] = h[t].cells[j]
  BY DEF OneCell
<1> DEFINE x == <<t, i>>
<1>0. LiveIn(g) = LiveIn(h)
  BY <1>9 DEF LiveIn
<1>1. \A at \in LiveIn(h) \X (1..(Width + 2)) : at # x =>
        (at \in CellRefs(h, o) <=> at \in CellRefs(g, o))
  <2> TAKE at \in LiveIn(h) \X (1..(Width + 2))
  <2> HAVE at # x
  <2>1. PICK p \in LiveIn(h), j \in 1..(Width + 2) : at = <<p, j>>
    OBVIOUS
  <2>2. p \in Objects /\ at[1] = p /\ at[2] = j /\ (p # t \/ j # i)
    BY <2>1 DEF LiveIn
  <2>3. at \in CellRefs(h, o) <=> j \in DOMAIN h[p].cells /\ h[p].cells[j] = o
    BY <2>2 DEF CellRefs
  <2>4. at \in CellRefs(g, o) <=> j \in DOMAIN g[p].cells /\ g[p].cells[j] = o
    BY <1>0, <2>2 DEF CellRefs
  <2> QED BY <1>9, <2>2, <2>3, <2>4
<1>2. CellRefs(h, o) \ {x} = CellRefs(g, o) \ {x}
  <2>1. /\ CellRefs(h, o) \subseteq LiveIn(h) \X (1..(Width + 2))
        /\ CellRefs(g, o) \subseteq LiveIn(h) \X (1..(Width + 2))
    BY <1>0 DEF CellRefs
  <2> HIDE DEF x
  <2> QED BY <1>1, <2>1
<1>3. x \in LiveIn(h) \X (1..(Width + 2)) /\ x[1] = t /\ x[2] = i
  BY <1>9 DEF LiveIn
<1>4. In(x, CellRefs(h, o)) = One(h[t].cells[i], o)
  BY <1>3, <1>9 DEF CellRefs, In, One
<1>5. In(x, CellRefs(g, o)) = One(g[t].cells[i], o)
  BY <1>0, <1>3, <1>9 DEF CellRefs, In, One
<1>6. IsFiniteSet(CellRefs(h, o)) /\ IsFiniteSet(CellRefs(g, o))
  BY RefsAreFinite
<1> QED BY <1>2, <1>4, <1>5, <1>6, DifferInOne

\* p is live in g and not in h, and nothing else differs.
OneMore(h, g, p) ==
  /\ p \in Objects /\ ~h[p].live /\ g[p].live
  /\ \A q \in Objects : q # p => g[q].live = h[q].live /\ g[q].cells = h[q].cells
  /\ DOMAIN g[p].cells \subseteq 1..(Width + 2)

\* The contents of the object that is new are counted once each.
LEMMA OneMoreObject ==
  ASSUME NEW h, NEW g, NEW p, NEW o, OneMore(h, g, p)
  PROVE  Cardinality(CellRefs(g, o))
           = Cardinality(CellRefs(h, o)) + Occurrences(g[p].cells, o)
<1> DEFINE I == {i \in DOMAIN g[p].cells : g[p].cells[i] = o}
<1>0. /\ p \in Objects /\ ~h[p].live /\ g[p].live
      /\ \A q \in Objects : q # p => g[q].live = h[q].live /\ g[q].cells = h[q].cells
      /\ DOMAIN g[p].cells \subseteq 1..(Width + 2)
  BY DEF OneMore
<1>1. IsFiniteSet(1..(Width + 2))
  BY FS_Interval, HeapAssumption DEF HeapAssumption
<1>2. IsFiniteSet(I)
  BY <1>0, <1>1, FS_Subset
<1>3. IsFiniteSet({p}) /\ Cardinality({p}) = 1
  BY FS_Singleton
<1>4. Cardinality(I) \in Nat
  BY <1>2, FS_CardinalityType
<1>5. IsFiniteSet({p} \X I) /\ Cardinality({p} \X I) = Cardinality(I)
  BY <1>2, <1>3, <1>4, FS_Product
<1>6. LiveIn(g) = LiveIn(h) \cup {p} /\ p \notin LiveIn(h)
  BY <1>0 DEF LiveIn
<1>7. CellRefs(h, o) \cap ({p} \X I) = {}
  BY <1>6 DEF CellRefs
<1>8. CellRefs(g, o) = CellRefs(h, o) \cup ({p} \X I)
  <2>1. ASSUME NEW q \in LiveIn(g), NEW j \in 1..(Width + 2)
        PROVE  <<q, j>> \in CellRefs(g, o)
                 <=> <<q, j>> \in CellRefs(h, o) \/ <<q, j>> \in {p} \X I
    <3>1. <<q, j>> \in CellRefs(g, o) <=> j \in DOMAIN g[q].cells /\ g[q].cells[j] = o
      BY DEF CellRefs
    <3>2. <<q, j>> \in CellRefs(h, o)
            <=> q \in LiveIn(h) /\ j \in DOMAIN h[q].cells /\ h[q].cells[j] = o
      BY DEF CellRefs
    <3>3. q \in Objects
      BY DEF LiveIn
    <3> QED BY <1>0, <1>6, <3>1, <3>2, <3>3
  <2>2. CellRefs(g, o) \subseteq LiveIn(g) \X (1..(Width + 2))
    BY DEF CellRefs
  <2>3. CellRefs(h, o) \subseteq LiveIn(g) \X (1..(Width + 2))
    BY <1>6 DEF CellRefs
  <2>4. {p} \X I \subseteq LiveIn(g) \X (1..(Width + 2))
    BY <1>0, <1>6
  <2> HIDE DEF I
  <2> QED BY <2>1, <2>2, <2>3, <2>4
<1>9. IsFiniteSet(CellRefs(h, o)) /\ Cardinality(CellRefs(h, o)) \in Nat
  BY RefsAreFinite
<1>10. Cardinality(CellRefs(g, o)) = Cardinality(CellRefs(h, o)) + Cardinality(I)
  <2>1. Cardinality({}) = 0
    BY FS_EmptySet
  <2> HIDE DEF I
  <2>2. Cardinality(CellRefs(h, o) \cup ({p} \X I))
          = Cardinality(CellRefs(h, o)) + Cardinality({p} \X I)
              - Cardinality(CellRefs(h, o) \cap ({p} \X I))
    BY <1>5, <1>9, FS_Union
  <2>3. Cardinality(CellRefs(g, o)) = Cardinality(CellRefs(h, o)) + Cardinality(I) - 0
    BY <1>5, <1>7, <1>8, <2>1, <2>2
  <2>4. Cardinality(CellRefs(h, o)) \in Int /\ Cardinality(I) \in Int
    BY <1>4, <1>9
  <2> QED BY <2>3, <2>4
<1> QED BY <1>4, <1>9, <1>10 DEF Occurrences

\* What has count 0 is not referred to, and what is referred to has another count.
LEMMA ZeroMeansNone ==
  ASSUME NEW h, NEW st, Exact(h, st), CellsOK(h), NEW o \in Objects, h[o].live
  PROVE  /\ h[o].rc \in Nat
         /\ h[o].rc = 0 => \A op \in Operators : st[op] # o
         /\ h[o].rc = 0 => \A p \in Objects : h[p].live => o \notin Set(h[p].cells)
         /\ h[o].rc # 0 => \/ \E op \in Operators : st[op] = o
                           \/ \E p \in Objects : h[p].live /\ o \in Set(h[p].cells)
<1>1. h[o].rc = Cardinality(StateRefs(st, o)) + Cardinality(CellRefs(h, o))
  BY DEF Exact
<1>2. /\ Cardinality(StateRefs(st, o)) \in Nat /\ Cardinality(CellRefs(h, o)) \in Nat
      /\ Cardinality(StateRefs(st, o)) = 0 <=> StateRefs(st, o) = {}
      /\ Cardinality(CellRefs(h, o)) = 0 <=> CellRefs(h, o) = {}
  BY RefsAreFinite, FS_EmptySet
<1>3. h[o].rc = 0 <=> StateRefs(st, o) = {} /\ CellRefs(h, o) = {}
  BY <1>1, <1>2
<1>4. StateRefs(st, o) = {} <=> \A op \in Operators : st[op] # o
  BY DEF StateRefs
<1>5. ASSUME CellRefs(h, o) = {}, NEW p \in Objects, h[p].live
      PROVE  o \notin Set(h[p].cells)
  <2>1. h[p].cells \in Contents(p)
    BY <1>5 DEF CellsOK
  <2>2. DOMAIN h[p].cells \subseteq 1..(Width + 2)
    <3>1. DOMAIN h[p].cells = 1..Len(h[p].cells) /\ Len(h[p].cells) \in 0..(Width + 2)
      BY <2>1, ContentsAre
    <3> QED BY <3>1, HeapAssumption DEF HeapAssumption
  <2>3. \A i \in DOMAIN h[p].cells : h[p].cells[i] = o => <<p, i>> \in CellRefs(h, o)
    BY <1>5, <2>2 DEF CellRefs, LiveIn
  <2> QED BY <1>5, <2>3 DEF Set
<1>6. ASSUME CellRefs(h, o) # {}
      PROVE  \E p \in Objects : h[p].live /\ o \in Set(h[p].cells)
  <2>1. PICK at \in CellRefs(h, o) : TRUE
    BY <1>6
  <2>2. /\ at[1] \in Objects /\ h[at[1]].live
        /\ at[2] \in DOMAIN h[at[1]].cells /\ h[at[1]].cells[at[2]] = o
    BY <2>1 DEF CellRefs, LiveIn
  <2> QED BY <2>2 DEF Set
<1> QED BY <1>1, <1>2, <1>3, <1>4, <1>5, <1>6

\* Counts and marks are no part of the references.
LEMMA SameCells ==
  ASSUME NEW h, NEW g, SameObjects(h, g), NEW o
  PROVE  LiveIn(g) = LiveIn(h) /\ CellRefs(g, o) = CellRefs(h, o)
<1>1. LiveIn(g) = LiveIn(h)
  BY DEF LiveIn, SameObjects
<1>2. \A at \in LiveIn(h) \X (1..(Width + 2)) : g[at[1]].cells = h[at[1]].cells
  BY DEF LiveIn, SameObjects
<1> QED BY <1>1, <1>2 DEF CellRefs

\* An object is counted as often as it is in the contents.
LEMMA OccurrencesAre ==
  ASSUME NEW o \in Objects, NEW c \in Contents(o), NEW x
  PROVE  /\ Occurrences(c, x) \in Nat
         /\ x \notin Set(c) => Occurrences(c, x) = 0
         /\ x \in Set(c) => Occurrences(c, x) > 0
<1> DEFINE I == {i \in DOMAIN c : c[i] = x}
<1>1. DOMAIN c = 1..Len(c) /\ Len(c) \in Int
  BY ContentsAre, HeapAssumption DEF HeapAssumption
<1>2. IsFiniteSet(DOMAIN c)
  BY <1>1, FS_Interval
<1>3. IsFiniteSet(I)
  BY <1>2, FS_Subset
<1>4. Cardinality(I) \in Nat /\ (Cardinality(I) = 0 <=> I = {})
  BY <1>3, FS_CardinalityType, FS_EmptySet
<1>5. x \in Set(c) <=> I # {}
  BY DEF Set
<1>6. Occurrences(c, x) = Cardinality(I)
  BY DEF Occurrences
<1> HIDE DEF I
<1> QED BY <1>4, <1>5, <1>6

\* EXCEPT on the first of three.
LEMMA SetFirst ==
  ASSUME NEW a, NEW b, NEW c, NEW d
  PROVE  [<<a, b, c>> EXCEPT ![1] = d] = <<d, b, c>>
  OBVIOUS

\* Counting the contents of a new object.
LEMMA IncrAllIs ==
  ASSUME NEW h \in Heaps, NEW z, NEW f, NEW p \in Objects, NEW c \in Contents(p)
  PROVE  \E g \in Heaps :
           /\ IncrAll(<<h, z, f>>, c) = <<g, z, f>>
           /\ SameObjects(h, g)
           /\ \A o \in Objects : g[o].pushed = h[o].pushed
           /\ \A o \in Objects : g[o].rc = h[o].rc + Occurrences(c, o)
<1> DEFINE g == [o \in Objects |-> [h[o] EXCEPT !.rc = @ + Occurrences(c, o)]]
<1>1. IncrAll(<<h, z, f>>, c) = <<g, z, f>>
  BY SetFirst DEF IncrAll
<1>2. \A o \in Objects : h[o] \in Records /\ Occurrences(c, o) \in Nat
  BY OccurrencesAre DEF Heaps
<1>3. \A o \in Objects : g[o] = [h[o] EXCEPT !.rc = @ + Occurrences(c, o)]
  OBVIOUS
<1>4. \A o \in Objects : g[o] \in Records
  BY <1>2, <1>3 DEF Records
<1>5. g \in Heaps
  BY <1>4 DEF Heaps
<1> HIDE DEF g
<1>6. SameObjects(h, g)
  BY <1>2, <1>3 DEF SameObjects, Records
<1>7. \A o \in Objects : g[o].pushed = h[o].pushed
  BY <1>2, <1>3 DEF Records
<1>8. \A o \in Objects : g[o].rc = h[o].rc + Occurrences(c, o)
  BY <1>2, <1>3 DEF Records
<1> QED BY <1>1, <1>5, <1>6, <1>7, <1>8

-----------------------------------------------------------------------------
(* References to live objects; the order of conses.                        *)

RefsLive(h, st) ==
  /\ \A op \in Operators : st[op] \in LiveIn(h) \cup {Null}
  /\ \A o \in Objects : h[o].live => Set(h[o].cells) \subseteq LiveIn(h) \cup {Null}

\* below[p]: what was in memory when p was allocated, and still is.
Ranking(h, below) ==
  /\ \A p \in Objects : h[p].live => below[p] \subseteq LiveIn(h) \ {p}
  /\ \A p \in Conses : h[p].live => \A x \in Set(h[p].cells) \ {Null} :
       x \in below[p] /\ below[x] \subseteq below[p]
Ranked(h) == \E below \in [Objects -> SUBSET Objects] : Ranking(h, below)

\* The order is that of the conses, whose cells are never assigned.
LEMMA RankSame ==
  ASSUME NEW h, NEW g, Ranked(h),
         \A o \in Objects : g[o].live = h[o].live,
         \A o \in Conses : g[o].live => g[o].cells = h[o].cells
  PROVE  Ranked(g)
<1>1. LiveIn(g) = LiveIn(h)
  BY DEF LiveIn
<1>2. PICK below \in [Objects -> SUBSET Objects] : Ranking(h, below)
  BY DEF Ranked
<1>3. Conses \subseteq Objects
  BY DEF Objects
<1>4. Ranking(g, below)
  BY <1>1, <1>2, <1>3 DEF Ranking
<1> QED BY <1>4 DEF Ranked

\* A new object comes above all there is.
LEMMA RankAlloc ==
  ASSUME NEW h, NEW g, NEW st, Ranked(h), RefsLive(h, st),
         NEW o \in Objects, ~h[o].live, g[o].live,
         \A p \in Objects : p # o => g[p].live = h[p].live /\ g[p].cells = h[p].cells,
         Set(g[o].cells) \subseteq LiveIn(h) \cup {Null}
  PROVE  Ranked(g)
<1>1. PICK below \in [Objects -> SUBSET Objects] : Ranking(h, below)
  BY DEF Ranked
<1> DEFINE above == [below EXCEPT ![o] = LiveIn(h)]
<1>2. LiveIn(g) = LiveIn(h) \cup {o} /\ o \notin LiveIn(h) /\ LiveIn(h) \subseteq Objects
  BY DEF LiveIn
<1>3. above \in [Objects -> SUBSET Objects]
  BY <1>2
<1>4. \A p \in Objects : above[p] = IF p = o THEN LiveIn(h) ELSE below[p]
  OBVIOUS
<1> HIDE DEF above
<1>5. ASSUME NEW p \in Objects, g[p].live PROVE above[p] \subseteq LiveIn(g) \ {p}
  <2>1. CASE p = o
    BY <1>2, <1>4, <2>1
  <2>2. CASE p # o
    <3>1. h[p].live
      BY <1>5, <2>2
    <3>2. below[p] \subseteq LiveIn(h) \ {p}
      BY <1>1, <3>1 DEF Ranking
    <3> QED BY <1>2, <1>4, <2>2, <3>2
  <2> QED BY <2>1, <2>2
<1>6. ASSUME NEW p \in Conses, g[p].live, NEW x \in Set(g[p].cells) \ {Null}
      PROVE  x \in above[p] /\ above[x] \subseteq above[p]
  <2>0. p \in Objects
    BY DEF Objects
  <2>1. CASE p = o
    <3>1. x \in LiveIn(h) /\ x # o /\ x \in Objects /\ h[x].live
      BY <1>2, <1>6, <2>1 DEF LiveIn
    <3>2. below[x] \subseteq LiveIn(h)
      BY <1>1, <3>1 DEF Ranking
    <3> QED BY <1>4, <2>1, <3>1, <3>2
  <2>2. CASE p # o
    <3>1. h[p].live /\ x \in Set(h[p].cells) \ {Null}
      BY <1>6, <2>0, <2>2
    <3>2. x \in LiveIn(h) /\ x # o /\ x \in Objects
      BY <1>2, <2>0, <3>1 DEF RefsLive, LiveIn
    <3>3. x \in below[p] /\ below[x] \subseteq below[p]
      BY <1>1, <3>1 DEF Ranking
    <3> QED BY <1>4, <2>0, <2>2, <3>2, <3>3
  <2> QED BY <2>1, <2>2
<1>7. Ranking(g, above)
  BY <1>5, <1>6 DEF Ranking
<1> QED BY <1>3, <1>7 DEF Ranked

\* An object without references is above nothing that needs it.
LEMMA RankFree ==
  ASSUME NEW h, NEW g, NEW st, Ranked(h), RefsLive(h, st), NEW o \in Objects, ~g[o].live,
         \A p \in Objects : p # o => g[p].live = h[p].live /\ g[p].cells = h[p].cells,
         \A p \in Objects : h[p].live => o \notin Set(h[p].cells)
  PROVE  Ranked(g)
<1>1. PICK below \in [Objects -> SUBSET Objects] : Ranking(h, below)
  BY DEF Ranked
<1> DEFINE above == [p \in Objects |-> below[p] \ {o}]
<1>2. LiveIn(g) = LiveIn(h) \ {o}
  BY DEF LiveIn
<1>3. above \in [Objects -> SUBSET Objects]
  OBVIOUS
<1>4. \A p \in Objects : above[p] = below[p] \ {o}
  OBVIOUS
<1> HIDE DEF above
<1>5. ASSUME NEW p \in Objects, g[p].live PROVE above[p] \subseteq LiveIn(g) \ {p}
  <2>1. h[p].live
    BY <1>5
  <2>2. below[p] \subseteq LiveIn(h) \ {p}
    BY <1>1, <2>1 DEF Ranking
  <2> QED BY <1>2, <1>4, <2>2
<1>6. ASSUME NEW p \in Conses, g[p].live, NEW x \in Set(g[p].cells) \ {Null}
      PROVE  x \in above[p] /\ above[x] \subseteq above[p]
  <2>0. p \in Objects /\ p # o
    BY <1>6 DEF Objects
  <2>1. h[p].live /\ x \in Set(h[p].cells) \ {Null}
    BY <1>6, <2>0
  <2>2. x # o /\ x \in Objects
    BY <2>0, <2>1 DEF RefsLive, LiveIn
  <2>3. x \in below[p] /\ below[x] \subseteq below[p]
    BY <1>1, <2>1 DEF Ranking
  <2> QED BY <1>4, <2>0, <2>2, <2>3
<1>7. Ranking(g, above)
  BY <1>5, <1>6 DEF Ranking
<1> QED BY <1>3, <1>7 DEF Ranked

-----------------------------------------------------------------------------
(* The table.                                                              *)

\* z[1..n] are the objects with count 0, and each of them is there once and marked; but
\* those of F are about to be freed, and e says the program has ended.
TableOK(h, z, n, F, e) ==
  /\ \A i, j \in 1..n : z[i] = z[j] => i = j
  /\ \A i \in 1..n : h[z[i]].live /\ h[z[i]].pushed /\ z[i] \notin F
  /\ \A o \in F : h[o].live /\ h[o].rc = 0
  /\ ~e => \A o \in Objects : h[o].live /\ (h[o].pushed \/ h[o].rc = 0)
                                => o \in F \/ \E i \in 1..n : z[i] = o

\* x goes into the table, when there is room.
LEMMA TableGrows ==
  ASSUME NEW h, NEW g, NEW z \in Seq(Objects), NEW x \in Objects, NEW e,
         TableOK(h, z, Len(z), {}, e), g[x].live,
         \A i \in 1..Len(z) : z[i] # x,
         \A i \in 1..Len(z) : g[z[i]].live = h[z[i]].live,
         \A o \in Objects : o # x => g[o].live = h[o].live,
         \A o \in Objects : g[o].pushed = IF o = x THEN TRUE ELSE h[o].pushed,
         \A o \in Objects : o # x /\ g[o].live /\ g[o].rc = 0 => h[o].rc = 0
  PROVE  TableOK(g, Append(z, x), Len(Append(z, x)), {}, e)
<1> DEFINE y == Append(z, x)
<1>1. y \in Seq(Objects) /\ Len(y) = Len(z) + 1 /\ Len(z) \in Nat /\ y[Len(z) + 1] = x
  OBVIOUS
<1>2. \A i \in 1..Len(z) : y[i] = z[i] /\ z[i] \in Objects
  OBVIOUS
<1>3. \A i \in 1..Len(y) : i \in 1..Len(z) \/ i = Len(z) + 1
  BY <1>1
<1> HIDE DEF y
<1>4. \A i, j \in 1..Len(y) : y[i] = y[j] => i = j
  BY <1>1, <1>2, <1>3 DEF TableOK
<1>5. \A i \in 1..Len(y) : g[y[i]].live /\ g[y[i]].pushed
  BY <1>1, <1>2, <1>3 DEF TableOK
<1>6. ASSUME ~e, NEW o \in Objects, g[o].live, g[o].pushed \/ g[o].rc = 0
      PROVE  \E i \in 1..Len(y) : y[i] = o
  <2>1. CASE o = x
    <3>1. Len(z) + 1 \in 1..Len(y)
      BY <1>1
    <3> QED BY <1>1, <2>1, <3>1
  <2>2. CASE o # x
    <3>1. h[o].live /\ (h[o].pushed \/ h[o].rc = 0)
      BY <1>6, <2>2
    <3>2. PICK i \in 1..Len(z) : z[i] = o
      BY <1>6, <3>1 DEF TableOK
    <3>3. i \in 1..Len(y)
      BY <1>1
    <3> QED BY <1>2, <3>2, <3>3
  <2> QED BY <2>1, <2>2
<1> QED BY <1>4, <1>5, <1>6 DEF TableOK, y

\* set! and Array:set keep it.
LEMMA AssignKeepsTable ==
  ASSUME NEW h \in Heaps, NEW z \in Seq(Objects), NEW new \in References, NEW old \in References,
         NEW g \in Heaps, NEW y \in Seq(Objects), NEW e \in BOOLEAN,
         NEW f, ~f,
         TableOK(h, z, Len(z), {}, f), Assigned(h, z, f, new, old, g, y, e),
         old # Null => h[old].live, old # Null => h[old].rc > 0
  PROVE  TableOK(g, y, Len(y), {}, e)
<1>1. \A i \in 1..Len(z) : z[i] \in Objects
  OBVIOUS
<1>2. \A o \in Objects : h[o].rc \in Nat /\ g[o].rc \in Nat
  BY DEF Heaps, Records
<1>3. \A o \in Objects : g[o].live = h[o].live
  BY DEF Assigned, SameObjects
<1>4. \A o \in Objects : o # old /\ g[o].rc = 0 => h[o].rc = 0
  BY <1>2 DEF Assigned, One
<1>5. CASE /\ y = z /\ e = f
           /\ \A o \in Objects : g[o].pushed = h[o].pushed
           /\ old = Null \/ g[old].rc # 0 \/ h[old].pushed
  <2>1. \A i \in 1..Len(z) : g[z[i]].live /\ g[z[i]].pushed
    BY <1>1, <1>3, <1>5 DEF TableOK
  <2>2. ASSUME NEW o \in Objects, g[o].live, g[o].pushed \/ g[o].rc = 0
        PROVE  \E i \in 1..Len(z) : z[i] = o
    <3>1. h[o].live /\ (h[o].pushed \/ h[o].rc = 0)
      BY <1>3, <1>4, <1>5, <2>2, NullIsNoObject
    <3> QED BY <3>1 DEF TableOK
  <2>3. \A i, j \in 1..Len(z) : z[i] = z[j] => i = j
    BY DEF TableOK
  <2> QED BY <1>5, <2>1, <2>2, <2>3 DEF TableOK
<1>6. CASE y = z /\ e = TRUE /\ \A o \in Objects : g[o].pushed = h[o].pushed
  <2>1. \A i \in 1..Len(z) : g[z[i]].live /\ g[z[i]].pushed
    BY <1>1, <1>3, <1>6 DEF TableOK
  <2> QED BY <1>6, <2>1 DEF TableOK
<1>7. CASE /\ old # Null /\ ~h[old].pushed /\ Len(z) < ZctSize /\ y = Append(z, old) /\ e = f
           /\ \A o \in Objects : g[o].pushed = IF o = old THEN TRUE ELSE h[o].pushed
  <2>1. old \in Objects
    BY <1>7 DEF References
  <2>2. \A i \in 1..Len(z) : z[i] # old
    BY <1>7 DEF TableOK
  <2>3. g[old].live
    BY <1>3, <1>7, <2>1
  <2>4. TableOK(g, Append(z, old), Len(Append(z, old)), {}, f)
    BY <1>1, <1>3, <1>4, <1>7, <2>1, <2>2, <2>3, TableGrows
  <2> QED BY <1>7, <2>4
<1> QED BY <1>5, <1>6, <1>7 DEF Assigned

-----------------------------------------------------------------------------
(* The stack.                                                              *)

Frames == [op : Operators \cup {Source}, refs : SUBSET Objects, arg : References,
           todo : Seq(Operators)]

\* What the locals of a frame refer to, in a heap whose live objects are L.
FrameOK(f, L) ==
  /\ f \in Frames /\ f.refs \subseteq L /\ f.arg \in f.refs \cup {Null}

\* The outermost frame is the source's, and has no reference; the others are operators'.
StackOK(s, L) ==
  /\ s \in Seq(Frames)
  /\ \A i \in 1..Len(s) : FrameOK(s[i], L)
  /\ Len(s) > 0 => s[1].op = Source /\ s[1].refs = {}
  /\ \A i \in 1..Len(s) : i > 1 => s[i].op \in Operators

\* The innermost frame changes.
LEMMA SetTopOK ==
  ASSUME NEW s, NEW L, StackOK(s, L), Len(s) > 0, NEW f, FrameOK(f, L), f.op = s[Len(s)].op,
         Len(s) = 1 => f.refs = {}
  PROVE  /\ StackOK([s EXCEPT ![Len(s)] = f], L)
         /\ Len([s EXCEPT ![Len(s)] = f]) = Len(s)
<1> DEFINE u == [s EXCEPT ![Len(s)] = f]
<1>1. s \in Seq(Frames) /\ Len(s) \in Nat
  BY DEF StackOK
<1>2. u \in Seq(Frames) /\ Len(u) = Len(s)
  BY <1>1 DEF FrameOK
<1>3. \A i \in 1..Len(s) : u[i] = IF i = Len(s) THEN f ELSE s[i]
  BY <1>1
<1> HIDE DEF u
<1>4. \A i \in 1..Len(u) : FrameOK(u[i], L)
  BY <1>2, <1>3 DEF StackOK
<1>5. u[1].op = Source /\ u[1].refs = {}
  <2>1. s[1].op = Source /\ s[1].refs = {} /\ 1 \in 1..Len(s)
    BY <1>1 DEF StackOK
  <2>2. u[1] = IF Len(s) = 1 THEN f ELSE s[1]
    BY <1>3, <2>1
  <2> QED BY <2>1, <2>2
<1>6. \A i \in 1..Len(u) : i > 1 => u[i].op \in Operators
  BY <1>2, <1>3 DEF StackOK
<1>7. StackOK(u, L)
  BY <1>2, <1>4, <1>5, <1>6 DEF StackOK
<1> QED BY <1>2, <1>7 DEF u

\* An operator is called.
LEMMA PushFrameOK ==
  ASSUME NEW s, NEW L, StackOK(s, L), Len(s) > 0, NEW f, FrameOK(f, L), f.op \in Operators
  PROVE  StackOK(Append(s, f), L) /\ Len(Append(s, f)) = Len(s) + 1
<1> DEFINE u == Append(s, f)
<1>1. s \in Seq(Frames) /\ Len(s) \in Nat
  BY DEF StackOK
<1>2. u \in Seq(Frames) /\ Len(u) = Len(s) + 1
  BY <1>1 DEF FrameOK
<1>3. \A i \in 1..Len(u) : u[i] = IF i = Len(u) THEN f ELSE s[i]
  BY <1>1
<1> HIDE DEF u
<1>4. \A i \in 1..Len(u) : FrameOK(u[i], L)
  BY <1>1, <1>2, <1>3 DEF StackOK
<1>5. u[1].op = Source /\ u[1].refs = {}
  BY <1>1, <1>2, <1>3 DEF StackOK
<1>6. \A i \in 1..Len(u) : i > 1 => u[i].op \in Operators
  BY <1>1, <1>2, <1>3 DEF StackOK
<1>7. StackOK(u, L)
  BY <1>2, <1>4, <1>5, <1>6 DEF StackOK
<1> QED BY <1>2, <1>7 DEF u

\* An operator returns.
LEMMA PopFrameOK ==
  ASSUME NEW s, NEW L, StackOK(s, L), Len(s) > 1
  PROVE  StackOK(SubSeq(s, 1, Len(s) - 1), L) /\ Len(SubSeq(s, 1, Len(s) - 1)) = Len(s) - 1
<1> DEFINE u == SubSeq(s, 1, Len(s) - 1)
<1>1. s \in Seq(Frames) /\ Len(s) \in Nat
  BY DEF StackOK
<1>2. u \in Seq(Frames) /\ Len(u) = Len(s) - 1
  BY <1>1
<1>3. \A i \in 1..Len(u) : u[i] = s[i]
  BY <1>1
<1> HIDE DEF u
<1>4. \A i \in 1..Len(u) : FrameOK(u[i], L)
  BY <1>1, <1>2, <1>3 DEF StackOK
<1>5. u[1].op = Source /\ u[1].refs = {}
  BY <1>1, <1>2, <1>3 DEF StackOK
<1>6. \A i \in 1..Len(u) : i > 1 => u[i].op \in Operators
  BY <1>1, <1>2, <1>3 DEF StackOK
<1>7. StackOK(u, L)
  BY <1>2, <1>4, <1>5, <1>6 DEF StackOK
<1> QED BY <1>2, <1>7 DEF u

\* More live objects do no harm to the locals.
LEMMA StackMonotone ==
  ASSUME NEW s, NEW L, NEW M, StackOK(s, L), L \subseteq M
  PROVE  StackOK(s, M)
  BY DEF StackOK, FrameOK

\* The source alone has no reference, and fewer live objects do no harm to it.
LEMMA SourceAlone ==
  ASSUME NEW s, NEW L, NEW M, StackOK(s, L), Len(s) = 1
  PROVE  StackOK(s, M)
<1>1. \A i \in 1..Len(s) : i = 1
  BY DEF StackOK
<1>2. FrameOK(s[1], L) /\ s[1].refs = {}
  BY DEF StackOK
<1>3. FrameOK(s[1], M)
  BY <1>2 DEF FrameOK
<1> QED BY <1>1, <1>3 DEF StackOK

-----------------------------------------------------------------------------
(* The invariant.                                                          *)

MemoryInv ==
  /\ heap \in Heaps /\ CellsOK(heap)
  /\ zct \in Seq(Objects) /\ Len(zct) <= ZctSize /\ failed \in BOOLEAN
  /\ state \in [Operators -> References]
  /\ \A op \in Operators : state[op] \in Holds[op] \cup {Null}
  /\ RefsLive(heap, state) /\ Exact(heap, state) /\ Ranked(heap)

StackInv ==
  /\ StackOK(stack, LiveIn(heap))
  /\ depth = IF Len(stack) = 0 THEN 0 ELSE Len(stack) - 1

BlastInv ==
  /\ blasting \in BOOLEAN
  /\ blasting => scan \in 0..Len(zct) /\ Len(stack) = 1 /\ ~failed
  /\ ~blasting => scan = 0 /\ tofree = {}
  /\ ~blasting /\ Len(stack) < 2 => zct = <<>> /\ ~failed

Left == IF blasting THEN scan ELSE Len(zct)
TableInv == tofree \subseteq Objects /\ TableOK(heap, zct, Left, tofree, failed)

IInv == MemoryInv /\ StackInv /\ BlastInv /\ TableInv

\* It holds before the first firing.
LEMMA InitOK == Init => IInv
<1> SUFFICES ASSUME Init PROVE IInv
  OBVIOUS
<1>1. \A o \in Objects : heap[o] = [live |-> FALSE, rc |-> 0, pushed |-> FALSE, cells |-> <<>>]
  BY DEF Init
<1>2. heap \in Heaps
  <2>0. <<>> \in Seq(References)
    OBVIOUS
  <2>1. \A o \in Objects : heap[o] \in Records
    <3> DEFINE r == [live |-> FALSE, rc |-> 0, pushed |-> FALSE, cells |-> <<>>]
    <3>1. r \in Records
      BY <2>0 DEF Records
    <3> HIDE DEF r
    <3>2. \A o \in Objects : heap[o] = r
      BY <1>1 DEF r
    <3> QED BY <3>1, <3>2
  <2>2. heap = [o \in Objects |-> heap[o]]
    BY DEF Init
  <2> QED BY <2>1, <2>2 DEF Heaps
<1>3. \A o \in Objects : ~heap[o].live
  BY <1>1
<1>4. CellsOK(heap) /\ RefsLive(heap, state) /\ Exact(heap, state)
  BY <1>3 DEF CellsOK, RefsLive, Exact, Init
<1>5. Ranked(heap)
  <2>1. [o \in Objects |-> {}] \in [Objects -> SUBSET Objects]
    OBVIOUS
  <2>2. Conses \subseteq Objects
    BY DEF Objects
  <2>3. Ranking(heap, [o \in Objects |-> {}])
    BY <1>3, <2>2 DEF Ranking
  <2> QED BY <2>1, <2>3 DEF Ranked
<1>6. MemoryInv
  <2>1. zct \in Seq(Objects) /\ Len(zct) <= ZctSize /\ failed \in BOOLEAN
    <3>1. zct = <<>> /\ failed = FALSE
      BY DEF Init
    <3>2. ZctSize \in Nat
      BY HeapAssumption DEF HeapAssumption
    <3>3. <<>> \in Seq(Objects) /\ Len(<<>>) = 0
      OBVIOUS
    <3>4. Len(zct) <= ZctSize
      BY <3>1, <3>2, <3>3
    <3>5. zct \in Seq(Objects)
      BY <3>1, <3>3
    <3>6. failed \in BOOLEAN
      BY <3>1
    <3> QED BY <3>4, <3>5, <3>6
  <2>2. state \in [Operators -> References]
    BY DEF References, Init
  <2> QED BY <1>2, <1>4, <1>5, <2>1, <2>2 DEF MemoryInv, Init
<1>7. StackInv
  BY DEF StackInv, StackOK, Init
<1>8. BlastInv
  BY DEF BlastInv, Init
<1>9. TableInv
  BY <1>3 DEF TableInv, TableOK, Left, Init
<1> QED BY <1>6, <1>7, <1>8, <1>9 DEF IInv

-----------------------------------------------------------------------------
(* The steps that leave the memory alone.                                  *)

\* Nothing moves in the heap; the table may change.
LEMMA HeapUnchanged ==
  ASSUME MemoryInv, UNCHANGED <<heap, state>>,
         zct' \in Seq(Objects), Len(zct') <= ZctSize, failed' \in BOOLEAN
  PROVE  MemoryInv' /\ LiveIn(heap)' = LiveIn(heap)
<1>1. LiveIn(heap)' = LiveIn(heap)
  BY DEF LiveIn
<1>2. RefsLive(heap, state)'
  BY DEF MemoryInv, RefsLive, LiveIn
<1>3. CellsOK(heap)'
  BY DEF MemoryInv, CellsOK, Contents
<1>4. Exact(heap, state)'
  BY DEF MemoryInv, Exact, StateRefs, CellRefs, LiveIn
<1>5. Ranked(heap)'
  BY DEF MemoryInv, Ranked, Ranking, LiveIn
<1>6. heap' \in Heaps
  BY DEF MemoryInv
<1> QED BY <1>1, <1>2, <1>3, <1>4, <1>5, <1>6 DEF MemoryInv

\* Nothing moves in memory.
LEMMA MemoryUnchanged ==
  ASSUME MemoryInv, UNCHANGED <<heap, zct, failed, state>>
  PROVE  MemoryInv' /\ LiveIn(heap)' = LiveIn(heap)
  BY HeapUnchanged DEF MemoryInv

\* The blasting is no part of the steps of operators.
LEMMA TableUnchanged ==
  ASSUME TableInv, UNCHANGED <<heap, zct, failed, blasting, scan, tofree>>
  PROVE  TableInv'
  BY DEF TableInv, TableOK, Left

\* The innermost frame.
LEMMA TopIs ==
  ASSUME StackInv, stack # <<>>
  PROVE  /\ Len(stack) \in Nat /\ Len(stack) > 0 /\ FrameOK(Top, LiveIn(heap))
         /\ Top = stack[Len(stack)] /\ depth = Len(stack) - 1
         /\ Len(stack) = 1 => Top.op = Source /\ Top.refs = {}
         /\ Len(stack) > 1 => Top.op \in Operators
<1>1. stack \in Seq(Frames)
  BY DEF StackInv, StackOK
<1>2. Len(stack) \in Nat /\ Len(stack) > 0
  BY <1>1
<1>3. Len(stack) \in 1..Len(stack)
  BY <1>2
<1> QED BY <1>2, <1>3 DEF StackInv, StackOK, Top

\* When an operator runs, the source is below it and nothing is blasted.
LEMMA RunningIs ==
  ASSUME IInv, NEW op \in Operators, Running(op)
  PROVE  /\ ~failed /\ ~blasting /\ scan = 0 /\ tofree = {}
         /\ Len(stack) \in Nat /\ Len(stack) > 1 /\ depth = Len(stack) - 1
         /\ FrameOK(Top, LiveIn(heap)) /\ Top = stack[Len(stack)] /\ Top.op = op
<1>1. ~failed /\ ~blasting /\ stack # <<>> /\ Top.op = op
  BY DEF Running
<1>2. scan = 0 /\ tofree = {}
  BY <1>1 DEF IInv, BlastInv
<1>3. op # Source
  BY HeapAssumption DEF HeapAssumption
<1>4. StackInv
  BY DEF IInv
<1>5. FrameOK(Top, LiveIn(heap)) /\ Top = stack[Len(stack)]
  BY <1>1, <1>4, TopIs
<1>6. Len(stack) \in Nat /\ Len(stack) > 1 /\ depth = Len(stack) - 1
  BY <1>1, <1>3, <1>4, TopIs
<1> QED BY <1>1, <1>2, <1>5, <1>6

\* A timer fires: the stack has the source only.
LEMMA SourceFiresKeeps ==
  ASSUME IInv, ~Foreign, SourceFires
  PROVE  IInv'
<1>1. /\ ~failed /\ ~blasting /\ stack = <<>> /\ stack' = <<Frame(Source, Null, Entry)>>
      /\ UNCHANGED <<heap, zct, failed, state, depth, blasting, scan, tofree>>
  BY DEF SourceFires, blastVars
<1>2. MemoryInv' /\ LiveIn(heap)' = LiveIn(heap)
  BY <1>1, MemoryUnchanged DEF IInv
<1>3. TableInv'
  BY <1>1, TableUnchanged DEF IInv
<1> DEFINE f == Frame(Source, Null, Entry)
<1>4. f \in Frames /\ f.op = Source /\ f.refs = {} /\ f.arg = Null
  BY HeapAssumption DEF Frame, Frames, References, HeapAssumption
<1> HIDE DEF f
<1>5. FrameOK(f, LiveIn(heap))
  BY <1>4 DEF FrameOK
<1>6. StackOK(<<f>>, LiveIn(heap)) /\ Len(<<f>>) = 1
  BY <1>4, <1>5 DEF StackOK
<1>7. stack' = <<f>> /\ depth = 0
  BY <1>1 DEF f, IInv, StackInv
<1>8. StackInv'
  BY <1>1, <1>2, <1>6, <1>7 DEF StackInv
<1>9. BlastInv'
  BY <1>1, <1>6, <1>7 DEF IInv, BlastInv
<1> QED BY <1>2, <1>3, <1>8, <1>9 DEF IInv

\* The source returns to the main loop.
LEMMA SourceDoneKeeps ==
  ASSUME IInv, SourceDone
  PROVE  IInv'
<1>1. /\ ~failed /\ ~blasting /\ stack # <<>> /\ stack' = <<>> /\ Top.op = Source
      /\ UNCHANGED <<heap, zct, failed, state, depth, blasting, scan, tofree>>
  BY DEF SourceDone, Running, mem, blastVars
<1>2. MemoryInv' /\ LiveIn(heap)' = LiveIn(heap)
  BY <1>1, MemoryUnchanged DEF IInv
<1>3. TableInv'
  BY <1>1, TableUnchanged DEF IInv
<1>4. Len(stack) = 1 /\ depth = 0
  <2>1. Source \notin Operators
    BY HeapAssumption DEF HeapAssumption
  <2>2. StackInv
    BY DEF IInv
  <2>3. ~(Len(stack) > 1)
    BY <1>1, <2>1, <2>2, TopIs
  <2> QED BY <1>1, <2>2, <2>3, TopIs
<1>5. StackOK(<<>>, LiveIn(heap)) /\ Len(<<>>) = 0
  BY DEF StackOK
<1>6. StackInv'
  BY <1>1, <1>2, <1>4, <1>5 DEF StackInv
<1>7. BlastInv'
  BY <1>1, <1>4, <1>5 DEF IInv, BlastInv
<1> QED BY <1>2, <1>3, <1>6, <1>7 DEF IInv

\* The callee gets a reference its caller has.
LEMMA CallNextKeeps ==
  ASSUME IInv, CallNext
  PROVE  IInv'
<1> DEFINE f == [Top EXCEPT !.todo = Tail(@)]
           k == Frame(Head(Top.todo), Top.arg, <<>>)
<1>1. /\ ~failed /\ ~blasting /\ stack # <<>> /\ Top.todo # <<>> /\ depth' = depth + 1
      /\ UNCHANGED <<heap, zct, failed, state, blasting, scan, tofree>>
  BY DEF CallNext, mem, blastVars
<1>2. MemoryInv' /\ LiveIn(heap)' = LiveIn(heap)
  BY <1>1, MemoryUnchanged DEF IInv
<1>3. TableInv'
  BY <1>1, TableUnchanged DEF IInv
<1>4. /\ Len(stack) \in Nat /\ Len(stack) > 0 /\ depth = Len(stack) - 1
      /\ FrameOK(Top, LiveIn(heap)) /\ Top = stack[Len(stack)]
      /\ Len(stack) = 1 => Top.refs = {}
  BY <1>1, TopIs DEF IInv
<1>5. Top \in Frames /\ Top.todo \in Seq(Operators) /\ Top.arg \in References
  BY <1>4 DEF FrameOK, Frames
<1>6. Tail(Top.todo) \in Seq(Operators) /\ Head(Top.todo) \in Operators
  BY <1>1, <1>5
<1>7. f \in Frames /\ f.op = Top.op /\ f.refs = Top.refs /\ f.arg = Top.arg
  BY <1>5, <1>6 DEF Frames
<1>8. stack' = Append([stack EXCEPT ![Len(stack)] = f], k)
  BY <1>4 DEF CallNext
<1>9. k.op = Head(Top.todo) /\ k.refs = {Top.arg} \ {Null} /\ k.arg = Top.arg /\ k.todo = <<>>
  BY DEF Frame
<1>10. k \in Frames
  <2>1. {Top.arg} \ {Null} \in SUBSET Objects
    BY <1>5 DEF References
  <2>2. <<>> \in Seq(Operators)
    OBVIOUS
  <2>3. Head(Top.todo) \in Operators \cup {Source}
    BY <1>6
  <2> QED BY <1>5, <2>1, <2>2, <2>3 DEF Frame, Frames
<1> HIDE DEF f, k
<1>11. FrameOK(f, LiveIn(heap))
  BY <1>4, <1>7 DEF FrameOK
<1>12. FrameOK(k, LiveIn(heap))
  BY <1>4, <1>9, <1>10 DEF FrameOK
<1> DEFINE s == [stack EXCEPT ![Len(stack)] = f]
<1>13. StackOK(s, LiveIn(heap)) /\ Len(s) = Len(stack)
  BY <1>4, <1>7, <1>11, SetTopOK DEF IInv, StackInv
<1> HIDE DEF s
<1>14. StackOK(Append(s, k), LiveIn(heap)) /\ Len(Append(s, k)) = Len(stack) + 1
  BY <1>4, <1>6, <1>9, <1>12, <1>13, PushFrameOK
<1>15. stack' = Append(s, k)
  BY <1>8 DEF s
<1>16. StackInv'
  BY <1>1, <1>2, <1>4, <1>14, <1>15 DEF StackInv
<1>17. Len(stack') = Len(stack) + 1
  BY <1>14, <1>15
<1>18. BlastInv'
  BY <1>1, <1>4, <1>17 DEF IInv, BlastInv
<1> QED BY <1>2, <1>3, <1>16, <1>18 DEF IInv

\* A running operator changes its own frame; L is what is live afterwards.
LEMMA TopChanges ==
  ASSUME IInv, NEW op \in Operators, Running(op), NEW L, LiveIn(heap) \subseteq L,
         NEW f, f \in Frames, f.op = op, f.refs \subseteq L, f.arg \in f.refs \cup {Null},
         SetTop(f)
  PROVE  StackOK(stack', L) /\ Len(stack') = Len(stack)
<1>1. /\ Len(stack) \in Nat /\ Len(stack) > 1
      /\ Top = stack[Len(stack)] /\ Top.op = op
  BY RunningIs
<1>2. StackOK(stack, L)
  BY StackMonotone DEF IInv, StackInv
<1>3. FrameOK(f, L)
  BY DEF FrameOK
<1>4. stack' = [stack EXCEPT ![Len(stack)] = f]
  BY DEF SetTop
<1>5. Len(stack) > 0 /\ Len(stack) # 1 /\ f.op = stack[Len(stack)].op
  BY <1>1
<1> QED BY <1>2, <1>3, <1>4, <1>5, SetTopOK

\* A running operator gets one more reference, to what is live afterwards.
LEMMA LocalAdded ==
  ASSUME IInv, NEW op \in Operators, Running(op),
         NEW L, LiveIn(heap) \subseteq L, L \subseteq Objects,
         NEW o, o \in L \cup {Null}, AddLocal(o)
  PROVE  StackOK(stack', L) /\ Len(stack') = Len(stack)
<1> DEFINE f == [Top EXCEPT !.refs = @ \cup ({o} \ {Null})]
<1>1. FrameOK(Top, LiveIn(heap)) /\ Top.op = op
  BY RunningIs
<1>2. Top \in Frames /\ Top.refs \subseteq Objects
  BY <1>1 DEF FrameOK, Frames
<1>3. f \in Frames /\ f.op = op /\ f.arg = Top.arg /\ f.refs = Top.refs \cup ({o} \ {Null})
  BY <1>1, <1>2 DEF Frames
<1>4. SetTop(f)
  BY DEF AddLocal
<1> HIDE DEF f
<1>5. f.refs \subseteq L /\ f.arg \in f.refs \cup {Null}
  BY <1>1, <1>3 DEF FrameOK
<1> QED BY <1>3, <1>4, <1>5, TopChanges

\* The locals of the running operator, and its state, refer to live objects.
LEMMA LocalsAre ==
  ASSUME IInv, NEW op \in Operators, Running(op)
  PROVE  /\ Top.refs \subseteq LiveIn(heap) /\ Top.refs \subseteq Objects
         /\ Locals \subseteq LiveIn(heap) \cup {Null}
         /\ state[op] \in LiveIn(heap) \cup {Null}
         /\ LiveIn(heap) \subseteq Objects
<1>1. FrameOK(Top, LiveIn(heap))
  BY RunningIs
<1>2. LiveIn(heap) \subseteq Objects
  BY DEF LiveIn
<1>3. Top.refs \subseteq LiveIn(heap)
  BY <1>1 DEF FrameOK
<1>4. state[op] \in LiveIn(heap) \cup {Null}
  BY DEF IInv, MemoryInv, RefsLive
<1> QED BY <1>2, <1>3, <1>4 DEF Locals

\* emit: the element is one of the locals.
LEMMA EmitKeeps ==
  ASSUME IInv, NEW op \in Operators, Emit(op)
  PROVE  IInv'
<1>1. Running(op) /\ UNCHANGED <<heap, zct, failed, state, depth, blasting, scan, tofree>>
  BY DEF Emit, mem, blastVars
<1>2. MemoryInv' /\ LiveIn(heap)' = LiveIn(heap)
  BY <1>1, MemoryUnchanged DEF IInv
<1>3. TableInv'
  BY <1>1, TableUnchanged DEF IInv
<1>4. PICK v \in Locals : SetTop([Top EXCEPT !.arg = v, !.todo = Down[op]])
  BY DEF Emit
<1> DEFINE f == [Top EXCEPT !.arg = v, !.todo = Down[op]]
<1>5. /\ Len(stack) \in Nat /\ Len(stack) > 1 /\ depth = Len(stack) - 1
      /\ FrameOK(Top, LiveIn(heap)) /\ Top.op = op
  BY <1>1, RunningIs
<1>6. Top \in Frames /\ v \in References /\ Down[op] \in Seq(Operators)
  BY <1>1, <1>5, LocalsAre, HeapAssumption DEF FrameOK, HeapAssumption, References
<1>7. f \in Frames /\ f.op = op /\ f.refs = Top.refs /\ f.arg = v
  BY <1>5, <1>6 DEF Frames
<1> HIDE DEF f
<1>8. f.refs \subseteq LiveIn(heap) /\ f.arg \in f.refs \cup {Null}
  BY <1>5, <1>7 DEF FrameOK, Locals
<1>9. SetTop(f)
  BY <1>4 DEF f
<1>10. StackOK(stack', LiveIn(heap)) /\ Len(stack') = Len(stack)
  BY <1>1, <1>7, <1>8, <1>9, TopChanges
<1>11. StackInv'
  BY <1>1, <1>2, <1>5, <1>10 DEF StackInv
<1>12. BlastInv'
  BY <1>1, <1>10 DEF IInv, BlastInv
<1> QED BY <1>2, <1>3, <1>11, <1>12 DEF IInv

\* What is read is live, since what holds it is.
LEMMA ReadKeeps ==
  ASSUME IInv, NEW op \in Operators, Read(op)
  PROVE  IInv'
<1>1. Running(op) /\ UNCHANGED <<heap, zct, failed, state, depth, blasting, scan, tofree>>
  BY DEF Read, mem, blastVars
<1>2. MemoryInv' /\ LiveIn(heap)' = LiveIn(heap)
  BY <1>1, MemoryUnchanged DEF IInv
<1>3. TableInv'
  BY <1>1, TableUnchanged DEF IInv
<1>4. PICK v \in {state[op]} \cup UNION {Set(heap[o].cells) : o \in Top.refs} : AddLocal(v)
  BY DEF Read
<1>5. Len(stack) \in Nat /\ Len(stack) > 1 /\ depth = Len(stack) - 1
  BY <1>1, RunningIs
<1>6. v \in LiveIn(heap) \cup {Null}
  <2>1. Top.refs \subseteq LiveIn(heap) /\ state[op] \in LiveIn(heap) \cup {Null}
    BY <1>1, LocalsAre
  <2>2. \A o \in LiveIn(heap) : Set(heap[o].cells) \subseteq LiveIn(heap) \cup {Null}
    BY DEF IInv, MemoryInv, RefsLive, LiveIn
  <2> QED BY <1>4, <2>1, <2>2
<1>7. LiveIn(heap) \subseteq Objects
  BY DEF LiveIn
<1>10. StackOK(stack', LiveIn(heap)) /\ Len(stack') = Len(stack)
  BY <1>1, <1>4, <1>6, <1>7, LocalAdded
<1>11. StackInv'
  BY <1>1, <1>2, <1>5, <1>10 DEF StackInv
<1>12. BlastInv'
  BY <1>1, <1>10 DEF IInv, BlastInv
<1> QED BY <1>2, <1>3, <1>11, <1>12 DEF IInv

\* Only the return to the source starts the blasting, and the source has no reference.
LEMMA IterEndKeeps ==
  ASSUME IInv, NEW op \in Operators, IterEnd(op)
  PROVE  IInv'
<1>1. /\ Running(op) /\ UNCHANGED <<heap, zct, failed, state, tofree>>
      /\ stack' = SubSeq(stack, 1, Len(stack) - 1) /\ depth' = depth - 1
      /\ blasting' = (depth <= 1) /\ scan' = IF depth <= 1 THEN Len(zct) ELSE scan
  BY DEF IterEnd, mem
<1>2. MemoryInv' /\ LiveIn(heap)' = LiveIn(heap)
  BY <1>1, MemoryUnchanged DEF IInv
<1>3. /\ Len(stack) \in Nat /\ Len(stack) > 1 /\ depth = Len(stack) - 1
      /\ ~failed /\ ~blasting /\ scan = 0 /\ tofree = {}
  BY <1>1, RunningIs
<1>4. StackOK(stack', LiveIn(heap)) /\ Len(stack') = Len(stack) - 1
  BY <1>1, <1>3, PopFrameOK DEF IInv, StackInv
<1>5. StackInv'
  BY <1>1, <1>2, <1>3, <1>4 DEF StackInv
<1>6. Len(zct) \in Nat
  BY DEF IInv, MemoryInv
<1>7. Left = Len(zct) /\ Left' = Len(zct)
  BY <1>1, <1>3 DEF Left
<1>8. TableInv'
  BY <1>1, <1>3, <1>7 DEF IInv, TableInv, TableOK
<1>9. BlastInv'
  <2>1. CASE depth <= 1
    <3>1. blasting' = TRUE /\ scan' = Len(zct') /\ failed' = failed
      BY <1>1, <2>1
    <3>2. Len(stack') = 1
      BY <1>3, <1>4, <2>1
    <3>3. Len(zct') \in Nat
      BY <1>1, <1>6
    <3> QED BY <1>3, <3>1, <3>2, <3>3 DEF BlastInv
  <2>2. CASE ~(depth <= 1)
    <3>3. ~blasting' /\ blasting' \in BOOLEAN
      <4> DEFINE b == depth <= 1
      <4>1. blasting' = b /\ ~b
        BY <1>1, <2>2
      <4>2. ~blasting'
        BY <4>1, Zenon
      <4>3. blasting' \in BOOLEAN
        BY <4>1, SMT
      <4> QED BY <4>2, <4>3
    <3>4. scan' = 0 /\ tofree' = {}
      BY <1>1, <1>3, <2>2
    <3>1. blasting' \in BOOLEAN /\ ~blasting' /\ scan' = 0 /\ tofree' = {}
      BY <3>3, <3>4
    <3>2. ~(Len(stack') < 2)
      BY <1>3, <1>4, <2>2
    <3> QED BY <3>1, <3>2 DEF BlastInv
  <2> QED BY <2>1, <2>2
<1> QED BY <1>2, <1>5, <1>8, <1>9 DEF IInv

-----------------------------------------------------------------------------
(* The steps of operators that change the memory.                          *)

\* What a live object is referred to by has been counted.
LEMMA ReferredIsCounted ==
  ASSUME MemoryInv, NEW x \in References, x # Null,
         \/ \E op \in Operators : state[op] = x
         \/ \E p \in Objects : heap[p].live /\ x \in Set(heap[p].cells)
  PROVE  x \in Objects /\ heap[x].live /\ heap[x].rc > 0
<1>1. x \in LiveIn(heap)
  BY DEF MemoryInv, RefsLive
<1>2. x \in Objects /\ heap[x].live
  BY <1>1 DEF LiveIn
<1>3. heap[x].rc \in Nat /\ heap[x].rc # 0
  BY <1>2, ZeroMeansNone DEF MemoryInv
<1> QED BY <1>2, <1>3

\* The memory after an assignment that follows the change from heap to h and from state to
\* su.
LEMMA AssignKeepsMemory ==
  ASSUME MemoryInv, ~failed, tofree = {}, TableOK(heap, zct, Len(zct), {}, failed),
         NEW h \in Heaps, NEW su \in [Operators -> References],
         NEW new \in LiveIn(heap) \cup {Null}, NEW old \in References,
         old # Null => heap[old].live /\ heap[old].rc > 0,
         \A o \in Objects : /\ h[o].live = heap[o].live /\ h[o].rc = heap[o].rc
                            /\ h[o].pushed = heap[o].pushed,
         CellsOK(h), RefsLive(h, su), Ranked(h),
         \A op \in Operators : su[op] \in Holds[op] \cup {Null},
         \A o \in Objects : Cardinality(StateRefs(su, o)) + Cardinality(CellRefs(h, o))
           = Cardinality(StateRefs(state, o)) + Cardinality(CellRefs(heap, o))
               + One(new, o) - One(old, o),
         Memory(Assign(<<h, zct, failed>>, new, old)), state' = su
  PROVE  /\ MemoryInv' /\ LiveIn(heap)' = LiveIn(heap)
         /\ TableOK(heap', zct', Len(zct'), {}, failed')
<1>1. new \in References
  BY DEF LiveIn, References
<1>2. zct \in Seq(Objects) /\ Len(zct) <= ZctSize /\ failed \in BOOLEAN
  BY DEF MemoryInv
<1>3. old # Null => old \in Objects /\ h[old].live /\ h[old].rc > 0
  BY DEF References
<1>4. PICK g \in Heaps, y \in Seq(Objects), e \in BOOLEAN :
        /\ Assign(<<h, zct, failed>>, new, old) = <<g, y, e>>
        /\ Assigned(h, zct, failed, new, old, g, y, e)
  BY <1>1, <1>2, <1>3, AssignIs
<1>5. heap' = g /\ zct' = y /\ failed' = e
  BY <1>4 DEF Memory
<1>6. SameObjects(h, g) /\ \A o \in Objects : g[o].rc = h[o].rc + One(new, o) - One(old, o)
  BY <1>4 DEF Assigned
<1>7. Len(y) <= ZctSize
  <2>1. ZctSize \in Nat /\ Len(zct) \in Nat
    BY <1>2, HeapAssumption DEF HeapAssumption
  <2>2. y = zct \/ (\E x : y = Append(zct, x) /\ x \in Objects /\ Len(zct) < ZctSize)
    BY <1>4 DEF Assigned, References
  <2> QED BY <1>2, <2>1, <2>2
<1>8. CellsOK(g) /\ RefsLive(g, su) /\ LiveIn(g) = LiveIn(heap)
  BY <1>6 DEF CellsOK, RefsLive, LiveIn, SameObjects
<1>9. Exact(g, su)
  <2> SUFFICES ASSUME NEW o \in Objects, g[o].live
               PROVE  g[o].rc = Cardinality(StateRefs(su, o)) + Cardinality(CellRefs(g, o))
    BY DEF Exact
  <2>1. heap[o].live
    BY <1>6, SameCells DEF SameObjects
  <2>2. heap[o].rc = Cardinality(StateRefs(state, o)) + Cardinality(CellRefs(heap, o))
    BY <2>1 DEF MemoryInv, Exact
  <2>3. CellRefs(g, o) = CellRefs(h, o)
    BY <1>6, SameCells
  <2>4. g[o].rc = heap[o].rc + One(new, o) - One(old, o)
    BY <1>6
  <2> QED BY <2>2, <2>3, <2>4
<1>10. Ranked(g)
  <2>1. \A o \in Objects : g[o].live = h[o].live /\ g[o].cells = h[o].cells
    BY <1>6 DEF SameObjects
  <2>2. Conses \subseteq Objects
    BY DEF Objects
  <2> QED BY <2>1, <2>2, RankSame
<1>11. MemoryInv'
  BY <1>5, <1>7, <1>8, <1>9, <1>10 DEF MemoryInv
<1>12. TableOK(h, zct, Len(zct), {}, failed)
  <2>1. \A i \in 1..Len(zct) : zct[i] \in Objects
    BY <1>2
  <2> QED BY <2>1 DEF TableOK
<1>13. TableOK(g, y, Len(y), {}, e)
  BY <1>1, <1>2, <1>3, <1>4, <1>12, AssignKeepsTable
<1> QED BY <1>5, <1>8, <1>11, <1>13

\* set!: what was in the state variable has been counted.
LEMMA SetStateKeeps ==
  ASSUME IInv, NEW op \in Operators, SetState(op)
  PROVE  IInv'
<1>1. Running(op) /\ UNCHANGED <<depth, blasting, scan, tofree>>
  BY DEF SetState, blastVars
<1>2. PICK v \in Locals \cap (Holds[op] \cup {Null}) :
        Memory(Assign(mem, v, state[op])) /\ state' = [state EXCEPT ![op] = v]
  BY DEF SetState
<1>3. AddLocal(state[op])
  BY DEF SetState
<1>4. /\ ~failed /\ ~blasting /\ scan = 0 /\ tofree = {}
      /\ Len(stack) \in Nat /\ Len(stack) > 1 /\ depth = Len(stack) - 1
  BY <1>1, RunningIs
<1>5. v \in LiveIn(heap) \cup {Null} /\ v \in References
  BY <1>1, LocalsAre DEF References
<1>6. MemoryInv /\ heap \in Heaps /\ state \in [Operators -> References]
  BY DEF IInv, MemoryInv
<1> DEFINE su == [state EXCEPT ![op] = v]
<1>7. su \in [Operators -> References]
  BY <1>5, <1>6
<1>8. \A q \in Operators : su[q] = IF q = op THEN v ELSE state[q]
  BY <1>6
<1> HIDE DEF su
<1>9. state[op] \in References
  BY <1>6
<1>10. state[op] # Null => heap[state[op]].live /\ heap[state[op]].rc > 0
  BY <1>6, <1>9, ReferredIsCounted
<1>11. CellsOK(heap) /\ Ranked(heap)
  BY <1>6 DEF MemoryInv
<1>12. RefsLive(heap, su)
  BY <1>5, <1>6, <1>8 DEF MemoryInv, RefsLive
<1>13. \A q \in Operators : su[q] \in Holds[q] \cup {Null}
  BY <1>6, <1>8 DEF MemoryInv
<1>14. \A o \in Objects :
         Cardinality(StateRefs(su, o)) + Cardinality(CellRefs(heap, o))
           = Cardinality(StateRefs(state, o)) + Cardinality(CellRefs(heap, o))
               + One(v, o) - One(state[op], o)
  <2> TAKE o \in Objects
  <2>1. Cardinality(StateRefs(su, o))
          = Cardinality(StateRefs(state, o)) + One(su[op], o) - One(state[op], o)
    BY <1>8, StateMoves
  <2>2. Cardinality(StateRefs(state, o)) \in Nat /\ Cardinality(CellRefs(heap, o)) \in Nat
    BY RefsAreFinite
  <2>3. su[op] = v
    BY <1>8
  <2> QED BY <2>1, <2>2, <2>3 DEF One
<1>15. TableOK(heap, zct, Len(zct), {}, failed)
  BY <1>4 DEF IInv, TableInv, Left
<1>16. Memory(Assign(<<heap, zct, failed>>, v, state[op])) /\ state' = su
  BY <1>2 DEF mem, su
<1>17. /\ MemoryInv' /\ LiveIn(heap)' = LiveIn(heap)
       /\ TableOK(heap', zct', Len(zct'), {}, failed')
  BY <1>4, <1>5, <1>6, <1>7, <1>9, <1>10, <1>11, <1>12, <1>13, <1>14, <1>15, <1>16,
     AssignKeepsMemory
<1>18. StackOK(stack', LiveIn(heap)) /\ Len(stack') = Len(stack)
  BY <1>1, <1>3, LocalsAre, LocalAdded
<1>19. StackInv'
  BY <1>1, <1>4, <1>17, <1>18 DEF StackInv
<1>20. BlastInv'
  BY <1>1, <1>4, <1>18 DEF IInv, BlastInv
<1>21. TableInv'
  BY <1>1, <1>4, <1>17 DEF TableInv, Left
<1> QED BY <1>17, <1>19, <1>20, <1>21 DEF IInv

\* Array:set of one element.
LEMMA ElementSet ==
  ASSUME MemoryInv, NEW t \in Tables, heap[t].live, NEW i \in 1..Width,
         NEW v \in Conses \cup {Null}, v \in LiveIn(heap) \cup {Null}
  PROVE  LET h == [heap EXCEPT ![t].cells[i] = v]
             old == heap[t].cells[i] IN
         /\ h \in Heaps /\ old \in References /\ old \in Set(heap[t].cells)
         /\ \A o \in Objects : /\ h[o].live = heap[o].live /\ h[o].rc = heap[o].rc
                               /\ h[o].pushed = heap[o].pushed
         /\ CellsOK(h) /\ RefsLive(h, state) /\ Ranked(h)
         /\ \A o \in Objects : Cardinality(CellRefs(h, o))
              = Cardinality(CellRefs(heap, o)) + One(v, o) - One(old, o)
<1> DEFINE h == [heap EXCEPT ![t].cells[i] = v]
           c == heap[t].cells
           d == [c EXCEPT ![i] = v]
<1>1. t \in Objects /\ t \notin Leaves /\ t \notin Conses /\ Width \in Nat
  BY HeapAssumption DEF HeapAssumption, Objects
<1>2. heap \in Heaps /\ CellsOK(heap) /\ RefsLive(heap, state) /\ Ranked(heap)
  BY DEF MemoryInv
<1>3. \A o \in Objects : heap[o] \in Records
  BY <1>2 DEF Heaps
<1>4. c \in [1..Width -> Conses \cup {Null}] /\ c \in Contents(t)
  BY <1>1, <1>2 DEF CellsOK, Contents
<1>5. d \in [1..Width -> Conses \cup {Null}]
  BY <1>4
<1>6. d \in Contents(t)
  BY <1>1, <1>5 DEF Contents
<1>7. d \in Seq(References)
  BY <1>1, <1>6, ContentsAre
<1>8. DOMAIN d = DOMAIN c /\ DOMAIN c = 1..Width
      /\ \A j \in DOMAIN c : d[j] = IF j = i THEN v ELSE c[j]
  BY <1>4
<1>9. h = [heap EXCEPT ![t] = [heap[t] EXCEPT !.cells = d]]
  OBVIOUS
<1>10. [heap[t] EXCEPT !.cells = d] \in Records
  BY <1>1, <1>3, <1>7 DEF Records
<1>11. h \in Heaps
  BY <1>2, <1>9, <1>10 DEF Heaps
<1>12. \A o \in Objects : h[o] = IF o = t THEN [heap[t] EXCEPT !.cells = d] ELSE heap[o]
  BY <1>2, <1>9 DEF Heaps
<1> HIDE DEF h, d
<1>13. \A o \in Objects : /\ h[o].live = heap[o].live /\ h[o].rc = heap[o].rc
                          /\ h[o].pushed = heap[o].pushed
  BY <1>1, <1>3, <1>12 DEF Records
<1>14. h[t].cells = d /\ \A o \in Objects : o # t => h[o].cells = heap[o].cells
  BY <1>1, <1>3, <1>12 DEF Records
<1>15. CellsOK(h)
  BY <1>2, <1>6, <1>13, <1>14 DEF CellsOK
<1>16. LiveIn(h) = LiveIn(heap)
  BY <1>13 DEF LiveIn
<1>17. RefsLive(h, state)
  <2>1. Set(d) \subseteq Set(c) \cup {v}
    BY <1>8 DEF Set
  <2>2. Set(c) \subseteq LiveIn(heap) \cup {Null}
    BY <1>1, <1>2 DEF RefsLive
  <2> QED BY <1>2, <1>13, <1>14, <1>16, <2>1, <2>2 DEF RefsLive
<1>18. Ranked(h)
  <2>1. \A o \in Conses : h[o].cells = heap[o].cells
    BY <1>1, <1>14 DEF Objects
  <2> QED BY <1>2, <1>13, <2>1, RankSame
<1>19. i \in 1..(Width + 2)
  BY <1>1
<1>20. \A o \in Objects : Cardinality(CellRefs(h, o))
         = Cardinality(CellRefs(heap, o)) + One(v, o) - One(c[i], o)
  <2> TAKE o \in Objects
  <2>1. h[t].cells[i] = v /\ i \in DOMAIN c /\ DOMAIN h[t].cells = DOMAIN c
        /\ \A j \in DOMAIN c : j # i => h[t].cells[j] = c[j]
    BY <1>8, <1>14
  <2>2. Cardinality(CellRefs(h, o))
          = Cardinality(CellRefs(heap, o)) + One(h[t].cells[i], o) - One(heap[t].cells[i], o)
    <3>1. \A p \in Objects : h[p].live = heap[p].live
      BY <1>13
    <3>2. \A p \in Objects : p # t => h[p].cells = heap[p].cells
      BY <1>14
    <3>3. /\ i \in DOMAIN heap[t].cells /\ DOMAIN h[t].cells = DOMAIN heap[t].cells
          /\ \A j \in DOMAIN heap[t].cells : j # i => h[t].cells[j] = heap[t].cells[j]
      BY <2>1
    <3>4. t \in Objects /\ heap[t].live /\ i \in 1..(Width + 2)
      BY <1>1, <1>19
    <3>5. OneCell(heap, h, t, i)
      BY <3>1, <3>2, <3>3, <3>4 DEF OneCell
    <3> QED BY <3>5, CellMoves
  <2> QED BY <2>1, <2>2
<1>21. c[i] \in References /\ c[i] \in Set(c)
  BY <1>4, <1>8 DEF References, Objects, Set
<1> QED BY <1>11, <1>13, <1>15, <1>17, <1>18, <1>20, <1>21 DEF h

\* Array:set: what was in the element has been counted.
LEMMA SetElementKeeps ==
  ASSUME IInv, NEW op \in Operators, SetElement(op)
  PROVE  IInv'
<1>1. Running(op) /\ UNCHANGED <<state, depth, blasting, scan, tofree>>
  BY DEF SetElement, blastVars
<1>2. PICK t \in Top.refs \cap Tables, i \in 1..Width, v \in Locals \cap (Conses \cup {Null}) :
        /\ Memory(Assign(<<[heap EXCEPT ![t].cells[i] = v], zct, failed>>,
                         v, heap[t].cells[i]))
        /\ AddLocal(heap[t].cells[i])
  BY DEF SetElement
<1> DEFINE h == [heap EXCEPT ![t].cells[i] = v]
           old == heap[t].cells[i]
<1>4. /\ ~failed /\ ~blasting /\ scan = 0 /\ tofree = {}
      /\ Len(stack) \in Nat /\ Len(stack) > 1 /\ depth = Len(stack) - 1
  BY <1>1, RunningIs
<1>5. v \in LiveIn(heap) \cup {Null} /\ t \in LiveIn(heap) /\ heap[t].live /\ t \in Objects
  BY <1>1, LocalsAre DEF LiveIn
<1>6. MemoryInv /\ heap \in Heaps /\ state \in [Operators -> References]
      /\ \A q \in Operators : state[q] \in Holds[q] \cup {Null}
  BY DEF IInv, MemoryInv
<1>7. /\ h \in Heaps /\ old \in References /\ old \in Set(heap[t].cells)
      /\ \A o \in Objects : /\ h[o].live = heap[o].live /\ h[o].rc = heap[o].rc
                            /\ h[o].pushed = heap[o].pushed
      /\ CellsOK(h) /\ RefsLive(h, state) /\ Ranked(h)
      /\ \A o \in Objects : Cardinality(CellRefs(h, o))
           = Cardinality(CellRefs(heap, o)) + One(v, o) - One(old, o)
  BY <1>5, <1>6, ElementSet
<1>3. Memory(Assign(<<h, zct, failed>>, v, old)) /\ AddLocal(old)
  BY <1>2
<1> HIDE DEF h, old
<1>10. old # Null => heap[old].live /\ heap[old].rc > 0
  BY <1>5, <1>6, <1>7, ReferredIsCounted
<1>14. \A o \in Objects :
         Cardinality(StateRefs(state, o)) + Cardinality(CellRefs(h, o))
           = Cardinality(StateRefs(state, o)) + Cardinality(CellRefs(heap, o))
               + One(v, o) - One(old, o)
  <2> TAKE o \in Objects
  <2>2. Cardinality(StateRefs(state, o)) \in Nat /\ Cardinality(CellRefs(heap, o)) \in Nat
    BY RefsAreFinite
  <2> QED BY <1>7, <2>2 DEF One
<1>15. TableOK(heap, zct, Len(zct), {}, failed)
  BY <1>4 DEF IInv, TableInv, Left
<1>16. state' = state
  BY <1>1
<1>17. /\ MemoryInv' /\ LiveIn(heap)' = LiveIn(heap)
       /\ TableOK(heap', zct', Len(zct'), {}, failed')
  BY <1>3, <1>4, <1>5, <1>6, <1>7, <1>10, <1>14, <1>15, <1>16, AssignKeepsMemory
<1>18. StackOK(stack', LiveIn(heap)) /\ Len(stack') = Len(stack)
  <2>1. old \in LiveIn(heap) \cup {Null}
    BY <1>5, <1>6, <1>7 DEF MemoryInv, RefsLive
  <2> QED BY <1>1, <1>3, <2>1, LocalsAre, LocalAdded
<1>19. StackInv'
  BY <1>1, <1>4, <1>17, <1>18 DEF StackInv
<1>20. BlastInv'
  BY <1>1, <1>4, <1>18 DEF IInv, BlastInv
<1>21. TableInv'
  BY <1>1, <1>4, <1>17 DEF TableInv, Left
<1> QED BY <1>17, <1>19, <1>20, <1>21 DEF IInv

\* The heap with a fresh object o, whose contents c have been counted.
Allocated(h, o, c, g) ==
  /\ g[o].live /\ g[o].rc = 0 /\ ~g[o].pushed /\ g[o].cells = c
  /\ \A p \in Objects : p # o =>
       /\ g[p].live = h[p].live /\ g[p].cells = h[p].cells /\ g[p].pushed = h[p].pushed
       /\ g[p].rc = h[p].rc + Occurrences(c, p)

\* The fresh object, with its contents counted.
LEMMA AllocIs ==
  ASSUME NEW h \in Heaps, NEW z, NEW f, NEW o \in Objects, NEW c \in Contents(o), o \notin Set(c)
  PROVE  \E g \in Heaps :
           /\ IncrAll(<<[h EXCEPT ![o] = [live |-> TRUE, rc |-> 0, pushed |-> FALSE,
                                          cells |-> c]], z, f>>, c) = <<g, z, f>>
           /\ Allocated(h, o, c, g)
<1> DEFINE new == [live |-> TRUE, rc |-> 0, pushed |-> FALSE, cells |-> c]
           k == [h EXCEPT ![o] = new]
<1>1. c \in Seq(References)
  BY ContentsAre
<1>2. new \in Records /\ new.live /\ new.rc = 0 /\ ~new.pushed /\ new.cells = c
  BY <1>1 DEF Records
<1> HIDE DEF new
<1>3. k \in Heaps
  BY <1>2 DEF Heaps
<1>4. \A p \in Objects : k[p] = IF p = o THEN new ELSE h[p]
  BY DEF Heaps
<1> HIDE DEF k
<1>5. PICK g \in Heaps :
        /\ IncrAll(<<k, z, f>>, c) = <<g, z, f>> /\ SameObjects(k, g)
        /\ \A p \in Objects : g[p].pushed = k[p].pushed
        /\ \A p \in Objects : g[p].rc = k[p].rc + Occurrences(c, p)
  BY <1>3, IncrAllIs
<1>6. Occurrences(c, o) = 0
  BY OccurrencesAre
<1>7. g[o].live /\ g[o].rc = 0 /\ ~g[o].pushed /\ g[o].cells = c
  BY <1>2, <1>4, <1>5, <1>6 DEF SameObjects
<1>8. Allocated(h, o, c, g)
  BY <1>4, <1>5, <1>7 DEF SameObjects, Allocated
<1> QED BY <1>5, <1>8 DEF k, new

\* Nothing refers to the fresh object, and it goes into the table.
LEMMA AllocKeepsMemory ==
  ASSUME MemoryInv, ~failed, TableOK(heap, zct, Len(zct), {}, failed),
         NEW o \in Objects, ~heap[o].live, NEW c \in Contents(o),
         Set(c) \subseteq LiveIn(heap) \cup {Null},
         Memory(Push(IncrAll(<<[heap EXCEPT ![o] = [live |-> TRUE, rc |-> 0, pushed |-> FALSE,
                                          cells |-> c]], zct, failed>>, c), o)),
         state' = state
  PROVE  /\ MemoryInv' /\ LiveIn(heap)' = LiveIn(heap) \cup {o}
         /\ TableOK(heap', zct', Len(zct'), {}, failed')
<1>1. /\ heap \in Heaps /\ CellsOK(heap) /\ RefsLive(heap, state) /\ Exact(heap, state)
      /\ Ranked(heap) /\ zct \in Seq(Objects) /\ Len(zct) <= ZctSize /\ failed \in BOOLEAN
  BY DEF MemoryInv
<1>2. o \notin LiveIn(heap) /\ o # Null /\ o \notin Set(c)
  BY NullIsNoObject DEF LiveIn
<1>3. PICK k \in Heaps :
        /\ IncrAll(<<[heap EXCEPT ![o] = [live |-> TRUE, rc |-> 0, pushed |-> FALSE,
                                          cells |-> c]], zct, failed>>, c) = <<k, zct, failed>>
        /\ Allocated(heap, o, c, k)
  BY <1>1, <1>2, AllocIs
<1>4. PICK g \in Heaps, y \in Seq(Objects), e \in BOOLEAN :
        Push(<<k, zct, failed>>, o) = <<g, y, e>> /\ Pushed(k, zct, failed, o, g, y, e)
  BY <1>1, PushIs
<1>5. heap' = g /\ zct' = y /\ failed' = e
  BY <1>3, <1>4 DEF Memory
<1>6. SameObjects(k, g) /\ \A p \in Objects : g[p].rc = k[p].rc
  BY <1>4 DEF Pushed
<1>7. g[o].live /\ g[o].rc = 0 /\ g[o].cells = c
  BY <1>3, <1>6 DEF Allocated, SameObjects
<1>8. \A p \in Objects : p # o =>
        /\ g[p].live = heap[p].live /\ g[p].cells = heap[p].cells
        /\ g[p].rc = heap[p].rc + Occurrences(c, p)
  BY <1>3, <1>6 DEF Allocated, SameObjects
<1>9. LiveIn(g) = LiveIn(heap) \cup {o}
  BY <1>7, <1>8 DEF LiveIn
<1>10. CellsOK(g)
  BY <1>1, <1>7, <1>8 DEF CellsOK
<1>11. RefsLive(g, state)
  BY <1>1, <1>7, <1>8, <1>9 DEF RefsLive
<1>12. Ranked(g)
  <2>1. Set(g[o].cells) \subseteq LiveIn(heap) \cup {Null}
    BY <1>7
  <2>2. \A p \in Objects : p # o => g[p].live = heap[p].live /\ g[p].cells = heap[p].cells
    BY <1>8
  <2> QED BY <1>1, <1>7, <2>1, <2>2, RankAlloc
<1>13. Exact(g, state)
  <2> SUFFICES ASSUME NEW p \in Objects, g[p].live
               PROVE  g[p].rc = Cardinality(StateRefs(state, p)) + Cardinality(CellRefs(g, p))
    BY DEF Exact
  <2>1. DOMAIN g[o].cells \subseteq 1..(Width + 2)
    <3>1. DOMAIN c = 1..Len(c) /\ Len(c) \in 0..(Width + 2) /\ Width \in Nat
      BY ContentsAre, HeapAssumption DEF HeapAssumption
    <3> QED BY <1>7, <3>1
  <2>2. \A q \in Objects : q # o => g[q].live = heap[q].live /\ g[q].cells = heap[q].cells
    BY <1>8
  <2>3. Cardinality(CellRefs(g, p))
          = Cardinality(CellRefs(heap, p)) + Occurrences(g[o].cells, p)
    <3>1. ~heap[o].live /\ g[o].live
      BY <1>7
    <3>2. OneMore(heap, g, o)
      BY <2>1, <2>2, <3>1 DEF OneMore
    <3> QED BY <3>2, OneMoreObject
  <2>4. Cardinality(CellRefs(g, p)) = Cardinality(CellRefs(heap, p)) + Occurrences(c, p)
    BY <1>7, <2>3
  <2>5. /\ Cardinality(StateRefs(state, p)) \in Nat /\ Cardinality(CellRefs(heap, p)) \in Nat
        /\ Occurrences(c, p) \in Nat
    BY RefsAreFinite, OccurrencesAre
  <2>6. CASE p = o
    <3>1. Occurrences(c, p) = 0
      BY <1>2, <2>6, OccurrencesAre
    <3>2. StateRefs(state, p) = {}
      BY <1>1, <1>2, <2>6 DEF RefsLive, StateRefs
    <3>3. CellRefs(heap, p) = {}
      <4>1. \A at \in LiveIn(heap) \X (1..(Width + 2)) :
              Set(heap[at[1]].cells) \subseteq LiveIn(heap) \cup {Null}
        BY <1>1 DEF RefsLive, LiveIn
      <4>2. \A at \in CellRefs(heap, p) : p \in Set(heap[at[1]].cells)
        BY DEF CellRefs, Set
      <4>3. \A at \in CellRefs(heap, p) : at \in LiveIn(heap) \X (1..(Width + 2))
        BY DEF CellRefs
      <4> QED BY <1>2, <2>6, <4>1, <4>2, <4>3
    <3>4. Cardinality({}) = 0
      BY FS_EmptySet
    <3> QED BY <1>7, <2>4, <2>6, <3>1, <3>2, <3>3, <3>4
  <2>7. CASE p # o
    <3>1. heap[p].live /\ g[p].rc = heap[p].rc + Occurrences(c, p)
      BY <1>8, <2>7
    <3>2. heap[p].rc = Cardinality(StateRefs(state, p)) + Cardinality(CellRefs(heap, p))
      BY <1>1, <3>1 DEF Exact
    <3> QED BY <2>4, <2>5, <3>1, <3>2
  <2> QED BY <2>6, <2>7
<1>14. Len(y) <= ZctSize
  <2>1. ZctSize \in Nat /\ Len(zct) \in Nat
    BY <1>1, HeapAssumption DEF HeapAssumption
  <2>2. y = zct \/ (y = Append(zct, o) /\ Len(zct) < ZctSize)
    BY <1>4 DEF Pushed
  <2> QED BY <1>1, <2>1, <2>2
<1>15. MemoryInv'
  BY <1>1, <1>5, <1>10, <1>11, <1>12, <1>13, <1>14 DEF MemoryInv
<1>16. \A i \in 1..Len(zct) : zct[i] \in Objects /\ zct[i] # o
  BY <1>1 DEF TableOK
<1>17. \A p \in Objects : heap[p].rc \in Nat /\ Occurrences(c, p) \in Nat
  BY <1>1, OccurrencesAre DEF Heaps, Records
<1>18. \A p \in Objects : p # o /\ g[p].live /\ g[p].rc = 0 => heap[p].rc = 0
  BY <1>8, <1>17
<1>19. ~k[o].pushed /\ \A p \in Objects : p # o => k[p].pushed = heap[p].pushed
  BY <1>3 DEF Allocated
<1>20. TableOK(g, y, Len(y), {}, e)
  <2>1. CASE k[o].pushed /\ g = k /\ y = zct /\ e = failed
    BY <1>19, <2>1
  <2>2. CASE ~k[o].pushed /\ g = k /\ y = zct /\ e = TRUE
    <3>1. \A i \in 1..Len(zct) : g[zct[i]].live /\ g[zct[i]].pushed
      BY <1>8, <1>16, <1>19, <2>2 DEF TableOK
    <3> QED BY <2>2, <3>1 DEF TableOK
  <2>3. CASE /\ ~k[o].pushed /\ Len(zct) < ZctSize /\ y = Append(zct, o) /\ e = failed
             /\ \A p \in Objects : g[p].pushed = IF p = o THEN TRUE ELSE k[p].pushed
    <3>1. \A p \in Objects : g[p].pushed = IF p = o THEN TRUE ELSE heap[p].pushed
      BY <1>19, <2>3
    <3>2. \A i \in 1..Len(zct) : g[zct[i]].live = heap[zct[i]].live
      BY <1>8, <1>16
    <3>3. \A i \in 1..Len(zct) : zct[i] # o
      BY <1>16
    <3>4. \A p \in Objects : p # o => g[p].live = heap[p].live
      BY <1>8
    <3>5. TableOK(g, Append(zct, o), Len(Append(zct, o)), {}, failed)
      BY <1>1, <1>7, <1>18, <3>1, <3>2, <3>3, <3>4, TableGrows
    <3> QED BY <2>3, <3>5
  <2> QED BY <1>4, <2>1, <2>2, <2>3 DEF Pushed
<1> QED BY <1>5, <1>9, <1>15, <1>20

\* cons and Array:make.
LEMMA AllocKeeps ==
  ASSUME IInv, NEW op \in Operators, Alloc(op)
  PROVE  IInv'
<1>1. Running(op) /\ UNCHANGED <<state, depth, blasting, scan, tofree>>
  BY DEF Alloc, blastVars
<1>2. PICK o \in Objects \ Live : \E c \in Contents(o) :
        /\ Set(c) \subseteq Locals
        /\ Memory(Push(IncrAll(<<[heap EXCEPT ![o] =
                [live |-> TRUE, rc |-> 0, pushed |-> FALSE, cells |-> c]], zct, failed>>, c), o))
        /\ AddLocal(o)
  BY DEF Alloc
<1>3. PICK c \in Contents(o) :
        /\ Set(c) \subseteq Locals
        /\ Memory(Push(IncrAll(<<[heap EXCEPT ![o] =
                [live |-> TRUE, rc |-> 0, pushed |-> FALSE, cells |-> c]], zct, failed>>, c), o))
        /\ AddLocal(o)
  BY <1>2
<1>4. /\ ~failed /\ ~blasting /\ scan = 0 /\ tofree = {}
      /\ Len(stack) \in Nat /\ Len(stack) > 1 /\ depth = Len(stack) - 1
  BY <1>1, RunningIs
<1>5. Set(c) \subseteq LiveIn(heap) \cup {Null} /\ LiveIn(heap) \subseteq Objects
  BY <1>1, <1>3, LocalsAre
<1>6. o \in Objects /\ ~heap[o].live
  BY <1>2 DEF Live
<1>7. TableOK(heap, zct, Len(zct), {}, failed)
  BY <1>4 DEF IInv, TableInv, Left
<1>8. MemoryInv
  BY DEF IInv
<1>9. /\ MemoryInv' /\ LiveIn(heap)' = LiveIn(heap) \cup {o}
      /\ TableOK(heap', zct', Len(zct'), {}, failed')
  BY <1>1, <1>3, <1>4, <1>5, <1>6, <1>7, <1>8, AllocKeepsMemory
<1>10. StackOK(stack', LiveIn(heap) \cup {o}) /\ Len(stack') = Len(stack)
  <2>1. LiveIn(heap) \cup {o} \subseteq Objects
    BY <1>5, <1>6
  <2> DEFINE L == LiveIn(heap) \cup {o}
  <2>2. LiveIn(heap) \subseteq L /\ o \in L \cup {Null} /\ AddLocal(o) /\ L \subseteq Objects
    BY <1>3, <2>1
  <2> HIDE DEF L
  <2>3. StackOK(stack', L) /\ Len(stack') = Len(stack)
    BY <1>1, <2>2, LocalAdded
  <2> QED BY <2>3 DEF L
<1>11. StackInv'
  BY <1>1, <1>4, <1>9, <1>10 DEF StackInv
<1>12. BlastInv'
  BY <1>1, <1>4, <1>10 DEF IInv, BlastInv
<1>13. TableInv'
  BY <1>1, <1>4, <1>9 DEF TableInv, Left
<1> QED BY <1>9, <1>11, <1>12, <1>13 DEF IInv

-----------------------------------------------------------------------------
(* Blasting.                                                               *)

\* While the table is blasted only the source is on the stack.
LEMMA BlastingIs ==
  ASSUME IInv, blasting
  PROVE  /\ ~failed /\ Len(stack) = 1 /\ scan \in 0..Len(zct) /\ Len(zct) \in Nat /\ Left = scan
         /\ zct \in Seq(Objects) /\ tofree \subseteq Objects
         /\ TableOK(heap, zct, scan, tofree, failed)
<1>1. ~failed /\ Len(stack) = 1 /\ scan \in 0..Len(zct)
  BY DEF IInv, BlastInv
<1>2. zct \in Seq(Objects) /\ Len(zct) \in Nat
  BY DEF IInv, MemoryInv
<1>3. Left = scan
  BY DEF Left
<1> QED BY <1>1, <1>2, <1>3 DEF IInv, TableInv

\* The stack and the depth stay as they are during the blasting.
LEMMA StackAsleep ==
  ASSUME IInv, Len(stack) = 1, UNCHANGED <<stack, depth>>
  PROVE  StackInv'
<1>1. StackOK(stack, LiveIn(heap'))
  BY SourceAlone DEF IInv, StackInv
<1> QED BY <1>1 DEF IInv, StackInv, LiveIn

\* The last entry of the table to be examined: it is freed or loses its mark.
LEMMA BlastEntryKeeps ==
  ASSUME IInv, BlastEntry
  PROVE  IInv'
<1>1. /\ blasting /\ tofree = {} /\ scan > 0 /\ scan' = scan - 1
      /\ UNCHANGED <<zct, failed, state, stack, depth, blasting>>
  BY DEF BlastEntry
<1>2. /\ ~failed /\ Len(stack) = 1 /\ scan \in 0..Len(zct) /\ Len(zct) \in Nat
      /\ zct \in Seq(Objects) /\ TableOK(heap, zct, scan, tofree, failed)
  BY <1>1, BlastingIs
<1>3. StackInv'
  BY <1>1, <1>2, StackAsleep
<1>4. blasting' /\ scan' \in 0..Len(zct) /\ Left' = scan'
  BY <1>1, <1>2 DEF Left
<1>5. BlastInv'
  BY <1>1, <1>2, <1>4 DEF IInv, BlastInv
<1>6. scan \in 1..scan /\ scan \in 1..Len(zct) /\ zct[scan] \in Objects
  BY <1>1, <1>2
<1>7. heap[zct[scan]].live
  BY <1>6, <1>2 DEF TableOK
<1>8. \A i \in 1..scan' : i \in 1..scan /\ i # scan /\ zct[i] \in Objects /\ zct[i] # zct[scan]
  BY <1>1, <1>2, <1>6 DEF TableOK
<1>9. \A i \in 1..scan : i \in 1..scan' \/ i = scan
  BY <1>1, <1>2
<1>10. CASE heap[zct[scan]].rc = 0
  <2>1. tofree' = {zct[scan]} /\ heap' = heap
    BY <1>10 DEF BlastEntry
  <2>2. MemoryInv'
    BY <1>1, <2>1, MemoryUnchanged DEF IInv
  <2>3. TableOK(heap, zct, scan', {zct[scan]}, failed)
    <3>1. \A i, j \in 1..scan' : zct[i] = zct[j] => i = j
      BY <1>2, <1>8 DEF TableOK
    <3>2. \A i \in 1..scan' : heap[zct[i]].live /\ heap[zct[i]].pushed /\ zct[i] \notin {zct[scan]}
      BY <1>2, <1>8 DEF TableOK
    <3>3. \A o \in Objects : heap[o].live /\ (heap[o].pushed \/ heap[o].rc = 0)
            => o \in {zct[scan]} \/ \E i \in 1..scan' : zct[i] = o
      BY <1>1, <1>2, <1>9 DEF TableOK
    <3> QED BY <1>7, <1>10, <3>1, <3>2, <3>3 DEF TableOK
  <2>4. TableInv'
    BY <1>1, <1>4, <1>6, <2>1, <2>3 DEF TableInv
  <2> QED BY <1>3, <1>5, <2>2, <2>4 DEF IInv
<1>11. CASE heap[zct[scan]].rc # 0
  <2> DEFINE o == zct[scan]
             g == [heap EXCEPT ![o].pushed = FALSE]
  <2>1. heap' = g /\ tofree' = tofree
    BY <1>11 DEF BlastEntry
  <2>2. /\ heap \in Heaps /\ CellsOK(heap) /\ RefsLive(heap, state) /\ Exact(heap, state)
        /\ Ranked(heap)
    BY DEF IInv, MemoryInv
  <2>3. o \in Objects /\ heap[o].rc # 0
    BY <1>6, <1>11
  <2> HIDE DEF o
  <2>4. g \in Heaps
    BY <2>2, <2>3 DEF Heaps, Records
  <2>5. \A p \in Objects : g[p] = IF p = o THEN [heap[o] EXCEPT !.pushed = FALSE] ELSE heap[p]
    BY <2>2, <2>3 DEF Heaps
  <2>6. \A p \in Objects : heap[p] \in Records
    BY <2>2 DEF Heaps
  <2> HIDE DEF g
  <2>7. SameObjects(heap, g)
    BY <2>3, <2>5, <2>6 DEF SameObjects, Records
  <2>8. \A p \in Objects : g[p].rc = heap[p].rc
    BY <2>3, <2>5, <2>6 DEF Records
  <2>9. ~g[o].pushed /\ \A p \in Objects : p # o => g[p].pushed = heap[p].pushed
    BY <2>3, <2>5, <2>6 DEF Records
  <2>10. CellsOK(g) /\ RefsLive(g, state)
    BY <2>2, <2>7 DEF CellsOK, RefsLive, LiveIn, SameObjects
  <2>11. Exact(g, state)
    <3>1. \A p \in Objects : CellRefs(g, p) = CellRefs(heap, p)
      BY <2>7, SameCells
    <3> QED BY <2>2, <2>7, <2>8, <3>1 DEF Exact, SameObjects
  <2>12. Ranked(g)
    <3>1. Conses \subseteq Objects
      BY DEF Objects
    <3>2. \A p \in Objects : g[p].live = heap[p].live /\ g[p].cells = heap[p].cells
      BY <2>7 DEF SameObjects
    <3> QED BY <2>2, <3>1, <3>2, RankSame
  <2>13. MemoryInv'
    BY <1>1, <2>1, <2>4, <2>10, <2>11, <2>12 DEF IInv, MemoryInv
  <2>14. TableOK(g, zct, scan', {}, failed)
    <3>1. \A i, j \in 1..scan' : zct[i] = zct[j] => i = j
      BY <1>2, <1>8 DEF TableOK
    <3>2. \A i \in 1..scan' : g[zct[i]].live /\ g[zct[i]].pushed
      BY <1>2, <1>8, <2>7, <2>9 DEF TableOK, SameObjects, o
    <3>3. ASSUME NEW p \in Objects, g[p].live, g[p].pushed \/ g[p].rc = 0
          PROVE  \E i \in 1..scan' : zct[i] = p
      <4>1. p # o
        BY <2>3, <2>8, <2>9, <3>3
      <4>2. heap[p].live /\ (heap[p].pushed \/ heap[p].rc = 0)
        BY <2>7, <2>8, <2>9, <3>3, <4>1 DEF SameObjects
      <4>3. PICK i \in 1..scan : zct[i] = p
        BY <1>1, <1>2, <4>2 DEF TableOK
      <4> QED BY <1>9, <4>1, <4>3 DEF o
    <3> QED BY <3>1, <3>2, <3>3 DEF TableOK
  <2>15. TableInv'
    BY <1>1, <1>4, <2>1, <2>14 DEF TableInv
  <2> QED BY <1>3, <1>5, <2>13, <2>15 DEF IInv
<1> QED BY <1>10, <1>11

\* The table is emptied.
LEMMA BlastDoneKeeps ==
  ASSUME IInv, BlastDone
  PROVE  IInv'
<1>1. /\ blasting /\ tofree = {} /\ scan = 0 /\ ~blasting' /\ blasting' \in BOOLEAN /\ zct' = <<>>
      /\ UNCHANGED <<heap, failed, state, stack, depth, scan, tofree>>
  BY DEF BlastDone
<1>2. ~failed /\ Len(stack) = 1 /\ TableOK(heap, zct, scan, tofree, failed)
  BY <1>1, BlastingIs
<1>3. StackInv'
  BY <1>1, <1>2, StackAsleep
<1>4. BlastInv'
  BY <1>1, <1>2 DEF BlastInv
<1>5. zct' \in Seq(Objects) /\ Len(zct') = 0 /\ ZctSize \in Nat
  BY <1>1, HeapAssumption DEF HeapAssumption
<1>6. MemoryInv'
  <2>1. MemoryInv /\ failed \in BOOLEAN /\ Len(zct') <= ZctSize
    BY <1>5 DEF IInv, MemoryInv
  <2> QED BY <1>1, <1>5, <2>1, HeapUnchanged
<1>7. Left' = 0
  BY <1>1, <1>5 DEF Left
<1>8. TableInv'
  BY <1>1, <1>2, <1>7 DEF IInv, TableInv, TableOK
<1> QED BY <1>3, <1>4, <1>6, <1>8 DEF IInv

\* free_by_numbers of o: what its cells c refer to loses a reference each.
Freed(o, c) ==
  LET d == DecrAll(<<heap, zct, failed>>, c)
      g == [d[1] EXCEPT ![o].live = FALSE, ![o].cells = <<>>] IN
  /\ g \in Heaps /\ ~g[o].live
  /\ \A p \in Objects : p # o => /\ g[p].live = heap[p].live /\ g[p].cells = heap[p].cells
                                 /\ g[p].pushed = heap[p].pushed
                                 /\ g[p].rc = heap[p].rc - Occurrences(c, p)
                                 /\ d[1][p].rc = g[p].rc /\ d[1][p].pushed = g[p].pushed
  /\ Exact(g, state)

\* Every other count stays what the references make it.
LEMMA FreeIs ==
  ASSUME MemoryInv, NEW o \in Objects, heap[o].live, heap[o].rc = 0,
         NEW c \in Contents(o), c = heap[o].cells
  PROVE  Freed(o, c)
<1> DEFINE k == [p \in Objects |-> [heap[p] EXCEPT !.rc = @ - Occurrences(c, p)]]
           g == [k EXCEPT ![o].live = FALSE, ![o].cells = <<>>]
<1>1. DecrAll(<<heap, zct, failed>>, c) = <<k, zct, failed>>
  BY SetFirst DEF DecrAll
<1>2. /\ heap \in Heaps /\ CellsOK(heap) /\ RefsLive(heap, state) /\ Exact(heap, state)
  BY DEF MemoryInv
<1>3. \A p \in Objects : heap[p] \in Records /\ heap[p].rc \in Nat
  BY <1>2 DEF Heaps, Records
<1>4. /\ \A op \in Operators : state[op] # o
      /\ \A p \in Objects : heap[p].live => o \notin Set(heap[p].cells)
  BY <1>2, ZeroMeansNone
<1>5. \A p \in Objects : Occurrences(c, p) \in Nat
  BY OccurrencesAre
<1>6. \A p \in Objects : ~heap[p].live => Occurrences(c, p) = 0
  <2>1. Set(c) \subseteq LiveIn(heap) \cup {Null}
    BY <1>2 DEF RefsLive
  <2>2. \A p \in Objects : ~heap[p].live => p \notin Set(c)
    BY <2>1, NullIsNoObject DEF LiveIn
  <2> QED BY <2>2, OccurrencesAre
<1>7. Occurrences(c, o) = 0
  BY <1>4, OccurrencesAre
\* The cells of o account for part of each count.
<1>8. DOMAIN c \subseteq 1..(Width + 2)
  <2>1. DOMAIN c = 1..Len(c) /\ Len(c) \in 0..(Width + 2) /\ Width \in Nat
    BY ContentsAre, HeapAssumption DEF HeapAssumption
  <2> QED BY <2>1
<1>9. ASSUME NEW h, ~h[o].live, NEW p,
             \A q \in Objects : q # o => h[q].live = heap[q].live /\ h[q].cells = heap[q].cells
      PROVE  Cardinality(CellRefs(heap, p)) = Cardinality(CellRefs(h, p)) + Occurrences(c, p)
  <2>1. OneMore(h, heap, o)
    BY <1>8, <1>9 DEF OneMore
  <2>2. Cardinality(CellRefs(heap, p))
          = Cardinality(CellRefs(h, p)) + Occurrences(heap[o].cells, p)
    BY <2>1, OneMoreObject
  <2> QED BY <2>2
<1>10. \A p \in Objects : p # o => heap[p].rc - Occurrences(c, p) \in Nat
  <2> SUFFICES ASSUME NEW p \in Objects, p # o PROVE heap[p].rc - Occurrences(c, p) \in Nat
    OBVIOUS
  <2>1. CASE ~heap[p].live
    BY <1>3, <1>6, <2>1
  <2>2. CASE heap[p].live
    <3> DEFINE h == [q \in Objects |-> [live |-> q # o /\ heap[q].live, cells |-> heap[q].cells]]
    <3>1. ~h[o].live
      OBVIOUS
    <3>2. \A q \in Objects : q # o => h[q].live = heap[q].live /\ h[q].cells = heap[q].cells
      BY <1>3 DEF Records
    <3> HIDE DEF h
    <3>3. Cardinality(CellRefs(heap, p)) = Cardinality(CellRefs(h, p)) + Occurrences(c, p)
      BY <1>9, <3>1, <3>2
    <3>4. Cardinality(CellRefs(h, p)) \in Nat /\ Cardinality(StateRefs(state, p)) \in Nat
      BY RefsAreFinite
    <3>5. heap[p].rc = Cardinality(StateRefs(state, p)) + Cardinality(CellRefs(heap, p))
      BY <1>2, <2>2 DEF Exact
    <3> QED BY <1>5, <3>3, <3>4, <3>5
  <2> QED BY <2>1, <2>2
<1>11. \A p \in Objects : k[p] = [heap[p] EXCEPT !.rc = @ - Occurrences(c, p)]
  OBVIOUS
<1>12. k[o] = heap[o]
  BY <1>3, <1>7, <1>11 DEF Records
<1>13. \A p \in Objects : k[p] \in Records
  <2> TAKE p \in Objects
  <2>1. CASE p = o
    BY <1>3, <1>12, <2>1
  <2>2. CASE p # o
    BY <1>3, <1>10, <1>11, <2>2 DEF Records
  <2> QED BY <2>1, <2>2
<1>14. k \in Heaps
  BY <1>13 DEF Heaps
<1>15. \A p \in Objects : p # o => /\ k[p].live = heap[p].live /\ k[p].cells = heap[p].cells
                                   /\ k[p].pushed = heap[p].pushed
                                   /\ k[p].rc = heap[p].rc - Occurrences(c, p)
  BY <1>3, <1>11 DEF Records
<1> HIDE DEF k
<1>16. <<>> \in Seq(References)
  OBVIOUS
<1>17. [k[o] EXCEPT !.live = FALSE, !.cells = <<>>] \in Records
  BY <1>13, <1>16 DEF Records
<1>18. \A p \in Objects :
         g[p] = IF p = o THEN [k[o] EXCEPT !.live = FALSE, !.cells = <<>>] ELSE k[p]
  BY <1>14 DEF Heaps
<1>19. g \in Heaps
  <2>1. \A p \in Objects : g[p] \in Records
    BY <1>13, <1>17, <1>18
  <2>2. g = [p \in Objects |-> g[p]]
    BY <1>14 DEF Heaps
  <2> HIDE DEF g
  <2> QED BY <2>1, <2>2 DEF Heaps
<1> HIDE DEF g
<1>20. ~g[o].live
  BY <1>13, <1>18 DEF Records
<1>21. \A p \in Objects : p # o => g[p] = k[p]
  BY <1>18
<1>22. \A p \in Objects : p # o => /\ g[p].live = heap[p].live /\ g[p].cells = heap[p].cells
                                   /\ g[p].pushed = heap[p].pushed
                                   /\ g[p].rc = heap[p].rc - Occurrences(c, p)
                                   /\ k[p].rc = g[p].rc /\ k[p].pushed = g[p].pushed
  BY <1>15, <1>21
<1>23. Exact(g, state)
  <2> SUFFICES ASSUME NEW p \in Objects, g[p].live
               PROVE  g[p].rc = Cardinality(StateRefs(state, p)) + Cardinality(CellRefs(g, p))
    BY DEF Exact
  <2>1. p # o
    BY <1>20
  <2>2. heap[p].live /\ g[p].rc = heap[p].rc - Occurrences(c, p)
    BY <1>22, <2>1
  <2>3. heap[p].rc = Cardinality(StateRefs(state, p)) + Cardinality(CellRefs(heap, p))
    BY <1>2, <2>2 DEF Exact
  <2>4. \A q \in Objects : q # o => g[q].live = heap[q].live /\ g[q].cells = heap[q].cells
    BY <1>22
  <2>5. Cardinality(CellRefs(heap, p)) = Cardinality(CellRefs(g, p)) + Occurrences(c, p)
    BY <1>9, <1>20, <2>4
  <2>6. Cardinality(CellRefs(g, p)) \in Nat /\ Cardinality(StateRefs(state, p)) \in Nat
    BY RefsAreFinite
  <2> QED BY <1>5, <2>2, <2>3, <2>5, <2>6
<1>24. DecrAll(<<heap, zct, failed>>, c)[1] = k
  BY <1>1
<1>25. [DecrAll(<<heap, zct, failed>>, c)[1] EXCEPT ![o].live = FALSE, ![o].cells = <<>>] = g
  BY <1>24 DEF g
<1> QED BY <1>19, <1>20, <1>22, <1>23, <1>24, <1>25 DEF Freed

\* Freeing an object: what has no reference left follows, unless the table has it.
LEMMA FreeKeeps ==
  ASSUME IInv, Free
  PROVE  IInv'
<1>1. blasting /\ UNCHANGED <<zct, failed, state, stack, depth, blasting, scan>>
  BY DEF Free
<1>2. PICK o \in tofree :
        /\ heap' = [DecrAll(mem, heap[o].cells)[1] EXCEPT ![o].live = FALSE, ![o].cells = <<>>]
        /\ tofree' = (tofree \ {o}) \cup
             {x \in Set(heap[o].cells) \ {Null} : ZeroWord(DecrAll(mem, heap[o].cells), x)}
  BY DEF Free
<1>3. /\ ~failed /\ Len(stack) = 1 /\ scan \in 0..Len(zct) /\ Len(zct) \in Nat /\ Left = scan
      /\ zct \in Seq(Objects) /\ tofree \subseteq Objects
      /\ TableOK(heap, zct, scan, tofree, failed)
  BY <1>1, BlastingIs
<1>4. StackInv'
  BY <1>1, <1>3, StackAsleep
<1>5. BlastInv'
  BY <1>1, <1>3 DEF IInv, BlastInv
<1>6. o \in Objects /\ heap[o].live /\ heap[o].rc = 0
  BY <1>3 DEF TableOK
<1>7. /\ MemoryInv /\ heap \in Heaps /\ CellsOK(heap) /\ RefsLive(heap, state)
      /\ Exact(heap, state) /\ Ranked(heap)
  BY DEF IInv, MemoryInv
<1>8. /\ \A op \in Operators : state[op] # o
      /\ \A p \in Objects : heap[p].live => o \notin Set(heap[p].cells)
  BY <1>6, <1>7, ZeroMeansNone
<1>9. PICK c \in Contents(o) : c = heap[o].cells
  BY <1>6, <1>7 DEF CellsOK
<1> DEFINE d == DecrAll(<<heap, zct, failed>>, c)
           g == [d[1] EXCEPT ![o].live = FALSE, ![o].cells = <<>>]
<1>10. /\ g \in Heaps /\ ~g[o].live
       /\ \A p \in Objects : p # o => /\ g[p].live = heap[p].live /\ g[p].cells = heap[p].cells
                                      /\ g[p].pushed = heap[p].pushed
                                      /\ g[p].rc = heap[p].rc - Occurrences(c, p)
                                      /\ d[1][p].rc = g[p].rc /\ d[1][p].pushed = g[p].pushed
       /\ Exact(g, state)
  <2>1. Freed(o, c)
    BY <1>6, <1>7, <1>9, FreeIs
  <2> QED BY <2>1 DEF Freed
<1>11. /\ heap' = g
       /\ tofree' = (tofree \ {o}) \cup {x \in Set(c) \ {Null} : ZeroWord(d, x)}
  BY <1>2, <1>9 DEF mem
<1> HIDE DEF g, d
<1>12. Set(c) \subseteq LiveIn(heap) \cup {Null} /\ o \notin Set(c)
  BY <1>6, <1>7, <1>8, <1>9 DEF RefsLive
<1>13. \A x \in Set(c) \ {Null} : x \in Objects /\ heap[x].live /\ x # o
  BY <1>12 DEF LiveIn
<1>14. \A p \in Objects : Occurrences(c, p) \in Nat /\ heap[p].rc \in Nat
         /\ (p \notin Set(c) => Occurrences(c, p) = 0)
  <2>1. \A p \in Objects : heap[p].rc \in Nat
    BY <1>7 DEF Heaps, Records
  <2>2. \A p \in Objects : Occurrences(c, p) \in Nat
    BY <1>6, OccurrencesAre
  <2>3. \A p \in Objects : p \notin Set(c) => Occurrences(c, p) = 0
    BY <1>6, OccurrencesAre
  <2> QED BY <2>1, <2>2, <2>3
\* What is to be freed next.
<1>15. \A x \in Objects : x \in tofree' <=>
         \/ x \in tofree /\ x # o
         \/ x \in Set(c) /\ g[x].rc = 0 /\ ~g[x].pushed
  <2>1. \A x \in Set(c) \ {Null} : ZeroWord(d, x) <=> g[x].rc = 0 /\ ~g[x].pushed
    BY <1>10, <1>13 DEF ZeroWord
  <2> QED BY <1>11, <2>1, NullIsNoObject
<1>16. tofree' \subseteq Objects
  BY <1>3, <1>11, <1>13
<1>17. \A x \in Set(c) \ {Null} : x \notin tofree
  <2>1. \A x \in Objects : heap[x].live /\ x \in Set(c) => heap[x].rc # 0
    BY <1>6, <1>7, <1>9, ZeroMeansNone
  <2> QED BY <1>3, <1>13, <2>1 DEF TableOK
<1>18. LiveIn(g) = LiveIn(heap) \ {o}
  BY <1>10 DEF LiveIn
<1>19. CellsOK(g)
  BY <1>7, <1>10 DEF CellsOK
<1>20. RefsLive(g, state)
  <2>1. \A op \in Operators : state[op] \in LiveIn(g) \cup {Null}
    BY <1>7, <1>8, <1>18 DEF RefsLive
  <2>2. ASSUME NEW p \in Objects, g[p].live PROVE Set(g[p].cells) \subseteq LiveIn(g) \cup {Null}
    <3>1. heap[p].live /\ g[p].cells = heap[p].cells
      BY <1>10, <2>2
    <3> QED BY <1>7, <1>8, <1>18, <3>1 DEF RefsLive
  <2> QED BY <2>1, <2>2 DEF RefsLive
<1>21. Ranked(g)
  <2>1. \A p \in Objects : p # o => g[p].live = heap[p].live /\ g[p].cells = heap[p].cells
    BY <1>10
  <2> QED BY <1>6, <1>7, <1>8, <1>10, <2>1, RankFree
<1>22. MemoryInv'
  <2>1. /\ zct' = zct /\ failed' = failed /\ state' = state
        /\ zct \in Seq(Objects) /\ Len(zct) <= ZctSize /\ failed \in BOOLEAN
        /\ state \in [Operators -> References]
        /\ \A op \in Operators : state[op] \in Holds[op] \cup {Null}
    BY <1>1, <1>7 DEF MemoryInv
  <2> QED BY <1>10, <1>11, <1>19, <1>20, <1>21, <2>1 DEF MemoryInv
<1>23. \A i \in 1..scan : zct[i] \in Objects /\ zct[i] # o /\ zct[i] \notin tofree
         /\ heap[zct[i]].live /\ heap[zct[i]].pushed
  BY <1>3 DEF TableOK
<1>24. \A i \in 1..scan : g[zct[i]].live /\ g[zct[i]].pushed
  BY <1>10, <1>23
<1>25. \A i \in 1..scan : zct[i] \notin tofree'
  BY <1>15, <1>23, <1>24
<1>26. \A x \in Objects : x \in tofree' => g[x].live /\ g[x].rc = 0
  <2> SUFFICES ASSUME NEW x \in Objects, x \in tofree' PROVE g[x].live /\ g[x].rc = 0
    OBVIOUS
  <2>1. CASE x \in tofree /\ x # o
    <3>1. heap[x].live /\ heap[x].rc = 0
      BY <1>3, <2>1 DEF TableOK
    <3>2. x \notin Set(c)
      BY <1>17, <2>1, NullIsNoObject
    <3>3. g[x].rc = heap[x].rc - Occurrences(c, x) /\ g[x].live = heap[x].live
      BY <1>10, <2>1
    <3>4. Occurrences(c, x) = 0
      BY <1>14, <3>2
    <3> QED BY <3>1, <3>3, <3>4
  <2>2. CASE x \in Set(c) /\ g[x].rc = 0 /\ ~g[x].pushed
    BY <1>10, <1>13, <2>2, NullIsNoObject
  <2> QED BY <1>15, <2>1, <2>2
<1>27. ASSUME NEW x \in Objects, g[x].live, g[x].pushed \/ g[x].rc = 0
       PROVE  x \in tofree' \/ \E i \in 1..scan : zct[i] = x
  <2>1. x # o /\ heap[x].live /\ g[x].pushed = heap[x].pushed
        /\ g[x].rc = heap[x].rc - Occurrences(c, x)
    BY <1>10, <1>27
  <2>2. CASE heap[x].pushed \/ heap[x].rc = 0
    <3>1. x \in tofree \/ \E i \in 1..scan : zct[i] = x
      BY <1>3, <2>1, <2>2 DEF TableOK
    <3> QED BY <1>15, <2>1, <3>1
  <2>3. CASE ~heap[x].pushed /\ heap[x].rc # 0
    <3>1. g[x].rc = 0 /\ ~g[x].pushed
      BY <1>27, <2>1, <2>3
    <3>2. Occurrences(c, x) # 0
      BY <1>14, <2>1, <2>3, <3>1
    <3> QED BY <1>14, <1>15, <3>1, <3>2
  <2> QED BY <2>2, <2>3
<1>28. TableOK(g, zct, scan, tofree', failed)
  <2>1. \A i, j \in 1..scan : zct[i] = zct[j] => i = j
    BY <1>3 DEF TableOK
  <2>2. \A x \in tofree' : g[x].live /\ g[x].rc = 0
    BY <1>16, <1>26
  <2> QED BY <1>24, <1>25, <1>27, <2>1, <2>2 DEF TableOK
<1>29. TableInv'
  <2>1. Left' = scan /\ zct' = zct /\ failed' = failed
    BY <1>1 DEF Left
  <2> QED BY <1>11, <1>16, <1>28, <2>1 DEF TableInv
<1> QED BY <1>4, <1>5, <1>22, <1>29 DEF IInv

-----------------------------------------------------------------------------
(* What the table and the counts promise.                                  *)

\* Every step keeps it.
LEMMA StepKeeps ==
  ASSUME ~Foreign, IInv, [Next]_vars
  PROVE  IInv'
<1>1. CASE SourceFires
  BY <1>1, SourceFiresKeeps
<1>2. CASE SourceDone
  BY <1>2, SourceDoneKeeps
<1>3. CASE CallNext
  BY <1>3, CallNextKeeps
<1>4. ASSUME NEW op \in Operators,
             \/ Emit(op) \/ Alloc(op) \/ Read(op) \/ SetState(op)
             \/ SetElement(op) \/ IterEnd(op)
      PROVE  IInv'
  BY <1>4, EmitKeeps, AllocKeeps, ReadKeeps, SetStateKeeps, SetElementKeeps, IterEndKeeps
<1>5. CASE BlastEntry
  BY <1>5, BlastEntryKeeps
<1>6. CASE Free
  BY <1>6, FreeKeeps
<1>7. CASE BlastDone
  BY <1>7, BlastDoneKeeps
<1>8. CASE UNCHANGED vars
  <2>1. UNCHANGED <<heap, zct, failed, state, stack, depth, blasting, scan, tofree>>
    BY <1>8 DEF vars
  <2>2. MemoryInv' /\ LiveIn(heap)' = LiveIn(heap)
    BY <2>1, MemoryUnchanged DEF IInv
  <2>3. TableInv'
    BY <2>1, TableUnchanged DEF IInv
  <2>4. StackInv'
    BY <2>1, <2>2 DEF IInv, StackInv
  <2>5. BlastInv'
    BY <2>1 DEF IInv, BlastInv
  <2> QED BY <2>2, <2>3, <2>4, <2>5 DEF IInv
<1> QED BY <1>1, <1>2, <1>3, <1>4, <1>5, <1>6, <1>7, <1>8 DEF Next

\* IInv holds in every state, when no C code outside calls the source.
THEOREM ZctInvariance ==
  ASSUME ~Foreign
  PROVE  Spec => []IInv
<1>1. IInv /\ [Next]_vars => IInv'
  BY StepKeeps
<1> QED BY <1>1, InitOK, PTL DEF Spec

\* The counts are right.
THEOREM CountsStayExact ==
  ASSUME ~Foreign
  PROVE  Spec => []CountsAreExact
<1>1. IInv => CountsAreExact
  BY DEF IInv, MemoryInv, Exact, CountsAreExact, StateRefs, CellRefs, Live, LiveIn
<1> QED BY <1>1, ZctInvariance, PTL

\* No reference is to freed memory.
THEOREM NothingDangles ==
  ASSUME ~Foreign
  PROVE  Spec => []NoDangling
<1>1. ASSUME IInv PROVE NoDangling
  <2>1. Live = LiveIn(heap)
    BY DEF Live, LiveIn
  <2>2. \A i \in DOMAIN stack : stack[i].refs \subseteq Live
    <3>1. DOMAIN stack = 1..Len(stack)
      BY <1>1 DEF IInv, StackInv, StackOK
    <3> QED BY <1>1, <2>1, <3>1 DEF IInv, StackInv, StackOK, FrameOK
  <2>3. \A op \in Operators : state[op] \in Live \cup {Null}
    BY <1>1, <2>1 DEF IInv, MemoryInv, RefsLive
  <2>4. \A o \in Live : Set(heap[o].cells) \subseteq Live \cup {Null}
    BY <1>1, <2>1 DEF IInv, MemoryInv, RefsLive, LiveIn
  <2> QED BY <2>2, <2>3, <2>4 DEF NoDangling
<1> QED BY <1>1, ZctInvariance, PTL

\* With a depth that counts every function that holds locals, blasting is safe.
THEOREM BlastingIsSafe ==
  ASSUME ~Foreign
  PROVE  Spec => []SafeToBlast
<1>1. NoDangling => SafeToBlast
  BY DEF NoDangling, SafeToBlast
<1> QED BY <1>1, NothingDangles, PTL

\* Nothing is freed twice.
THEOREM FreedButOnce ==
  ASSUME ~Foreign
  PROVE  Spec => []FreedOnce
<1>1. ASSUME IInv PROVE FreedOnce
  <2>1. /\ zct \in Seq(Objects) /\ Len(zct) \in Nat /\ Left \in 0..Len(zct)
    BY <1>1 DEF IInv, MemoryInv, BlastInv, Left
  <2>2. Pending = SubSeq(zct, 1, Left)
    BY DEF Pending, Left
  <2>3. /\ DOMAIN Pending = 1..Left
        /\ \A i \in 1..Left : Pending[i] = zct[i] /\ zct[i] \in Objects
    BY <2>1, <2>2
  <2>4. TableOK(heap, zct, Left, tofree, failed) /\ tofree \subseteq Objects
    BY <1>1 DEF IInv, TableInv
  <2>5. Set(Pending) = {zct[i] : i \in 1..Left}
    BY <2>3 DEF Set
  <2>6. \A i, j \in DOMAIN Pending : Pending[i] = Pending[j] => i = j
    BY <2>3, <2>4 DEF TableOK
  <2>7. tofree \subseteq Live /\ Set(Pending) \subseteq Live /\ tofree \cap Set(Pending) = {}
    BY <2>3, <2>4, <2>5 DEF TableOK, Live
  <2>8. ~failed => {o \in Live : heap[o].pushed} \ tofree = Set(Pending)
    <3>1. \A o \in Set(Pending) : o \in Live /\ heap[o].pushed /\ o \notin tofree
      BY <2>3, <2>4, <2>5 DEF TableOK, Live
    <3>2. ~failed => \A o \in Live : heap[o].pushed => o \in tofree \/ o \in Set(Pending)
      BY <2>3, <2>4, <2>5 DEF TableOK, Live
    <3> QED BY <3>1, <3>2
  <2> QED BY <2>6, <2>7, <2>8 DEF FreedOnce
<1> QED BY <1>1, ZctInvariance, PTL

-----------------------------------------------------------------------------
(* Nothing is left over.                                                   *)

\* Induction over a set of numbers.
LEMMA SetInduction ==
  ASSUME NEW T \in SUBSET Nat, 0 \in T, \A n \in T : n + 1 \in T
  PROVE  T = Nat
<1> SUFFICES ASSUME Nat \ T # {} PROVE FALSE
  OBVIOUS
<1> DEFINE R == {p \in Nat \X Nat : p[1] < p[2]}
<1>1. IsWellFoundedOn(R, Nat)
  BY NatLessThanWellFounded DEF OpToRel
<1>2. \A x, y \in Nat : x < y => <<x, y>> \in R
  OBVIOUS
<1> HIDE DEF R
<1>3. PICK x \in Nat \ T : \A y \in Nat \ T : ~ (<<y, x>> \in R)
  BY <1>1, WFMin
<1>4. x # 0 /\ x - 1 \in Nat /\ x - 1 < x /\ (x - 1) + 1 = x
  BY <1>3
<1>5. x - 1 \in T
  BY <1>2, <1>3, <1>4
<1> QED BY <1>3, <1>4, <1>5

\* Only the empty set has an object below another for each of its objects.
LEMMA NoEndlessClimb ==
  ASSUME NEW U \in SUBSET Objects, NEW below \in [Objects -> SUBSET Objects],
         \A o \in U :
           o \notin below[o] /\ \E p \in U : o \in below[p] /\ below[o] \subseteq below[p]
  PROVE  U = {}
<1> SUFFICES ASSUME U # {} PROVE FALSE
  OBVIOUS
<1> DEFINE T == {n \in Nat : \E o \in U : Cardinality(below[o]) >= n}
<1>1. IsFiniteSet(Objects) /\ Cardinality(Objects) \in Nat
  BY FS_CardinalityType, HeapAssumption DEF HeapAssumption
<1>2. ASSUME NEW o \in Objects
      PROVE  /\ IsFiniteSet(below[o]) /\ Cardinality(below[o]) \in Nat
             /\ Cardinality(below[o]) <= Cardinality(Objects)
  <2>1. below[o] \in SUBSET Objects
    OBVIOUS
  <2>2. IsFiniteSet(below[o]) /\ Cardinality(below[o]) <= Cardinality(Objects)
    BY <1>1, <2>1, FS_Subset
  <2> QED BY <2>2, FS_CardinalityType
<1>3. 0 \in T
  <2>1. PICK o \in U : TRUE
    OBVIOUS
  <2>2. Cardinality(below[o]) \in Nat
    BY <1>2
  <2> QED BY <2>2
<1>4. ASSUME NEW n \in T PROVE n + 1 \in T
  <2>1. PICK o \in U : Cardinality(below[o]) >= n
    OBVIOUS
  <2>2. PICK p \in U : o \in below[p] /\ below[o] \subseteq below[p]
    OBVIOUS
  <2>3. o \notin below[o]
    OBVIOUS
  <2>4. IsFiniteSet(below[o]) /\ IsFiniteSet(below[p])
        /\ Cardinality(below[o]) \in Nat /\ Cardinality(below[p]) \in Nat
    BY <1>2
  <2>5. Cardinality(below[o] \cup {o}) = Cardinality(below[o]) + 1
    BY <2>3, <2>4, FS_AddElement
  <2>6. below[o] \cup {o} \in SUBSET below[p]
    BY <2>2
  <2>7. Cardinality(below[o] \cup {o}) <= Cardinality(below[p])
    BY <2>4, <2>6, FS_Subset
  <2>8. Cardinality(below[p]) >= n + 1
    BY <2>1, <2>4, <2>5, <2>7
  <2> QED BY <2>8
<1>5. Cardinality(Objects) + 1 \in T
  <2> HIDE DEF T
  <2>1. T \subseteq Nat
    BY DEF T
  <2> QED BY <1>1, <1>3, <1>4, <2>1, SetInduction
<1>6. PICK o \in U : Cardinality(below[o]) >= Cardinality(Objects) + 1
  BY <1>5
<1>7. Cardinality(below[o]) \in Nat /\ Cardinality(below[o]) <= Cardinality(Objects)
  BY <1>2
<1> QED BY <1>1, <1>6, <1>7

\* What the references of the objects in P lead to.
Next1(h, P) == P \cup UNION {Set(h[o].cells) : o \in P \ {Null}}
IsReach(h, S, f) ==
  f = [n \in 0..Cardinality(Objects) |-> IF n = 0 THEN S ELSE Next1(h, f[n - 1])]

\* The recursive function of Reach exists.
LEMMA ReachExists ==
  ASSUME NEW h, NEW S
  PROVE  \E f : IsReach(h, S, f)
<1> DEFINE N == Cardinality(Objects)
           Is(f, i) == f[i] = IF i = 0 THEN S ELSE Next1(h, f[i - 1])
           T == {n \in Nat : \E f : \A i \in 0..n : Is(f, i)}
<1>0. N \in Nat
  BY FS_CardinalityType, HeapAssumption DEF HeapAssumption
<1> HIDE DEF N
<1>1. 0 \in T
  <2> DEFINE f == [i \in 0..0 |-> S]
  <2>1. \A i \in 0..0 : Is(f, i)
    OBVIOUS
  <2> QED BY <2>1
<1>2. ASSUME NEW n \in T PROVE n + 1 \in T
  <2>1. PICK f : \A i \in 0..n : Is(f, i)
    OBVIOUS
  <2> DEFINE top == Next1(h, f[n])
             g == [i \in 0..(n + 1) |-> IF i = n + 1 THEN top ELSE f[i]]
  <2>2. g[n + 1] = top /\ \A i \in 0..n : g[i] = f[i]
    <3> HIDE DEF top
    <3> QED OBVIOUS
  <2> HIDE DEF g
  <2>3. ASSUME NEW i \in 0..n PROVE Is(g, i)
    <3>1. i = 0 \/ i - 1 \in 0..n
      OBVIOUS
    <3> QED BY <2>1, <2>2, <3>1
  <2>4. Is(g, n + 1)
    <3>1. (n + 1) - 1 = n /\ n + 1 # 0 /\ n \in 0..n
      OBVIOUS
    <3> QED BY <2>2, <3>1
  <2>5. \A i \in 0..(n + 1) : Is(g, i)
    <3>1. \A i \in 0..(n + 1) : i \in 0..n \/ i = n + 1
      OBVIOUS
    <3> QED BY <2>3, <2>4, <3>1
  <2> QED BY <2>5
<1>3. N \in T
  <2> HIDE DEF T
  <2>1. T \subseteq Nat
    BY DEF T
  <2> QED BY <1>0, <1>1, <1>2, <2>1, SetInduction
<1>4. PICK f : \A i \in 0..N : Is(f, i)
  BY <1>3
<1> DEFINE g == [i \in 0..N |-> f[i]]
           k == [i \in 0..N |-> IF i = 0 THEN S ELSE Next1(h, g[i - 1])]
<1>5. ASSUME NEW i \in 0..N PROVE k[i] = f[i]
  <2>1. i = 0 \/ i - 1 \in 0..N
    BY <1>0
  <2> QED BY <1>4, <2>1
<1>6. g = k
  BY <1>5
<1> HIDE DEF g
<1>7. IsReach(h, S, g)
  BY <1>6 DEF IsReach, N
<1> QED BY <1>7

\* Reach(S) has the objects of S, and whatever its objects refer to.
LEMMA ReachIsClosed ==
  ASSUME NEW st, RefsLive(heap, st), NEW S \in SUBSET (LiveIn(heap) \cup {Null})
  PROVE  /\ Reach(S) \subseteq LiveIn(heap) /\ S \ {Null} \subseteq Reach(S)
         /\ \A o \in Reach(S) : Set(heap[o].cells) \ {Null} \subseteq Reach(S)
<1> DEFINE N == Cardinality(Objects)
           f == CHOOSE g : IsReach(heap, S, g)
           A(n) == f[n] \ {Null}
           Closed(P) == \A o \in P : Set(heap[o].cells) \ {Null} \subseteq P
           T == {n \in Nat : n <= N =>
                   /\ S \subseteq f[n] /\ A(n) \subseteq LiveIn(heap)
                   /\ Cardinality(A(n)) >= n \/ Closed(A(n))}
<1>1. IsReach(heap, S, f)
  BY ReachExists
<1>2. Reach(S) = A(N)
  BY DEF Reach, IsReach, Next1
<1> HIDE DEF f
<1>0. N \in Nat /\ IsFiniteSet(Objects)
  BY FS_CardinalityType, HeapAssumption DEF HeapAssumption
<1>3. \A n \in 0..N : f[n] = IF n = 0 THEN S ELSE Next1(heap, f[n - 1])
  BY <1>1, Zenon DEF IsReach
<1> HIDE DEF N
<1>4. f[0] = S /\ \A n \in Nat : n + 1 <= N => f[n + 1] = Next1(heap, f[n])
  <2>1. 0 \in 0..N /\ \A n \in Nat : n + 1 <= N => n + 1 \in 0..N /\ n + 1 # 0 /\ (n + 1) - 1 = n
    BY <1>0
  <2> QED BY <1>3, <2>1
<1>5. \A P \in SUBSET LiveIn(heap) : IsFiniteSet(P) /\ Cardinality(P) \in Nat
  <2> TAKE P \in SUBSET LiveIn(heap)
  <2>1. P \in SUBSET Objects
    BY DEF LiveIn
  <2>2. IsFiniteSet(P)
    BY <1>0, <2>1, FS_Subset
  <2> QED BY <2>2, FS_CardinalityType
<1>6. 0 \in T
  <2>1. S \subseteq f[0] /\ A(0) \subseteq LiveIn(heap)
    BY <1>4
  <2>2. Cardinality(A(0)) >= 0
    BY <1>5, <2>1
  <2> QED BY <2>1, <2>2
<1>7. ASSUME NEW n \in T, n + 1 <= N PROVE n + 1 \in T
  <2>1. S \subseteq f[n] /\ A(n) \subseteq LiveIn(heap)
    BY <1>0, <1>7
  <2>2. f[n + 1] = f[n] \cup UNION {Set(heap[o].cells) : o \in A(n)}
    BY <1>4, <1>7 DEF Next1
  <2>3. \A o \in A(n) : Set(heap[o].cells) \subseteq LiveIn(heap) \cup {Null}
    BY <2>1 DEF RefsLive, LiveIn
  <2>4. /\ A(n) \subseteq A(n + 1)
        /\ \A x \in A(n + 1) : x \in A(n) \/ \E o \in A(n) : x \in Set(heap[o].cells)
    BY <2>2
  <2>5. S \subseteq f[n + 1] /\ A(n + 1) \subseteq LiveIn(heap)
    BY <2>1, <2>2, <2>3
  <2>6. CASE Closed(A(n))
    <3>1. A(n + 1) = A(n)
      BY <2>4, <2>6
    <3>2. Closed(A(n + 1))
      BY <2>6, <3>1
    <3> QED BY <2>5, <3>2
  <2>7. CASE ~Closed(A(n))
    <3>1. Cardinality(A(n)) >= n
      BY <1>0, <1>7, <2>7
    <3>2. PICK o \in A(n) : \E x \in Set(heap[o].cells) : x # Null /\ x \notin A(n)
      BY <2>7
    <3>3. PICK x \in Set(heap[o].cells) : x # Null /\ x \notin A(n)
      BY <3>2
    <3>4. x \in A(n + 1)
      BY <2>2, <3>3
    <3> DEFINE P == A(n)
               Q == A(n + 1)
    <3>5. P \in SUBSET LiveIn(heap) /\ Q \in SUBSET LiveIn(heap) /\ x \notin P
          /\ P \cup {x} \in SUBSET Q /\ Cardinality(P) >= n
      BY <2>1, <2>4, <2>5, <3>1, <3>3, <3>4
    <3> HIDE DEF P, Q
    <3>6. IsFiniteSet(P) /\ IsFiniteSet(Q) /\ Cardinality(P) \in Nat /\ Cardinality(Q) \in Nat
      BY <1>5, <3>5
    <3>7. Cardinality(P \cup {x}) = Cardinality(P) + 1
      BY <3>5, <3>6, FS_AddElement
    <3>8. Cardinality(P \cup {x}) <= Cardinality(Q)
      BY <3>5, <3>6, FS_Subset
    <3>9. Cardinality(Q) >= n + 1
      BY <3>5, <3>6, <3>7, <3>8
    <3> QED BY <2>5, <3>9 DEF Q
  <2> QED BY <2>6, <2>7
<1>8. N \in T
  <2>1. \A n \in T : n + 1 \in T
    <3> SUFFICES ASSUME NEW n \in T PROVE n + 1 \in T
      OBVIOUS
    <3>1. CASE n + 1 <= N
      BY <1>7, <3>1
    <3>2. CASE ~(n + 1 <= N)
      BY <3>2
    <3> QED BY <3>1, <3>2
  <2>2. T \subseteq Nat
    OBVIOUS
  <2> HIDE DEF T
  <2> QED BY <1>0, <1>6, <2>1, <2>2, SetInduction
<1>9. /\ S \subseteq f[N] /\ A(N) \subseteq LiveIn(heap)
      /\ Cardinality(A(N)) >= N \/ Closed(A(N))
  BY <1>0, <1>8
\* When it has every object it is closed as well.
<1>10. Closed(A(N))
  <2> SUFFICES ASSUME Cardinality(A(N)) >= N PROVE Closed(A(N))
    BY <1>9
  <2> DEFINE P == A(N)
  <2>1. P \in SUBSET Objects /\ P \in SUBSET LiveIn(heap)
    BY <1>9 DEF LiveIn
  <2>0. Cardinality(P) >= N
    OBVIOUS
  <2> HIDE DEF P
  <2>2. Cardinality(P) <= N /\ (Cardinality(Objects) = Cardinality(P) => Objects = P)
    BY <1>0, <2>1, FS_Subset DEF N
  <2>3. Cardinality(P) \in Nat
    BY <1>5, <2>1
  <2>4. Cardinality(P) = N
    BY <1>0, <2>0, <2>2, <2>3
  <2>5. P = Objects
    BY <2>2, <2>4 DEF N
  <2>6. \A o \in P : Set(heap[o].cells) \ {Null} \subseteq Objects
    BY <2>1 DEF RefsLive, LiveIn
  <2> QED BY <2>5, <2>6 DEF P
<1> QED BY <1>2, <1>9, <1>10

\* Between two firings every live object has a reference, and it is reached.
LEMMA NothingLeft ==
  ASSUME IInv, stack = <<>>, ~blasting
  PROVE  Live = Reach({state[op] : op \in Operators}) /\ zct = <<>>
<1> DEFINE S == {state[op] : op \in Operators}
           U == Live \ Reach(S)
<1>1. zct = <<>> /\ ~failed /\ tofree = {} /\ Len(zct) = 0 /\ Left = 0
  <2>1. Len(stack) = 0
    OBVIOUS
  <2>2. zct = <<>> /\ ~failed /\ tofree = {}
    BY <2>1 DEF IInv, BlastInv
  <2>3. Len(zct) = 0
    BY <2>2
  <2> QED BY <2>2, <2>3 DEF Left
<1>2. /\ CellsOK(heap) /\ RefsLive(heap, state) /\ Exact(heap, state) /\ Ranked(heap)
  BY DEF IInv, MemoryInv
<1>3. \A o \in Objects : heap[o].live => heap[o].rc # 0
  BY <1>1 DEF IInv, TableInv, TableOK
<1>4. S \in SUBSET (LiveIn(heap) \cup {Null})
  BY <1>2 DEF RefsLive
<1>5. Live = LiveIn(heap) /\ LiveIn(heap) \subseteq Objects
  BY DEF Live, LiveIn
<1> HIDE DEF S
<1>6. /\ Reach(S) \subseteq Live /\ S \ {Null} \subseteq Reach(S)
      /\ \A o \in Reach(S) : Set(heap[o].cells) \ {Null} \subseteq Reach(S)
  BY <1>2, <1>4, <1>5, ReachIsClosed
<1> HIDE DEF U
\* What refers to an object that is not reached is not reached either.
<1>7. ASSUME NEW o \in U PROVE \E p \in U : o \in Set(heap[p].cells)
  <2>1. o \in Objects /\ heap[o].live /\ o \notin Reach(S) /\ o # Null
    BY <1>5, NullIsNoObject DEF U, LiveIn
  <2>2. \/ \E op \in Operators : state[op] = o
        \/ \E p \in Objects : heap[p].live /\ o \in Set(heap[p].cells)
    BY <1>2, <1>3, <2>1, ZeroMeansNone
  <2>3. \A op \in Operators : state[op] # o
    BY <1>6, <2>1 DEF S
  <2>4. PICK p \in Objects : heap[p].live /\ o \in Set(heap[p].cells)
    BY <2>2, <2>3
  <2>5. p \notin Reach(S)
    BY <1>6, <2>1, <2>4
  <2>6. p \in U
    BY <2>4, <2>5 DEF U, Live
  <2> QED BY <2>4, <2>6
\* It is a cons: leaves refer to nothing, and no cell refers to a table.
<1>8. ASSUME NEW p \in U, NEW o \in Objects, o \in Set(heap[p].cells)
      PROVE  p \notin Leaves /\ o \notin Tables
  <2>1. p \in Objects /\ heap[p].live
    BY <1>5 DEF U, LiveIn
  <2>2. heap[p].cells \in Contents(p)
    BY <1>2, <2>1 DEF CellsOK
  <2> DEFINE c == heap[p].cells
  <2>3. /\ DOMAIN c = 1..Len(c)
        /\ p \in Conses => \A i \in 1..Len(c) : c[i] \in Leaves \cup Conses \cup {Null}
        /\ p \in Tables => \A i \in 1..Len(c) : c[i] \in Conses \cup {Null}
        /\ p \in Leaves => c = <<>>
    BY <2>1, <2>2, ContentsAre
  <2> HIDE DEF c
  <2>4. PICK i \in 1..Len(c) : c[i] = o
    BY <1>8, <2>3 DEF Set, c
  <2>5. p \notin Leaves
    BY <2>3, <2>4
  <2>6. c[i] \in Leaves \cup Conses \cup {Null}
    BY <2>1, <2>3, <2>4, <2>5 DEF Objects
  <2> QED BY <2>4, <2>5, <2>6, NullIsNoObject, HeapAssumption DEF HeapAssumption, Objects
<1>9. ASSUME NEW o \in U PROVE \E p \in U : p \in Conses /\ o \in Set(heap[p].cells)
  <2>1. PICK p \in U : o \in Set(heap[p].cells)
    BY <1>7
  <2>2. PICK q \in U : p \in Set(heap[q].cells)
    BY <1>7
  <2>3. o \in Objects /\ p \in Objects
    BY <1>5 DEF U
  <2>4. p \notin Leaves /\ p \notin Tables
    BY <1>8, <2>1, <2>2, <2>3
  <2> QED BY <2>1, <2>3, <2>4 DEF Objects
<1>10. PICK below \in [Objects -> SUBSET Objects] : Ranking(heap, below)
  BY <1>2 DEF Ranked
<1>11. ASSUME NEW o \in U
       PROVE  o \notin below[o] /\ \E p \in U : o \in below[p] /\ below[o] \subseteq below[p]
  <2>1. o \in Objects /\ heap[o].live /\ o # Null
    BY <1>5, NullIsNoObject DEF U, LiveIn
  <2>2. o \notin below[o]
    BY <1>10, <2>1 DEF Ranking
  <2>3. PICK p \in U : p \in Conses /\ o \in Set(heap[p].cells)
    BY <1>9
  <2>4. heap[p].live
    BY <1>5 DEF U, LiveIn
  <2>5. o \in below[p] /\ below[o] \subseteq below[p]
    BY <1>10, <2>1, <2>3, <2>4 DEF Ranking
  <2> QED BY <2>2, <2>5
<1>12. U \in SUBSET Objects
  BY <1>5 DEF U
<1>13. U = {}
  BY <1>11, <1>12, NoEndlessClimb
<1>14. Live = Reach(S)
  BY <1>6, <1>13 DEF U
<1> QED BY <1>1, <1>14 DEF S

\* No garbage is left between two firings.
THEOREM GarbageIsCollected ==
  ASSUME ~Foreign
  PROVE  Spec => []Collected
<1>1. IInv => Collected
  BY NothingLeft DEF Collected
<1> QED BY <1>1, ZctInvariance, PTL

\* Types.
THEOREM ZctTypes ==
  ASSUME ~Foreign
  PROVE  Spec => []TypeOK
<1>1. ASSUME IInv PROVE TypeOK
  <2>1. \A o \in Objects : heap[o] \in Records
    BY <1>1 DEF IInv, MemoryInv, Heaps
  <2>2. \A o \in Objects : heap[o].rc \in Nat /\ heap[o].pushed \in BOOLEAN
    BY <2>1 DEF Records
  <2>3. \A o \in Objects : heap[o].live => heap[o].cells \in Contents(o)
    BY <1>1 DEF IInv, MemoryInv, CellsOK
  <2>4. /\ zct \in Seq(Objects) /\ Len(zct) <= ZctSize /\ failed \in BOOLEAN
        /\ \A op \in Operators : state[op] \in Holds[op] \cup {Null}
    BY <1>1 DEF IInv, MemoryInv
  <2>5. stack \in Seq(Frames)
    BY <1>1 DEF IInv, StackInv, StackOK
  <2>6. \A i \in DOMAIN stack : stack[i].refs \subseteq Objects
    <3>1. \A i \in DOMAIN stack : stack[i] \in Frames
      BY <2>5
    <3> QED BY <3>1 DEF Frames
  <2>7. depth \in Nat
    <3>1. Len(stack) \in Nat
      BY <2>5
    <3> QED BY <1>1, <3>1 DEF IInv, StackInv
  <2>8. Len(zct) \in Nat
    BY <2>4
  <2>9. blasting \in BOOLEAN /\ scan \in 0..Len(zct)
    BY <1>1, <2>8 DEF IInv, BlastInv
  <2>10. tofree \subseteq Objects
    BY <1>1 DEF IInv, TableInv
  <2> QED BY <2>2, <2>3, <2>4, <2>6, <2>7, <2>9, <2>10 DEF TypeOK
<1> QED BY <1>1, ZctInvariance, PTL
=============================================================================
