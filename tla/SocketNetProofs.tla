-------------------------- MODULE SocketNetProofs ---------------------------
(***************************************************************************)
(* Theorems about socket_out and socket_in, for any programs, lengths of   *)
(* headers and messages, and wires: no read can block, every byte is       *)
(* accounted for until its message is emitted, and what comes out of a     *)
(* connection is a run of consecutive messages of the file it began with.  *)
(***************************************************************************)
EXTENDS SocketNet, SequenceTheorems, WellFoundedInduction, TLAPS

-----------------------------------------------------------------------------
(* Induction, and sequences.                                               *)

LEMMA SetInduction ==
  ASSUME NEW T \in SUBSET Nat, 0 \in T, \A n \in T : n + 1 \in T
  PROVE  T = Nat
<1> SUFFICES ASSUME Nat \ T # {} PROVE FALSE
  OBVIOUS
<1> DEFINE R == {p \in Nat \X Nat : p[1] < p[2]}
<1>1. IsWellFoundedOn(R, Nat)
  BY NatLessThanWellFounded DEF OpToRel
<1>2. \A x, y \in Nat : x < y => <<x, y>> \in R
  OBVIOUS
<1> HIDE DEF R
<1>3. PICK x \in Nat \ T : \A y \in Nat \ T : ~ (<<y, x>> \in R)
  BY <1>1, WFMin
<1>4. x # 0 /\ x - 1 \in Nat /\ x - 1 < x /\ (x - 1) + 1 = x
  BY <1>3
<1>5. x - 1 \in T
  BY <1>2, <1>3, <1>4
<1> QED BY <1>3, <1>4, <1>5

\* Two ways to cut a sequence in two at the same place are one.
LEMMA SameCut ==
  ASSUME NEW B, NEW a \in Seq(B), NEW b \in Seq(B), NEW c \in Seq(B), NEW d \in Seq(B),
         a \o b = c \o d, Len(a) = Len(c)
  PROVE  a = c /\ b = d
<1>1. \A i \in 1..Len(a) : a[i] = (a \o b)[i] /\ c[i] = (c \o d)[i]
  BY ConcatProperties
<1>2. a = c
  BY <1>1, SeqEqual
<1> QED BY <1>2, ConcatSimplifications

\* Cutting s after its first k elements.
LEMMA Cut ==
  ASSUME NEW B, NEW s \in Seq(B), NEW k \in 0..Len(s)
  PROVE  /\ SubSeq(s, 1, k) \in Seq(B) /\ Len(SubSeq(s, 1, k)) = k
         /\ Drop(s, k) \in Seq(B) /\ Len(Drop(s, k)) = Len(s) - k
         /\ SubSeq(s, 1, k) \o Drop(s, k) = s
<1>1. Len(s) \in Nat /\ k \in Nat /\ k <= Len(s)
  OBVIOUS
<1>2. SubSeq(s, 1, k) \in Seq(B) /\ Len(SubSeq(s, 1, k)) = k
  BY <1>1
<1>3. Drop(s, k) \in Seq(B) /\ Len(Drop(s, k)) = Len(s) - k
  BY <1>1 DEF Drop
<1>4. 1 \in 1..(Len(s) + 1) /\ k \in (1 - 1)..Len(s) /\ Len(s) \in k..Len(s)
  BY <1>1
<1>5. SubSeq(s, 1, k) \o SubSeq(s, k + 1, Len(s)) = SubSeq(s, 1, Len(s))
  BY <1>4, ConcatAdjacentSubSeq
<1> QED BY <1>2, <1>3, <1>5, SubSeqFull DEF Drop

LEMMA Reassociate ==
  ASSUME NEW B
  PROVE  \A a, b, c \in Seq(B) : (a \o b) \o c = a \o (b \o c)
BY ConcatAssociative

\* Concatenating one more, last and first.
IsFlat(f, s) == f = [i \in 1..Len(s) |-> IF i = 1 THEN s[i] ELSE f[i - 1] \o s[i]]

LEMMA FlatExists ==
  ASSUME NEW B, NEW s \in Seq(Seq(B))
  PROVE  \E f : IsFlat(f, s)
<1> DEFINE Is(f, i) == f[i] = IF i = 1 THEN s[i] ELSE f[i - 1] \o s[i]
           T == {n \in Nat : \E f : \A i \in 1..n : Is(f, i)}
<1>1. 0 \in T
  OBVIOUS
<1>2. ASSUME NEW n \in T PROVE n + 1 \in T
  <2>1. PICK f : \A i \in 1..n : Is(f, i)
    OBVIOUS
  <2> DEFINE top == IF n + 1 = 1 THEN s[n + 1] ELSE f[n] \o s[n + 1]
             g == [i \in 1..(n + 1) |-> IF i = n + 1 THEN top ELSE f[i]]
  <2>2. g[n + 1] = top /\ \A i \in 1..n : g[i] = f[i]
    <3> HIDE DEF top
    <3> QED OBVIOUS
  <2>3. \A i \in 1..(n + 1) : (i \in 1..n /\ (i = 1 \/ i - 1 \in 1..n)) \/ i = n + 1
    OBVIOUS
  <2>4. (n + 1) - 1 = n /\ (n + 1 # 1 => n \in 1..n)
    OBVIOUS
  <2> HIDE DEF g
  <2>5. ASSUME NEW i \in 1..n PROVE Is(g, i)
    <3>1. i \in 1..(n + 1) /\ i # n + 1
      OBVIOUS
    <3> QED BY <2>1, <2>2, <2>3, <3>1
  <2>6. Is(g, n + 1)
    BY <2>2, <2>4
  <2>7. \A i \in 1..(n + 1) : Is(g, i)
    BY <2>3, <2>5, <2>6
  <2> QED BY <2>7
<1>3. Len(s) \in T
  <2> HIDE DEF T
  <2>1. T \subseteq Nat /\ Len(s) \in Nat
    BY DEF T
  <2> QED BY <1>1, <1>2, <2>1, SetInduction
<1>4. PICK f : \A i \in 1..Len(s) : Is(f, i)
  BY <1>3
<1> DEFINE g == [i \in 1..Len(s) |-> f[i]]
           h == [i \in 1..Len(s) |-> IF i = 1 THEN s[i] ELSE g[i - 1] \o s[i]]
<1>5. ASSUME NEW i \in 1..Len(s) PROVE h[i] = f[i]
  <2>1. i = 1 \/ i - 1 \in 1..Len(s)
    OBVIOUS
  <2> QED BY <1>4, <2>1
<1>6. g = h
  BY <1>5
<1> QED BY <1>6 DEF IsFlat

LEMMA FlatType ==
  ASSUME NEW B, NEW s \in Seq(Seq(B)), NEW f, IsFlat(f, s), NEW j \in 1..Len(s)
  PROVE  f[j] \in Seq(B)
<1> DEFINE T == {n \in Nat : \A i \in 1..Len(s) : i <= n => f[i] \in Seq(B)}
<1>0. \A i \in 1..Len(s) : f[i] = IF i = 1 THEN s[i] ELSE f[i - 1] \o s[i]
  BY DEF IsFlat
<1>1. 0 \in T
  OBVIOUS
<1>2. ASSUME NEW n \in T PROVE n + 1 \in T
  <2> SUFFICES ASSUME NEW i \in 1..Len(s), i = n + 1 PROVE f[i] \in Seq(B)
    OBVIOUS
  <2>1. i = 1 \/ (i - 1 \in 1..Len(s) /\ i - 1 <= n)
    OBVIOUS
  <2>2. s[i] \in Seq(B)
    BY ElementOfSeq
  <2>3. i # 1 => f[i - 1] \in Seq(B)
    BY <2>1
  <2>4. i # 1 => f[i - 1] \o s[i] \in Seq(B)
    BY <2>2, <2>3, ConcatProperties
  <2> QED BY <1>0, <2>2, <2>4
<1>3. j \in T
  <2> HIDE DEF T
  <2>1. T \subseteq Nat /\ j \in Nat
    BY DEF T
  <2> QED BY <1>1, <1>2, <2>1, SetInduction
<1> QED BY <1>3

LEMMA FlatIs ==
  ASSUME NEW B, NEW s \in Seq(Seq(B)), Len(s) > 0
  PROVE  \E f : IsFlat(f, s) /\ FlattenSeq(s) = f[Len(s)]
<1> DEFINE f == CHOOSE f : f = [i \in 1..Len(s) |-> IF i = 1 THEN s[i] ELSE f[i - 1] \o s[i]]
<1>1. IsFlat(f, s)
  BY FlatExists DEF IsFlat
<1>2. FlattenSeq(s) = f[Len(s)]
  BY DEF FlattenSeq
<1> QED BY <1>1, <1>2

LEMMA FlattenEmpty == FlattenSeq(<<>>) = <<>>
BY DEF FlattenSeq

LEMMA FlattenType ==
  ASSUME NEW B, NEW s \in Seq(Seq(B))
  PROVE  FlattenSeq(s) \in Seq(B)
<1>1. CASE Len(s) > 0
  BY <1>1, FlatIs, FlatType
<1>2. CASE Len(s) = 0
  <2>1. s = <<>>
    BY <1>2, EmptySeq
  <2> QED BY <2>1, FlattenEmpty, EmptySeq
<1> QED BY <1>1, <1>2

LEMMA FlattenLast ==
  ASSUME NEW B, NEW s \in Seq(Seq(B)), NEW x \in Seq(B)
  PROVE  FlattenSeq(Append(s, x)) = FlattenSeq(s) \o x
<1> DEFINE t == Append(s, x)
<1>1. t \in Seq(Seq(B)) /\ Len(t) = Len(s) + 1 /\ Len(t) > 0 /\ t[Len(t)] = x
  OBVIOUS
<1>2. \A i \in 1..Len(s) : t[i] = s[i]
  OBVIOUS
<1> HIDE DEF t
<1>3. PICK g : IsFlat(g, t) /\ FlattenSeq(t) = g[Len(t)]
  BY <1>1, FlatIs
<1>4. \A i \in 1..Len(t) : g[i] = IF i = 1 THEN t[i] ELSE g[i - 1] \o t[i]
  BY <1>3 DEF IsFlat
<1>5. CASE Len(s) = 0
  <2>1. FlattenSeq(t) = x
    BY <1>1, <1>3, <1>4, <1>5
  <2>2. s = <<>>
    BY <1>5
  <2> QED BY <2>1, <2>2, FlattenEmpty, ConcatEmptySeq DEF t
<1>6. CASE Len(s) > 0
  <2>1. PICK f : IsFlat(f, s) /\ FlattenSeq(s) = f[Len(s)]
    BY <1>6, FlatIs
  <2>2. \A i \in 1..Len(s) : f[i] = IF i = 1 THEN s[i] ELSE f[i - 1] \o s[i]
    BY <2>1 DEF IsFlat
  <2> DEFINE T == {n \in Nat : \A i \in 1..Len(s) : i <= n => f[i] = g[i]}
  <2>3. 0 \in T
    OBVIOUS
  <2>4. ASSUME NEW n \in T PROVE n + 1 \in T
    <3> SUFFICES ASSUME NEW i \in 1..Len(s), i = n + 1 PROVE f[i] = g[i]
      OBVIOUS
    <3>1. i = 1 \/ (i - 1 \in 1..Len(s) /\ i - 1 <= n)
      OBVIOUS
    <3>2. i \in 1..Len(t)
      BY <1>1
    <3>3. i # 1 => f[i - 1] = g[i - 1]
      BY <3>1
    <3> QED BY <1>2, <1>4, <2>2, <3>2, <3>3
  <2>5. Len(s) \in T
    <3> HIDE DEF T
    <3>1. T \subseteq Nat /\ Len(s) \in Nat
      BY DEF T
    <3> QED BY <2>3, <2>4, <3>1, SetInduction
  <2>6. f[Len(s)] = g[Len(s)]
    BY <1>6, <2>5
  <2>7. Len(t) \in 1..Len(t) /\ Len(t) # 1 /\ Len(t) - 1 = Len(s)
    BY <1>1, <1>6
  <2> QED BY <1>1, <1>3, <1>4, <2>1, <2>6, <2>7 DEF t
<1>7. Len(s) = 0 \/ Len(s) > 0
  OBVIOUS
<1> QED BY <1>5, <1>6, <1>7

LEMMA FlattenPast ==
  ASSUME NEW B, NEW v \in Seq(Seq(B)), v # <<>>, NEW x \in Seq(B),
         FlattenSeq(v) = v[1] \o FlattenSeq(Tail(v))
  PROVE  FlattenSeq(Append(v, x)) = Append(v, x)[1] \o FlattenSeq(Tail(Append(v, x)))
<1> DEFINE y == FlattenSeq(Tail(v))
           w == v[1]
<1>1. Tail(v) \in Seq(Seq(B)) /\ w \in Seq(B)
  BY HeadTailProperties
<1>2. Tail(Append(v, x)) = Append(Tail(v), x) /\ Append(v, x)[1] = w
  OBVIOUS
<1>3. FlattenSeq(Append(v, x)) = (w \o y) \o x
  BY FlattenLast
<1>4. y \in Seq(B)
  BY <1>1, FlattenType
<1>5. FlattenSeq(Tail(Append(v, x))) = y \o x
  BY <1>1, <1>2, FlattenLast
<1> HIDE DEF y, w
<1>6. (w \o y) \o x = w \o (y \o x)
  BY <1>1, <1>4, ConcatAssociative
<1> QED BY <1>2, <1>3, <1>5, <1>6

LEMMA FlattenFirst ==
  ASSUME NEW B, NEW s \in Seq(Seq(B)), s # <<>>
  PROVE  FlattenSeq(s) = s[1] \o FlattenSeq(Tail(s))
<1> DEFINE Q(u) == FlattenSeq(u) = u[1] \o FlattenSeq(Tail(u))
           T == {n \in Nat : \A u \in Seq(Seq(B)) : Len(u) = n + 1 => Q(u)}
<1>1. 0 \in T
  <2> SUFFICES ASSUME NEW u \in Seq(Seq(B)), Len(u) = 1 PROVE Q(u)
    OBVIOUS
  <2>1. u # <<>>
    <3>1. Len(<<>>) # 1
      OBVIOUS
    <3> QED BY <3>1, Zenon
  <2>2. PICK v \in Seq(Seq(B)), x \in Seq(B) : u = Append(v, x)
    BY <2>1, SequenceEmptyOrAppend
  <2>3. v = <<>> /\ u[1] = x /\ Tail(u) = <<>>
    BY <2>2
  <2>4. FlattenSeq(u) = FlattenSeq(v) \o x
    BY <2>2, FlattenLast
  <2> QED BY <2>2, <2>3, <2>4, FlattenEmpty, ConcatEmptySeq
<1>2. ASSUME NEW n \in T PROVE n + 1 \in T
  <2> SUFFICES ASSUME NEW u \in Seq(Seq(B)), Len(u) = (n + 1) + 1 PROVE Q(u)
    OBVIOUS
  <2>0. n \in Nat
    OBVIOUS
  <2>1. u # <<>>
    BY <2>0
  <2>2. PICK v \in Seq(Seq(B)), x \in Seq(B) : u = Append(v, x)
    BY <2>1, SequenceEmptyOrAppend
  <2>3. Len(v) = n + 1 /\ v # <<>>
    BY <2>0, <2>2
  <2>4. Q(v)
    BY <2>3
  <2> QED BY <2>2, <2>3, <2>4, FlattenPast
<1>3. Len(s) - 1 \in T
  <2> HIDE DEF T
  <2>1. T \subseteq Nat /\ Len(s) - 1 \in Nat
    BY EmptySeq DEF T
  <2> QED BY <1>1, <1>2, <2>1, SetInduction
<1> QED BY <1>3, EmptySeq

-----------------------------------------------------------------------------
(* Programs, and the lists of links in them.                               *)

LEMMA ProgramFacts ==
  ASSUME program \in Programs
  PROVE  /\ Len(program.links) \in Nat /\ Link = 1..Len(program.links)
         /\ program.source \subseteq Node
         /\ \A l \in Link : /\ From(l) \in Node /\ To(l) \in Node /\ Strm(l) \in Nat
                            /\ \/ Strm(l) = 0 /\ From(l) \in program.source
                               \/ Strm(l) \in Link /\ To(Strm(l)) = From(l)
         /\ 0 \notin Link
         /\ program.nodrop \in BOOLEAN
<1>1. program.links \in Seq([from : Node, to : Node, strm : Nat])
  BY SNPrograms
<1>2. Len(program.links) \in Nat /\ Link = 1..Len(program.links)
  BY <1>1 DEF Link
<1>3. \A l \in Link : program.links[l] \in [from : Node, to : Node, strm : Nat]
  BY <1>1, <1>2, ElementOfSeq
<1>4. \A l \in Link : \/ Strm(l) = 0 /\ From(l) \in program.source
                      \/ Strm(l) \in Link /\ To(Strm(l)) = From(l)
  BY SNPrograms DEF Link, Strm, From, To
<1>5. program.source \subseteq Node /\ program.nodrop \in BOOLEAN
  BY SNLengths, SNPrograms
<1> QED BY <1>2, <1>3, <1>4, <1>5 DEF From, To, Strm

\* InOrder lists each member of S once.
LEMMA InOrderIs ==
  ASSUME program \in Programs, NEW S \in SUBSET Link
  PROVE  LET s == InOrder(S) IN
         /\ s \in Seq(S)
         /\ \A l \in S : \E k \in 1..Len(s) : s[k] = l
         /\ \A j, k \in 1..Len(s) : j # k => s[j] # s[k]
<1> DEFINE N == Len(program.links)
           More(s, l) == IF l \in S THEN Append(s, l) ELSE s
           Is(f, l) == f[l] = IF l = 0 THEN <<>> ELSE More(f[l - 1], l)
           Good(s, n) == /\ s \in Seq(S)
                         /\ \A l \in S : l <= n => \E k \in 1..Len(s) : s[k] = l
                         /\ \A k \in 1..Len(s) : s[k] <= n
                         /\ \A j, k \in 1..Len(s) : j # k => s[j] # s[k]
<1>0. N \in Nat /\ S \subseteq 1..N
  BY ProgramFacts
<1>1. \E f : f = [l \in 0..N |-> IF l = 0 THEN <<>> ELSE More(f[l - 1], l)]
  <2> HIDE DEF More
  <2> DEFINE T == {n \in Nat : \E f : \A l \in 0..n : Is(f, l)}
  <2>1. 0 \in T
    <3> DEFINE f == [l \in 0..0 |-> <<>>]
    <3>1. \A l \in 0..0 : Is(f, l)
      OBVIOUS
    <3> QED BY <3>1
  <2>2. ASSUME NEW n \in T PROVE n + 1 \in T
    <3>1. PICK f : \A l \in 0..n : Is(f, l)
      OBVIOUS
    <3> DEFINE top == More(f[n], n + 1)
               g == [l \in 0..(n + 1) |-> IF l = n + 1 THEN top ELSE f[l]]
    <3>2. g[n + 1] = top /\ \A l \in 0..n : g[l] = f[l]
      OBVIOUS
    <3>3. \A l \in 0..(n + 1) : \/ l \in 0..n /\ (l = 0 \/ l - 1 \in 0..n)
                                \/ l = n + 1 /\ l # 0 /\ l - 1 = n
      OBVIOUS
    <3> HIDE DEF g
    <3>4. ASSUME NEW l \in 0..n PROVE Is(g, l)
      BY <3>1, <3>2, <3>3
    <3>5. Is(g, n + 1)
      BY <3>2, <3>3
    <3> QED BY <3>3, <3>4, <3>5
  <2>3. N \in T
    <3> HIDE DEF T
    <3>1. T \subseteq Nat
      BY DEF T
    <3> QED BY <1>0, <2>1, <2>2, <3>1, SetInduction
  <2>4. PICK f : \A l \in 0..N : Is(f, l)
    BY <2>3
  <2> DEFINE g == [l \in 0..N |-> f[l]]
             h == [l \in 0..N |-> IF l = 0 THEN <<>> ELSE More(g[l - 1], l)]
  <2>5. ASSUME NEW l \in 0..N PROVE h[l] = f[l]
    <3>1. l = 0 \/ l - 1 \in 0..N
      BY <1>0
    <3> QED BY <2>4, <3>1
  <2>6. g = h
    BY <2>5
  <2> QED BY <2>6
<1> DEFINE list == CHOOSE f : f = [l \in 0..N |-> IF l = 0 THEN <<>> ELSE More(f[l - 1], l)]
<1>2. list = [l \in 0..N |-> IF l = 0 THEN <<>> ELSE More(list[l - 1], l)]
  BY <1>1
<1>3. InOrder(S) = list[N]
  BY DEF InOrder
<1> HIDE DEF list
<1> DEFINE T == {n \in Nat : n <= N => Good(list[n], n)}
<1>4. 0 \in T
  <2>1. list[0] = <<>>
    BY <1>0, <1>2
  <2>2. \A l \in S : ~(l <= 0)
    BY <1>0
  <2>3. Good(<<>>, 0)
    BY <2>2
  <2> HIDE DEF Good
  <2>4. Good(list[0], 0)
    BY <2>1, <2>3
  <2> QED BY <2>4
<1>5. ASSUME NEW n \in T PROVE n + 1 \in T
  <2> HIDE DEF Good
  <2> SUFFICES ASSUME n + 1 <= N PROVE Good(list[n + 1], n + 1)
    OBVIOUS
  <2>0. n \in Nat /\ n <= N /\ n + 1 \in 0..N /\ n + 1 # 0 /\ (n + 1) - 1 = n
    BY <1>0
  <2> DEFINE s == list[n]
  <2>1. Good(s, n)
    BY <2>0
  <2>2. list[n + 1] = More(s, n + 1)
    <3> HIDE DEF More
    <3>1. list[n + 1] = More(list[(n + 1) - 1], n + 1)
      BY <1>2, <2>0
    <3> QED BY <2>0, <3>1
  <2> USE DEF Good
  <2> HIDE DEF s
  <2>3. \A l \in S : l <= n + 1 => l <= n \/ l = n + 1
    BY <1>0, <2>0
  <2>4. CASE n + 1 \in S
    <3> DEFINE t == Append(s, n + 1)
    <3>1. t \in Seq(S) /\ Len(t) = Len(s) + 1 /\ t[Len(t)] = n + 1 /\ Len(s) \in Nat
      BY <2>1, <2>4
    <3>2. \A k \in 1..Len(s) : t[k] = s[k] /\ s[k] <= n /\ s[k] \in Nat /\ k \in 1..Len(t)
      <4>1. \A k \in 1..Len(s) : t[k] = s[k] /\ s[k] \in S
        BY <2>1, <2>4
      <4>2. \A l \in S : l \in Nat
        BY <1>0
      <4>3. \A k \in 1..Len(s) : k \in 1..Len(t)
        BY <3>1
      <4>4. \A k \in 1..Len(s) : s[k] <= n
        BY <2>1
      <4> HIDE DEF t
      <4> QED BY <4>1, <4>2, <4>3, <4>4
    <3> HIDE DEF t
    <3>3. \A k \in 1..Len(t) : k \in 1..Len(s) \/ k = Len(t)
      BY <3>1
    <3>4. \A l \in S : l <= n + 1 => \E k \in 1..Len(t) : t[k] = l
      BY <2>1, <2>3, <3>1, <3>2
    <3>5. \A k \in 1..Len(t) : t[k] <= n + 1
      <4>1. \A i \in Nat : i <= n => i <= n + 1
        BY <2>0
      <4> QED BY <2>0, <3>1, <3>2, <3>3, <4>1
    <3>6. \A k \in 1..Len(s) : t[k] # t[Len(t)]
      BY <2>0, <3>1, <3>2
    <3>7. \A j, k \in 1..Len(t) : j # k => t[j] # t[k]
      BY <2>1, <3>2, <3>3, <3>6
    <3>8. Good(t, n + 1)
      BY <3>1, <3>4, <3>5, <3>7
    <3> HIDE DEF Good
    <3> QED BY <2>2, <2>4, <3>8 DEF t
  <2>5. CASE n + 1 \notin S
    <3>1. \A k \in 1..Len(s) : s[k] <= n + 1
      <4>1. \A k \in 1..Len(s) : s[k] \in S /\ s[k] <= n
        BY <2>1
      <4>2. \A l \in S : l \in Nat
        BY <1>0
      <4>3. \A i \in Nat : i <= n => i <= n + 1
        BY <2>0
      <4> QED BY <4>1, <4>2, <4>3
    <3>2. Good(s, n + 1)
      BY <2>1, <2>3, <2>5, <3>1
    <3> HIDE DEF Good
    <3> QED BY <2>2, <2>5, <3>2
  <2> QED BY <2>4, <2>5
<1>6. Good(list[N], N)
  <2>1. N \in T
    <3> HIDE DEF T
    <3>1. T \subseteq Nat
      BY DEF T
    <3> QED BY <1>0, <1>4, <1>5, <3>1, SetInduction
  <2> HIDE DEF Good
  <2> QED BY <1>0, <2>1
<1>7. \A l \in S : l <= N
  BY <1>0
<1> QED BY <1>3, <1>6, <1>7

\* Every process with a connection has an operator to fire.
LEMMA OperatorsAre ==
  ASSUME program \in Programs, NEW n \in Nodes
  PROVE  /\ Operators(n) \in Seq(Nat) /\ Len(Operators(n)) \in Nat \ {0}
         /\ \A k \in 1..Len(Operators(n)) :
              \/ Operators(n)[k] = 0
              \/ Operators(n)[k] \in Link /\ To(Operators(n)[k]) = n
<1> DEFINE S == {l \in Link : To(l) = n}
           in == Inbound(n)
           file == IF n \in program.source THEN <<0>> ELSE <<>>
<1>1. /\ in \in Seq(S)
      /\ \A l \in S : \E k \in 1..Len(in) : in[k] = l
  BY InOrderIs DEF Inbound
<1>2. \A k \in 1..Len(in) : in[k] \in Link /\ To(in[k]) = n
  <2>1. \A k \in 1..Len(in) : in[k] \in S
    BY <1>1
  <2> QED BY <2>1
<1>3. Link \subseteq Nat
  BY ProgramFacts
<1>4. in \in Seq(Nat) /\ Len(in) \in Nat
  <2>1. S \subseteq Nat
    BY <1>3
  <2> QED BY <1>1, <2>1, SeqMonotonic
<1>5. n \in program.source \/ Len(in) > 0
  <2>1. PICK l \in Link : From(l) = n \/ To(l) = n
    BY DEF Nodes
  <2>2. To(l) = n => Len(in) > 0
    BY <1>1, <1>4
  <2>3. From(l) = n => n \in program.source \/ Strm(l) \in S
    BY ProgramFacts
  <2>4. Strm(l) \in S => Len(in) > 0
    BY <1>1, <1>4
  <2> QED BY <2>1, <2>2, <2>3, <2>4
<1> HIDE DEF in
<1>6. Operators(n) = file \o in
  BY DEF Operators, in
<1>7. CASE n \in program.source
  <2>1. file = <<0>> /\ <<0>> \in Seq(Nat) /\ Len(<<0>>) = 1 /\ <<0>>[1] = 0
    BY <1>7
  <2>2. /\ <<0>> \o in \in Seq(Nat) /\ Len(<<0>> \o in) = 1 + Len(in)
        /\ \A k \in 1..(1 + Len(in)) : (<<0>> \o in)[k] = IF k <= 1 THEN <<0>>[k] ELSE in[k - 1]
    BY <1>4, <2>1, ConcatProperties
  <2>3. \A k \in 1..(1 + Len(in)) : k = 1 \/ (~(k <= 1) /\ k - 1 \in 1..Len(in))
    BY <1>4
  <2>4. \A k \in 1..(1 + Len(in)) :
          \/ (<<0>> \o in)[k] = 0
          \/ (<<0>> \o in)[k] \in Link /\ To((<<0>> \o in)[k]) = n
    BY <1>2, <2>1, <2>2, <2>3
  <2>5. Operators(n) = <<0>> \o in
    BY <1>6, <2>1
  <2>6. 1 + Len(in) \in Nat \ {0}
    BY <1>4
  <2> QED BY <2>2, <2>4, <2>5, <2>6
<1>8. CASE n \notin program.source
  <2>1. Operators(n) = in
    BY <1>4, <1>6, <1>8, ConcatEmptySeq
  <2> QED BY <1>2, <1>4, <1>5, <1>8, <2>1
<1> QED BY <1>7, <1>8

-----------------------------------------------------------------------------
(* Lists of ends.                                                          *)

EndSet == {"in", "out"} \X Link

\* s lists ends of connections of process n, none twice.
OwnEnds(n, s) ==
  /\ s \in Seq(EndSet)
  /\ \A k \in 1..Len(s) : \/ s[k][1] = "out" /\ From(s[k][2]) = n
                          \/ s[k][1] = "in" /\ To(s[k][2]) = n
  /\ \A j, k \in 1..Len(s) : j # k => s[j] # s[k]

LEMMA EndsOwn ==
  ASSUME program \in Programs, NEW n, NEW side \in {"in", "out"}, NEW S \in SUBSET Link,
         \A l \in S : (side = "out" => From(l) = n) /\ (side = "in" => To(l) = n)
  PROVE  LET e == Ends(side, InOrder(S)) IN
         /\ OwnEnds(n, e)
         /\ \A k \in 1..Len(e) : e[k][1] = side /\ e[k][2] \in S
         /\ \A l \in S : \E k \in 1..Len(e) : e[k] = <<side, l>>
         /\ InOrder(S) = <<>> <=> S = {}
         /\ e = <<>> <=> S = {}
<1> DEFINE s == InOrder(S)
           e == Ends(side, s)
<1>1. /\ s \in Seq(S)
      /\ \A l \in S : \E k \in 1..Len(s) : s[k] = l
      /\ \A j, k \in 1..Len(s) : j # k => s[j] # s[k]
  BY InOrderIs
<1> HIDE DEF s
<1>2. Len(s) \in Nat /\ DOMAIN s = 1..Len(s) /\ \A k \in 1..Len(s) : s[k] \in S
  BY <1>1
<1>3. e = [k \in 1..Len(s) |-> <<side, s[k]>>]
  BY <1>2 DEF Ends
<1>4. e \in Seq(EndSet) /\ Len(e) = Len(s)
  <2>1. \A k \in 1..Len(s) : <<side, s[k]>> \in EndSet
    BY <1>2 DEF EndSet
  <2> HIDE DEF e
  <2> QED BY <1>2, <1>3, <2>1
<1>5. \A k \in 1..Len(e) : e[k] = <<side, s[k]>> /\ e[k][1] = side /\ e[k][2] = s[k]
  <2> HIDE DEF e
  <2> QED BY <1>3, <1>4
<1> HIDE DEF e
<1>6. \A k \in 1..Len(e) : s[k] \in S
  BY <1>2, <1>4
<1>7. \A k \in 1..Len(e) : \/ e[k][1] = "out" /\ From(e[k][2]) = n
                           \/ e[k][1] = "in" /\ To(e[k][2]) = n
  BY <1>5, <1>6
<1>8. \A j, k \in 1..Len(e) : j # k => e[j] # e[k]
  BY <1>1, <1>4, <1>5
<1>9. \A l \in S : \E k \in 1..Len(e) : e[k] = <<side, l>>
  BY <1>1, <1>4, <1>5
<1>10. s = <<>> <=> S = {}
  <2>1. S # {} => Len(s) # 0
    BY <1>1, <1>2
  <2>2. S = {} => Len(s) = 0
    BY <1>2
  <2> QED BY <1>1, <2>1, <2>2, EmptySeq
<1>11. e = <<>> <=> s = <<>>
  BY <1>1, <1>4, EmptySeq
<1> QED BY <1>4, <1>5, <1>6, <1>7, <1>8, <1>9, <1>10, <1>11 DEF OwnEnds, s, e

LEMMA OwnTail ==
  ASSUME NEW n, NEW s, OwnEnds(n, s), s # <<>>
  PROVE  /\ OwnEnds(n, Tail(s)) /\ Head(s) = s[1] /\ Len(s) \in Nat \ {0}
         /\ Len(Tail(s)) = Len(s) - 1
         /\ \A k \in 1..(Len(s) - 1) : Tail(s)[k] = s[k + 1]
         /\ Len(s) # 1 => Tail(s) # <<>>
<1>1. s \in Seq(EndSet)
  BY DEF OwnEnds
<1>2. /\ Tail(s) \in Seq(EndSet) /\ Len(Tail(s)) = Len(s) - 1 /\ Len(s) \in Nat \ {0}
      /\ \A k \in 1..(Len(s) - 1) : Tail(s)[k] = s[k + 1]
      /\ Head(s) = s[1]
  BY <1>1, HeadTailProperties, EmptySeq
<1>3. \A k \in 1..(Len(s) - 1) : k + 1 \in 1..Len(s)
  BY <1>2
<1>4. Len(s) # 1 => Tail(s) # <<>>
  <2>1. Len(s) # 1 => Len(Tail(s)) # 0
    BY <1>2
  <2>2. Len(<<>>) = 0
    OBVIOUS
  <2> QED BY <2>1, <2>2, Zenon
<1>5. \A k \in 1..(Len(s) - 1) : \/ Tail(s)[k][1] = "out" /\ From(Tail(s)[k][2]) = n
                                 \/ Tail(s)[k][1] = "in" /\ To(Tail(s)[k][2]) = n
  BY <1>2, <1>3 DEF OwnEnds
<1>6. \A j, k \in 1..(Len(s) - 1) : j # k => Tail(s)[j] # Tail(s)[k]
  <2> SUFFICES ASSUME NEW j \in 1..(Len(s) - 1), NEW k \in 1..(Len(s) - 1), j # k
               PROVE  Tail(s)[j] # Tail(s)[k]
    OBVIOUS
  <2>1. j + 1 # k + 1
    BY <1>2
  <2> QED BY <1>2, <1>3, <2>1 DEF OwnEnds
<1> QED BY <1>2, <1>4, <1>5, <1>6 DEF OwnEnds

LEMMA OwnConcat ==
  ASSUME NEW n, NEW s, NEW t, OwnEnds(n, s), OwnEnds(n, t),
         \A j \in 1..Len(s), k \in 1..Len(t) : s[j][1] # t[k][1]
  PROVE  /\ OwnEnds(n, s \o t)
         /\ Len(s \o t) = Len(s) + Len(t)
         /\ \A k \in 1..Len(s \o t) : \/ \E j \in 1..Len(s) : (s \o t)[k] = s[j]
                                      \/ \E j \in 1..Len(t) : (s \o t)[k] = t[j]
         /\ s # <<>> \/ t # <<>> => s \o t # <<>>
<1>1. s \in Seq(EndSet) /\ t \in Seq(EndSet) /\ Len(s) \in Nat /\ Len(t) \in Nat
  BY DEF OwnEnds
<1>2. /\ s \o t \in Seq(EndSet) /\ Len(s \o t) = Len(s) + Len(t)
      /\ \A k \in 1..Len(s) + Len(t) : (s \o t)[k] = IF k <= Len(s) THEN s[k] ELSE t[k - Len(s)]
  BY <1>1, ConcatProperties
<1>3. \A k \in 1..Len(s) + Len(t) : \/ k <= Len(s) /\ k \in 1..Len(s)
                                    \/ ~(k <= Len(s)) /\ k - Len(s) \in 1..Len(t)
  BY <1>1
<1>4. \A k \in 1..Len(s) + Len(t) : \/ k \in 1..Len(s) /\ (s \o t)[k] = s[k]
                                    \/ k - Len(s) \in 1..Len(t) /\ (s \o t)[k] = t[k - Len(s)]
  BY <1>2, <1>3
<1> DEFINE u == s \o t
<1> HIDE DEF u
<1>5. \A k \in 1..Len(u) : \/ k \in 1..Len(s) /\ u[k] = s[k]
                           \/ k - Len(s) \in 1..Len(t) /\ u[k] = t[k - Len(s)]
  BY <1>2, <1>4 DEF u
<1>6. \A k \in 1..Len(u) : \/ u[k][1] = "out" /\ From(u[k][2]) = n
                           \/ u[k][1] = "in" /\ To(u[k][2]) = n
  <2>1. /\ \A k \in 1..Len(s) : \/ s[k][1] = "out" /\ From(s[k][2]) = n
                                \/ s[k][1] = "in" /\ To(s[k][2]) = n
        /\ \A k \in 1..Len(t) : \/ t[k][1] = "out" /\ From(t[k][2]) = n
                                \/ t[k][1] = "in" /\ To(t[k][2]) = n
    BY DEF OwnEnds
  <2>2. \A k \in 1..Len(u) : \/ k \in 1..Len(s) /\ u[k] = s[k]
                             \/ \E j \in 1..Len(t) : u[k] = t[j]
    BY <1>5
  <2> DEFINE Own(e) == \/ e[1] = "out" /\ From(e[2]) = n
                       \/ e[1] = "in" /\ To(e[2]) = n
  <2>3. (\A k \in 1..Len(s) : Own(s[k])) /\ (\A k \in 1..Len(t) : Own(t[k]))
    BY <2>1
  <2> HIDE DEF Own
  <2>4. \A k \in 1..Len(u) : Own(u[k])
    BY <2>2, <2>3
  <2> QED BY <2>4 DEF Own
<1>7. ASSUME NEW j \in 1..Len(u), NEW k \in 1..Len(u), j # k PROVE u[j] # u[k]
  <2>1. CASE j \in 1..Len(s) /\ u[j] = s[j] /\ k \in 1..Len(s) /\ u[k] = s[k]
    BY <1>7, <2>1 DEF OwnEnds
  <2>2. CASE /\ j - Len(s) \in 1..Len(t) /\ u[j] = t[j - Len(s)]
             /\ k - Len(s) \in 1..Len(t) /\ u[k] = t[k - Len(s)]
    <3>1. j - Len(s) # k - Len(s)
      BY <1>1, <1>7
    <3> QED BY <2>2, <3>1 DEF OwnEnds
  <2>3. CASE j \in 1..Len(s) /\ u[j] = s[j] /\ k - Len(s) \in 1..Len(t) /\ u[k] = t[k - Len(s)]
    BY <2>3
  <2>4. CASE k \in 1..Len(s) /\ u[k] = s[k] /\ j - Len(s) \in 1..Len(t) /\ u[j] = t[j - Len(s)]
    BY <2>4
  <2> QED BY <1>5, <2>1, <2>2, <2>3, <2>4
<1>8. s # <<>> \/ t # <<>> => u # <<>>
  <2>1. s # <<>> \/ t # <<>> => Len(u) # 0
    BY <1>1, <1>2, EmptySeq DEF u
  <2> QED BY <2>1, EmptySeq
<1>9. u \in Seq(EndSet) /\ Len(u) = Len(s) + Len(t)
  BY <1>2 DEF u
<1>10. OwnEnds(n, u)
  BY <1>6, <1>7, <1>9 DEF OwnEnds
<1> QED BY <1>5, <1>8, <1>9, <1>10 DEF u

-----------------------------------------------------------------------------
(* What the main threads are doing.                                        *)

Points == {"off", "init", "loop", "payload", "out", "write", "shut", "exited"}

\* The operator whose turn it is.
Current(n) == Operators(n)[turn[n]]

\* A process has ends to handle, its own, exactly when its place says so; what it
\* is emitting comes from the operator whose turn it is.
NodeCtrl(n) ==
  /\ turn[n] \in 1..Len(Operators(n))
  /\ pc[n] \in {"init", "out", "write", "shut"} => todo[n] # <<>> /\ OwnEnds(n, todo[n])
  /\ pc[n] \in {"out", "write"} =>
       /\ msg[n] \in 1..MaxMsg
       /\ \A k \in 1..Len(todo[n]) :
            todo[n][k][1] = "out" /\ Strm(todo[n][k][2]) = Current(n)
  /\ pc[n] = "payload" => Current(n) \in Link /\ curstate[Current(n)] = 1

CtrlInv ==
  /\ program \in Programs
  /\ pc \in [Node -> Points] /\ todo \in [Node -> Seq(EndSet)] /\ turn \in [Node -> Nat]
  /\ made \in [Node -> 0..MaxMsg] /\ msg \in [Node -> 1..MaxMsg \cup {NULL}]
  /\ \A n \in Nodes : NodeCtrl(n)
  /\ \A n \in Node \ Nodes : pc[n] = "off"

LEMMA SameProgram ==
  ASSUME program' = program
  PROVE  /\ Link' = Link /\ Nodes' = Nodes /\ EndSet' = EndSet
         /\ \A l : From(l)' = From(l) /\ To(l)' = To(l) /\ Strm(l)' = Strm(l)
         /\ \A S : InOrder(S)' = InOrder(S)
         /\ \A n : Operators(n)' = Operators(n)
<1>1. Link' = Link /\ \A l : From(l)' = From(l) /\ To(l)' = To(l) /\ Strm(l)' = Strm(l)
  BY DEF Link, From, To, Strm
<1>2. Nodes' = Nodes /\ EndSet' = EndSet
  BY <1>1 DEF Nodes, EndSet
<1>3. \A S : InOrder(S)' = InOrder(S)
  BY DEF InOrder
<1>4. \A n : Operators(n)' = Operators(n)
  BY DEF Operators, Inbound, InOrder, Link, To
<1> QED BY <1>1, <1>2, <1>3, <1>4

LEMMA NodesAre ==
  ASSUME program \in Programs
  PROVE  Nodes \subseteq Node /\ \A l \in Link : From(l) \in Nodes /\ To(l) \in Nodes
BY ProgramFacts DEF Nodes

\* A step of process n.
LEMMA CtrlFrame ==
  ASSUME CtrlInv, program' = program, NEW n \in Nodes,
         pc' \in [Node -> Points], todo' \in [Node -> Seq(EndSet)], turn' \in [Node -> Nat],
         made' \in [Node -> 0..MaxMsg], msg' \in [Node -> 1..MaxMsg \cup {NULL}],
         \A m \in Node \ {n} : /\ pc'[m] = pc[m] /\ todo'[m] = todo[m]
                               /\ turn'[m] = turn[m] /\ msg'[m] = msg[m],
         \A l \in Link : To(l) # n => curstate'[l] = curstate[l],
         turn'[n] \in 1..Len(Operators(n)),
         pc'[n] \in {"init", "out", "write", "shut"} => todo'[n] # <<>> /\ OwnEnds(n, todo'[n]),
         pc'[n] \in {"out", "write"} =>
           /\ msg'[n] \in 1..MaxMsg
           /\ \A k \in 1..Len(todo'[n]) :
                todo'[n][k][1] = "out" /\ Strm(todo'[n][k][2]) = Operators(n)[turn'[n]],
         pc'[n] = "payload" =>
           Operators(n)[turn'[n]] \in Link /\ curstate'[Operators(n)[turn'[n]]] = 1
  PROVE  CtrlInv'
<1>1. Nodes \subseteq Node
  BY NodesAre DEF CtrlInv
<1>2. NodeCtrl(n)'
  <2>1. Operators(n)' = Operators(n) /\ Link' = Link /\ EndSet' = EndSet
    BY SameProgram
  <2>2. OwnEnds(n, todo'[n]) => OwnEnds(n, todo[n])'
    BY DEF OwnEnds, EndSet, Link, From, To
  <2>3. (turn[n] \in 1..Len(Operators(n)))'
    BY <2>1
  <2>4. (pc[n] \in {"init", "out", "write", "shut"} => todo[n] # <<>> /\ OwnEnds(n, todo[n]))'
    BY <2>2
  <2>5. Current(n)' = Operators(n)[turn'[n]]
    BY <2>1 DEF Current
  <2>6. (pc[n] \in {"out", "write"} =>
          /\ msg[n] \in 1..MaxMsg
          /\ \A k \in 1..Len(todo[n]) :
               todo[n][k][1] = "out" /\ Strm(todo[n][k][2]) = Current(n))'
    BY <2>5, SameProgram
  <2>7. (pc[n] = "payload" => Current(n) \in Link /\ curstate[Current(n)] = 1)'
    BY <2>1, <2>5
  <2> QED BY <2>3, <2>4, <2>6, <2>7 DEF NodeCtrl
<1>3. ASSUME NEW m \in Nodes, m # n PROVE NodeCtrl(m)'
  <2>1. NodeCtrl(m) /\ pc'[m] = pc[m] /\ todo'[m] = todo[m] /\ turn'[m] = turn[m] /\ msg'[m] = msg[m]
    BY <1>1, <1>3 DEF CtrlInv
  <2>2. ASSUME pc[m] = "payload" PROVE curstate'[Current(m)] = curstate[Current(m)]
    <3>1. Current(m) \in Link /\ turn[m] \in 1..Len(Operators(m))
      BY <2>1, <2>2 DEF NodeCtrl
    <3>2. Current(m) # 0
      BY <3>1, ProgramFacts DEF CtrlInv
    <3>3. To(Current(m)) = m
      BY <3>1, <3>2, OperatorsAre DEF CtrlInv, Current
    <3> QED BY <1>3, <3>1, <3>3
  <2> QED BY <2>1, <2>2, SameProgram DEF NodeCtrl, Current, OwnEnds
<1>4. \A m \in Node \ Nodes : pc'[m] = "off"
  BY DEF CtrlInv
<1> QED BY <1>2, <1>3, <1>4, SameProgram DEF CtrlInv

LEMMA TurnRange ==
  ASSUME program \in Programs, NEW n \in Nodes, NEW t \in Nat
  PROVE  (t % Len(Operators(n))) + 1 \in 1..Len(Operators(n))
<1>1. Len(Operators(n)) \in Nat \ {0}
  BY OperatorsAre
<1>2. \A a \in Nat, b \in Nat \ {0} : (a % b) + 1 \in 1..b
  OBVIOUS
<1> QED BY <1>1, <1>2

\* On to the next operator.
LEMMA TurnKeeps ==
  ASSUME CtrlInv, program' = program, NEW n \in Nodes, NextTurn(n), UNCHANGED <<todo, msg>>,
         made' \in [Node -> 0..MaxMsg],
         \A l \in Link : To(l) # n => curstate'[l] = curstate[l]
  PROVE  CtrlInv'
<1>1. n \in Node
  BY NodesAre DEF CtrlInv
<1>2. pc' = [pc EXCEPT ![n] = "loop"] /\ turn' = [turn EXCEPT ![n] = (@ % Len(Operators(n))) + 1]
  BY DEF NextTurn
<1>3. turn[n] \in Nat
  BY <1>1 DEF CtrlInv
<1>4. (turn[n] % Len(Operators(n))) + 1 \in 1..Len(Operators(n)) /\ Len(Operators(n)) \in Nat
  BY <1>3, TurnRange, OperatorsAre DEF CtrlInv
<1>5. turn'[n] \in 1..Len(Operators(n)) /\ turn' \in [Node -> Nat]
  BY <1>1, <1>2, <1>4 DEF CtrlInv
<1>6. pc' \in [Node -> Points] /\ pc'[n] = "loop"
  BY <1>1, <1>2 DEF CtrlInv, Points
<1>7. todo' \in [Node -> Seq(EndSet)] /\ msg' \in [Node -> 1..MaxMsg \cup {NULL}]
  BY DEF CtrlInv
<1>8. \A m \in Node \ {n} : /\ pc'[m] = pc[m] /\ todo'[m] = todo[m]
                            /\ turn'[m] = turn[m] /\ msg'[m] = msg[m]
  BY <1>1, <1>2 DEF CtrlInv
<1> QED BY <1>5, <1>6, <1>7, <1>8, CtrlFrame

\* A message goes to the outbound operators.
LEMMA EmitKeeps ==
  ASSUME CtrlInv, program' = program, NEW n \in Nodes, NEW m \in 1..MaxMsg,
         Emit(n, Current(n), m), made' \in [Node -> 0..MaxMsg],
         \A l \in Link : To(l) # n => curstate'[l] = curstate[l]
  PROVE  CtrlInv'
<1> DEFINE S == {l \in Link : From(l) = n /\ Strm(l) = Current(n)}
           outs == InOrder(S)
           e == Ends("out", outs)
<1>0. n \in Node /\ program \in Programs
  BY NodesAre DEF CtrlInv
<1>1. CASE outs = <<>>
  <2>1. NextTurn(n) /\ UNCHANGED <<todo, msg>>
    BY <1>1 DEF Emit
  <2> QED BY <2>1, TurnKeeps
<1>2. CASE outs # <<>>
  <2>1. /\ pc' = [pc EXCEPT ![n] = "out"] /\ todo' = [todo EXCEPT ![n] = e]
        /\ msg' = [msg EXCEPT ![n] = m] /\ turn' = turn
    BY <1>2 DEF Emit
  <2>2. /\ OwnEnds(n, e) /\ e # <<>>
        /\ \A k \in 1..Len(e) : e[k][1] = "out" /\ e[k][2] \in S
    <3>1. S \in SUBSET Link /\ "out" \in {"in", "out"}
      OBVIOUS
    <3>2. \A l \in S : ("out" = "out" => From(l) = n) /\ ("out" = "in" => To(l) = n)
      OBVIOUS
    <3> HIDE DEF S
    <3>3. /\ OwnEnds(n, Ends("out", InOrder(S)))
          /\ \A k \in 1..Len(Ends("out", InOrder(S))) :
               Ends("out", InOrder(S))[k][1] = "out" /\ Ends("out", InOrder(S))[k][2] \in S
          /\ InOrder(S) = <<>> <=> S = {}
          /\ Ends("out", InOrder(S)) = <<>> <=> S = {}
      BY <1>0, <3>1, <3>2, EndsOwn
    <3> QED BY <1>2, <3>3
  <2> HIDE DEF e
  <2>3. \A k \in 1..Len(e) : e[k][1] = "out" /\ Strm(e[k][2]) = Current(n)
    BY <2>2
  <2>4. pc' \in [Node -> Points] /\ pc'[n] = "out"
    BY <1>0, <2>1 DEF CtrlInv, Points
  <2>5. todo' \in [Node -> Seq(EndSet)] /\ todo'[n] = e
    BY <1>0, <2>1, <2>2 DEF CtrlInv, OwnEnds
  <2>6. msg' \in [Node -> 1..MaxMsg \cup {NULL}] /\ msg'[n] = m
    BY <1>0, <2>1 DEF CtrlInv
  <2>7. turn' \in [Node -> Nat] /\ turn'[n] \in 1..Len(Operators(n)) /\ Operators(n)[turn'[n]] = Current(n)
    BY <2>1 DEF CtrlInv, NodeCtrl, Current
  <2>8. \A i \in Node \ {n} : /\ pc'[i] = pc[i] /\ todo'[i] = todo[i]
                              /\ turn'[i] = turn[i] /\ msg'[i] = msg[i]
    BY <1>0, <2>1 DEF CtrlInv
  <2> QED BY <2>2, <2>3, <2>4, <2>5, <2>6, <2>7, <2>8, CtrlFrame
<1> QED BY <1>1, <1>2

\* The ends of a process, in either order of the tables.
LEMMA AllEnds ==
  ASSUME program \in Programs, NEW n \in Nodes
  PROVE  LET o == Ends("out", Outbound(n))
             i == Ends("in", Inbound(n)) IN
         /\ OwnEnds(n, o \o i) /\ o \o i # <<>>
         /\ OwnEnds(n, i \o o) /\ i \o o # <<>>
<1> DEFINE O == {l \in Link : From(l) = n}
           I == {l \in Link : To(l) = n}
           o == Ends("out", Outbound(n))
           i == Ends("in", Inbound(n))
<1>1. OwnEnds(n, o) /\ (\A k \in 1..Len(o) : o[k][1] = "out") /\ (o = <<>> <=> O = {})
  BY EndsOwn DEF Outbound
<1>2. OwnEnds(n, i) /\ (\A k \in 1..Len(i) : i[k][1] = "in") /\ (i = <<>> <=> I = {})
  BY EndsOwn DEF Inbound
<1>3. O # {} \/ I # {}
  BY DEF Nodes
<1> HIDE DEF o, i
<1>4. OwnEnds(n, o \o i) /\ o \o i # <<>>
  BY <1>1, <1>2, <1>3, OwnConcat
<1>5. OwnEnds(n, i \o o) /\ i \o o # <<>>
  BY <1>1, <1>2, <1>3, OwnConcat
<1> QED BY <1>4, <1>5 DEF o, i

LEMMA ShutBegins ==
  ASSUME CtrlInv, program' = program, NEW n \in Nodes, BeginShutdown(n), UNCHANGED made,
         \A l \in Link : To(l) # n => curstate'[l] = curstate[l]
  PROVE  CtrlInv'
<1> DEFINE e == Ends("in", Inbound(n)) \o Ends("out", Outbound(n))
<1>0. n \in Node /\ program \in Programs
  BY NodesAre DEF CtrlInv
<1>1. /\ pc' = [pc EXCEPT ![n] = "shut"] /\ todo' = [todo EXCEPT ![n] = e]
      /\ turn' = turn /\ msg' = msg
  BY DEF BeginShutdown
<1>2. OwnEnds(n, e) /\ e # <<>>
  BY <1>0, AllEnds
<1> HIDE DEF e
<1>3. pc' \in [Node -> Points] /\ pc'[n] = "shut"
  BY <1>0, <1>1 DEF CtrlInv, Points
<1>4. todo' \in [Node -> Seq(EndSet)] /\ todo'[n] = e
  BY <1>0, <1>1, <1>2 DEF CtrlInv, OwnEnds
<1>5. turn'[n] \in 1..Len(Operators(n))
  BY <1>1 DEF CtrlInv, NodeCtrl
<1>6. \A m \in Node \ {n} : /\ pc'[m] = pc[m] /\ todo'[m] = todo[m]
                            /\ turn'[m] = turn[m] /\ msg'[m] = msg[m]
  BY <1>0, <1>1 DEF CtrlInv
<1>7. /\ turn' \in [Node -> Nat] /\ msg' \in [Node -> 1..MaxMsg \cup {NULL}]
      /\ made' \in [Node -> 0..MaxMsg]
  BY <1>1 DEF CtrlInv
<1> QED BY <1>2, <1>3, <1>4, <1>5, <1>6, <1>7, CtrlFrame

\* Only the place of process n changes.
LEMMA PlaceKeeps ==
  ASSUME CtrlInv, program' = program, NEW n \in Nodes, NEW p \in Points,
         pc' = [pc EXCEPT ![n] = p], UNCHANGED <<todo, turn, msg, made>>,
         \A l \in Link : To(l) # n => curstate'[l] = curstate[l],
         \/ p \in {"loop", "exited"}
         \/ p = "write" /\ pc[n] = "out"
         \/ p = "payload" /\ Current(n) \in Link /\ curstate'[Current(n)] = 1
  PROVE  CtrlInv'
<1>0. n \in Node
  BY NodesAre DEF CtrlInv
<1>1. pc' \in [Node -> Points] /\ pc'[n] = p
  BY <1>0 DEF CtrlInv
<1>2. \A i \in Node \ {n} : /\ pc'[i] = pc[i] /\ todo'[i] = todo[i]
                            /\ turn'[i] = turn[i] /\ msg'[i] = msg[i]
  BY <1>0 DEF CtrlInv
<1>3. /\ todo' \in [Node -> Seq(EndSet)] /\ turn' \in [Node -> Nat]
      /\ made' \in [Node -> 0..MaxMsg] /\ msg' \in [Node -> 1..MaxMsg \cup {NULL}]
  BY DEF CtrlInv
<1>4. turn'[n] \in 1..Len(Operators(n)) /\ Operators(n)[turn'[n]] = Current(n)
  BY DEF CtrlInv, NodeCtrl, Current
<1>5. pc'[n] \in {"init", "out", "write", "shut"} => p = "write" /\ pc[n] = "out"
  BY <1>1
<1>6. pc[n] = "out" =>
        /\ todo'[n] # <<>> /\ OwnEnds(n, todo'[n]) /\ msg'[n] \in 1..MaxMsg
        /\ \A k \in 1..Len(todo'[n]) :
             todo'[n][k][1] = "out" /\ Strm(todo'[n][k][2]) = Operators(n)[turn'[n]]
  BY <1>4 DEF CtrlInv, NodeCtrl
<1>7. pc'[n] = "payload" =>
        Operators(n)[turn'[n]] \in Link /\ curstate'[Operators(n)[turn'[n]]] = 1
  BY <1>1, <1>4
<1> QED BY <1>1, <1>2, <1>3, <1>4, <1>5, <1>6, <1>7, CtrlFrame

\* The head of todo has been handled, and there is more.
LEMMA RestKeeps ==
  ASSUME CtrlInv, program' = program, NEW n \in Nodes, pc[n] \in {"init", "out", "write", "shut"},
         NEW p \in Points,
         pc' = [pc EXCEPT ![n] = p], todo' = [todo EXCEPT ![n] = Tail(@)],
         UNCHANGED <<turn, msg, made, curstate>>,
         \/ p \in {"loop", "exited"}
         \/ p \in {"init", "shut"} /\ Len(todo[n]) # 1
         \/ p = "out" /\ pc[n] \in {"out", "write"} /\ Len(todo[n]) # 1
  PROVE  CtrlInv'
<1>0. n \in Node /\ program \in Programs
  BY NodesAre DEF CtrlInv
<1> DEFINE s == todo[n]
           t == Tail(s)
<1>1. s # <<>> /\ OwnEnds(n, s)
  BY DEF CtrlInv, NodeCtrl
<1> HIDE DEF s
<1>2. /\ OwnEnds(n, t) /\ Len(s) \in Nat \ {0} /\ Len(t) = Len(s) - 1
      /\ \A k \in 1..(Len(s) - 1) : t[k] = s[k + 1]
      /\ Len(s) # 1 => t # <<>>
  BY <1>1, OwnTail
<1> HIDE DEF t
<1>3. pc' \in [Node -> Points] /\ pc'[n] = p
  BY <1>0 DEF CtrlInv
<1>4. todo' \in [Node -> Seq(EndSet)] /\ todo'[n] = t
  BY <1>0, <1>2 DEF CtrlInv, OwnEnds, t, s
<1>5. \A i \in Node \ {n} : /\ pc'[i] = pc[i] /\ todo'[i] = todo[i]
                            /\ turn'[i] = turn[i] /\ msg'[i] = msg[i]
  BY <1>0 DEF CtrlInv
<1>6. /\ turn' \in [Node -> Nat]
      /\ made' \in [Node -> 0..MaxMsg] /\ msg' \in [Node -> 1..MaxMsg \cup {NULL}]
  BY DEF CtrlInv
<1>7. turn'[n] \in 1..Len(Operators(n)) /\ Operators(n)[turn'[n]] = Current(n)
  BY DEF CtrlInv, NodeCtrl, Current
<1>8. pc'[n] \in {"init", "out", "write", "shut"} => todo'[n] # <<>> /\ OwnEnds(n, todo'[n])
  BY <1>2, <1>3, <1>4 DEF s
<1>9. ASSUME pc'[n] \in {"out", "write"}
      PROVE  /\ msg'[n] \in 1..MaxMsg
             /\ \A k \in 1..Len(todo'[n]) :
                  todo'[n][k][1] = "out" /\ Strm(todo'[n][k][2]) = Operators(n)[turn'[n]]
  <2>1. pc[n] \in {"out", "write"}
    BY <1>3, <1>9
  <2>2. /\ msg[n] \in 1..MaxMsg
        /\ \A k \in 1..Len(s) : s[k][1] = "out" /\ Strm(s[k][2]) = Current(n)
    BY <2>1 DEF CtrlInv, NodeCtrl, s
  <2>3. \A k \in 1..Len(t) : k \in 1..(Len(s) - 1) /\ k + 1 \in 1..Len(s)
    BY <1>2
  <2>4. \A k \in 1..Len(t) : t[k][1] = "out" /\ Strm(t[k][2]) = Current(n)
    BY <1>2, <2>2, <2>3
  <2> QED BY <1>4, <1>7, <2>2, <2>4
<1>10. pc'[n] # "payload"
  BY <1>3
<1> QED BY <1>3, <1>4, <1>5, <1>6, <1>7, <1>8, <1>9, <1>10, CtrlFrame

\* ... or it was the last: the main loop goes on.
LEMMA ServedKeeps ==
  ASSUME CtrlInv, program' = program, NEW n \in Nodes, pc[n] \in {"out", "write"},
         Emitted(n), UNCHANGED <<msg, made, curstate>>
  PROVE  CtrlInv'
<1>0. n \in Node /\ program \in Programs
  BY NodesAre DEF CtrlInv
<1>1. CASE Len(todo[n]) # 1
  BY <1>1, RestKeeps DEF Emitted, Points
<1>2. CASE Len(todo[n]) = 1
  <2>1. NextTurn(n) /\ todo' = [todo EXCEPT ![n] = Tail(@)]
    BY <1>2 DEF Emitted
  <2>2. pc' = [pc EXCEPT ![n] = "loop"] /\ turn' = [turn EXCEPT ![n] = (@ % Len(Operators(n))) + 1]
    BY <2>1 DEF NextTurn
  <2>3. turn[n] \in Nat
    BY <1>0 DEF CtrlInv
  <2>4. (turn[n] % Len(Operators(n))) + 1 \in 1..Len(Operators(n)) /\ Len(Operators(n)) \in Nat
    BY <1>0, <2>3, TurnRange, OperatorsAre
  <2>5. turn'[n] \in 1..Len(Operators(n)) /\ turn' \in [Node -> Nat]
    BY <1>0, <2>2, <2>4 DEF CtrlInv
  <2>6. pc' \in [Node -> Points] /\ pc'[n] = "loop"
    BY <1>0, <2>2 DEF CtrlInv, Points
  <2>7. todo[n] # <<>> /\ OwnEnds(n, todo[n])
    BY DEF CtrlInv, NodeCtrl
  <2>8. Tail(todo[n]) \in Seq(EndSet)
    BY <2>7, OwnTail DEF OwnEnds
  <2>9. todo' \in [Node -> Seq(EndSet)] /\ msg' \in [Node -> 1..MaxMsg \cup {NULL}]
    BY <1>0, <2>1, <2>8 DEF CtrlInv
  <2>10. made' \in [Node -> 0..MaxMsg]
    BY DEF CtrlInv
  <2>11. \A m \in Node \ {n} : /\ pc'[m] = pc[m] /\ todo'[m] = todo[m]
                               /\ turn'[m] = turn[m] /\ msg'[m] = msg[m]
    BY <1>0, <2>1, <2>2 DEF CtrlInv
  <2> QED BY <2>5, <2>6, <2>9, <2>10, <2>11, CtrlFrame
<1> QED BY <1>1, <1>2

\* Nothing of the main threads changes.
LEMMA CtrlSame ==
  ASSUME CtrlInv, UNCHANGED <<program, pc, todo, turn, made, msg, curstate>>
  PROVE  CtrlInv'
<1>1. \A n \in Nodes : NodeCtrl(n)'
  <2> SUFFICES ASSUME NEW n \in Nodes PROVE NodeCtrl(n)'
    OBVIOUS
  <2>1. NodeCtrl(n)
    BY DEF CtrlInv
  <2> QED BY <2>1, SameProgram DEF NodeCtrl, Current, OwnEnds, EndSet, Link, From, To, Strm
<1> QED BY <1>1, SameProgram DEF CtrlInv

LEMMA StartKeeps ==
  ASSUME CtrlInv, NEW n \in Nodes, Start(n)
  PROVE  CtrlInv'
<1> DEFINE e == Ends("out", Outbound(n)) \o Ends("in", Inbound(n))
<1>0. n \in Node /\ program \in Programs /\ program' = program
  BY NodesAre DEF CtrlInv, Start
<1>1. /\ pc' = [pc EXCEPT ![n] = "init"] /\ todo' = [todo EXCEPT ![n] = e]
      /\ turn' = turn /\ msg' = msg /\ made' = made /\ curstate' = curstate
  BY DEF Start, readVars
<1>2. OwnEnds(n, e) /\ e # <<>>
  BY <1>0, AllEnds
<1> HIDE DEF e
<1>3. pc' \in [Node -> Points] /\ pc'[n] = "init"
  BY <1>0, <1>1 DEF CtrlInv, Points
<1>4. todo' \in [Node -> Seq(EndSet)] /\ todo'[n] = e
  BY <1>0, <1>1, <1>2 DEF CtrlInv, OwnEnds
<1>5. turn'[n] \in 1..Len(Operators(n))
  BY <1>1 DEF CtrlInv, NodeCtrl
<1>6. \A m \in Node \ {n} : /\ pc'[m] = pc[m] /\ todo'[m] = todo[m]
                            /\ turn'[m] = turn[m] /\ msg'[m] = msg[m]
  BY <1>0, <1>1 DEF CtrlInv
<1>7. /\ turn' \in [Node -> Nat] /\ msg' \in [Node -> 1..MaxMsg \cup {NULL}]
      /\ made' \in [Node -> 0..MaxMsg]
  BY <1>1 DEF CtrlInv
<1> QED BY <1>0, <1>1, <1>2, <1>3, <1>4, <1>5, <1>6, <1>7, CtrlFrame

LEMMA LoseIs ==
  ASSUME NEW n, LoseSource(n)
  PROVE  /\ todo' = [todo EXCEPT ![n] = Tail(@)]
         /\ \/ pc' = [pc EXCEPT ![n] = "exited"]
            \/ pc' = pc /\ Len(todo[n]) # 1
<1> DEFINE P == \/ pc' = [pc EXCEPT ![n] = "exited"]
                \/ pc' = pc /\ Len(todo[n]) # 1
<1>1. todo' = [todo EXCEPT ![n] = Tail(@)]
  BY DEF LoseSource
<1>2. CASE live[n] = 0 \/ live[n] = 1 \/ Len(todo[n]) = 1
  <2>1. \/ live[n] = 0 /\ Exit(n, "1")
        \/ (live[n] = 1 \/ Len(todo[n]) = 1) /\ Exit(n, "0")
    BY <1>2 DEF LoseSource
  <2> QED BY <1>1, <2>1 DEF Exit
<1>3. CASE ~(live[n] = 0 \/ live[n] = 1 \/ Len(todo[n]) = 1)
  BY <1>1, <1>3 DEF LoseSource
<1> QED BY <1>2, <1>3

LEMMA TurnOf ==
  ASSUME CtrlInv, NEW n \in Nodes
  PROVE  /\ Current(n) = 0 \/ (Current(n) \in Link /\ To(Current(n)) = n)
         /\ \A l \in Link : (Firing(n, l) \/ Reading(n, l)) => Current(n) = l /\ To(l) = n
<1>1. turn[n] \in 1..Len(Operators(n)) /\ program \in Programs
  BY DEF CtrlInv, NodeCtrl
<1>2. Current(n) = 0 \/ (Current(n) \in Link /\ To(Current(n)) = n)
  BY <1>1, OperatorsAre DEF Current
<1>3. 0 \notin Link
  BY <1>1, ProgramFacts
<1> QED BY <1>2, <1>3 DEF Firing, Reading, Current

\* Every step keeps the control in order, if what is emitted is a message.
LEMMA CtrlStep ==
  ASSUME CtrlInv, curstate \in [Link -> {0, 1}], emitted \in [Link -> Seq(1..MaxMsg)],
         [Next]_vars, emitted' \in [Link -> Seq(1..MaxMsg)]
  PROVE  CtrlInv'
<1> USE DEF mainVars, helpVars, readVars
<1>1. CASE UNCHANGED vars
  BY <1>1, CtrlSame DEF vars
<1>2. ASSUME NEW n \in Nodes, Start(n) PROVE CtrlInv'
  BY <1>2, StartKeeps
<1>3. ASSUME NEW n \in Nodes, SourceReads(n) PROVE CtrlInv'
  <2>1. /\ program' = program /\ curstate' = curstate /\ Current(n) = 0 /\ made[n] < MaxMsg
        /\ made' = [made EXCEPT ![n] = @ + 1] /\ Emit(n, 0, made[n] + 1)
    BY <1>3 DEF SourceReads, FiringSource, Current
  <2>2. made[n] \in 0..MaxMsg /\ MaxMsg \in Nat
    BY NodesAre, SNLengths DEF CtrlInv
  <2>3. made[n] + 1 \in 1..MaxMsg /\ made[n] + 1 \in 0..MaxMsg
    BY <2>1, <2>2
  <2>4. made' \in [Node -> 0..MaxMsg]
    BY <2>1, <2>3, NodesAre DEF CtrlInv
  <2> QED BY <2>1, <2>3, <2>4, EmitKeeps
<1>4. ASSUME NEW n \in Nodes, SourceWaits(n) PROVE CtrlInv'
  <2>1. made' \in [Node -> 0..MaxMsg]
    BY <1>4 DEF SourceWaits, CtrlInv
  <2> QED BY <1>4, <2>1, TurnKeeps DEF SourceWaits
<1>5. ASSUME NEW n \in Nodes, SourceEnds(n) PROVE CtrlInv'
  BY <1>5, ShutBegins DEF SourceEnds
<1>6. ASSUME NEW n \in Nodes, NEW l \in Link, SpawnServer(n, l) \/ SpawnClient(n, l) PROVE CtrlInv'
  <2>1. /\ program' = program /\ pc[n] = "init" /\ Spawned(n)
        /\ UNCHANGED <<turn, msg, made, curstate>>
    BY <1>6 DEF SpawnServer, SpawnClient
  <2>2. CASE Len(todo[n]) = 1
    BY <2>1, <2>2, RestKeeps DEF Spawned, Points
  <2>3. CASE Len(todo[n]) # 1
    BY <2>1, <2>3, RestKeeps DEF Spawned, Points
  <2> QED BY <2>2, <2>3
<1>7. ASSUME NEW n \in Nodes, NEW l \in Link, NothingToRead(n, l) PROVE CtrlInv'
  <2>1. made' \in [Node -> 0..MaxMsg]
    BY <1>7 DEF NothingToRead, CtrlInv
  <2> QED BY <1>7, <2>1, TurnKeeps DEF NothingToRead
<1>8. ASSUME NEW n \in Nodes, NEW l \in Link, ReadFails(n, l) PROVE CtrlInv'
  BY <1>8, PlaceKeeps DEF ReadFails, Exit, Points
<1>9. ASSUME NEW n \in Nodes, NEW l \in Link, ReadHeader(n, l) PROVE CtrlInv'
  <2>1. Current(n) = l /\ To(l) = n
    BY <1>9, TurnOf DEF ReadHeader
  <2>2. program' = program /\ made' = made
    BY <1>9 DEF ReadHeader
  <2>3. made' \in [Node -> 0..MaxMsg]
    BY <2>2 DEF CtrlInv
  <2>4. \/ NextTurn(n) /\ UNCHANGED <<todo, msg, curstate>>
        \/ /\ curstate' = [curstate EXCEPT ![l] = 1] /\ pc' = [pc EXCEPT ![n] = "payload"]
           /\ UNCHANGED <<todo, msg, turn>>
        \/ BeginShutdown(n) /\ UNCHANGED curstate
    BY <1>9 DEF ReadHeader
  <2>5. CASE NextTurn(n) /\ UNCHANGED <<todo, msg, curstate>>
    BY <2>2, <2>3, <2>5, TurnKeeps
  <2>6. CASE /\ curstate' = [curstate EXCEPT ![l] = 1] /\ pc' = [pc EXCEPT ![n] = "payload"]
             /\ UNCHANGED <<todo, msg, turn>>
    <3>1. curstate'[l] = 1 /\ \A i \in Link : To(i) # n => curstate'[i] = curstate[i]
      BY <2>1, <2>6
    <3>2. "payload" \in Points
      BY DEF Points
    <3> QED BY <2>1, <2>2, <2>6, <3>1, <3>2, PlaceKeeps
  <2>7. CASE BeginShutdown(n) /\ UNCHANGED curstate
    BY <2>2, <2>7, ShutBegins
  <2> QED BY <2>4, <2>5, <2>6, <2>7
<1>10. ASSUME NEW n \in Nodes, NEW l \in Link, ReadPayload(n, l) PROVE CtrlInv'
  <2>1. Current(n) = l /\ To(l) = n
    BY <1>10, TurnOf DEF ReadPayload
  <2>2. program' = program /\ made' = made
    BY <1>10 DEF ReadPayload
  <2>3. made' \in [Node -> 0..MaxMsg]
    BY <2>2 DEF CtrlInv
  <2>4. PICK m : \/ NextTurn(n) /\ UNCHANGED <<todo, msg, curstate>>
                 \/ /\ emitted' = [emitted EXCEPT ![l] = Append(@, m)]
                    /\ curstate' = [curstate EXCEPT ![l] = 0]
                    /\ Emit(n, l, m)
    BY <1>10 DEF ReadPayload
  <2>5. CASE NextTurn(n) /\ UNCHANGED <<todo, msg, curstate>>
    BY <2>2, <2>3, <2>5, TurnKeeps
  <2>6. CASE /\ emitted' = [emitted EXCEPT ![l] = Append(@, m)]
             /\ curstate' = [curstate EXCEPT ![l] = 0]
             /\ Emit(n, l, m)
    <3>1. \A i \in Link : To(i) # n => curstate'[i] = curstate[i]
      BY <2>1, <2>6
    <3>2. emitted'[l] = Append(emitted[l], m) /\ emitted'[l] \in Seq(1..MaxMsg)
      BY <2>6
    <3>3. emitted[l] \in Seq(1..MaxMsg)
      OBVIOUS
    <3>4. m \in 1..MaxMsg
      <4> DEFINE s == emitted[l]
                 t == emitted'[l]
      <4> HIDE DEF s, t
      <4>1. s \in Seq(1..MaxMsg) /\ t = Append(s, m) /\ t \in Seq(1..MaxMsg)
        BY <3>2, <3>3 DEF s, t
      <4>2. Len(t) = Len(s) + 1 /\ t[Len(s) + 1] = m /\ Len(s) + 1 \in 1..Len(t)
        BY <4>1
      <4> QED BY <4>1, <4>2, ElementOfSeq
    <3> QED BY <2>1, <2>2, <2>3, <2>6, <3>1, <3>4, EmitKeeps
  <2> QED BY <2>4, <2>5, <2>6
<1>11. ASSUME NEW n \in Nodes, NEW l \in Link, DropMessage(n, l) PROVE CtrlInv'
  BY <1>11, ServedKeeps DEF DropMessage, Sending
<1>12. ASSUME NEW n \in Nodes, NEW l \in Link, Shoot(n, l) PROVE CtrlInv'
  BY <1>12, PlaceKeeps DEF Shoot, Sending, Points
<1>13. ASSUME NEW n \in Nodes, NEW l \in Link, Write(n, l) PROVE CtrlInv'
  <2>1. /\ pc[n] = "write" /\ UNCHANGED <<program, msg, made, curstate>>
        /\ Emitted(n) \/ UNCHANGED <<pc, todo, turn>>
    BY <1>13 DEF Write
  <2> QED BY <2>1, ServedKeeps, CtrlSame
<1>14. ASSUME NEW n \in Nodes, NEW l \in Link, WriteLost(n, l) PROVE CtrlInv'
  BY <1>14, ServedKeeps DEF WriteLost
<1>15. ASSUME NEW n \in Nodes, NEW l \in Link, BrokenPipe(n, l) PROVE CtrlInv'
  BY <1>15, PlaceKeeps DEF BrokenPipe, Exit, Points
<1>16. ASSUME NEW n \in Nodes, NEW l \in Link, ShutInbound(n, l) \/ ShutOutbound(n, l)
       PROVE CtrlInv'
  <2>1. /\ program' = program /\ pc[n] = "shut" /\ LoseSource(n)
        /\ UNCHANGED <<turn, msg, made, curstate>>
    BY <1>16 DEF ShutInbound, ShutOutbound
  <2>2. /\ todo' = [todo EXCEPT ![n] = Tail(@)]
        /\ \/ pc' = [pc EXCEPT ![n] = "exited"]
           \/ pc' = [pc EXCEPT ![n] = "shut"] /\ Len(todo[n]) # 1
    BY <2>1, LoseIs, NodesAre DEF CtrlInv
  <2> QED BY <2>1, <2>2, RestKeeps DEF Points
<1>17. ASSUME NEW l \in Link, Helper(l) PROVE CtrlInv'
  <2>1. UNCHANGED <<program, pc, todo, turn, made, msg, curstate>>
    BY <1>17 DEF Helper, Listen, Accept, PublishOut, Connect, SetNonBlocking, PublishIn,
                 ServerStep, ClientStep
  <2> QED BY <2>1, CtrlSame
<1> QED BY <1>1, <1>2, <1>3, <1>4, <1>5, <1>6, <1>7, <1>8, <1>9, <1>10, <1>11, <1>12, <1>13,
           <1>14, <1>15, <1>16, <1>17 DEF Next, Main

-----------------------------------------------------------------------------
(* The connections.                                                        *)

InTodo(n, e) == \E k \in 1..Len(todo[n]) : todo[n][k] = e

\* What the helper threads have done, and what the cells say of it.
LinkConn(l) ==
  /\ pc[To(l)] = "off" => cli[l] = "none"
  /\ pc[From(l)] = "off" => srv[l] = "none"
  /\ pc[To(l)] = "init" /\ InTodo(To(l), <<"in", l>>) => cli[l] = "none"
  /\ pc[From(l)] = "init" /\ InTodo(From(l), <<"out", l>>) => srv[l] = "none"
  /\ srv[l] \in {"accepted", "done"} => cli[l] \in {"connected", "nonblocking", "done"}
  /\ fdIn[l] = "open" => cli[l] = "done"
  /\ fdIn[l] = "closed" => pc[To(l)] \in {"shut", "exited"}
  /\ fdOut[l] = "open" => srv[l] = "done"
  /\ fdOut[l] = "zero" => srv[l] # "done"
  /\ fdOut[l] = "closed" => pc[From(l)] \in {"shut", "exited"}
  /\ pc[From(l)] = "write" /\ Head(todo[From(l)]) = <<"out", l>> => fdOut[l] = "open"

ConnInv ==
  /\ srv \in [Link -> {"none", "socket", "listening", "accepted", "done"}]
  /\ cli \in [Link -> {"none", "connecting", "connected", "nonblocking", "done"}]
  /\ fdIn \in [Link -> {"zero", "open", "closed"}]
  /\ fdOut \in [Link -> {"zero", "open", "closed"}]
  /\ \A l \in Link : LinkConn(l)

\* The head of todo is an end of the process, and is not in the rest.
LEMMA HeadOwn ==
  ASSUME CtrlInv, NEW n \in Nodes, pc[n] \in {"init", "out", "write", "shut"},
         NEW side, NEW l, Head(todo[n]) = <<side, l>>
  PROVE  /\ InTodo(n, <<side, l>>) /\ l \in Link
         /\ side = "out" => From(l) = n
         /\ side = "in" => To(l) = n
         /\ \A k \in 1..Len(Tail(todo[n])) :
              Tail(todo[n])[k] # <<side, l>> /\ InTodo(n, Tail(todo[n])[k])
         /\ \A e : InTodo(n, e) => e = <<side, l>> \/ \E k \in 1..Len(Tail(todo[n])) : Tail(todo[n])[k] = e
<1> DEFINE s == todo[n]
           t == Tail(s)
<1>1. s # <<>> /\ OwnEnds(n, s)
  BY DEF CtrlInv, NodeCtrl
<1> HIDE DEF s
<1>2. /\ Head(s) = s[1] /\ Len(s) \in Nat \ {0} /\ Len(t) = Len(s) - 1
      /\ \A k \in 1..(Len(s) - 1) : t[k] = s[k + 1]
  BY <1>1, OwnTail
<1> HIDE DEF t
<1>3. 1 \in 1..Len(s) /\ s[1] = <<side, l>>
  BY <1>2 DEF s
<1>4. s \in Seq(EndSet) /\ s[1] \in EndSet
  BY <1>1, <1>3, ElementOfSeq DEF OwnEnds
<1>5. l \in Link
  BY <1>3, <1>4 DEF EndSet
<1>6. (side = "out" => From(l) = n) /\ (side = "in" => To(l) = n)
  <2>1. \/ s[1][1] = "out" /\ From(s[1][2]) = n
        \/ s[1][1] = "in" /\ To(s[1][2]) = n
    BY <1>1, <1>3 DEF OwnEnds
  <2> QED BY <1>3, <2>1
<1>7. \A k \in 1..Len(t) : t[k] # <<side, l>> /\ \E j \in 1..Len(s) : s[j] = t[k]
  <2> SUFFICES ASSUME NEW k \in 1..Len(t) PROVE t[k] # <<side, l>> /\ \E j \in 1..Len(s) : s[j] = t[k]
    OBVIOUS
  <2>1. k \in 1..(Len(s) - 1) /\ k + 1 \in 1..Len(s) /\ k + 1 # 1
    BY <1>2
  <2>2. t[k] = s[k + 1]
    BY <1>2, <2>1
  <2>3. s[k + 1] # s[1]
    BY <1>1, <1>3, <2>1 DEF OwnEnds
  <2> QED BY <1>3, <2>1, <2>2, <2>3
<1>8. ASSUME NEW j \in 1..Len(s) PROVE s[j] = <<side, l>> \/ \E k \in 1..Len(t) : t[k] = s[j]
  <2>1. j = 1 \/ (j - 1 \in 1..Len(t) /\ j - 1 \in 1..(Len(s) - 1) /\ (j - 1) + 1 = j)
    BY <1>2
  <2> QED BY <1>2, <1>3, <2>1
<1> QED BY <1>3, <1>5, <1>6, <1>7, <1>8 DEF InTodo, s, t

\* How the place of a process and its ends may change.
NodeStep(m) ==
  /\ pc'[m] = "off" => pc[m] = "off"
  /\ pc'[m] = "init" => \/ pc[m] = "off"
                        \/ pc[m] = "init" /\ \A k \in 1..Len(todo'[m]) : InTodo(m, todo'[m][k])
  /\ pc[m] \in {"shut", "exited"} => pc'[m] \in {"shut", "exited"}
  /\ pc'[m] = "write" => /\ todo'[m] = todo[m]
                         /\ \/ pc[m] = "write"
                            \/ pc[m] = "out" /\ fdOut[Head(todo[m])[2]] = "open"

LEMMA NodesStep ==
  ASSUME CtrlInv, [Next]_vars
  PROVE  program' = program /\ \A m \in Nodes : NodeStep(m)
<1> USE DEF mainVars
<1> DEFINE OnlyBy(n) == \A m \in Node \ {n} : pc'[m] = pc[m] /\ todo'[m] = todo[m]
<1>0. Nodes \subseteq Node /\ pc \in [Node -> Points] /\ todo \in [Node -> Seq(EndSet)]
  BY NodesAre DEF CtrlInv
<1>1. ASSUME UNCHANGED <<pc, todo>> PROVE \A m \in Nodes : NodeStep(m)
  <2>1. \A m, k : k \in 1..Len(todo[m]) => InTodo(m, todo[m][k])
    BY DEF InTodo
  <2> QED BY <1>1, <2>1 DEF NodeStep
<1>2. ASSUME NEW n \in Nodes, OnlyBy(n), NodeStep(n) PROVE \A m \in Nodes : NodeStep(m)
  <2>1. \A m, k : k \in 1..Len(todo[m]) => InTodo(m, todo[m][k])
    BY DEF InTodo
  <2> QED BY <1>0, <1>2, <2>1 DEF NodeStep
<1>3. ASSUME NEW n \in Nodes, NextTurn(n), pc[n] \in {"loop", "payload", "out", "write"}
      PROVE  pc'[n] = "loop" /\ NodeStep(n) /\ \A m \in Node \ {n} : pc'[m] = pc[m]
  BY <1>0, <1>3 DEF NextTurn, NodeStep
<1>4. ASSUME NEW n \in Nodes, BeginShutdown(n), pc[n] \in {"loop", "payload"}
      PROVE  NodeStep(n) /\ OnlyBy(n)
  BY <1>0, <1>4 DEF BeginShutdown, NodeStep
<1>5. ASSUME NEW n \in Nodes, NEW c, Exit(n, c), UNCHANGED todo PROVE NodeStep(n) /\ OnlyBy(n)
  BY <1>0, <1>5 DEF Exit, NodeStep
<1>6. ASSUME NEW n \in Nodes, NEW s, NEW m, Emit(n, s, m), pc[n] \in {"loop", "payload"}
      PROVE  NodeStep(n) /\ OnlyBy(n)
  <2>1. \/ NextTurn(n) /\ UNCHANGED <<todo, msg>>
        \/ \E e : pc' = [pc EXCEPT ![n] = "out"] /\ todo' = [todo EXCEPT ![n] = e]
    BY <1>6 DEF Emit
  <2>2. CASE NextTurn(n) /\ UNCHANGED <<todo, msg>>
    BY <1>3, <1>6, <2>2
  <2>3. CASE \E e : pc' = [pc EXCEPT ![n] = "out"] /\ todo' = [todo EXCEPT ![n] = e]
    BY <1>0, <1>6, <2>3 DEF NodeStep
  <2> QED BY <2>1, <2>2, <2>3
<1>7. ASSUME NEW n \in Nodes, Emitted(n), pc[n] \in {"out", "write"}
      PROVE  NodeStep(n) /\ OnlyBy(n)
  <2>1. /\ todo' = [todo EXCEPT ![n] = Tail(@)]
        /\ NextTurn(n) \/ pc' = [pc EXCEPT ![n] = "out"]
    BY <1>7 DEF Emitted
  <2> QED BY <1>0, <1>3, <1>7, <2>1 DEF NodeStep
<1>8. CASE UNCHANGED vars
  BY <1>1, <1>8 DEF vars
<1>9. ASSUME NEW n \in Nodes, Start(n) \/ Main(n) PROVE program' = program /\ NodeStep(n) /\ OnlyBy(n)
  <2>0. program' = program
    BY <1>9 DEF Start, Main, SourceReads, SourceWaits, SourceEnds, SpawnServer, SpawnClient,
                NothingToRead, ReadFails, ReadHeader, ReadPayload, DropMessage, Shoot, Write,
                WriteLost, BrokenPipe, ShutInbound, ShutOutbound
  <2>1. CASE Start(n)
    BY <1>0, <2>1 DEF Start, NodeStep
  <2>2. CASE SourceReads(n) \/ SourceWaits(n) \/ SourceEnds(n)
    BY <1>3, <1>4, <1>6, <2>2 DEF SourceReads, SourceWaits, SourceEnds, FiringSource
  <2>3. ASSUME NEW l \in Link, SpawnServer(n, l) \/ SpawnClient(n, l) PROVE NodeStep(n) /\ OnlyBy(n)
    <3>1. pc[n] = "init" /\ Spawned(n) /\ \E side : Head(todo[n]) = <<side, l>>
      BY <2>3 DEF SpawnServer, SpawnClient
    <3>2. \A k \in 1..Len(Tail(todo[n])) : InTodo(n, Tail(todo[n])[k])
      BY <3>1, HeadOwn
    <3>3. todo'[n] = Tail(todo[n]) /\ pc'[n] \in {"loop", "init"}
      BY <1>0, <3>1 DEF Spawned
    <3>4. OnlyBy(n)
      BY <1>0, <3>1 DEF Spawned
    <3> QED BY <3>1, <3>2, <3>3, <3>4 DEF NodeStep
  <2>4. ASSUME NEW l \in Link, NothingToRead(n, l) \/ ReadFails(n, l) PROVE NodeStep(n) /\ OnlyBy(n)
    BY <1>3, <1>5, <2>4 DEF NothingToRead, ReadFails, Firing, Reading
  <2>5. ASSUME NEW l \in Link, ReadHeader(n, l) PROVE NodeStep(n) /\ OnlyBy(n)
    <3>1. /\ pc[n] = "loop"
          /\ \/ NextTurn(n) /\ UNCHANGED todo
             \/ pc' = [pc EXCEPT ![n] = "payload"] /\ UNCHANGED todo
             \/ BeginShutdown(n)
      BY <2>5 DEF ReadHeader, Firing
    <3>2. CASE pc' = [pc EXCEPT ![n] = "payload"] /\ UNCHANGED todo
      BY <1>0, <3>1, <3>2 DEF NodeStep
    <3> QED BY <1>3, <1>4, <3>1, <3>2
  <2>6. ASSUME NEW l \in Link, ReadPayload(n, l) PROVE NodeStep(n) /\ OnlyBy(n)
    <3>1. /\ pc[n] \in {"loop", "payload"}
          /\ \/ NextTurn(n) /\ UNCHANGED todo
             \/ \E m : Emit(n, l, m)
      BY <2>6 DEF ReadPayload, Reading, Firing
    <3> QED BY <1>3, <1>6, <3>1
  <2>7. ASSUME NEW l \in Link, DropMessage(n, l) \/ WriteLost(n, l) PROVE NodeStep(n) /\ OnlyBy(n)
    BY <1>7, <2>7 DEF DropMessage, WriteLost, Sending
  <2>8. ASSUME NEW l \in Link, Shoot(n, l) PROVE NodeStep(n) /\ OnlyBy(n)
    <3>1. /\ pc[n] = "out" /\ Head(todo[n]) = <<"out", l>> /\ fdOut[l] = "open"
          /\ pc' = [pc EXCEPT ![n] = "write"] /\ todo' = todo
      BY <2>8 DEF Shoot, Sending
    <3>2. fdOut[Head(todo[n])[2]] = "open"
      BY <3>1
    <3> QED BY <1>0, <3>1, <3>2 DEF NodeStep
  <2>9. ASSUME NEW l \in Link, Write(n, l) PROVE NodeStep(n) /\ OnlyBy(n)
    <3>1. /\ pc[n] = "write"
          /\ Emitted(n) \/ UNCHANGED <<pc, todo>>
      BY <2>9 DEF Write
    <3>2. CASE Emitted(n)
      BY <1>7, <3>1, <3>2
    <3>3. CASE UNCHANGED <<pc, todo>>
      BY <1>1, <3>3
    <3> QED BY <3>1, <3>2, <3>3
  <2>10. ASSUME NEW l \in Link, BrokenPipe(n, l) PROVE NodeStep(n) /\ OnlyBy(n)
    BY <1>5, <2>10 DEF BrokenPipe
  <2>11. ASSUME NEW l \in Link, ShutInbound(n, l) \/ ShutOutbound(n, l) PROVE NodeStep(n) /\ OnlyBy(n)
    <3>1. pc[n] = "shut" /\ LoseSource(n)
      BY <2>11 DEF ShutInbound, ShutOutbound
    <3>2. /\ todo' = [todo EXCEPT ![n] = Tail(@)]
          /\ pc' = [pc EXCEPT ![n] = "exited"] \/ pc' = pc
      BY <3>1, LoseIs
    <3> QED BY <1>0, <3>1, <3>2 DEF NodeStep
  <2> HIDE DEF OnlyBy
  <2> QED BY <1>9, <2>0, <2>1, <2>2, <2>3, <2>4, <2>5, <2>6, <2>7, <2>8, <2>9, <2>10, <2>11 DEF Main
<1>10. ASSUME NEW l \in Link, Helper(l) PROVE UNCHANGED <<program, pc, todo>>
  BY <1>10 DEF Helper, Listen, Accept, PublishOut, Connect, SetNonBlocking, PublishIn,
               ServerStep, ClientStep
<1> HIDE DEF OnlyBy
<1> QED BY <1>1, <1>2, <1>8, <1>9, <1>10 DEF Next, vars

\* Every step keeps the connections in order.
LEMMA ConnStep ==
  ASSUME CtrlInv, ConnInv, [Next]_vars
  PROVE  ConnInv'
<1> DEFINE Same(i) == /\ srv'[i] = srv[i] /\ cli'[i] = cli[i]
                      /\ fdIn'[i] = fdIn[i] /\ fdOut'[i] = fdOut[i]
<1>0. program \in Programs /\ program' = program
  BY NodesStep DEF CtrlInv
<1>1. Link' = Link /\ \A l : From(l)' = From(l) /\ To(l)' = To(l)
  BY <1>0, SameProgram
<1>2. \A l \in Link : From(l) \in Nodes /\ To(l) \in Nodes /\ NodeStep(From(l)) /\ NodeStep(To(l))
  BY <1>0, NodesAre, NodesStep
<1>3. \A l \in Link : LinkConn(l)
  BY DEF ConnInv
\* What the processes do by themselves.
<1>4. ASSUME NEW l \in Link
      PROVE  /\ pc'[To(l)] = "off" => cli[l] = "none"
             /\ pc'[From(l)] = "off" => srv[l] = "none"
             /\ pc'[To(l)] = "init" /\ InTodo(To(l), <<"in", l>>)' => cli[l] = "none"
             /\ pc'[From(l)] = "init" /\ InTodo(From(l), <<"out", l>>)' => srv[l] = "none"
             /\ fdIn[l] = "closed" => pc'[To(l)] \in {"shut", "exited"}
             /\ fdOut[l] = "closed" => pc'[From(l)] \in {"shut", "exited"}
             /\ pc'[From(l)] = "write" /\ Head(todo'[From(l)]) = <<"out", l>> => fdOut[l] = "open"
  <2>1. NodeStep(From(l)) /\ NodeStep(To(l)) /\ LinkConn(l)
    BY <1>2, <1>3
  <2>2. From(l)' = From(l) /\ To(l)' = To(l)
    BY <1>1
  <2>3. pc'[To(l)] = "off" => cli[l] = "none"
    BY <2>1 DEF NodeStep, LinkConn
  <2>4. pc'[From(l)] = "off" => srv[l] = "none"
    BY <2>1 DEF NodeStep, LinkConn
  <2>5. ASSUME pc'[To(l)] = "init", InTodo(To(l), <<"in", l>>)' PROVE cli[l] = "none"
    <3>1. \E k \in 1..Len(todo'[To(l)]) : todo'[To(l)][k] = <<"in", l>>
      BY <2>2, <2>5 DEF InTodo
    <3>2. pc[To(l)] = "off" \/ (pc[To(l)] = "init" /\ InTodo(To(l), <<"in", l>>))
      BY <2>1, <2>5, <3>1 DEF NodeStep
    <3> QED BY <2>1, <3>2 DEF LinkConn
  <2>6. ASSUME pc'[From(l)] = "init", InTodo(From(l), <<"out", l>>)' PROVE srv[l] = "none"
    <3>1. \E k \in 1..Len(todo'[From(l)]) : todo'[From(l)][k] = <<"out", l>>
      BY <2>2, <2>6 DEF InTodo
    <3>2. pc[From(l)] = "off" \/ (pc[From(l)] = "init" /\ InTodo(From(l), <<"out", l>>))
      BY <2>1, <2>6, <3>1 DEF NodeStep
    <3> QED BY <2>1, <3>2 DEF LinkConn
  <2>7. fdIn[l] = "closed" => pc'[To(l)] \in {"shut", "exited"}
    BY <2>1 DEF NodeStep, LinkConn
  <2>8. fdOut[l] = "closed" => pc'[From(l)] \in {"shut", "exited"}
    BY <2>1 DEF NodeStep, LinkConn
  <2>9. ASSUME pc'[From(l)] = "write", Head(todo'[From(l)]) = <<"out", l>> PROVE fdOut[l] = "open"
    <3>1. Head(todo[From(l)])[2] = l /\ Head(todo[From(l)]) = <<"out", l>>
      BY <2>1, <2>9 DEF NodeStep
    <3> QED BY <2>1, <2>9, <3>1 DEF NodeStep, LinkConn
  <2> QED BY <2>3, <2>4, <2>5, <2>6, <2>7, <2>8, <2>9
<1>5. ASSUME NEW l \in Link, Same(l) PROVE LinkConn(l)'
  <2>1. From(l)' = From(l) /\ To(l)' = To(l)
    BY <1>1
  <2>2. /\ srv[l] \in {"accepted", "done"} => cli[l] \in {"connected", "nonblocking", "done"}
        /\ fdIn[l] = "open" => cli[l] = "done"
        /\ fdOut[l] = "open" => srv[l] = "done"
        /\ fdOut[l] = "zero" => srv[l] # "done"
    BY <1>3 DEF LinkConn
  <2> QED BY <1>4, <1>5, <2>1, <2>2 DEF LinkConn
<1>6. ASSUME UNCHANGED <<srv, cli, fdIn, fdOut>> PROVE ConnInv'
  BY <1>1, <1>5, <1>6 DEF ConnInv
<1>7. CASE UNCHANGED vars
  BY <1>6, <1>7 DEF vars, helpVars
<1>8. ASSUME NEW n \in Nodes, \/ Start(n) \/ SourceReads(n) \/ SourceWaits(n) \/ SourceEnds(n)
                              \/ \E l \in Link :
                                   \/ NothingToRead(n, l) \/ ReadFails(n, l) \/ ReadHeader(n, l)
                                   \/ ReadPayload(n, l) \/ DropMessage(n, l) \/ Shoot(n, l)
                                   \/ Write(n, l) \/ WriteLost(n, l) \/ BrokenPipe(n, l)
      PROVE  ConnInv'
  <2>1. UNCHANGED <<srv, cli, fdIn, fdOut>>
    BY <1>8 DEF Start, SourceReads, SourceWaits, SourceEnds, NothingToRead, ReadFails, ReadHeader,
                ReadPayload, DropMessage, Shoot, Write, WriteLost, BrokenPipe, helpVars
  <2> QED BY <1>6, <2>1
\* A step that changes one connection only.
<1>9. ASSUME NEW l \in Link, \A i \in Link \ {l} : Same(i), LinkConn(l)',
             srv' \in [Link -> {"none", "socket", "listening", "accepted", "done"}],
             cli' \in [Link -> {"none", "connecting", "connected", "nonblocking", "done"}],
             fdIn' \in [Link -> {"zero", "open", "closed"}],
             fdOut' \in [Link -> {"zero", "open", "closed"}]
      PROVE  ConnInv'
  <2>1. \A i \in Link : LinkConn(i)'
    <3> HIDE DEF Same
    <3> QED BY <1>5, <1>9
  <2> QED BY <1>1, <1>9, <2>1 DEF ConnInv
<1>10. ASSUME NEW n \in Nodes, NEW l \in Link, SpawnServer(n, l) PROVE ConnInv'
  <2>1. /\ pc[n] = "init" /\ Head(todo[n]) = <<"out", l>> /\ srv' = [srv EXCEPT ![l] = "socket"]
        /\ Spawned(n) /\ UNCHANGED <<cli, fdIn, fdOut>>
    BY <1>10 DEF SpawnServer
  <2>2. /\ From(l) = n /\ InTodo(n, <<"out", l>>)
        /\ \A k \in 1..Len(Tail(todo[n])) : Tail(todo[n])[k] # <<"out", l>>
    BY <2>1, HeadOwn
  <2>3. srv[l] = "none" /\ fdOut[l] # "open"
    BY <1>3, <2>1, <2>2 DEF LinkConn
  <2>4. pc'[n] \in {"loop", "init"} /\ todo'[n] = Tail(todo[n])
    BY <2>1, NodesAre DEF Spawned, CtrlInv
  <2>5. ~InTodo(From(l), <<"out", l>>)'
    BY <1>1, <2>2, <2>4 DEF InTodo
  <2>6. srv'[l] = "socket" /\ cli'[l] = cli[l] /\ fdIn'[l] = fdIn[l] /\ fdOut'[l] = fdOut[l]
    BY <2>1 DEF ConnInv
  <2>7. /\ From(l)' = n /\ To(l)' = To(l)
        /\ fdIn[l] = "open" => cli[l] = "done"
    BY <1>1, <1>3, <2>2 DEF LinkConn
  <2>8. LinkConn(l)'
    BY <1>4, <2>2, <2>3, <2>4, <2>5, <2>6, <2>7 DEF LinkConn
  <2> QED BY <1>9, <2>1, <2>8 DEF ConnInv
<1>11. ASSUME NEW n \in Nodes, NEW l \in Link, SpawnClient(n, l) PROVE ConnInv'
  <2>1. /\ pc[n] = "init" /\ Head(todo[n]) = <<"in", l>> /\ cli' = [cli EXCEPT ![l] = "connecting"]
        /\ Spawned(n) /\ UNCHANGED <<srv, fdIn, fdOut>>
    BY <1>11 DEF SpawnClient
  <2>2. /\ To(l) = n /\ InTodo(n, <<"in", l>>)
        /\ \A k \in 1..Len(Tail(todo[n])) : Tail(todo[n])[k] # <<"in", l>>
    BY <2>1, HeadOwn
  <2>3. cli[l] = "none" /\ fdIn[l] # "open" /\ srv[l] \notin {"accepted", "done"}
    BY <1>3, <2>1, <2>2 DEF LinkConn
  <2>4. pc'[n] \in {"loop", "init"} /\ todo'[n] = Tail(todo[n])
    BY <2>1, NodesAre DEF Spawned, CtrlInv
  <2>5. ~InTodo(To(l), <<"in", l>>)'
    BY <1>1, <2>2, <2>4 DEF InTodo
  <2>6. cli'[l] = "connecting" /\ srv'[l] = srv[l] /\ fdIn'[l] = fdIn[l] /\ fdOut'[l] = fdOut[l]
    BY <2>1 DEF ConnInv
  <2>7. /\ To(l)' = n /\ From(l)' = From(l)
        /\ (fdOut[l] = "open" => srv[l] = "done") /\ (fdOut[l] = "zero" => srv[l] # "done")
    BY <1>1, <1>3, <2>2 DEF LinkConn
  <2>8. LinkConn(l)'
    BY <1>4, <2>2, <2>3, <2>4, <2>5, <2>6, <2>7 DEF LinkConn
  <2> QED BY <1>9, <2>1, <2>8 DEF ConnInv
<1>12. ASSUME NEW n \in Nodes, NEW l \in Link, ShutInbound(n, l) PROVE ConnInv'
  <2>1. /\ pc[n] = "shut" /\ Head(todo[n]) = <<"in", l>> /\ fdIn' = [fdIn EXCEPT ![l] = "closed"]
        /\ UNCHANGED <<srv, cli, fdOut>>
    BY <1>12 DEF ShutInbound, helpVars
  <2>2. To(l) = n /\ NodeStep(n)
    <3>1. InTodo(n, <<"in", l>>) /\ To(l) = n
      BY <2>1, HeadOwn
    <3> QED BY <1>2, <3>1
  <2>3. pc'[To(l)] \in {"shut", "exited"}
    BY <2>1, <2>2 DEF NodeStep
  <2>4. fdIn'[l] = "closed" /\ srv'[l] = srv[l] /\ cli'[l] = cli[l] /\ fdOut'[l] = fdOut[l]
    BY <2>1 DEF ConnInv
  <2>5. /\ From(l)' = From(l) /\ To(l)' = To(l)
        /\ (fdOut[l] = "open" => srv[l] = "done") /\ (fdOut[l] = "zero" => srv[l] # "done")
        /\ srv[l] \in {"accepted", "done"} => cli[l] \in {"connected", "nonblocking", "done"}
    BY <1>1, <1>3 DEF LinkConn
  <2>6. LinkConn(l)'
    BY <1>4, <2>3, <2>4, <2>5 DEF LinkConn
  <2> QED BY <1>9, <2>1, <2>6 DEF ConnInv
<1>13. ASSUME NEW n \in Nodes, NEW l \in Link, ShutOutbound(n, l) PROVE ConnInv'
  <2>1. /\ pc[n] = "shut" /\ Head(todo[n]) = <<"out", l>> /\ fdOut' = [fdOut EXCEPT ![l] = "closed"]
        /\ UNCHANGED <<srv, cli, fdIn>>
    BY <1>13 DEF ShutOutbound, helpVars
  <2>2. From(l) = n /\ NodeStep(n)
    <3>1. InTodo(n, <<"out", l>>) /\ From(l) = n
      BY <2>1, HeadOwn
    <3> QED BY <1>2, <3>1
  <2>3. pc'[From(l)] \in {"shut", "exited"}
    BY <2>1, <2>2 DEF NodeStep
  <2>4. fdOut'[l] = "closed" /\ srv'[l] = srv[l] /\ cli'[l] = cli[l] /\ fdIn'[l] = fdIn[l]
    BY <2>1 DEF ConnInv
  <2>5. /\ From(l)' = From(l) /\ To(l)' = To(l)
        /\ fdIn[l] = "open" => cli[l] = "done"
        /\ srv[l] \in {"accepted", "done"} => cli[l] \in {"connected", "nonblocking", "done"}
    BY <1>1, <1>3 DEF LinkConn
  <2>6. LinkConn(l)'
    BY <1>4, <2>3, <2>4, <2>5 DEF LinkConn
  <2> QED BY <1>9, <2>1, <2>6 DEF ConnInv
<1>14. ASSUME NEW l \in Link, Listen(l) \/ Accept(l) \/ PublishOut(l) PROVE ConnInv'
  <2>1. /\ Alive(From(l)) /\ UNCHANGED <<pc, todo, cli, fdIn>>
        /\ \/ srv[l] = "socket" /\ srv' = [srv EXCEPT ![l] = "listening"] /\ fdOut' = fdOut
           \/ /\ srv[l] = "listening" /\ srv' = [srv EXCEPT ![l] = "accepted"] /\ fdOut' = fdOut
              /\ cli[l] \in {"connected", "nonblocking", "done"}
           \/ /\ srv[l] = "accepted" /\ srv' = [srv EXCEPT ![l] = "done"]
              /\ fdOut' = [fdOut EXCEPT ![l] = "open"]
    BY <1>14 DEF Listen, Accept, PublishOut, ServerStep, mainVars
  <2>2. /\ srv'[l] \in {"listening", "accepted", "done"} /\ srv[l] # "none" /\ srv[l] # "done"
        /\ srv'[l] \in {"accepted", "done"} => cli[l] \in {"connected", "nonblocking", "done"}
        /\ srv'[l] = "done" => fdOut'[l] = "open"
        /\ srv'[l] # "done" => fdOut'[l] = fdOut[l]
    <3>1. srv'[l] # srv[l] /\ srv[l] \in {"socket", "listening", "accepted"}
      BY <2>1 DEF ConnInv
    <3>2. srv \in [Link -> {"none", "socket", "listening", "accepted", "done"}] /\ Link = DOMAIN fdOut
      BY DEF ConnInv
    <3>3. srv[l] = "accepted" => cli[l] \in {"connected", "nonblocking", "done"}
      BY <1>3 DEF LinkConn
    <3>4. \/ srv'[l] = "listening" /\ fdOut' = fdOut
          \/ srv'[l] = "accepted" /\ fdOut' = fdOut /\ cli[l] \in {"connected", "nonblocking", "done"}
          \/ /\ srv'[l] = "done" /\ fdOut'[l] = "open"
             /\ cli[l] \in {"connected", "nonblocking", "done"}
      BY <2>1, <3>2, <3>3
    <3> QED BY <3>1, <3>4
  <2>3. cli'[l] = cli[l] /\ fdIn'[l] = fdIn[l] /\ From(l)' = From(l) /\ To(l)' = To(l)
    BY <1>1, <2>1
  <2>4. (fdOut[l] = "open" => srv[l] = "done") /\ (fdIn[l] = "open" => cli[l] = "done")
    BY <1>3 DEF LinkConn
  <2>5. fdOut'[l] = "zero" => srv'[l] # "done"
    BY <2>2
  <2>6. fdOut'[l] = "open" => srv'[l] = "done"
    BY <2>2, <2>4
  <2>7. fdOut'[l] = "closed" => fdOut[l] = "closed"
    BY <2>2
  <2>8. LinkConn(l)'
    BY <1>4, <2>2, <2>3, <2>4, <2>5, <2>6, <2>7 DEF LinkConn
  <2> QED BY <1>9, <2>1, <2>8 DEF ConnInv
<1>15. ASSUME NEW l \in Link, Connect(l) \/ SetNonBlocking(l) \/ PublishIn(l) PROVE ConnInv'
  <2>1. /\ UNCHANGED <<pc, todo, srv, fdOut>>
        /\ \/ cli[l] = "connecting" /\ cli' = [cli EXCEPT ![l] = "connected"] /\ fdIn' = fdIn
           \/ cli[l] = "connected" /\ cli' = [cli EXCEPT ![l] = "nonblocking"] /\ fdIn' = fdIn
           \/ /\ cli[l] = "nonblocking" /\ cli' = [cli EXCEPT ![l] = "done"]
              /\ fdIn' = [fdIn EXCEPT ![l] = "open"]
    BY <1>15 DEF Connect, SetNonBlocking, PublishIn, ClientStep, mainVars
  <2>2. /\ cli'[l] \in {"connected", "nonblocking", "done"} /\ cli[l] # "none" /\ cli[l] # "done"
        /\ cli'[l] = "done" => fdIn'[l] = "open"
        /\ cli'[l] # "done" => fdIn'[l] = fdIn[l]
    BY <1>3, <2>1 DEF ConnInv, LinkConn
  <2>3. srv'[l] = srv[l] /\ fdOut'[l] = fdOut[l] /\ From(l)' = From(l) /\ To(l)' = To(l)
    BY <1>1, <2>1
  <2>4. /\ fdIn[l] = "open" => cli[l] = "done"
        /\ (fdOut[l] = "open" => srv[l] = "done") /\ (fdOut[l] = "zero" => srv[l] # "done")
    BY <1>3 DEF LinkConn
  <2>5. fdIn'[l] = "open" => cli'[l] = "done"
    BY <2>2, <2>4
  <2>6. fdIn'[l] = "closed" => fdIn[l] = "closed"
    BY <2>2
  <2>7. LinkConn(l)'
    BY <1>4, <2>2, <2>3, <2>4, <2>5, <2>6 DEF LinkConn
  <2> QED BY <1>9, <2>1, <2>7 DEF ConnInv
<1> HIDE DEF Same
<1> QED BY <1>7, <1>8, <1>10, <1>11, <1>12, <1>13, <1>14, <1>15 DEF Next, Main, Helper

-----------------------------------------------------------------------------
(* Bytes, and messages.                                                    *)

Byte == (0..MaxMsg) \X Nat

LinkWire(l) ==
  /\ lenctr[l] <= Len(lenbuf[l]) /\ datactr[l] <= Len(databuf[l])
  /\ curstate[l] = 0 => lenctr[l] < HdrLen
  /\ curstate[l] = 1 => Len(lenbuf[l]) = HdrLen /\ lenbuf[l] # Eos

WireInv ==
  /\ wire \in [Link -> Seq(Byte)] /\ left \in [Node -> Seq(Byte)]
  /\ curstate \in [Link -> {0, 1}]
  /\ lenbuf \in [Link -> Seq(Byte)] /\ lenctr \in [Link -> Nat]
  /\ databuf \in [Link -> Seq(Byte)] /\ datactr \in [Link -> Nat]
  /\ \A l \in Link : LinkWire(l)

\* What is written on a connection is a run of messages, and what is emitted is
\* its beginning.
LinkHist(l) ==
  /\ Len(emitted[l]) <= Len(shot[l])
  /\ \A i \in 1..Len(emitted[l]) : emitted[l][i] = shot[l][i]
  /\ \A i \in 1..Len(shot[l]) : shot[l][i] = shot[l][1] + i - 1
  /\ program.nodrop /\ Len(shot[l]) > 0 => shot[l][1] = 1
  /\ Len(shot[l]) > 0 => fdOut[l] # "zero"

HistInv ==
  /\ shot \in [Link -> Seq(1..MaxMsg)] /\ emitted \in [Link -> Seq(1..MaxMsg)]
  /\ \A l \in Link : LinkHist(l)

\* The last message of the stream that l carries.
Issued(l) ==
  IF Strm(l) = 0 THEN made[From(l)]
  ELSE IF Len(emitted[Strm(l)]) = 0 THEN 0
  ELSE emitted[Strm(l)][Len(emitted[Strm(l)])]

\* The message being emitted still has to be written on l.
Pending(l) ==
  LET n == From(l) IN
  \/ pc[n] = "out" /\ InTodo(n, <<"out", l>>)
  \/ pc[n] = "write" /\ InTodo(n, <<"out", l>>) /\ Head(todo[n]) # <<"out", l>>

Owed(l) == IF Pending(l) THEN 1 ELSE 0

\* All that was read for l since its first message has been written on it, but
\* for the one being emitted.
LinkIssue(l) ==
  /\ Len(shot[l]) > 0 => Issued(l) = shot[l][Len(shot[l])] + Owed(l)
  /\ Len(shot[l]) = 0 /\ program.nodrop => Issued(l) = Owed(l)
  /\ pc[From(l)] \in {"out", "write"} /\ Strm(l) = Current(From(l)) => msg[From(l)] = Issued(l)

IssueInv == \A l \in Link : pc[From(l)] # "exited" => LinkIssue(l)

LEMMA FrameType ==
  /\ HdrLen \in Nat \ {0} /\ MaxMsg \in Nat
  /\ Eos \in Seq(Byte) /\ Len(Eos) = HdrLen /\ \A i \in 1..HdrLen : Eos[i] = <<0, i>>
  /\ \A m \in 1..MaxMsg :
       /\ PayLen[m] \in Nat \ {0} /\ m \in Nat /\ m # 0
       /\ Frame(m) \in Seq(Byte) /\ Len(Frame(m)) = HdrLen + PayLen[m]
       /\ \A i \in 1..(HdrLen + PayLen[m]) : Frame(m)[i] = <<m, i>>
<1>1. HdrLen \in Nat \ {0} /\ MaxMsg \in Nat /\ \A m \in 1..MaxMsg : PayLen[m] \in Nat \ {0}
  BY SNLengths
<1>2. Eos \in Seq(Byte) /\ Len(Eos) = HdrLen /\ \A i \in 1..HdrLen : Eos[i] = <<0, i>>
  <2>1. \A i \in 1..HdrLen : <<0, i>> \in Byte
    BY <1>1 DEF Byte
  <2> QED BY <1>1, <2>1 DEF Eos
<1>3. ASSUME NEW m \in 1..MaxMsg
      PROVE  /\ m \in Nat /\ m # 0
             /\ Frame(m) \in Seq(Byte) /\ Len(Frame(m)) = HdrLen + PayLen[m]
             /\ \A i \in 1..(HdrLen + PayLen[m]) : Frame(m)[i] = <<m, i>>
  <2>1. \A i \in 1..(HdrLen + PayLen[m]) : <<m, i>> \in Byte
    BY <1>1 DEF Byte
  <2>2. HdrLen + PayLen[m] \in Nat
    BY <1>1
  <2> QED BY <1>1, <2>1, <2>2 DEF Frame
<1> QED BY <1>1, <1>2, <1>3

\* Reading k bytes into a buffer that holds c.
LEMMA PutIs ==
  ASSUME NEW B, NEW buf \in Seq(B), NEW c \in Nat, c <= Len(buf),
         NEW s \in Seq(B), NEW k \in 1..Len(s)
  PROVE  /\ Put(buf, c, SubSeq(s, 1, k)) = SubSeq(buf, 1, c) \o SubSeq(s, 1, k)
         /\ Put(buf, c, SubSeq(s, 1, k)) \in Seq(B)
         /\ Len(Put(buf, c, SubSeq(s, 1, k))) = c + k
         /\ SubSeq(buf, 1, c) \in Seq(B) /\ Len(SubSeq(buf, 1, c)) = c
         /\ SubSeq(s, 1, k) \in Seq(B) /\ Len(SubSeq(s, 1, k)) = k
         /\ Drop(s, k) \in Seq(B) /\ SubSeq(s, 1, k) \o Drop(s, k) = s
<1>1. c \in 0..Len(buf) /\ k \in 0..Len(s)
  OBVIOUS
<1>2. /\ SubSeq(buf, 1, c) \in Seq(B) /\ Len(SubSeq(buf, 1, c)) = c
      /\ SubSeq(s, 1, k) \in Seq(B) /\ Len(SubSeq(s, 1, k)) = k
      /\ Drop(s, k) \in Seq(B) /\ SubSeq(s, 1, k) \o Drop(s, k) = s
  BY <1>1, Cut
<1> QED BY <1>2, ConcatProperties DEF Put

\* The operator that reads a payload has a header.
LEMMA ReadingIs ==
  ASSUME CtrlInv, NEW n \in Nodes, NEW l \in Link, Reading(n, l)
  PROVE  To(l) = n /\ Current(n) = l /\ curstate[l] = 1 /\ pc[n] \in {"loop", "payload"}
<1>1. To(l) = n /\ Current(n) = l
  BY TurnOf
<1>2. pc[n] = "payload" => curstate[l] = 1
  BY <1>1 DEF CtrlInv, NodeCtrl
<1> QED BY <1>1, <1>2 DEF Reading, Firing

LEMMA WireStep ==
  ASSUME CtrlInv, WireInv, [Next]_vars
  PROVE  WireInv'
<1> DEFINE Rest == <<curstate, lenbuf, lenctr, databuf, datactr>>
<1>0. program' = program /\ Link' = Link /\ Byte' = Byte /\ Eos' = Eos
  BY NodesStep, SameProgram DEF Byte, Eos
<1>1. ASSUME UNCHANGED Rest, wire' \in [Link -> Seq(Byte)], left' \in [Node -> Seq(Byte)]
      PROVE  WireInv'
  <2>1. \A l \in Link : LinkWire(l)'
    BY <1>1 DEF WireInv, LinkWire, Eos
  <2> QED BY <1>0, <1>1, <2>1 DEF WireInv, Byte
<1>2. wire \in [Link -> Seq(Byte)] /\ left \in [Node -> Seq(Byte)]
  BY DEF WireInv
<1>3. CASE UNCHANGED vars
  BY <1>1, <1>2, <1>3 DEF vars, mainVars, readVars
<1>4. ASSUME NEW n \in Nodes,
             \/ Start(n) \/ SourceReads(n) \/ SourceWaits(n) \/ SourceEnds(n)
             \/ \E l \in Link :
                  \/ SpawnServer(n, l) \/ SpawnClient(n, l) \/ NothingToRead(n, l)
                  \/ ReadFails(n, l) \/ DropMessage(n, l) \/ BrokenPipe(n, l) \/ ShutInbound(n, l)
      PROVE  WireInv'
  <2>1. UNCHANGED <<wire, left>> /\ UNCHANGED Rest
    BY <1>4 DEF Start, SourceReads, SourceWaits, SourceEnds, SpawnServer, SpawnClient,
                NothingToRead, ReadFails, DropMessage, BrokenPipe, ShutInbound, readVars
  <2> QED BY <1>1, <1>2, <2>1
<1>5. ASSUME NEW l \in Link, Helper(l) PROVE WireInv'
  <2>1. UNCHANGED <<wire, left>> /\ UNCHANGED Rest
    BY <1>5 DEF Helper, Listen, Accept, PublishOut, Connect, SetNonBlocking, PublishIn,
                ServerStep, ClientStep, mainVars, readVars
  <2> QED BY <1>1, <1>2, <2>1
<1>6. ASSUME NEW n \in Nodes, NEW l \in Link, Shoot(n, l) PROVE WireInv'
  <2>1. pc[n] = "out" /\ left' = [left EXCEPT ![n] = Frame(msg[n])] /\ UNCHANGED wire /\ UNCHANGED Rest
    BY <1>6 DEF Shoot, Sending, readVars
  <2>2. msg[n] \in 1..MaxMsg
    BY <2>1 DEF CtrlInv, NodeCtrl
  <2>3. Frame(msg[n]) \in Seq(Byte)
    BY <2>2, FrameType
  <2>4. left' \in [Node -> Seq(Byte)]
    BY <1>2, <2>1, <2>3
  <2> QED BY <1>1, <1>2, <2>1, <2>4
<1>7. ASSUME NEW n \in Nodes, NEW l \in Link, Write(n, l) PROVE WireInv'
  <2>1. PICK k \in 1..Len(left[n]) : /\ wire' = [wire EXCEPT ![l] = @ \o SubSeq(left[n], 1, k)]
                                     /\ left' = [left EXCEPT ![n] = Drop(@, k)]
    BY <1>7 DEF Write
  <2>2. left[n] \in Seq(Byte) /\ wire[l] \in Seq(Byte)
    BY <1>2, NodesAre DEF CtrlInv
  <2>3. SubSeq(left[n], 1, k) \in Seq(Byte) /\ Drop(left[n], k) \in Seq(Byte)
    <3> DEFINE s == left[n]
    <3>1. s \in Seq(Byte) /\ k \in 0..Len(s)
      BY <2>2
    <3> HIDE DEF s
    <3>2. SubSeq(s, 1, k) \in Seq(Byte) /\ Drop(s, k) \in Seq(Byte)
      BY <3>1, Cut
    <3> QED BY <3>2 DEF s
  <2>4. wire[l] \o SubSeq(left[n], 1, k) \in Seq(Byte)
    BY <2>2, <2>3, ConcatProperties
  <2>5. wire' \in [Link -> Seq(Byte)] /\ left' \in [Node -> Seq(Byte)]
    BY <1>2, <2>1, <2>3, <2>4
  <2>6. UNCHANGED Rest
    BY <1>7 DEF Write, readVars
  <2> QED BY <1>1, <2>5, <2>6
<1>8. ASSUME NEW n \in Nodes, NEW l \in Link, WriteLost(n, l) PROVE WireInv'
  <2>1. left' = [left EXCEPT ![n] = <<>>] /\ UNCHANGED wire /\ UNCHANGED Rest
    BY <1>8 DEF WriteLost, readVars
  <2>2. <<>> \in Seq(Byte)
    OBVIOUS
  <2>3. left' \in [Node -> Seq(Byte)]
    BY <1>2, <2>1, <2>2
  <2> QED BY <1>1, <1>2, <2>1, <2>3
<1>9. ASSUME NEW n \in Nodes, NEW l \in Link, ShutOutbound(n, l) PROVE WireInv'
  <2>1. left' = left /\ UNCHANGED Rest /\ (wire' = wire \/ wire' = [wire EXCEPT ![l] = @ \o Eos])
    BY <1>9 DEF ShutOutbound, readVars
  <2>2. wire[l] \o Eos \in Seq(Byte)
    BY <1>2, FrameType, ConcatProperties
  <2>3. wire' \in [Link -> Seq(Byte)]
    BY <1>2, <2>1, <2>2
  <2> QED BY <1>1, <1>2, <2>1, <2>3
\* The reader.
<1>10. ASSUME NEW l \in Link, left' = left,
              wire' \in [Link -> Seq(Byte)], curstate' \in [Link -> {0, 1}],
              lenbuf' \in [Link -> Seq(Byte)], lenctr' \in [Link -> Nat],
              databuf' \in [Link -> Seq(Byte)], datactr' \in [Link -> Nat],
              \A i \in Link \ {l} :
                /\ curstate'[i] = curstate[i] /\ lenbuf'[i] = lenbuf[i] /\ lenctr'[i] = lenctr[i]
                /\ databuf'[i] = databuf[i] /\ datactr'[i] = datactr[i],
              LinkWire(l)'
       PROVE  WireInv'
  <2>1. \A i \in Link \ {l} : LinkWire(i)'
    BY <1>10 DEF WireInv, LinkWire, Eos
  <2> QED BY <1>0, <1>2, <1>10, <2>1 DEF WireInv, Byte
<1>11. ASSUME NEW n \in Nodes, NEW l \in Link, ReadHeader(n, l) PROVE WireInv'
  <2> DEFINE Got(k) == Put(lenbuf[l], lenctr[l], SubSeq(wire[l], 1, k))
  <2>1. /\ lenbuf[l] \in Seq(Byte) /\ lenctr[l] \in Nat /\ lenctr[l] <= Len(lenbuf[l])
        /\ wire[l] \in Seq(Byte) /\ databuf[l] \in Seq(Byte) /\ datactr[l] \in Nat
        /\ datactr[l] <= Len(databuf[l]) /\ lenctr[l] < HdrLen /\ HdrLen \in Nat
        /\ curstate[l] = 0
    BY <1>11, FrameType DEF WireInv, LinkWire, ReadHeader
  <2>2. PICK k \in 1..Len(wire[l]) :
          /\ wire' = [wire EXCEPT ![l] = Drop(@, k)] /\ lenbuf' = [lenbuf EXCEPT ![l] = Got(k)]
          /\ \/ /\ k < HdrLen - lenctr[l] /\ lenctr' = [lenctr EXCEPT ![l] = @ + k]
                /\ UNCHANGED <<curstate, datactr, databuf>>
             \/ /\ k = HdrLen - lenctr[l] /\ lenbuf'[l] # Eos
                /\ curstate' = [curstate EXCEPT ![l] = 1]
                /\ lenctr' = [lenctr EXCEPT ![l] = 0] /\ datactr' = [datactr EXCEPT ![l] = 0]
                /\ databuf' = [databuf EXCEPT ![l] = <<>>]
             \/ /\ k = HdrLen - lenctr[l]
                /\ UNCHANGED <<curstate, lenctr, datactr, databuf>>
    BY <1>11 DEF ReadHeader, RemainingHeader, IsEos
  <2>3. Got(k) \in Seq(Byte) /\ Len(Got(k)) = lenctr[l] + k /\ Drop(wire[l], k) \in Seq(Byte)
    <3> DEFINE b == lenbuf[l]
               c == lenctr[l]
               s == wire[l]
    <3>1. b \in Seq(Byte) /\ c \in Nat /\ c <= Len(b) /\ s \in Seq(Byte) /\ k \in 1..Len(s)
      BY <2>1
    <3> HIDE DEF b, c, s
    <3>2. /\ Put(b, c, SubSeq(s, 1, k)) \in Seq(Byte) /\ Len(Put(b, c, SubSeq(s, 1, k))) = c + k
          /\ Drop(s, k) \in Seq(Byte)
      BY <3>1, PutIs
    <3> QED BY <3>2 DEF b, c, s
  <2> HIDE DEF Got
  <2>4. k \in Nat /\ left' = left
    BY <1>11, <2>1 DEF ReadHeader
  <2>5. <<>> \in Seq(Byte) /\ Len(<<>>) = 0
    OBVIOUS
  <2>6. wire' \in [Link -> Seq(Byte)] /\ lenbuf' \in [Link -> Seq(Byte)] /\ lenbuf'[l] = Got(k)
    BY <2>2, <2>3 DEF WireInv
  <2>7. lenctr[l] + k \in Nat /\ 0 \in Nat
    BY <2>1, <2>4
  <2>8. /\ curstate' \in [Link -> {0, 1}] /\ lenctr' \in [Link -> Nat]
        /\ datactr' \in [Link -> Nat] /\ databuf' \in [Link -> Seq(Byte)]
    <3>1. curstate' \in [Link -> {0, 1}]
      BY <2>2 DEF WireInv
    <3>2. databuf' \in [Link -> Seq(Byte)]
      <4>1. databuf \in [Link -> Seq(Byte)]
        BY DEF WireInv
      <4>2. databuf' = databuf \/ \E b \in Seq(Byte) : databuf' = [databuf EXCEPT ![l] = b]
        BY <2>2, <2>5
      <4> QED BY <4>1, <4>2
    <3>3. lenctr' \in [Link -> Nat]
      BY <2>2, <2>7 DEF WireInv
    <3>4. datactr' \in [Link -> Nat]
      BY <2>2, <2>7 DEF WireInv
    <3> QED BY <3>1, <3>2, <3>3, <3>4
  <2>9. \A i \in Link \ {l} :
          /\ curstate'[i] = curstate[i] /\ lenbuf'[i] = lenbuf[i] /\ lenctr'[i] = lenctr[i]
          /\ databuf'[i] = databuf[i] /\ datactr'[i] = datactr[i]
    BY <2>2 DEF WireInv
  <2>10. \/ /\ k < HdrLen - lenctr[l] /\ lenctr'[l] = lenctr[l] + k /\ curstate'[l] = 0
            /\ datactr'[l] = datactr[l] /\ databuf'[l] = databuf[l]
         \/ /\ k = HdrLen - lenctr[l] /\ lenbuf'[l] # Eos /\ curstate'[l] = 1
            /\ lenctr'[l] = 0 /\ datactr'[l] = 0 /\ databuf'[l] = <<>>
         \/ /\ k = HdrLen - lenctr[l] /\ lenctr'[l] = lenctr[l] /\ curstate'[l] = 0
            /\ datactr'[l] = datactr[l] /\ databuf'[l] = databuf[l]
    BY <2>1, <2>2 DEF WireInv
  <2>11. lenctr'[l] <= Len(lenbuf'[l]) /\ datactr'[l] <= Len(databuf'[l])
    BY <2>1, <2>3, <2>4, <2>5, <2>6, <2>10
  <2>12. curstate'[l] = 0 => lenctr'[l] < HdrLen
    BY <2>1, <2>4, <2>10
  <2>13. curstate'[l] = 1 => Len(lenbuf'[l]) = HdrLen /\ lenbuf'[l] # Eos
    BY <2>1, <2>3, <2>4, <2>6, <2>10
  <2>14. LinkWire(l)'
    BY <1>0, <2>11, <2>12, <2>13 DEF LinkWire
  <2> QED BY <1>10, <2>4, <2>6, <2>8, <2>9, <2>14
<1>12. ASSUME NEW n \in Nodes, NEW l \in Link, ReadPayload(n, l) PROVE WireInv'
  <2> DEFINE Got(k) == Put(databuf[l], datactr[l], SubSeq(wire[l], 1, k))
  <2>0. curstate[l] = 1
    BY <1>12, ReadingIs DEF ReadPayload
  <2>1. /\ lenbuf[l] \in Seq(Byte) /\ lenctr[l] \in Nat /\ lenctr[l] <= Len(lenbuf[l])
        /\ wire[l] \in Seq(Byte) /\ databuf[l] \in Seq(Byte) /\ datactr[l] \in Nat
        /\ datactr[l] <= Len(databuf[l]) /\ HdrLen \in Nat \ {0}
        /\ Len(lenbuf[l]) = HdrLen /\ lenbuf[l] # Eos
    BY <2>0, FrameType DEF WireInv, LinkWire
  <2>2. PICK k \in 1..Len(wire[l]) :
          /\ wire' = [wire EXCEPT ![l] = Drop(@, k)]
          /\ \/ /\ databuf' = [databuf EXCEPT ![l] = Got(k)]
                /\ datactr' = [datactr EXCEPT ![l] = @ + k]
                /\ UNCHANGED <<curstate, lenctr>>
             \/ /\ curstate' = [curstate EXCEPT ![l] = 0]
                /\ lenctr' = [lenctr EXCEPT ![l] = 0] /\ datactr' = [datactr EXCEPT ![l] = 0]
                /\ databuf' = [databuf EXCEPT ![l] = <<>>]
    BY <1>12 DEF ReadPayload
  <2>3. Got(k) \in Seq(Byte) /\ Len(Got(k)) = datactr[l] + k /\ Drop(wire[l], k) \in Seq(Byte)
    <3> DEFINE b == databuf[l]
               c == datactr[l]
               s == wire[l]
    <3>1. b \in Seq(Byte) /\ c \in Nat /\ c <= Len(b) /\ s \in Seq(Byte) /\ k \in 1..Len(s)
      BY <2>1
    <3> HIDE DEF b, c, s
    <3>2. /\ Put(b, c, SubSeq(s, 1, k)) \in Seq(Byte) /\ Len(Put(b, c, SubSeq(s, 1, k))) = c + k
          /\ Drop(s, k) \in Seq(Byte)
      BY <3>1, PutIs
    <3> QED BY <3>2 DEF b, c, s
  <2> HIDE DEF Got
  <2>4. k \in Nat /\ left' = left /\ lenbuf' = lenbuf
    BY <1>12, <2>1 DEF ReadPayload
  <2>5. <<>> \in Seq(Byte) /\ Len(<<>>) = 0
    OBVIOUS
  <2>6. wire' \in [Link -> Seq(Byte)] /\ lenbuf' \in [Link -> Seq(Byte)]
    BY <2>2, <2>3, <2>4 DEF WireInv
  <2>7. datactr[l] + k \in Nat /\ 0 \in Nat
    BY <2>1, <2>4
  <2>8. /\ curstate' \in [Link -> {0, 1}] /\ lenctr' \in [Link -> Nat]
        /\ datactr' \in [Link -> Nat] /\ databuf' \in [Link -> Seq(Byte)]
    <3>1. curstate' \in [Link -> {0, 1}]
      BY <2>2 DEF WireInv
    <3>2. databuf' \in [Link -> Seq(Byte)]
      <4>1. databuf \in [Link -> Seq(Byte)]
        BY DEF WireInv
      <4>2. databuf' = databuf \/ \E b \in Seq(Byte) : databuf' = [databuf EXCEPT ![l] = b]
        BY <2>2, <2>3, <2>5
      <4> QED BY <4>1, <4>2
    <3>3. lenctr' \in [Link -> Nat]
      BY <2>2, <2>7 DEF WireInv
    <3>4. datactr' \in [Link -> Nat]
      BY <2>2, <2>7 DEF WireInv
    <3> QED BY <3>1, <3>2, <3>3, <3>4
  <2>9. \A i \in Link \ {l} :
          /\ curstate'[i] = curstate[i] /\ lenbuf'[i] = lenbuf[i] /\ lenctr'[i] = lenctr[i]
          /\ databuf'[i] = databuf[i] /\ datactr'[i] = datactr[i]
    BY <2>2, <2>4 DEF WireInv
  <2>10. \/ /\ lenctr'[l] = lenctr[l] /\ curstate'[l] = 1
            /\ datactr'[l] = datactr[l] + k /\ databuf'[l] = Got(k)
         \/ /\ curstate'[l] = 0
            /\ lenctr'[l] = 0 /\ datactr'[l] = 0 /\ databuf'[l] = <<>>
    BY <2>0, <2>2 DEF WireInv
  <2>11. lenctr'[l] <= Len(lenbuf'[l]) /\ datactr'[l] <= Len(databuf'[l])
    BY <2>1, <2>3, <2>4, <2>5, <2>10
  <2>12. curstate'[l] = 0 => lenctr'[l] < HdrLen
    BY <2>1, <2>10
  <2>13. curstate'[l] = 1 => Len(lenbuf'[l]) = HdrLen /\ lenbuf'[l] # Eos
    BY <2>1, <2>4
  <2>14. LinkWire(l)'
    BY <1>0, <2>11, <2>12, <2>13 DEF LinkWire
  <2> QED BY <1>10, <2>4, <2>6, <2>8, <2>9, <2>14
<1> QED BY <1>3, <1>4, <1>5, <1>6, <1>7, <1>8, <1>9, <1>11, <1>12 DEF Next, Main

-----------------------------------------------------------------------------
(* The bytes of a connection.                                              *)

Frames(l) ==
  [i \in 1..(Len(shot[l]) - Len(emitted[l])) |-> Frame(shot[l][Len(emitted[l]) + i])]

Closing(l) == IF fdOut[l] = "closed" /\ srv[l] = "done" THEN Eos ELSE <<>>

Bytes(l) == (Consumed(l) \o wire[l]) \o Unwritten(l) = FlattenSeq(Frames(l)) \o Closing(l)

Reads(l) == pc[To(l)] \notin {"shut", "exited"}

LEMMA BytesAre == BytesAccounted <=> \A l \in Link : Reads(l) => Bytes(l)
BY DEF BytesAccounted, Bytes, Frames, Closing, Reads

\* What has been read is the beginning of the buffer for the header, and then
\* of the one for the payload.
LEMMA ConsumedIs ==
  ASSUME WireInv, NEW l \in Link
  PROVE  /\ Consumed(l) \in Seq(Byte)
         /\ lenbuf[l] \in Seq(Byte) /\ SubSeq(lenbuf[l], 1, lenctr[l]) \in Seq(Byte)
         /\ SubSeq(databuf[l], 1, datactr[l]) \in Seq(Byte)
<1> DEFINE b == lenbuf[l]
           c == lenctr[l]
           d == databuf[l]
           e == datactr[l]
<1>1. b \in Seq(Byte) /\ c \in 0..Len(b) /\ d \in Seq(Byte) /\ e \in 0..Len(d)
  BY DEF WireInv, LinkWire
<1>2. Consumed(l) = IF curstate[l] = 1 THEN b \o SubSeq(d, 1, e) ELSE SubSeq(b, 1, c)
  BY DEF Consumed
<1> HIDE DEF b, c, d, e
<1>3. SubSeq(b, 1, c) \in Seq(Byte) /\ SubSeq(d, 1, e) \in Seq(Byte)
  BY <1>1, Cut
<1>4. b \o SubSeq(d, 1, e) \in Seq(Byte)
  BY <1>1, <1>3, ConcatProperties
<1> QED BY <1>1, <1>2, <1>3, <1>4 DEF b, c, d, e

LEMMA PartsAre ==
  ASSUME CtrlInv, WireInv, HistInv, NEW l \in Link
  PROVE  /\ wire[l] \in Seq(Byte) /\ Unwritten(l) \in Seq(Byte)
         /\ shot[l] \in Seq(1..MaxMsg) /\ emitted[l] \in Seq(1..MaxMsg)
         /\ Len(shot[l]) \in Nat /\ Len(emitted[l]) \in Nat /\ Len(emitted[l]) <= Len(shot[l])
         /\ Frames(l) \in Seq(Seq(Byte)) /\ Len(Frames(l)) = Len(shot[l]) - Len(emitted[l])
         /\ \A i \in 1..Len(Frames(l)) : /\ shot[l][Len(emitted[l]) + i] \in 1..MaxMsg
                                         /\ Frames(l)[i] = Frame(shot[l][Len(emitted[l]) + i])
         /\ FlattenSeq(Frames(l)) \in Seq(Byte)
         /\ Closing(l) \in {<<>>, Eos} /\ Closing(l) \in Seq(Byte)
<1>1. wire[l] \in Seq(Byte)
  BY DEF WireInv
<1>2. Unwritten(l) \in Seq(Byte)
  <2>1. From(l) \in Node
    BY ProgramFacts DEF CtrlInv
  <2>2. left[From(l)] \in Seq(Byte) /\ <<>> \in Seq(Byte)
    BY <2>1 DEF WireInv
  <2> QED BY <2>2 DEF Unwritten
<1> DEFINE s == shot[l]
           e == emitted[l]
<1>3. s \in Seq(1..MaxMsg) /\ e \in Seq(1..MaxMsg) /\ Len(e) <= Len(s)
  BY DEF HistInv, LinkHist
<1>4. Frames(l) = [i \in 1..(Len(s) - Len(e)) |-> Frame(s[Len(e) + i])]
  BY DEF Frames
<1> HIDE DEF s, e
<1>5. Len(s) \in Nat /\ Len(e) \in Nat /\ Len(s) - Len(e) \in Nat
  BY <1>3
<1>6. \A i \in 1..(Len(s) - Len(e)) : s[Len(e) + i] \in 1..MaxMsg
  <2>1. \A i \in 1..(Len(s) - Len(e)) : Len(e) + i \in 1..Len(s)
    BY <1>5
  <2> QED BY <1>3, <2>1, ElementOfSeq
<1>7. \A i \in 1..(Len(s) - Len(e)) : Frame(s[Len(e) + i]) \in Seq(Byte)
  BY <1>6, FrameType
<1>8. /\ Frames(l) \in Seq(Seq(Byte)) /\ Len(Frames(l)) = Len(s) - Len(e)
      /\ \A i \in 1..(Len(s) - Len(e)) : Frames(l)[i] = Frame(s[Len(e) + i])
  BY <1>4, <1>5, <1>7
<1>9. FlattenSeq(Frames(l)) \in Seq(Byte)
  BY <1>8, FlattenType
<1>10. Closing(l) \in {<<>>, Eos} /\ Closing(l) \in Seq(Byte)
  BY FrameType DEF Closing
<1> QED BY <1>1, <1>2, <1>3, <1>5, <1>6, <1>8, <1>9, <1>10 DEF s, e

\* After a header that is not the end-of-stream header there is a frame to read.
LEMMA FrameComes ==
  ASSUME NEW h \in Seq(Byte), Len(h) = HdrLen, h # Eos, NEW r \in Seq(Byte),
         NEW fs \in Seq(Seq(Byte)), NEW c \in {<<>>, Eos},
         h \o r = FlattenSeq(fs) \o c
  PROVE  fs # <<>>
<1> SUFFICES ASSUME fs = <<>> PROVE FALSE
  OBVIOUS
<1>1. c \in Seq(Byte) /\ HdrLen \in Nat \ {0}
  <2>1. <<>> \in Seq(Byte)
    OBVIOUS
  <2>2. Eos \in Seq(Byte) /\ HdrLen \in Nat \ {0}
    BY FrameType
  <2> QED BY <2>1, <2>2
<1>2. h \o r = c
  BY <1>1, FlattenEmpty, ConcatEmptySeq
<1>3. Len(c) = HdrLen + Len(r) /\ Len(r) \in Nat
  BY <1>2, ConcatProperties
<1>4. c = Eos
  <2>1. Len(<<>>) # HdrLen + Len(r)
    BY <1>1, <1>3
  <2> QED BY <1>3, <2>1, Zenon
<1>5. Len(c) = Len(h) /\ Len(r) = 0
  BY <1>1, <1>3, <1>4, FrameType
<1>6. r = <<>>
  BY <1>5, EmptySeq
<1>7. h \o r = h
  BY <1>6, ConcatEmptySeq
<1> QED BY <1>2, <1>4, <1>7

\* Concatenation under names that keep the provers from looking inside.
IsBytes(x) == x \in Seq(Byte)

Cat(x, y) == x \o y

LEMMA CatFacts ==
  /\ \A x, y : IsBytes(x) /\ IsBytes(y) => IsBytes(Cat(x, y))
  /\ \A x, y, z : IsBytes(x) /\ IsBytes(y) /\ IsBytes(z) => Cat(Cat(x, y), z) = Cat(x, Cat(y, z))
BY ConcatProperties, ConcatAssociative DEF IsBytes, Cat

\* A header and as many bytes as it announces are a frame.
LEMMA WholeFrame ==
  ASSUME NEW m \in 1..MaxMsg, NEW h \in Seq(Byte), Len(h) = HdrLen,
         NEW d \in Seq(Byte), NEW r \in Seq(Byte), NEW rest \in Seq(Byte),
         Cat(Cat(h, d), r) = Cat(Frame(m), rest)
  PROVE  /\ h[1][1] = m
         /\ Len(d) = PayLen[m] => d[1][1] = m /\ r = rest
<1> DEFINE f == Frame(m)
<1>1. /\ HdrLen \in Nat \ {0} /\ PayLen[m] \in Nat \ {0}
      /\ f \in Seq(Byte) /\ Len(f) = HdrLen + PayLen[m]
      /\ \A i \in 1..(HdrLen + PayLen[m]) : f[i] = <<m, i>>
  BY FrameType
<1>0. (h \o d) \o r = f \o rest
  BY DEF Cat
<1> HIDE DEF f
<1>2. /\ h \o d \in Seq(Byte) /\ Len(h \o d) = HdrLen + Len(d)
      /\ \A i \in 1..(HdrLen + Len(d)) : (h \o d)[i] = IF i <= HdrLen THEN h[i] ELSE d[i - HdrLen]
  BY <1>1, ConcatProperties
<1>3. Len(d) \in Nat /\ 1 \in 1..HdrLen
  BY <1>1
<1>4. h[1] = f[1]
  <2> DEFINE g == h \o d
  <2>1. g[1] = h[1] /\ 1 \in 1..Len(g) /\ 1 \in 1..Len(f) /\ g \in Seq(Byte)
    BY <1>1, <1>2, <1>3
  <2>2. g \o r = f \o rest
    BY <1>0
  <2> HIDE DEF g
  <2>3. (g \o r)[1] = g[1] /\ (f \o rest)[1] = f[1]
    BY <1>1, <2>1, ConcatProperties
  <2> QED BY <2>1, <2>2, <2>3
<1>5. h[1][1] = m
  <2>1. f[1] = <<m, 1>>
    BY <1>1
  <2> QED BY <1>4, <2>1
<1>6. ASSUME Len(d) = PayLen[m] PROVE d[1][1] = m /\ r = rest
  <2> DEFINE g == h \o d
  <2>1. g \in Seq(Byte) /\ Len(g) = Len(f) /\ g \o r = f \o rest
    BY <1>0, <1>1, <1>2, <1>6
  <2>2. g[HdrLen + 1] = d[1] /\ HdrLen + 1 \in 1..(HdrLen + PayLen[m])
    <3>1. HdrLen + 1 \in 1..(HdrLen + Len(d)) /\ ~(HdrLen + 1 <= HdrLen) /\ (HdrLen + 1) - HdrLen = 1
      BY <1>1, <1>6
    <3> QED BY <1>2, <1>6, <3>1
  <2> HIDE DEF g
  <2>3. g = f /\ r = rest
    BY <1>1, <2>1, SameCut
  <2>4. d[1] = <<m, HdrLen + 1>>
    BY <1>1, <2>2, <2>3
  <2> QED BY <2>3, <2>4
<1> QED BY <1>5, <1>6

\* A header, what is there of the payload, what is read now, and what comes after.
LEMMA RegroupCat ==
  ASSUME NEW h, NEW d, NEW s, NEW w, NEW u,
         IsBytes(h), IsBytes(d), IsBytes(s), IsBytes(w), IsBytes(u)
  PROVE  /\ Cat(Cat(Cat(h, d), Cat(s, w)), u) = Cat(Cat(h, Cat(d, s)), Cat(w, u))
         /\ Cat(Cat(h, Cat(d, s)), Cat(w, u)) = Cat(h, Cat(Cat(d, s), Cat(w, u)))
BY CatFacts

\* When the payload is complete, what was put together is the next message.
LEMMA NextFrame ==
  ASSUME CtrlInv, WireInv, HistInv, NEW l \in Link, Bytes(l), curstate[l] = 1,
         NEW k \in 1..Len(wire[l])
  PROVE  LET got == Put(databuf[l], datactr[l], SubSeq(wire[l], 1, k))
             m == shot[l][Len(emitted[l]) + 1]
         IN  /\ Len(emitted[l]) < Len(shot[l]) /\ m \in 1..MaxMsg
             /\ k = Msglen(l) - datactr[l] =>
                  /\ got[1][1] = m
                  /\ Drop(wire[l], k) \o Unwritten(l) = FlattenSeq(Tail(Frames(l))) \o Closing(l)
<1> DEFINE h == lenbuf[l]
           d == SubSeq(databuf[l], 1, datactr[l])
           s == SubSeq(wire[l], 1, k)
           w == Drop(wire[l], k)
           u == Unwritten(l)
           got == Put(databuf[l], datactr[l], SubSeq(wire[l], 1, k))
           m == shot[l][Len(emitted[l]) + 1]
           fs == Frames(l)
           c == Closing(l)
<1>1. /\ h \in Seq(Byte) /\ Len(h) = HdrLen /\ h # Eos
      /\ datactr[l] \in Nat /\ Consumed(l) = h \o d
  BY DEF WireInv, LinkWire, Consumed
<1>2. /\ got = d \o s /\ got \in Seq(Byte) /\ Len(got) = datactr[l] + k
      /\ d \in Seq(Byte) /\ s \in Seq(Byte) /\ w \in Seq(Byte) /\ s \o w = wire[l]
  <2> DEFINE b == databuf[l]
             e == datactr[l]
             x == wire[l]
  <2>1. b \in Seq(Byte) /\ e \in Nat /\ e <= Len(b) /\ x \in Seq(Byte) /\ k \in 1..Len(x)
    BY DEF WireInv, LinkWire
  <2> HIDE DEF b, e, x
  <2>2. /\ Put(b, e, SubSeq(x, 1, k)) = SubSeq(b, 1, e) \o SubSeq(x, 1, k)
        /\ Put(b, e, SubSeq(x, 1, k)) \in Seq(Byte) /\ Len(Put(b, e, SubSeq(x, 1, k))) = e + k
        /\ SubSeq(b, 1, e) \in Seq(Byte) /\ SubSeq(x, 1, k) \in Seq(Byte)
        /\ Drop(x, k) \in Seq(Byte) /\ SubSeq(x, 1, k) \o Drop(x, k) = x
    BY <2>1, PutIs
  <2> QED BY <2>2 DEF b, e, x
<1>3. /\ u \in Seq(Byte) /\ fs \in Seq(Seq(Byte)) /\ c \in Seq(Byte) /\ c \in {<<>>, Eos}
      /\ Len(emitted[l]) \in Nat /\ Len(shot[l]) \in Nat
      /\ Len(fs) = Len(shot[l]) - Len(emitted[l])
      /\ \A i \in 1..Len(fs) : /\ shot[l][Len(emitted[l]) + i] \in 1..MaxMsg
                               /\ fs[i] = Frame(shot[l][Len(emitted[l]) + i])
  BY PartsAre
<1> HIDE DEF h, d, s, w, u, fs, c
<1>4. ((h \o d) \o (s \o w)) \o u = FlattenSeq(fs) \o c
  BY <1>1, <1>2 DEF Bytes, fs, c, u
<1>5. IsBytes(h) /\ IsBytes(d) /\ IsBytes(s) /\ IsBytes(w) /\ IsBytes(u)
  BY <1>1, <1>2, <1>3 DEF IsBytes
<1>6. /\ ((h \o d) \o (s \o w)) \o u = (h \o (d \o s)) \o (w \o u)
      /\ (h \o (d \o s)) \o (w \o u) = h \o ((d \o s) \o (w \o u))
  <2>1. /\ Cat(Cat(Cat(h, d), Cat(s, w)), u) = Cat(Cat(h, Cat(d, s)), Cat(w, u))
        /\ Cat(Cat(h, Cat(d, s)), Cat(w, u)) = Cat(h, Cat(Cat(d, s), Cat(w, u)))
    BY <1>5, RegroupCat
  <2> QED BY <2>1 DEF Cat
<1> HIDE DEF got
<1> DEFINE r == w \o u
           x == got \o r
<1>7. r \in Seq(Byte)
  BY <1>2, <1>3, ConcatProperties
<1>8. (h \o got) \o r = FlattenSeq(fs) \o c /\ h \o x = FlattenSeq(fs) \o c
  BY <1>2, <1>4, <1>6
<1> HIDE DEF r
<1>9. x \in Seq(Byte)
  BY <1>2, <1>7, ConcatProperties
<1> HIDE DEF x
<1>10. fs # <<>>
  BY <1>1, <1>3, <1>8, <1>9, FrameComes
<1>11. Len(fs) \in Nat /\ Len(fs) # 0
  BY <1>3, <1>10, EmptySeq
<1>12. /\ Len(emitted[l]) < Len(shot[l]) /\ m \in 1..MaxMsg /\ fs[1] = Frame(m)
  <2>1. 1 \in 1..Len(fs)
    BY <1>11
  <2> QED BY <1>3, <1>11, <2>1
<1> HIDE DEF m
<1> DEFINE z == FlattenSeq(Tail(fs))
           rest == z \o c
<1>13. FlattenSeq(fs) = Frame(m) \o z
  BY <1>3, <1>10, <1>12, FlattenFirst
<1>14. z \in Seq(Byte)
  <2>1. Tail(fs) \in Seq(Seq(Byte))
    BY <1>3, <1>10, HeadTailProperties
  <2> QED BY <2>1, FlattenType
<1> HIDE DEF z
<1>15. rest \in Seq(Byte)
  BY <1>3, <1>14, ConcatProperties
<1>16. Frame(m) \in Seq(Byte)
  BY <1>12, FrameType
<1>17. (h \o got) \o r = Frame(m) \o rest
  <2>1. (Frame(m) \o z) \o c = Frame(m) \o (z \o c)
    <3>1. IsBytes(Frame(m)) /\ IsBytes(z) /\ IsBytes(c)
      BY <1>3, <1>14, <1>16 DEF IsBytes
    <3> DEFINE f == Frame(m)
    <3> HIDE DEF f
    <3>2. Cat(Cat(f, z), c) = Cat(f, Cat(z, c))
      BY <3>1, CatFacts DEF f
    <3> QED BY <3>2 DEF f, Cat
  <2> QED BY <1>8, <1>13, <2>1
<1> HIDE DEF rest
<1>18. h[1][1] = m /\ (Len(got) = PayLen[m] => got[1][1] = m /\ r = rest)
  <2>1. Cat(Cat(h, got), r) = Cat(Frame(m), rest)
    BY <1>17 DEF Cat
  <2>2. h \in Seq(Byte) /\ Len(h) = HdrLen /\ got \in Seq(Byte)
    BY <1>1, <1>2
  <2>3. m \in 1..MaxMsg
    BY <1>12
  <2> HIDE DEF got, m
  <2> QED BY <1>7, <1>15, <2>1, <2>2, <2>3, WholeFrame
<1>19. Msglen(l) = PayLen[m]
  <2>1. m # 0
    BY <1>12, FrameType
  <2> QED BY <1>18, <2>1 DEF Msglen, h
<1>20. k = Msglen(l) - datactr[l] => Len(got) = PayLen[m]
  <2>1. PayLen[m] \in Nat /\ k \in Nat
    BY <1>12, FrameType
  <2> QED BY <1>1, <1>2, <1>19, <2>1
<1> QED BY <1>12, <1>18, <1>20 DEF got, m, r, w, u, rest, z, fs, c

-----------------------------------------------------------------------------
(* What a process leaves alone: the other processes' own variables, and    *)
(* the connections it is not the writer, or the reader, of.                *)

Local(n) ==
  /\ \A m \in Node \ {n} : /\ pc'[m] = pc[m] /\ todo'[m] = todo[m] /\ turn'[m] = turn[m]
                           /\ msg'[m] = msg[m] /\ made'[m] = made[m] /\ left'[m] = left[m]
  /\ \A l \in Link : From(l) # n => shot'[l] = shot[l]
  /\ \A l \in Link : To(l) # n => /\ emitted'[l] = emitted[l] /\ curstate'[l] = curstate[l]
                                  /\ lenbuf'[l] = lenbuf[l] /\ lenctr'[l] = lenctr[l]
                                  /\ databuf'[l] = databuf[l] /\ datactr'[l] = datactr[l]

LEMMA LocalSteps ==
  ASSUME CtrlInv, WireInv, HistInv, NEW n \in Nodes, Start(n) \/ Main(n)
  PROVE  Local(n)
<1> DEFINE Ctrl == \A m \in Node \ {n} : /\ pc'[m] = pc[m] /\ todo'[m] = todo[m]
                                         /\ turn'[m] = turn[m] /\ msg'[m] = msg[m]
<1>0. /\ n \in Node /\ pc \in [Node -> Points] /\ todo \in [Node -> Seq(EndSet)]
      /\ turn \in [Node -> Nat] /\ made \in [Node -> 0..MaxMsg]
      /\ msg \in [Node -> 1..MaxMsg \cup {NULL}] /\ left \in [Node -> Seq(Byte)]
  BY NodesAre DEF CtrlInv, WireInv
<1>1. ASSUME NextTurn(n), UNCHANGED <<todo, msg>> PROVE Ctrl
  BY <1>0, <1>1 DEF NextTurn
<1>2. ASSUME BeginShutdown(n) PROVE Ctrl
  BY <1>0, <1>2 DEF BeginShutdown
<1>3. ASSUME NEW c, Exit(n, c), UNCHANGED <<todo, turn, msg>> PROVE Ctrl
  BY <1>0, <1>3 DEF Exit
<1>4. ASSUME NEW s, NEW m, Emit(n, s, m) PROVE Ctrl
  <2>1. \/ NextTurn(n) /\ UNCHANGED <<todo, msg>>
        \/ \E e : /\ pc' = [pc EXCEPT ![n] = "out"] /\ todo' = [todo EXCEPT ![n] = e]
                  /\ msg' = [msg EXCEPT ![n] = m] /\ UNCHANGED turn
    BY <1>4 DEF Emit
  <2> QED BY <1>0, <1>1, <2>1
<1>5. ASSUME Emitted(n), UNCHANGED msg PROVE Ctrl
  BY <1>0, <1>5 DEF Emitted, NextTurn
<1>6. ASSUME Spawned(n), UNCHANGED <<turn, msg>> PROVE Ctrl
  BY <1>0, <1>6 DEF Spawned
<1>7. ASSUME LoseSource(n), UNCHANGED <<turn, msg>> PROVE Ctrl
  <2>1. /\ todo' = [todo EXCEPT ![n] = Tail(@)]
        /\ pc' = [pc EXCEPT ![n] = "exited"] \/ pc' = pc
    BY <1>7, LoseIs
  <2> QED BY <1>0, <1>7, <2>1
<1>8. ASSUME UNCHANGED <<pc, todo, turn, msg>> PROVE Ctrl
  BY <1>8
<1> HIDE DEF Ctrl
<1>9. ASSUME Ctrl, UNCHANGED <<made, left, shot, emitted, readVars>> PROVE Local(n)
  BY <1>9 DEF Local, Ctrl, readVars
<1>10. CASE Start(n)
  <2>1. Ctrl
    BY <1>0, <1>10 DEF Start, Ctrl
  <2> QED BY <1>9, <1>10, <2>1 DEF Start
<1>11. CASE SourceReads(n)
  <2>1. /\ made' = [made EXCEPT ![n] = @ + 1] /\ Emit(n, 0, made[n] + 1)
        /\ UNCHANGED <<left, shot, emitted, readVars>>
    BY <1>11 DEF SourceReads
  <2>2. Ctrl
    BY <1>4, <2>1
  <2>3. \A m \in Node \ {n} : made'[m] = made[m] /\ left'[m] = left[m]
    BY <1>0, <2>1
  <2> QED BY <2>1, <2>2, <2>3 DEF Local, Ctrl, readVars
<1>12. CASE SourceWaits(n) \/ SourceEnds(n)
  BY <1>1, <1>2, <1>9, <1>12 DEF SourceWaits, SourceEnds
<1>13. ASSUME NEW l \in Link, SpawnServer(n, l) \/ SpawnClient(n, l) PROVE Local(n)
  BY <1>6, <1>9, <1>13 DEF SpawnServer, SpawnClient
<1>14. ASSUME NEW l \in Link, NothingToRead(n, l) \/ ReadFails(n, l) PROVE Local(n)
  BY <1>1, <1>3, <1>9, <1>14 DEF NothingToRead, ReadFails
<1>15. ASSUME NEW l \in Link, ReadHeader(n, l) PROVE Local(n)
  <2>1. To(l) = n
    BY <1>15, TurnOf DEF ReadHeader
  <2>2. PICK k : /\ UNCHANGED <<made, left, shot, emitted>>
                 /\ \E b : lenbuf' = [lenbuf EXCEPT ![l] = b]
                 /\ \/ /\ \E b : lenctr' = [lenctr EXCEPT ![l] = b]
                       /\ NextTurn(n) /\ UNCHANGED <<todo, msg, curstate, datactr, databuf>>
                    \/ /\ curstate' = [curstate EXCEPT ![l] = 1] /\ lenctr' = [lenctr EXCEPT ![l] = 0]
                       /\ datactr' = [datactr EXCEPT ![l] = 0] /\ databuf' = [databuf EXCEPT ![l] = <<>>]
                       /\ pc' = [pc EXCEPT ![n] = "payload"] /\ UNCHANGED <<todo, msg, turn>>
                    \/ BeginShutdown(n) /\ UNCHANGED <<curstate, lenctr, datactr, databuf>>
    BY <1>15 DEF ReadHeader
  <2>3. Ctrl
    <3>1. ASSUME pc' = [pc EXCEPT ![n] = "payload"], UNCHANGED <<todo, msg, turn>> PROVE Ctrl
      BY <1>0, <3>1 DEF Ctrl
    <3> QED BY <1>1, <1>2, <2>2, <3>1
  <2>4. \A i \in Link : To(i) # n => /\ curstate'[i] = curstate[i] /\ lenbuf'[i] = lenbuf[i]
                                     /\ lenctr'[i] = lenctr[i] /\ databuf'[i] = databuf[i]
                                     /\ datactr'[i] = datactr[i]
    BY <2>1, <2>2 DEF WireInv
  <2> QED BY <2>2, <2>3, <2>4 DEF Local, Ctrl
<1>16. ASSUME NEW l \in Link, ReadPayload(n, l) PROVE Local(n)
  <2>1. To(l) = n
    BY <1>16, TurnOf DEF ReadPayload
  <2>2. /\ UNCHANGED <<made, left, lenbuf, shot>>
        /\ \/ /\ \E b : databuf' = [databuf EXCEPT ![l] = b]
              /\ \E b : datactr' = [datactr EXCEPT ![l] = b]
              /\ NextTurn(n) /\ UNCHANGED <<todo, msg, curstate, lenctr, emitted>>
           \/ /\ \E b : emitted' = [emitted EXCEPT ![l] = b]
              /\ databuf' = [databuf EXCEPT ![l] = <<>>] /\ curstate' = [curstate EXCEPT ![l] = 0]
              /\ lenctr' = [lenctr EXCEPT ![l] = 0] /\ datactr' = [datactr EXCEPT ![l] = 0]
              /\ \E m : Emit(n, l, m)
    BY <1>16 DEF ReadPayload
  <2>3. Ctrl
    BY <1>1, <1>4, <2>2
  <2>4. \A i \in Link : To(i) # n => /\ curstate'[i] = curstate[i] /\ lenctr'[i] = lenctr[i]
                                     /\ databuf'[i] = databuf[i] /\ datactr'[i] = datactr[i]
    BY <2>1, <2>2 DEF WireInv
  <2>5. \A i \in Link : To(i) # n => emitted'[i] = emitted[i]
    BY <2>1, <2>2 DEF HistInv
  <2> QED BY <2>2, <2>3, <2>4, <2>5 DEF Local, Ctrl
<1>17. ASSUME NEW l \in Link, DropMessage(n, l) PROVE Local(n)
  BY <1>5, <1>9, <1>17 DEF DropMessage
<1>18. ASSUME NEW l \in Link, Shoot(n, l) PROVE Local(n)
  <2>1. /\ pc[n] = "out" /\ Head(todo[n]) = <<"out", l>> /\ pc' = [pc EXCEPT ![n] = "write"]
        /\ left' = [left EXCEPT ![n] = Frame(msg[n])] /\ shot' = [shot EXCEPT ![l] = Append(@, msg[n])]
        /\ UNCHANGED <<todo, turn, made, msg, readVars, emitted>>
    BY <1>18 DEF Shoot, Sending
  <2>2. InTodo(n, <<"out", l>>) /\ From(l) = n
    BY <2>1, HeadOwn
  <2>3. \A i \in Link : From(i) # n => shot'[i] = shot[i]
    BY <2>1, <2>2 DEF HistInv
  <2>4. \A m \in Node \ {n} : pc'[m] = pc[m] /\ left'[m] = left[m]
    BY <1>0, <2>1
  <2> QED BY <2>1, <2>3, <2>4 DEF Local, readVars
<1>19. ASSUME NEW l \in Link, Write(n, l) \/ WriteLost(n, l) PROVE Local(n)
  <2>1. /\ \E b : left' = [left EXCEPT ![n] = b]
        /\ Emitted(n) \/ UNCHANGED <<pc, todo, turn>>
        /\ UNCHANGED <<made, msg, readVars, shot, emitted>>
    BY <1>19 DEF Write, WriteLost
  <2>2. Ctrl
    BY <1>5, <1>8, <2>1
  <2>3. \A m \in Node \ {n} : left'[m] = left[m]
    BY <1>0, <2>1
  <2> QED BY <2>1, <2>2, <2>3 DEF Local, Ctrl, readVars
<1>20. ASSUME NEW l \in Link, BrokenPipe(n, l) PROVE Local(n)
  BY <1>3, <1>9, <1>20 DEF BrokenPipe
<1>21. ASSUME NEW l \in Link, ShutInbound(n, l) \/ ShutOutbound(n, l) PROVE Local(n)
  BY <1>7, <1>9, <1>21 DEF ShutInbound, ShutOutbound
<1> QED BY <1>10, <1>11, <1>12, <1>13, <1>14, <1>15, <1>16, <1>17, <1>18, <1>19, <1>20, <1>21 DEF Main

-----------------------------------------------------------------------------
(* The messages of a connection.                                           *)

BytesInv == \A l \in Link : Reads(l) => Bytes(l)

\* The end that a process is sending to.
LEMMA SendingIs ==
  ASSUME CtrlInv, HistInv, NEW n \in Nodes, NEW l \in Link,
         pc[n] \in {"out", "write"}, Head(todo[n]) = <<"out", l>>
  PROVE  /\ From(l) = n /\ InTodo(n, <<"out", l>>) /\ Strm(l) = Current(n)
         /\ msg[n] \in 1..MaxMsg
<1>1. From(l) = n /\ InTodo(n, <<"out", l>>)
  BY HeadOwn
<1>2. \A k \in 1..Len(todo[n]) : todo[n][k][1] = "out" /\ Strm(todo[n][k][2]) = Current(n)
  BY DEF CtrlInv, NodeCtrl
<1>3. PICK k \in 1..Len(todo[n]) : todo[n][k] = <<"out", l>>
  BY <1>1 DEF InTodo
<1>4. Strm(l) = Current(n)
  <2>1. todo[n][k][2] = l
    BY <1>3
  <2> QED BY <1>2, <2>1
<1> QED BY <1>1, <1>4 DEF CtrlInv, NodeCtrl

LEMMA LinkHistTypes ==
  ASSUME HistInv, NEW l \in Link
  PROVE  /\ shot[l] \in Seq(1..MaxMsg) /\ emitted[l] \in Seq(1..MaxMsg)
         /\ Len(shot[l]) \in Nat /\ Len(emitted[l]) \in Nat
         /\ \A i \in 1..Len(shot[l]) : shot[l][i] \in 1..MaxMsg /\ shot[l][i] \in Nat
         /\ \A i \in 1..Len(emitted[l]) : emitted[l][i] \in 1..MaxMsg /\ emitted[l][i] \in Nat
<1>1. shot[l] \in Seq(1..MaxMsg) /\ emitted[l] \in Seq(1..MaxMsg)
  BY DEF HistInv
<1>2. \A i \in 1..MaxMsg : i \in Nat
  BY SNLengths
<1> DEFINE s == shot[l]
           e == emitted[l]
<1> HIDE DEF s, e
<1>3. s \in Seq(1..MaxMsg) /\ e \in Seq(1..MaxMsg)
  BY <1>1 DEF s, e
<1>4. Len(s) \in Nat /\ Len(e) \in Nat
  BY <1>3
<1>5. \A i \in 1..Len(s) : s[i] \in 1..MaxMsg
  BY <1>3, ElementOfSeq
<1>6. \A i \in 1..Len(e) : e[i] \in 1..MaxMsg
  BY <1>3, ElementOfSeq
<1> QED BY <1>2, <1>3, <1>4, <1>5, <1>6 DEF s, e

\* One more message is written on connection l.
LEMMA ShootHist ==
  ASSUME CtrlInv, HistInv, IssueInv, NEW n \in Nodes, NEW l \in Link, Shoot(n, l)
  PROVE  /\ From(l) = n /\ msg[n] \in 1..MaxMsg /\ msg[n] = Issued(l) /\ fdOut[l] = "open"
         /\ Len(shot[l]) > 0 => msg[n] = shot[l][Len(shot[l])] + 1
         /\ Len(shot[l]) = 0 /\ program.nodrop => msg[n] = 1
<1>1. pc[n] = "out" /\ Head(todo[n]) = <<"out", l>> /\ fdOut[l] = "open"
  BY DEF Shoot, Sending
<1>2. From(l) = n /\ InTodo(n, <<"out", l>>) /\ Strm(l) = Current(n) /\ msg[n] \in 1..MaxMsg
  BY <1>1, SendingIs
<1>3. LinkIssue(l)
  BY <1>1, <1>2 DEF IssueInv
<1>4. Owed(l) = 1
  BY <1>1, <1>2 DEF Owed, Pending
<1>5. msg[n] = Issued(l)
  BY <1>1, <1>2, <1>3 DEF LinkIssue
<1> QED BY <1>1, <1>2, <1>3, <1>4, <1>5 DEF LinkIssue

LEMMA HistStep ==
  ASSUME CtrlInv, ConnInv, WireInv, HistInv, IssueInv, BytesInv, [Next]_vars
  PROVE  HistInv'
<1>0. program' = program /\ Link' = Link
  BY NodesStep, SameProgram
\* A cell that holds a descriptor, or did, is not zero again.
<1>1. \A l \in Link : fdOut'[l] = "zero" => fdOut[l] = "zero"
  <2>1. fdOut \in [Link -> {"zero", "open", "closed"}]
    BY DEF ConnInv
  <2>2. \/ UNCHANGED fdOut
        \/ \E l \in Link : \/ fdOut' = [fdOut EXCEPT ![l] = "open"]
                           \/ fdOut' = [fdOut EXCEPT ![l] = "closed"]
    BY DEF Next, Main, vars, Start, SourceReads, SourceWaits, SourceEnds, SpawnServer, SpawnClient,
           NothingToRead, ReadFails, ReadHeader, ReadPayload, DropMessage, Shoot, Write,
           WriteLost, BrokenPipe, ShutInbound, ShutOutbound, Helper, Listen, Accept, PublishOut,
           Connect, SetNonBlocking, PublishIn, ServerStep, ClientStep
  <2> QED BY <2>1, <2>2
<1>2. ASSUME UNCHANGED <<shot, emitted>> PROVE HistInv'
  <2>1. \A l \in Link : LinkHist(l)'
    BY <1>0, <1>1, <1>2 DEF HistInv, LinkHist
  <2> QED BY <1>0, <1>2, <2>1 DEF HistInv
<1>3. ASSUME NEW l \in Link,
             shot' \in [Link -> Seq(1..MaxMsg)], emitted' \in [Link -> Seq(1..MaxMsg)],
             \A i \in Link \ {l} : shot'[i] = shot[i] /\ emitted'[i] = emitted[i],
             LinkHist(l)'
      PROVE  HistInv'
  <2>1. ASSUME NEW i \in Link \ {l} PROVE LinkHist(i)'
    <3>1. LinkHist(i) /\ shot'[i] = shot[i] /\ emitted'[i] = emitted[i]
      BY <1>3 DEF HistInv
    <3>2. fdOut'[i] = "zero" => fdOut[i] = "zero"
      BY <1>1
    <3> QED BY <1>0, <3>1, <3>2 DEF LinkHist
  <2> QED BY <1>0, <1>3, <2>1 DEF HistInv
<1>4. ASSUME NEW n \in Nodes, NEW l \in Link, Shoot(n, l) PROVE HistInv'
  <2> DEFINE s == shot[l]
             t == shot'[l]
             e == emitted[l]
  <2>1. /\ s \in Seq(1..MaxMsg) /\ Len(s) \in Nat /\ Len(e) \in Nat
        /\ \A i \in 1..Len(s) : s[i] \in Nat
    BY LinkHistTypes
  <2>2. /\ msg[n] \in 1..MaxMsg /\ fdOut[l] = "open"
        /\ Len(s) > 0 => msg[n] = s[Len(s)] + 1
        /\ Len(s) = 0 /\ program.nodrop => msg[n] = 1
    BY <1>4, ShootHist
  <2>3. /\ shot' = [shot EXCEPT ![l] = Append(@, msg[n])] /\ emitted' = emitted /\ fdOut' = fdOut
    BY <1>4 DEF Shoot
  <2>4. t = Append(s, msg[n])
    BY <2>3 DEF HistInv
  <2>5. /\ Len(e) <= Len(s)
        /\ \A i \in 1..Len(e) : e[i] = s[i]
        /\ \A i \in 1..Len(s) : s[i] = s[1] + i - 1
        /\ program.nodrop /\ Len(s) > 0 => s[1] = 1
    BY DEF HistInv, LinkHist
  <2>6. /\ t \in Seq(1..MaxMsg) /\ Len(t) = Len(s) + 1 /\ t[Len(s) + 1] = msg[n]
        /\ \A i \in 1..Len(s) : t[i] = s[i]
    BY <2>1, <2>2, <2>4
  <2>7. /\ shot' \in [Link -> Seq(1..MaxMsg)]
        /\ \A i \in Link \ {l} : shot'[i] = shot[i]
    BY <2>3, <2>4, <2>6 DEF HistInv
  <2> HIDE DEF s, t, e
  <2>8. msg[n] \in Nat
    BY <2>2, SNLengths
  <2>9. \A i \in 1..Len(t) : i \in 1..Len(s) \/ i = Len(s) + 1
    BY <2>1, <2>6
  <2>10. \A i \in 1..Len(t) : t[i] = t[1] + i - 1
    <3>1. CASE Len(s) = 0
      <4>1. \A i \in 1..Len(t) : i = 1
        BY <2>6, <3>1
      <4>2. t[1] = msg[n]
        BY <2>6, <3>1
      <4> QED BY <2>8, <4>1, <4>2
    <3>2. CASE Len(s) > 0
      <4>1. 1 \in 1..Len(s) /\ Len(s) \in 1..Len(s)
        BY <2>1, <3>2
      <4>2. t[1] = s[1] /\ s[1] \in Nat
        BY <2>1, <2>6, <4>1
      <4>3. msg[n] = (s[1] + Len(s) - 1) + 1
        BY <2>2, <2>5, <3>2, <4>1
      <4>4. t[Len(s) + 1] = t[1] + (Len(s) + 1) - 1
        BY <2>1, <2>6, <4>2, <4>3
      <4>5. \A i \in 1..Len(s) : t[i] = t[1] + i - 1
        BY <2>5, <2>6, <4>2
      <4> QED BY <2>9, <4>4, <4>5
    <3> QED BY <2>1, <3>1, <3>2
  <2>11. program.nodrop => t[1] = 1
    <3>1. CASE Len(s) = 0
      BY <2>2, <2>6, <3>1
    <3>2. CASE Len(s) > 0
      <4>1. 1 \in 1..Len(s)
        BY <2>1, <3>2
      <4> QED BY <2>5, <2>6, <3>2, <4>1
    <3> QED BY <2>1, <3>1, <3>2
  <2>12. Len(e) <= Len(t) /\ \A i \in 1..Len(e) : e[i] = t[i]
    <3>1. \A i \in 1..Len(e) : i \in 1..Len(s)
      BY <2>1, <2>5
    <3> QED BY <2>1, <2>5, <2>6, <3>1
  <2>13. fdOut'[l] # "zero" /\ emitted'[l] = e
    BY <2>2, <2>3 DEF e
  <2>14. LinkHist(l)'
    BY <1>0, <2>10, <2>11, <2>12, <2>13 DEF LinkHist, t
  <2>15. emitted' \in [Link -> Seq(1..MaxMsg)] /\ \A i \in Link : emitted'[i] = emitted[i]
    BY <2>3 DEF HistInv
  <2> QED BY <1>3, <2>7, <2>14, <2>15
<1>5. ASSUME NEW n \in Nodes, NEW l \in Link, ReadPayload(n, l) PROVE HistInv'
  <2> DEFINE Got(k) == Put(databuf[l], datactr[l], SubSeq(wire[l], 1, k))
             s == shot[l]
             e == emitted[l]
             f == emitted'[l]
             m == s[Len(e) + 1]
  <2>1. To(l) = n /\ curstate[l] = 1 /\ pc[n] \in {"loop", "payload"}
    BY <1>5, ReadingIs DEF ReadPayload
  <2>2. Bytes(l)
    BY <2>1 DEF BytesInv, Reads
  <2>3. PICK k \in 1..Len(wire[l]) :
          \/ UNCHANGED emitted
          \/ k = Msglen(l) - datactr[l] /\ emitted' = [emitted EXCEPT ![l] = Append(@, Got(k)[1][1])]
    BY <1>5 DEF ReadPayload
  <2>4. shot' = shot /\ fdOut' = fdOut
    BY <1>5 DEF ReadPayload
  <2>5. CASE UNCHANGED emitted
    BY <1>2, <2>4, <2>5
  <2>6. CASE /\ k = Msglen(l) - datactr[l]
             /\ emitted' = [emitted EXCEPT ![l] = Append(@, Got(k)[1][1])]
    <3>1. Len(e) < Len(s) /\ m \in 1..MaxMsg /\ Got(k)[1][1] = m
      BY <2>1, <2>2, <2>6, NextFrame
    <3> HIDE DEF Got
    <3>2. f = Append(e, m)
      BY <2>6, <3>1 DEF HistInv
    <3>3. /\ s \in Seq(1..MaxMsg) /\ e \in Seq(1..MaxMsg) /\ Len(s) \in Nat /\ Len(e) \in Nat
      BY LinkHistTypes
    <3>4. \A i \in 1..Len(e) : e[i] = s[i]
      BY DEF HistInv, LinkHist
    <3>5. emitted' \in [Link -> Seq(1..MaxMsg)] /\ \A i \in Link \ {l} : emitted'[i] = emitted[i]
      <4>1. Append(e, m) \in Seq(1..MaxMsg)
        BY <3>1, <3>3
      <4>2. emitted' = [emitted EXCEPT ![l] = Append(e, m)]
        BY <2>6, <3>1
      <4> HIDE DEF e, m
      <4> QED BY <4>1, <4>2 DEF HistInv
    <3>6. /\ Len(f) = Len(e) + 1 /\ f[Len(e) + 1] = m
          /\ \A i \in 1..Len(e) : f[i] = e[i]
      <4> HIDE DEF e, m, f
      <4> QED BY <3>1, <3>2, <3>3
    <3>7. Len(f) <= Len(s)
      BY <3>1, <3>3, <3>6
    <3>8. \A i \in 1..Len(f) : f[i] = s[i]
      <4>1. \A i \in 1..Len(f) : i \in 1..Len(e) \/ i = Len(e) + 1
        BY <3>3, <3>6
      <4> HIDE DEF e, f
      <4> QED BY <3>4, <3>6, <4>1
    <3>9. /\ \A i \in 1..Len(s) : s[i] = s[1] + i - 1
          /\ program.nodrop /\ Len(s) > 0 => s[1] = 1
          /\ Len(s) > 0 => fdOut[l] # "zero"
      BY DEF HistInv, LinkHist
    <3>10. LinkHist(l)'
      <4>1. shot'[l] = s
        BY <2>4
      <4> HIDE DEF s, f
      <4> QED BY <1>0, <2>4, <3>7, <3>8, <3>9, <4>1 DEF LinkHist, f
    <3>11. shot' \in [Link -> Seq(1..MaxMsg)]
      BY <2>4 DEF HistInv
    <3> QED BY <1>3, <2>4, <3>5, <3>10, <3>11
  <2> QED BY <2>3, <2>5, <2>6
<1>6. CASE UNCHANGED vars
  BY <1>2, <1>6 DEF vars
<1>7. ASSUME NEW n \in Nodes, \/ Start(n) \/ SourceReads(n) \/ SourceWaits(n) \/ SourceEnds(n)
                              \/ \E l \in Link :
                                   \/ SpawnServer(n, l) \/ SpawnClient(n, l)
                                   \/ NothingToRead(n, l) \/ ReadFails(n, l) \/ ReadHeader(n, l)
                                   \/ DropMessage(n, l)
                                   \/ Write(n, l) \/ WriteLost(n, l) \/ BrokenPipe(n, l)
                                   \/ ShutInbound(n, l) \/ ShutOutbound(n, l)
      PROVE  HistInv'
  <2>1. UNCHANGED <<shot, emitted>>
    BY <1>7 DEF Start, SourceReads, SourceWaits, SourceEnds, SpawnServer, SpawnClient, NothingToRead,
                ReadFails, ReadHeader, DropMessage, Write, WriteLost, BrokenPipe, ShutInbound,
                ShutOutbound
  <2> QED BY <1>2, <2>1
<1>8. ASSUME NEW l \in Link, Helper(l) PROVE HistInv'
  <2>1. UNCHANGED <<shot, emitted>>
    BY <1>8 DEF Helper, Listen, Accept, PublishOut, Connect, SetNonBlocking, PublishIn,
                ServerStep, ClientStep
  <2> QED BY <1>2, <2>1
<1> QED BY <1>4, <1>5, <1>6, <1>7, <1>8 DEF Next, Main

LEMMA IssuedSame ==
  ASSUME program' = program, NEW i \in Link, made'[From(i)] = made[From(i)],
         Strm(i) = 0 \/ emitted'[Strm(i)] = emitted[Strm(i)]
  PROVE  Issued(i)' = Issued(i)
<1>1. From(i)' = From(i) /\ Strm(i)' = Strm(i)
  BY SameProgram
<1> QED BY <1>1 DEF Issued

LEMMA PendingIs ==
  ASSUME program' = program, NEW i \in Link
  PROVE  LET n == From(i) IN
         Pending(i)' <=> \/ /\ pc'[n] = "out"
                            /\ \E k \in 1..Len(todo'[n]) : todo'[n][k] = <<"out", i>>
                         \/ /\ pc'[n] = "write" /\ Head(todo'[n]) # <<"out", i>>
                            /\ \E k \in 1..Len(todo'[n]) : todo'[n][k] = <<"out", i>>
<1>1. From(i)' = From(i)
  BY SameProgram
<1> QED BY <1>1 DEF Pending, InTodo

\* Nothing that l carries is written, dropped or read.
LEMMA IssueKeeps ==
  ASSUME program' = program, NEW i \in Link, LinkIssue(i),
         shot'[i] = shot[i], Issued(i)' = Issued(i), Pending(i)' <=> Pending(i),
         pc'[From(i)] \in {"out", "write"} =>
           /\ pc[From(i)] \in {"out", "write"}
           /\ msg'[From(i)] = msg[From(i)] /\ turn'[From(i)] = turn[From(i)]
  PROVE  LinkIssue(i)'
<1>1. From(i)' = From(i) /\ Strm(i)' = Strm(i) /\ Operators(From(i))' = Operators(From(i))
  BY SameProgram
<1>2. Owed(i)' = Owed(i)
  BY DEF Owed
<1>3. pc'[From(i)] \in {"out", "write"} => Current(From(i))' = Current(From(i))
  BY <1>1 DEF Current, Operators, Inbound, InOrder, Link, To, From
<1> QED BY <1>1, <1>2, <1>3 DEF LinkIssue

\* The ends of the connections that a process writes.
LEMMA OutEnds ==
  ASSUME program \in Programs, NEW n, NEW S \in SUBSET Link, \A l \in S : From(l) = n
  PROVE  /\ \A k \in 1..Len(Ends("out", InOrder(S))) : Ends("out", InOrder(S))[k][2] \in S
         /\ \A l \in S : \E k \in 1..Len(Ends("out", InOrder(S))) :
              Ends("out", InOrder(S))[k] = <<"out", l>>
         /\ InOrder(S) = <<>> <=> S = {}
<1>1. "out" \in {"in", "out"} /\ \A l \in S : ("out" = "out" => From(l) = n) /\ ("out" = "in" => To(l) = n)
  OBVIOUS
<1>2. \A k \in 1..Len(Ends("out", InOrder(S))) : Ends("out", InOrder(S))[k][2] \in S
  BY <1>1, EndsOwn
<1>3. \A l \in S : \E k \in 1..Len(Ends("out", InOrder(S))) :
        Ends("out", InOrder(S))[k] = <<"out", l>>
  BY <1>1, EndsOwn
<1>4. InOrder(S) = <<>> <=> S = {}
  BY <1>1, EndsOwn
<1> QED BY <1>2, <1>3, <1>4

\* A message m of the stream that is fired goes to the outbound operators.
LEMMA EmitIssue ==
  ASSUME CtrlInv, HistInv, program' = program, NEW n \in Nodes, pc[n] \in {"loop", "payload"}, NEW m,
         Emit(n, Current(n), m), NEW i \in Link, From(i) = n, LinkIssue(i), shot'[i] = shot[i],
         Issued(i) \in Nat,
         Strm(i) = Current(n) =>
           /\ Issued(i)' = m
           /\ Len(shot[i]) > 0 \/ program.nodrop => m = Issued(i) + 1,
         Strm(i) # Current(n) => Issued(i)' = Issued(i)
  PROVE  LinkIssue(i)'
<1> DEFINE S == {l \in Link : From(l) = n /\ Strm(l) = Current(n)}
           outs == InOrder(S)
           e == Ends("out", outs)
<1>0. /\ n \in Node /\ program \in Programs /\ pc \in [Node -> Points]
      /\ todo \in [Node -> Seq(EndSet)] /\ msg \in [Node -> 1..MaxMsg \cup {NULL}]
  BY NodesAre DEF CtrlInv
<1>1. ~Pending(i) /\ Owed(i) = 0
  BY DEF Pending, Owed
<1>2. /\ \A k \in 1..Len(e) : e[k][2] \in S
      /\ \A l \in S : \E k \in 1..Len(e) : e[k] = <<"out", l>>
      /\ outs = <<>> <=> S = {}
  <2>1. S \in SUBSET Link /\ \A l \in S : From(l) = n
    OBVIOUS
  <2> HIDE DEF S
  <2>2. /\ \A k \in 1..Len(Ends("out", InOrder(S))) : Ends("out", InOrder(S))[k][2] \in S
        /\ \A l \in S : \E k \in 1..Len(Ends("out", InOrder(S))) :
             Ends("out", InOrder(S))[k] = <<"out", l>>
        /\ InOrder(S) = <<>> <=> S = {}
    BY <1>0, <2>1, OutEnds
  <2> QED BY <2>2
<1>3. CASE Strm(i) = Current(n)
  <2>1. i \in S /\ outs # <<>>
    BY <1>2, <1>3
  <2>2. /\ pc' = [pc EXCEPT ![n] = "out"] /\ todo' = [todo EXCEPT ![n] = e]
        /\ msg' = [msg EXCEPT ![n] = m]
    BY <2>1 DEF Emit
  <2> HIDE DEF e
  <2>3. pc'[n] = "out" /\ todo'[n] = e /\ msg'[n] = m
    BY <1>0, <2>2
  <2>4. Pending(i)'
    BY <1>2, <2>1, <2>3, PendingIs
  <2>5. Owed(i)' = 1
    BY <2>4 DEF Owed
  <2>6. From(i)' = n
    BY SameProgram
  <2>7. Len(shot[i]) > 0 => Issued(i) = shot[i][Len(shot[i])]
    <3>1. Len(shot[i]) \in Nat /\ \A k \in 1..Len(shot[i]) : shot[i][k] \in Nat
      BY LinkHistTypes
    <3>2. Len(shot[i]) > 0 => shot[i][Len(shot[i])] \in Nat
      BY <3>1
    <3> QED BY <1>1, <3>2 DEF LinkIssue
  <2>8. Len(shot[i]) = 0 /\ program.nodrop => Issued(i) = 0
    BY <1>1 DEF LinkIssue
  <2>9. Issued(i)' = m /\ (Len(shot[i]) > 0 \/ program.nodrop => m = Issued(i) + 1)
    BY <1>3
  <2>10. (Len(shot[i]) > 0 => Issued(i) = shot[i][Len(shot[i])] + Owed(i))'
    BY <2>5, <2>7, <2>9
  <2>11. (Len(shot[i]) = 0 /\ program.nodrop => Issued(i) = Owed(i))'
    BY <2>5, <2>8, <2>9
  <2>12. msg'[n] = Issued(i)'
    BY <2>3, <2>9
  <2> QED BY <2>6, <2>10, <2>11, <2>12 DEF LinkIssue
<1>4. CASE Strm(i) # Current(n)
  <2>1. i \notin S
    BY <1>4
  <2>2. Issued(i)' = Issued(i) /\ From(i)' = n
    BY <1>4, SameProgram
  <2>3. CASE outs = <<>>
    <3>1. pc'[n] = "loop"
      BY <1>0, <2>3 DEF Emit, NextTurn
    <3>2. ~Pending(i)'
      BY <3>1, PendingIs
    <3> QED BY <1>1, <2>2, <3>1, <3>2, IssueKeeps
  <2>4. CASE outs # <<>>
    <3>1. /\ pc' = [pc EXCEPT ![n] = "out"] /\ todo' = [todo EXCEPT ![n] = e]
          /\ UNCHANGED turn
      BY <2>4 DEF Emit
    <3> HIDE DEF e
    <3>2. pc'[n] = "out" /\ todo'[n] = e
      BY <1>0, <3>1
    <3>3. \A k \in 1..Len(e) : e[k] # <<"out", i>>
      <4> SUFFICES ASSUME NEW k \in 1..Len(e), e[k] = <<"out", i>> PROVE FALSE
        OBVIOUS
      <4>1. e[k][2] = i
        OBVIOUS
      <4> QED BY <1>2, <2>1, <4>1
    <3>4. ~Pending(i)'
      BY <3>2, <3>3, PendingIs
    <3>5. Owed(i)' = 0
      BY <3>4 DEF Owed
    <3>6. Strm(i)' = Strm(i) /\ Current(n)' = Current(n)
      BY <3>1, SameProgram DEF Current
    <3>7. ~(Strm(i)' = Current(n)')
      BY <1>4, <3>6
    <3>8. (Len(shot[i]) > 0 => Issued(i) = shot[i][Len(shot[i])] + Owed(i))'
      BY <1>1, <2>2, <3>5 DEF LinkIssue
    <3>9. (Len(shot[i]) = 0 /\ program.nodrop => Issued(i) = Owed(i))'
      BY <1>1, <2>2, <3>5 DEF LinkIssue
    <3> QED BY <2>2, <3>7, <3>8, <3>9 DEF LinkIssue
  <2> QED BY <2>3, <2>4
<1> QED BY <1>3, <1>4

\* The operator at the head of todo is done with the message.
LEMMA ServedIssue ==
  ASSUME CtrlInv, program' = program, NEW n \in Nodes, pc[n] \in {"out", "write"}, NEW l \in Link,
         Head(todo[n]) = <<"out", l>>, Emitted(n), UNCHANGED msg,
         NEW i \in Link, From(i) = n, LinkIssue(i), shot'[i] = shot[i], Issued(i)' = Issued(i),
         i = l /\ pc[n] = "out" => ~program.nodrop /\ ~(Len(shot[i]) > 0)
  PROVE  LinkIssue(i)'
<1> DEFINE s == todo[n]
           t == Tail(s)
<1>0. n \in Node /\ pc \in [Node -> Points] /\ todo \in [Node -> Seq(EndSet)]
  BY NodesAre DEF CtrlInv
<1>1. /\ InTodo(n, <<"out", l>>)
      /\ \A k \in 1..Len(t) : t[k] # <<"out", l>> /\ InTodo(n, t[k])
      /\ \A e : InTodo(n, e) => e = <<"out", l>> \/ \E k \in 1..Len(t) : t[k] = e
  BY HeadOwn
<1>2. s # <<>> /\ OwnEnds(n, s)
  BY DEF CtrlInv, NodeCtrl
<1> HIDE DEF s
<1>3. Len(t) = Len(s) - 1 /\ Len(s) \in Nat
  BY <1>2, OwnTail
<1>4. todo'[n] = t
  BY <1>0 DEF Emitted, s
<1>5. pc'[n] = (IF Len(s) = 1 THEN "loop" ELSE "out")
  BY <1>0 DEF Emitted, NextTurn, s
<1>6. pc'[n] = "out" => turn' = turn
  BY <1>5 DEF Emitted, s
<1>7. From(i)' = n
  BY SameProgram
<1> HIDE DEF t
<1>8. Pending(i)' <=> pc'[n] = "out" /\ \E k \in 1..Len(t) : t[k] = <<"out", i>>
  BY <1>4, <1>5, PendingIs
<1>9. Pending(i)' <=> \E k \in 1..Len(t) : t[k] = <<"out", i>>
  <2>1. Len(s) = 1 => ~\E k \in 1..Len(t) : t[k] = <<"out", i>>
    BY <1>3
  <2> QED BY <1>5, <1>8, <2>1
<1>10. CASE i # l
  <2>1. <<"out", i>> # <<"out", l>>
    BY <1>10
  <2>2. Pending(i) <=> InTodo(n, <<"out", i>>)
    BY <2>1 DEF Pending
  <2>3. InTodo(n, <<"out", i>>) <=> \E k \in 1..Len(t) : t[k] = <<"out", i>>
    BY <1>1, <2>1
  <2> QED BY <1>5, <1>6, <1>9, <2>2, <2>3, IssueKeeps
<1>11. CASE i = l /\ pc[n] = "write"
  <2>1. ~Pending(i) /\ ~Pending(i)'
    BY <1>1, <1>9, <1>11 DEF Pending
  <2> QED BY <1>5, <1>6, <2>1, IssueKeeps
<1>12. CASE i = l /\ pc[n] = "out"
  <2>1. (Len(shot[i]) > 0 => Issued(i) = shot[i][Len(shot[i])] + Owed(i))'
    BY <1>12
  <2>2. (Len(shot[i]) = 0 /\ program.nodrop => Issued(i) = Owed(i))'
    BY <1>12
  <2>3. (pc[From(i)] \in {"out", "write"} /\ Strm(i) = Current(From(i)) => msg[From(i)] = Issued(i))'
    <3>1. Strm(i)' = Strm(i) /\ (pc'[n] = "out" => Current(n)' = Current(n))
      BY <1>6, SameProgram DEF Current
    <3> QED BY <1>5, <1>7, <1>12, <3>1 DEF LinkIssue
  <2> QED BY <2>1, <2>2, <2>3 DEF LinkIssue
<1> QED BY <1>10, <1>11, <1>12

LEMMA IssuedType ==
  ASSUME CtrlInv, HistInv, NEW i \in Link
  PROVE  Issued(i) \in Nat
<1>1. From(i) \in Node /\ (Strm(i) = 0 \/ Strm(i) \in Link)
  BY ProgramFacts DEF CtrlInv
<1>2. made[From(i)] \in Nat
  BY <1>1, SNLengths DEF CtrlInv
<1>3. ASSUME Strm(i) \in Link, Len(emitted[Strm(i)]) # 0
      PROVE  emitted[Strm(i)][Len(emitted[Strm(i)])] \in Nat
  <2>1. /\ Len(emitted[Strm(i)]) \in Nat
        /\ \A k \in 1..Len(emitted[Strm(i)]) : emitted[Strm(i)][k] \in Nat
    BY <1>3, LinkHistTypes
  <2>2. Len(emitted[Strm(i)]) \in 1..Len(emitted[Strm(i)])
    BY <1>3, <2>1
  <2> QED BY <2>1, <2>2
<1> QED BY <1>1, <1>2, <1>3 DEF Issued

\* What completes the payload comes right after what was read before it.
LEMMA NextIssued ==
  ASSUME CtrlInv, WireInv, HistInv, NEW l \in Link, Bytes(l), curstate[l] = 1,
         NEW k \in 1..Len(wire[l]), k = Msglen(l) - datactr[l],
         NEW m, m = Put(databuf[l], datactr[l], SubSeq(wire[l], 1, k))[1][1],
         emitted'[l] = Append(emitted[l], m), program' = program,
         NEW i \in Link, Strm(i) = l, LinkIssue(i)
  PROVE  /\ Issued(i)' = m
         /\ Len(shot[i]) > 0 \/ program.nodrop => m = Issued(i) + 1
<1> DEFINE s == shot[l]
           e == emitted[l]
<1>1. Len(e) < Len(s) /\ s[Len(e) + 1] \in 1..MaxMsg /\ m = s[Len(e) + 1]
  BY NextFrame
<1>2. /\ e \in Seq(1..MaxMsg) /\ Len(s) \in Nat /\ Len(e) \in Nat
      /\ \A j \in 1..Len(s) : s[j] \in Nat
  BY LinkHistTypes
<1>3. /\ \A j \in 1..Len(e) : e[j] = s[j]
      /\ \A j \in 1..Len(s) : s[j] = s[1] + j - 1
      /\ program.nodrop /\ Len(s) > 0 => s[1] = 1
  BY DEF HistInv, LinkHist
<1>4. l # 0
  BY ProgramFacts DEF CtrlInv
<1>5. emitted'[l] = Append(e, m)
  OBVIOUS
<1>6. Issued(i) = IF Len(e) = 0 THEN 0 ELSE e[Len(e)]
  BY <1>4 DEF Issued
<1>7. Issued(i)' = IF Len(emitted'[l]) = 0 THEN 0 ELSE emitted'[l][Len(emitted'[l])]
  <2>1. Strm(i)' = l
    BY SameProgram
  <2> QED BY <1>4, <2>1 DEF Issued
<1> HIDE DEF s, e
<1>8. Issued(i)' = m
  <2>1. Len(Append(e, m)) = Len(e) + 1 /\ Append(e, m)[Len(e) + 1] = m
    BY <1>1, <1>2
  <2> QED BY <1>2, <1>5, <1>7, <2>1
<1>9. CASE Len(e) > 0
  <2>1. Len(e) \in 1..Len(e) /\ Len(e) \in 1..Len(s) /\ Len(e) + 1 \in 1..Len(s) /\ 1 \in 1..Len(s)
    BY <1>1, <1>2, <1>9
  <2>2. e[Len(e)] = s[1] + Len(e) - 1 /\ s[Len(e) + 1] = s[1] + (Len(e) + 1) - 1 /\ s[1] \in Nat
    BY <1>2, <1>3, <2>1
  <2>3. m = Issued(i) + 1
    BY <1>1, <1>2, <1>6, <1>9, <2>2
  <2> QED BY <1>8, <2>3
<1>10. CASE Len(e) = 0
  <2>1. Issued(i) = 0 /\ m = s[1] /\ Len(s) > 0
    BY <1>1, <1>2, <1>6, <1>10
  <2>2. ~(Len(shot[i]) > 0)
    <3> SUFFICES ASSUME Len(shot[i]) > 0 PROVE FALSE
      OBVIOUS
    <3>1. Len(shot[i]) \in 1..Len(shot[i])
      BY LinkHistTypes
    <3>2. shot[i][Len(shot[i])] \in Nat /\ shot[i][Len(shot[i])] \in 1..MaxMsg
      BY <3>1, LinkHistTypes
    <3>3. shot[i][Len(shot[i])] # 0
      BY <3>2, SNLengths
    <3>4. Issued(i) = shot[i][Len(shot[i])] + Owed(i) /\ Owed(i) \in {0, 1}
      BY DEF LinkIssue, Owed
    <3> QED BY <2>1, <3>2, <3>3, <3>4
  <2> QED BY <1>3, <1>8, <2>1, <2>2
<1> QED BY <1>2, <1>8, <1>9, <1>10

LEMMA IssueStep ==
  ASSUME CtrlInv, ConnInv, WireInv, HistInv, IssueInv, BytesInv, [Next]_vars
  PROVE  IssueInv'
<1> USE DEF mainVars
<1> DEFINE Own(n) == \A i \in Link : From(i) = n /\ pc'[n] # "exited" => LinkIssue(i)'
<1>0. /\ program' = program /\ Link' = Link /\ program \in Programs /\ Nodes \subseteq Node
      /\ pc \in [Node -> Points] /\ \A i \in Link : From(i)' = From(i) /\ From(i) \in Node
  BY NodesStep, SameProgram, NodesAre, ProgramFacts DEF CtrlInv
<1>1. \A i \in Link : pc[From(i)] # "exited" => LinkIssue(i)
  BY DEF IssueInv
<1>2. \A i \in Link : Strm(i) = 0 \/ (Strm(i) \in Link /\ To(Strm(i)) = From(i))
  BY <1>0, ProgramFacts
<1>3. ASSUME NEW i \in Link, pc[From(i)] # "exited", shot'[i] = shot[i],
             made'[From(i)] = made[From(i)], Strm(i) = 0 \/ emitted'[Strm(i)] = emitted[Strm(i)],
             UNCHANGED <<pc[From(i)], todo[From(i)], turn[From(i)], msg[From(i)]>>
      PROVE  LinkIssue(i)'
  <2>1. /\ pc'[From(i)] = pc[From(i)] /\ todo'[From(i)] = todo[From(i)]
        /\ turn'[From(i)] = turn[From(i)] /\ msg'[From(i)] = msg[From(i)]
    BY <1>0, <1>3
  <2>2. Pending(i)' <=> Pending(i)
    BY <1>0, <2>1, PendingIs DEF Pending, InTodo
  <2>3. Issued(i)' = Issued(i)
    BY <1>0, <1>3, IssuedSame
  <2> QED BY <1>0, <1>1, <1>3, <2>1, <2>2, <2>3, IssueKeeps
<1>4. ASSUME UNCHANGED <<pc, todo, turn, made, msg, shot, emitted>> PROVE IssueInv'
  <2>1. \A i \in Link : pc[From(i)] # "exited" => LinkIssue(i)'
    BY <1>0, <1>3, <1>4
  <2> QED BY <1>0, <1>4, <2>1 DEF IssueInv
<1>5. CASE UNCHANGED vars
  BY <1>4, <1>5 DEF vars
<1>6. ASSUME NEW l \in Link, Helper(l) PROVE IssueInv'
  <2>1. UNCHANGED <<pc, todo, turn, made, msg, shot, emitted>>
    BY <1>6 DEF Helper, Listen, Accept, PublishOut, Connect, SetNonBlocking, PublishIn,
                ServerStep, ClientStep
  <2> QED BY <1>4, <2>1
\* Connections that the process does not write.
<1>7. ASSUME NEW n \in Nodes, Start(n) \/ Main(n), Own(n) PROVE IssueInv'
  <2>1. ASSUME NEW i \in Link, From(i) # n, pc'[From(i)] # "exited" PROVE LinkIssue(i)'
    <3>1. Local(n)
      BY <1>7, LocalSteps
    <3>2. From(i) \in Node \ {n}
      BY <1>0, <2>1
    <3>3. /\ pc'[From(i)] = pc[From(i)] /\ todo'[From(i)] = todo[From(i)]
          /\ turn'[From(i)] = turn[From(i)] /\ msg'[From(i)] = msg[From(i)]
          /\ made'[From(i)] = made[From(i)] /\ shot'[i] = shot[i]
      BY <2>1, <3>1, <3>2 DEF Local
    <3>4. Strm(i) = 0 \/ emitted'[Strm(i)] = emitted[Strm(i)]
      BY <1>2, <2>1, <3>1 DEF Local
    <3>5. UNCHANGED <<pc[From(i)], todo[From(i)], turn[From(i)], msg[From(i)]>>
      BY <1>0, <3>3
    <3> QED BY <1>3, <2>1, <3>3, <3>4, <3>5
  <2> QED BY <1>0, <1>7, <2>1 DEF IssueInv
\* The process neither begins to emit nor is emitting.
<1>8. ASSUME NEW n \in Nodes, pc[n] \notin {"out", "write", "exited"}, pc'[n] \notin {"out", "write"},
             UNCHANGED <<made, shot, emitted>>
      PROVE  Own(n)
  <2> SUFFICES ASSUME NEW i \in Link, From(i) = n PROVE LinkIssue(i)'
    OBVIOUS
  <2>1. Issued(i)' = Issued(i)
    BY <1>0, <1>8, IssuedSame
  <2>2. ~Pending(i) /\ ~Pending(i)'
    BY <1>0, <1>8, PendingIs DEF Pending
  <2> QED BY <1>0, <1>1, <1>8, <2>1, <2>2, IssueKeeps
<1> HIDE DEF Own
<1>9. ASSUME NEW n \in Nodes, Start(n) PROVE Own(n)
  <2>1. pc[n] = "off" /\ pc' = [pc EXCEPT ![n] = "init"] /\ UNCHANGED <<made, shot, emitted>>
    BY <1>9 DEF Start
  <2>2. pc'[n] = "init"
    BY <1>0, <2>1
  <2> QED BY <1>8, <2>1, <2>2
<1>10. ASSUME NEW n \in Nodes, SourceWaits(n) \/ SourceEnds(n)
                               \/ \E l \in Link : NothingToRead(n, l) \/ ReadFails(n, l) \/ ReadHeader(n, l)
       PROVE  Own(n)
  <2>1. pc[n] \in {"loop", "payload"} /\ UNCHANGED <<made, shot, emitted>>
    BY <1>10 DEF SourceWaits, SourceEnds, FiringSource, NothingToRead, ReadFails, ReadHeader,
                 Firing, Reading
  <2>2. \E c \in {"loop", "payload", "shut", "exited"} : pc' = [pc EXCEPT ![n] = c]
    BY <1>10 DEF SourceWaits, SourceEnds, NothingToRead, ReadFails, ReadHeader,
                 NextTurn, BeginShutdown, Exit
  <2>3. pc'[n] \in {"loop", "payload", "shut", "exited"}
    BY <1>0, <2>2
  <2> QED BY <1>8, <2>1, <2>3
<1>11. ASSUME NEW n \in Nodes, NEW l \in Link, SpawnServer(n, l) \/ SpawnClient(n, l) PROVE Own(n)
  <2>1. /\ pc[n] = "init" /\ Spawned(n) /\ UNCHANGED <<made, shot, emitted>>
    BY <1>11 DEF SpawnServer, SpawnClient
  <2>2. pc'[n] \in {"loop", "init"}
    BY <1>0, <2>1 DEF Spawned
  <2> QED BY <1>8, <2>1, <2>2
<1>12. ASSUME NEW n \in Nodes, NEW l \in Link, ShutInbound(n, l) \/ ShutOutbound(n, l) PROVE Own(n)
  <2>1. /\ pc[n] = "shut" /\ LoseSource(n) /\ UNCHANGED <<made, shot, emitted>>
    BY <1>12 DEF ShutInbound, ShutOutbound
  <2>2. pc'[n] \in {"shut", "exited"}
    BY <1>0, <2>1, LoseIs
  <2> QED BY <1>8, <2>1, <2>2
<1>13. ASSUME NEW n \in Nodes, NEW l \in Link, BrokenPipe(n, l) PROVE Own(n)
  BY <1>0, <1>13 DEF BrokenPipe, Exit, Own
<1>14. ASSUME NEW n \in Nodes, SourceReads(n) PROVE Own(n)
  <2> SUFFICES ASSUME NEW i \in Link, From(i) = n PROVE LinkIssue(i)'
    BY DEF Own
  <2>1. /\ pc[n] = "loop" /\ Current(n) = 0 /\ Emit(n, 0, made[n] + 1)
        /\ made' = [made EXCEPT ![n] = @ + 1] /\ shot' = shot /\ emitted' = emitted
    BY <1>14 DEF SourceReads, FiringSource, Current
  <2>2. made'[n] = made[n] + 1
    BY <1>0, <2>1 DEF CtrlInv
  <2>3. Strm(i)' = Strm(i) /\ Issued(i) \in Nat /\ LinkIssue(i)
    BY <1>0, <1>1, <2>1, SameProgram, IssuedType
  <2>4. Strm(i) = 0 => Issued(i)' = made[n] + 1 /\ made[n] + 1 = Issued(i) + 1
    BY <1>0, <2>2, <2>3 DEF Issued
  <2>5. Strm(i) # 0 => Issued(i)' = Issued(i)
    BY <2>1, <2>3 DEF Issued
  <2> QED BY <1>0, <2>1, <2>3, <2>4, <2>5, EmitIssue
<1>15. ASSUME NEW n \in Nodes, NEW l \in Link, ReadPayload(n, l) PROVE Own(n)
  <2> DEFINE Got(k) == Put(databuf[l], datactr[l], SubSeq(wire[l], 1, k))
  <2>1. To(l) = n /\ Current(n) = l /\ curstate[l] = 1 /\ pc[n] \in {"loop", "payload"}
    BY <1>15, ReadingIs DEF ReadPayload
  <2>2. Bytes(l)
    BY <2>1 DEF BytesInv, Reads
  <2>3. PICK k \in 1..Len(wire[l]) :
          \/ NextTurn(n) /\ UNCHANGED emitted
          \/ /\ k = Msglen(l) - datactr[l] /\ emitted' = [emitted EXCEPT ![l] = Append(@, Got(k)[1][1])]
             /\ Emit(n, l, Got(k)[1][1])
    BY <1>15 DEF ReadPayload
  <2>4. made' = made /\ shot' = shot
    BY <1>15 DEF ReadPayload
  <2>5. CASE NextTurn(n) /\ UNCHANGED emitted
    <3>1. pc'[n] = "loop"
      BY <1>0, <2>5 DEF NextTurn
    <3> QED BY <1>8, <2>1, <2>4, <2>5, <3>1
  <2>6. CASE /\ k = Msglen(l) - datactr[l] /\ emitted' = [emitted EXCEPT ![l] = Append(@, Got(k)[1][1])]
             /\ Emit(n, l, Got(k)[1][1])
    <3> SUFFICES ASSUME NEW i \in Link, From(i) = n PROVE LinkIssue(i)'
      BY DEF Own
    <3>0. PICK m : m = Got(k)[1][1]
      OBVIOUS
    <3>1. Issued(i) \in Nat /\ LinkIssue(i) /\ shot'[i] = shot[i]
      BY <1>0, <1>1, <2>1, <2>4, IssuedType
    <3>2. ASSUME Strm(i) = l
          PROVE  /\ Issued(i)' = m
                 /\ Len(shot[i]) > 0 \/ program.nodrop => m = Issued(i) + 1
      <4>1. /\ m = Put(databuf[l], datactr[l], SubSeq(wire[l], 1, k))[1][1]
            /\ emitted'[l] = Append(emitted[l], m)
            /\ k = Msglen(l) - datactr[l]
        BY <2>6, <3>0 DEF HistInv
      <4>2. program' = program /\ curstate[l] = 1 /\ LinkIssue(i)
        BY <1>0, <2>1, <3>1
      <4>3. Issued(i)' = m
        BY <2>2, <3>2, <4>1, <4>2, NextIssued
      <4>4. Len(shot[i]) > 0 \/ program.nodrop => m = Issued(i) + 1
        BY <2>2, <3>2, <4>1, <4>2, NextIssued
      <4> QED BY <4>3, <4>4
    <3>3. ASSUME Strm(i) # l PROVE Issued(i)' = Issued(i)
      <4>1. Strm(i) = 0 \/ emitted'[Strm(i)] = emitted[Strm(i)]
        BY <1>2, <2>6, <3>3 DEF HistInv
      <4> QED BY <1>0, <2>4, <4>1, IssuedSame
    <3>4. Emit(n, Current(n), m)
      BY <2>1, <2>6, <3>0
    <3>5. /\ Strm(i) = Current(n) =>
               /\ Issued(i)' = m
               /\ Len(shot[i]) > 0 \/ program.nodrop => m = Issued(i) + 1
          /\ Strm(i) # Current(n) => Issued(i)' = Issued(i)
      BY <2>1, <3>2, <3>3
    <3> QED BY <1>0, <2>1, <3>1, <3>4, <3>5, EmitIssue
  <2> QED BY <2>3, <2>5, <2>6
<1>16. ASSUME NEW n \in Nodes, NEW l \in Link, Shoot(n, l) PROVE Own(n)
  <2> SUFFICES ASSUME NEW i \in Link, From(i) = n PROVE LinkIssue(i)'
    BY DEF Own
  <2>1. /\ pc[n] = "out" /\ Head(todo[n]) = <<"out", l>> /\ pc' = [pc EXCEPT ![n] = "write"]
        /\ shot' = [shot EXCEPT ![l] = Append(@, msg[n])]
        /\ UNCHANGED <<todo, turn, made, msg, emitted>>
    BY <1>16 DEF Shoot, Sending
  <2>2. pc'[n] = "write" /\ todo'[n] = todo[n] /\ LinkIssue(i)
    BY <1>0, <1>1, <2>1
  <2>3. Issued(i)' = Issued(i)
    BY <1>0, <2>1, IssuedSame
  <2>4. CASE i # l
    <3>1. shot'[i] = shot[i] /\ Head(todo[n]) # <<"out", i>>
      BY <2>1, <2>4 DEF HistInv
    <3>2. Pending(i)' <=> Pending(i)
      BY <1>0, <2>1, <2>2, <3>1, PendingIs DEF Pending, InTodo
    <3> QED BY <1>0, <2>1, <2>2, <2>3, <3>1, <3>2, IssueKeeps
  <2>5. CASE i = l
    <3>1. ~Pending(i)'
      BY <1>0, <2>1, <2>2, <2>5, PendingIs
    <3>2. Owed(i)' = 0
      BY <3>1 DEF Owed
    <3>3. msg[n] \in 1..MaxMsg /\ msg[n] = Issued(i)
      BY <1>16, <2>5, ShootHist
    <3>4. shot[i] \in Seq(1..MaxMsg) /\ shot'[i] = Append(shot[i], msg[n]) /\ msg[n] \in Nat
      BY <2>1, <2>5, <3>3, SNLengths DEF HistInv
    <3>5. Len(shot'[i]) = Len(shot[i]) + 1 /\ shot'[i][Len(shot[i]) + 1] = msg[n] /\ Len(shot[i]) \in Nat
      BY <3>3, <3>4
    <3>6. (Len(shot[i]) > 0 => Issued(i) = shot[i][Len(shot[i])] + Owed(i))'
      BY <2>3, <3>2, <3>3, <3>4, <3>5
    <3>7. (Len(shot[i]) = 0 /\ program.nodrop => Issued(i) = Owed(i))'
      BY <3>5
    <3>8. msg'[n] = Issued(i)'
      BY <2>1, <2>3, <3>3
    <3> QED BY <1>0, <3>6, <3>7, <3>8 DEF LinkIssue
  <2> QED BY <2>4, <2>5
<1>17. ASSUME NEW n \in Nodes, NEW l \in Link, pc[n] \in {"out", "write"}, Head(todo[n]) = <<"out", l>>,
              Emitted(n), UNCHANGED <<made, msg, shot, emitted>>,
              pc[n] = "out" => ~program.nodrop /\ ~(Len(shot[l]) > 0)
       PROVE  Own(n)
  <2> SUFFICES ASSUME NEW i \in Link, From(i) = n PROVE LinkIssue(i)'
    BY DEF Own
  <2>1. Issued(i)' = Issued(i)
    BY <1>0, <1>17, IssuedSame
  <2>2. LinkIssue(i) /\ shot'[i] = shot[i] /\ UNCHANGED msg
    BY <1>0, <1>1, <1>17
  <2> QED BY <1>0, <1>17, <2>1, <2>2, ServedIssue
<1>18. ASSUME NEW n \in Nodes, NEW l \in Link, DropMessage(n, l) PROVE Own(n)
  <2>1. /\ pc[n] = "out" /\ Head(todo[n]) = <<"out", l>> /\ ~program.nodrop /\ fdOut[l] = "zero"
        /\ Emitted(n) /\ UNCHANGED <<made, msg, shot, emitted>>
    BY <1>18 DEF DropMessage, Sending, MayDrop
  <2>2. ~(Len(shot[l]) > 0)
    BY <2>1 DEF HistInv, LinkHist
  <2> QED BY <1>17, <2>1, <2>2
<1>19. ASSUME NEW n \in Nodes, NEW l \in Link, Write(n, l) PROVE Own(n)
  <2>1. /\ pc[n] = "write" /\ Head(todo[n]) = <<"out", l>>
        /\ Emitted(n) \/ UNCHANGED <<pc, todo, turn>>
        /\ UNCHANGED <<made, msg, shot, emitted>>
    BY <1>19 DEF Write
  <2>2. CASE Emitted(n)
    BY <1>17, <2>1, <2>2
  <2>3. CASE UNCHANGED <<pc, todo, turn>>
    <3>1. IssueInv'
      BY <1>4, <2>1, <2>3
    <3> QED BY <1>0, <3>1 DEF IssueInv, Own
  <2> QED BY <2>1, <2>2, <2>3
<1>20. ASSUME NEW n \in Nodes, NEW l \in Link, WriteLost(n, l) PROVE Own(n)
  <2>1. /\ pc[n] = "write" /\ Head(todo[n]) = <<"out", l>>
        /\ Emitted(n) /\ UNCHANGED <<made, msg, shot, emitted>>
    BY <1>20 DEF WriteLost
  <2> QED BY <1>17, <2>1
<1>21. ASSUME NEW n \in Nodes, Start(n) \/ Main(n) PROVE Own(n)
  BY <1>9, <1>10, <1>11, <1>12, <1>13, <1>14, <1>15, <1>16, <1>18, <1>19, <1>20, <1>21 DEF Main
<1> QED BY <1>5, <1>6, <1>7, <1>21 DEF Next

-----------------------------------------------------------------------------
(* Every byte, step by step.                                               *)

LEMMA UnwrittenIs ==
  ASSUME program' = program, NEW i \in Link
  PROVE  Unwritten(i)' = IF pc'[From(i)] = "write" /\ Head(todo'[From(i)])[2] = i
                         THEN left'[From(i)] ELSE <<>>
<1>1. From(i)' = From(i)
  BY SameProgram
<1> QED BY <1>1 DEF Unwritten

LEMMA BytesSame ==
  ASSUME NEW i \in Link, Bytes(i),
         curstate'[i] = curstate[i], lenbuf'[i] = lenbuf[i], lenctr'[i] = lenctr[i],
         databuf'[i] = databuf[i], datactr'[i] = datactr[i],
         wire'[i] = wire[i], shot'[i] = shot[i], emitted'[i] = emitted[i],
         Unwritten(i)' = Unwritten(i), Closing(i)' = Closing(i)
  PROVE  Bytes(i)'
<1>1. Consumed(i)' = Consumed(i)
  BY DEF Consumed
<1>2. Frames(i)' = Frames(i)
  BY DEF Frames, Frame
<1>3. FlattenSeq(Frames(i))' = FlattenSeq(Frames(i))
  BY <1>2
<1> QED BY <1>1, <1>3 DEF Bytes

\* The reader takes the first k bytes of the wire.
LEMMA ReadKeeps ==
  ASSUME CtrlInv, WireInv, HistInv, NEW l \in Link, Bytes(l), NEW k \in 1..Len(wire[l]),
         Consumed(l)' = Consumed(l) \o SubSeq(wire[l], 1, k), wire'[l] = Drop(wire[l], k),
         shot'[l] = shot[l], emitted'[l] = emitted[l],
         Unwritten(l)' = Unwritten(l), Closing(l)' = Closing(l)
  PROVE  Bytes(l)'
<1> DEFINE c == Consumed(l)
           x == wire[l]
           s == SubSeq(x, 1, k)
           w == Drop(x, k)
           u == Unwritten(l)
<1>1. c \in Seq(Byte) /\ x \in Seq(Byte) /\ u \in Seq(Byte)
  BY ConsumedIs, PartsAre
<1>2. (Consumed(l)' \o wire'[l]) \o Unwritten(l)' = ((c \o s) \o w) \o u
  OBVIOUS
<1>3. FlattenSeq(Frames(l))' = FlattenSeq(Frames(l))
  BY DEF Frames, Frame
<1>4. (c \o x) \o u = FlattenSeq(Frames(l)) \o Closing(l)
  BY DEF Bytes
<1> HIDE DEF c, u
<1>5. s \in Seq(Byte) /\ w \in Seq(Byte) /\ s \o w = x
  <2>1. k \in 0..Len(x)
    OBVIOUS
  <2> HIDE DEF x
  <2> QED BY <1>1, <2>1, Cut
<1> HIDE DEF s, w, x
<1>6. ((c \o s) \o w) \o u = (c \o (s \o w)) \o u
  <2>1. IsBytes(c) /\ IsBytes(s) /\ IsBytes(w)
    BY <1>1, <1>5 DEF IsBytes
  <2>2. Cat(Cat(c, s), w) = Cat(c, Cat(s, w))
    BY <2>1, CatFacts
  <2> QED BY <2>2 DEF Cat
<1>7. ((c \o s) \o w) \o u = FlattenSeq(Frames(l)) \o Closing(l)
  BY <1>4, <1>5, <1>6
<1> QED BY <1>2, <1>3, <1>7 DEF Bytes

LEMMA HeaderConsumed ==
  ASSUME WireInv, NEW l \in Link, curstate[l] = 0, NEW k \in 1..Len(wire[l]),
         lenbuf'[l] = Put(lenbuf[l], lenctr[l], SubSeq(wire[l], 1, k)),
         \/ curstate'[l] = 0 /\ lenctr'[l] = lenctr[l] + k
         \/ curstate'[l] = 1 /\ datactr'[l] = 0 /\ databuf'[l] = <<>>
  PROVE  Consumed(l)' = Consumed(l) \o SubSeq(wire[l], 1, k)
<1> DEFINE b == lenbuf[l]
           c == lenctr[l]
           x == wire[l]
           t == lenbuf'[l]
<1>1. b \in Seq(Byte) /\ c \in Nat /\ c <= Len(b) /\ x \in Seq(Byte) /\ k \in 1..Len(x)
  BY DEF WireInv, LinkWire
<1>2. t = Put(b, c, SubSeq(x, 1, k)) /\ Consumed(l) = SubSeq(b, 1, c)
  BY DEF Consumed
<1>3. \/ curstate'[l] = 0 /\ lenctr'[l] = c + k
      \/ curstate'[l] = 1 /\ datactr'[l] = 0 /\ databuf'[l] = <<>>
  OBVIOUS
<1>4. Consumed(l)' = IF curstate'[l] = 1 THEN t \o SubSeq(databuf'[l], 1, datactr'[l])
                     ELSE SubSeq(t, 1, lenctr'[l])
  BY DEF Consumed
<1> HIDE DEF b, c, x, t
<1>5. t = SubSeq(b, 1, c) \o SubSeq(x, 1, k) /\ t \in Seq(Byte) /\ Len(t) = c + k
  <2>1. /\ Put(b, c, SubSeq(x, 1, k)) = SubSeq(b, 1, c) \o SubSeq(x, 1, k)
        /\ Put(b, c, SubSeq(x, 1, k)) \in Seq(Byte) /\ Len(Put(b, c, SubSeq(x, 1, k))) = c + k
        /\ SubSeq(b, 1, c) \in Seq(Byte) /\ SubSeq(x, 1, k) \in Seq(Byte)
    BY <1>1, PutIs
  <2> QED BY <1>2, <2>1
<1>6. Consumed(l)' = t
  <2>1. SubSeq(<<>>, 1, 0) = <<>>
    BY EmptySeq
  <2>2. t \o <<>> = t
    BY <1>5, ConcatEmptySeq
  <2>3. SubSeq(t, 1, c + k) = t
    BY <1>5, SubSeqFull
  <2> QED BY <1>3, <1>4, <2>1, <2>2, <2>3
<1> QED BY <1>2, <1>5, <1>6 DEF x

LEMMA PayloadConsumed ==
  ASSUME WireInv, NEW l \in Link, curstate[l] = 1, curstate'[l] = 1, NEW k \in 1..Len(wire[l]),
         lenbuf'[l] = lenbuf[l], datactr'[l] = datactr[l] + k,
         databuf'[l] = Put(databuf[l], datactr[l], SubSeq(wire[l], 1, k))
  PROVE  Consumed(l)' = Consumed(l) \o SubSeq(wire[l], 1, k)
<1> DEFINE h == lenbuf[l]
           b == databuf[l]
           c == datactr[l]
           x == wire[l]
           t == databuf'[l]
<1>1. /\ h \in Seq(Byte) /\ b \in Seq(Byte) /\ c \in Nat /\ c <= Len(b)
      /\ x \in Seq(Byte) /\ k \in 1..Len(x)
  BY DEF WireInv, LinkWire
<1>2. t = Put(b, c, SubSeq(x, 1, k)) /\ Consumed(l) = h \o SubSeq(b, 1, c)
  BY DEF Consumed
<1>3. Consumed(l)' = h \o SubSeq(t, 1, c + k)
  BY DEF Consumed
<1> HIDE DEF h, b, c, x, t
<1>4. /\ t = SubSeq(b, 1, c) \o SubSeq(x, 1, k) /\ t \in Seq(Byte) /\ Len(t) = c + k
      /\ SubSeq(b, 1, c) \in Seq(Byte) /\ SubSeq(x, 1, k) \in Seq(Byte)
  <2>1. /\ Put(b, c, SubSeq(x, 1, k)) = SubSeq(b, 1, c) \o SubSeq(x, 1, k)
        /\ Put(b, c, SubSeq(x, 1, k)) \in Seq(Byte) /\ Len(Put(b, c, SubSeq(x, 1, k))) = c + k
        /\ SubSeq(b, 1, c) \in Seq(Byte) /\ SubSeq(x, 1, k) \in Seq(Byte)
    BY <1>1, PutIs
  <2> QED BY <1>2, <2>1
<1>5. SubSeq(t, 1, c + k) = t
  BY <1>4, SubSeqFull
<1>6. h \o (SubSeq(b, 1, c) \o SubSeq(x, 1, k)) = (h \o SubSeq(b, 1, c)) \o SubSeq(x, 1, k)
  <2>1. IsBytes(h) /\ IsBytes(SubSeq(b, 1, c)) /\ IsBytes(SubSeq(x, 1, k))
    BY <1>1, <1>4 DEF IsBytes
  <2>2. Cat(Cat(h, SubSeq(b, 1, c)), SubSeq(x, 1, k)) = Cat(h, Cat(SubSeq(b, 1, c), SubSeq(x, 1, k)))
    BY <2>1, CatFacts
  <2> QED BY <2>2 DEF Cat
<1> QED BY <1>2, <1>3, <1>4, <1>5, <1>6 DEF x

\* The message that was put together is emitted.
LEMMA LastOfFrame ==
  ASSUME CtrlInv, WireInv, HistInv, NEW l \in Link, Bytes(l), curstate[l] = 1,
         NEW k \in 1..Len(wire[l]), k = Msglen(l) - datactr[l], NEW m,
         emitted'[l] = Append(emitted[l], m), shot'[l] = shot[l], wire'[l] = Drop(wire[l], k),
         curstate'[l] = 0, lenctr'[l] = 0, lenbuf'[l] = lenbuf[l],
         Unwritten(l)' = Unwritten(l), Closing(l)' = Closing(l)
  PROVE  Bytes(l)'
<1> DEFINE w == Drop(wire[l], k)
           u == Unwritten(l)
           e == emitted[l]
           s == shot[l]
<1>1. /\ Len(e) < Len(s)
      /\ w \o u = FlattenSeq(Tail(Frames(l))) \o Closing(l)
  BY NextFrame
<1>2. /\ Frames(l) \in Seq(Seq(Byte)) /\ Len(Frames(l)) = Len(s) - Len(e)
      /\ Len(s) \in Nat /\ Len(e) \in Nat /\ e \in Seq(1..MaxMsg)
      /\ wire[l] \in Seq(Byte)
      /\ \A i \in 1..Len(Frames(l)) : Frames(l)[i] = Frame(s[Len(e) + i])
  BY PartsAre
<1>3. Len(Append(e, m)) = Len(e) + 1
  <2> HIDE DEF e
  <2> QED BY <1>2
<1>4. Frames(l)' = [i \in 1..(Len(s) - (Len(e) + 1)) |-> Frame(s[(Len(e) + 1) + i])]
  BY <1>3 DEF Frames, Frame
<1> DEFINE f == Frames(l)
           g == [i \in 1..(Len(s) - (Len(e) + 1)) |-> Frame(s[(Len(e) + 1) + i])]
<1>5. Tail(f) = g
  <2> DEFINE a == Len(s)
             b == Len(e)
             At(i) == Frame(s[i])
  <2>1. a \in Nat /\ b \in Nat /\ b < a /\ f \in Seq(Seq(Byte)) /\ Len(f) = a - b
    BY <1>1, <1>2
  <2>2. \A i \in 1..Len(f) : f[i] = At(b + i)
    BY <1>2
  <2>3. g = [i \in 1..(a - (b + 1)) |-> At((b + 1) + i)]
    OBVIOUS
  <2> HIDE DEF a, b, At, f, g
  <2>4. f # <<>>
    <3>1. Len(f) # 0
      BY <2>1
    <3> QED BY <3>1, EmptySeq
  <2>5. /\ Tail(f) \in Seq(Seq(Byte)) /\ Len(Tail(f)) = a - (b + 1)
        /\ \A i \in 1..Len(Tail(f)) : Tail(f)[i] = f[i + 1]
    <3>1. /\ Tail(f) \in Seq(Seq(Byte)) /\ Len(Tail(f)) = Len(f) - 1
          /\ \A i \in 1..Len(Tail(f)) : Tail(f)[i] = f[i + 1]
      <4>1. f \in Seq(Seq(Byte))
        BY <2>1
      <4> QED BY <2>4, <4>1, HeadTailProperties
    <3> QED BY <2>1, <3>1
  <2>6. \A i \in 1..(a - (b + 1)) : i + 1 \in 1..Len(f) /\ b + (i + 1) = (b + 1) + i
    <3>1. a \in Nat /\ b \in Nat
      BY <2>1
    <3>2. \A i \in 1..(a - (b + 1)) : i + 1 \in 1..(a - b) /\ b + (i + 1) = (b + 1) + i
      BY <3>1
    <3>3. Len(f) = a - b
      BY <2>1
    <3> QED BY <3>2, <3>3
  <2>7. \A i \in 1..(a - (b + 1)) : Tail(f)[i] = At((b + 1) + i)
    BY <2>2, <2>5, <2>6
  <2>8. Tail(f) = [i \in 1..Len(Tail(f)) |-> Tail(f)[i]]
    <3> DEFINE t == Tail(f)
    <3>1. t \in Seq(Seq(Byte))
      BY <2>5
    <3> HIDE DEF t
    <3>2. t = [i \in 1..Len(t) |-> t[i]]
      BY <3>1
    <3> QED BY <3>2 DEF t
  <2> QED BY <2>3, <2>5, <2>7, <2>8
<1>6. Consumed(l)' = <<>>
  <2>1. SubSeq(lenbuf[l], 1, 0) = <<>>
    <3>1. lenbuf[l] \in Seq(Byte)
      BY ConsumedIs
    <3> QED BY <3>1, EmptySeq
  <2> QED BY <2>1 DEF Consumed
<1>7. w \in Seq(Byte)
  <2> DEFINE x == wire[l]
  <2>1. x \in Seq(Byte) /\ k \in 0..Len(x)
    BY <1>2
  <2> HIDE DEF x
  <2>2. Drop(x, k) \in Seq(Byte)
    BY <2>1, Cut
  <2> QED BY <2>2 DEF x
<1>8. (Consumed(l)' \o wire'[l]) \o Unwritten(l)' = w \o u
  <2>1. <<>> \o w = w
    BY <1>7, ConcatEmptySeq
  <2> QED BY <1>6, <2>1
<1>9. FlattenSeq(Frames(l))' = FlattenSeq(Tail(Frames(l)))
  BY <1>4, <1>5
<1> QED BY <1>1, <1>8, <1>9 DEF Bytes

\* The frame of one more message is to be written.
LEMMA ShootBytes ==
  ASSUME CtrlInv, WireInv, HistInv, NEW l \in Link, Bytes(l), NEW m \in 1..MaxMsg,
         Unwritten(l) = <<>>, Unwritten(l)' = Frame(m), Closing(l) = <<>>, Closing(l)' = <<>>,
         shot'[l] = Append(shot[l], m), emitted'[l] = emitted[l],
         Consumed(l)' = Consumed(l), wire'[l] = wire[l]
  PROVE  Bytes(l)'
<1> DEFINE c == Consumed(l)
           x == wire[l]
           f == Frames(l)
           s == shot[l]
           e == emitted[l]
<1>1. /\ c \in Seq(Byte) /\ x \in Seq(Byte) /\ s \in Seq(1..MaxMsg)
      /\ f \in Seq(Seq(Byte)) /\ Len(f) = Len(s) - Len(e) /\ FlattenSeq(f) \in Seq(Byte)
      /\ Len(s) \in Nat /\ Len(e) \in Nat /\ Len(e) <= Len(s)
      /\ \A i \in 1..Len(f) : f[i] = Frame(s[Len(e) + i])
  BY ConsumedIs, PartsAre
<1>2. Frame(m) \in Seq(Byte)
  BY FrameType
<1>3. (c \o x) \o <<>> = FlattenSeq(f) \o <<>>
  BY DEF Bytes
<1>4. Frames(l)' = [i \in 1..(Len(shot'[l]) - Len(e)) |-> Frame(shot'[l][Len(e) + i])]
  BY DEF Frames, Frame
<1>5. (Consumed(l)' \o wire'[l]) \o Unwritten(l)' = (c \o x) \o Frame(m)
  OBVIOUS
<1>6. Frames(l)' = Append(f, Frame(m))
  <2> DEFINE t == shot'[l]
             At(i) == Frame(t[i])
             g == [i \in 1..(Len(t) - Len(e)) |-> Frame(t[Len(e) + i])]
             a == Append(f, Frame(m))
  <2>1. t = Append(s, m)
    OBVIOUS
  <2> HIDE DEF c, x, f, s, e, t
  <2>2. Len(t) = Len(s) + 1 /\ t[Len(s) + 1] = m /\ \A i \in 1..Len(s) : t[i] = s[i]
    BY <1>1, <2>1
  <2>3. Len(a) = Len(f) + 1 /\ a[Len(f) + 1] = Frame(m) /\ \A i \in 1..Len(f) : a[i] = f[i]
    <3> DEFINE y == Frame(m)
    <3>1. f \in Seq(Seq(Byte)) /\ y \in Seq(Byte)
      BY <1>1, <1>2
    <3> HIDE DEF y
    <3>2. /\ Len(Append(f, y)) = Len(f) + 1 /\ Append(f, y)[Len(f) + 1] = y
          /\ \A i \in 1..Len(f) : Append(f, y)[i] = f[i]
      BY <3>1
    <3> QED BY <3>2 DEF y
  <2>4. a = [i \in 1..Len(a) |-> a[i]]
    <3>1. a \in Seq(Seq(Byte))
      BY <1>1, <1>2
    <3> HIDE DEF a
    <3> QED BY <3>1
  <2> HIDE DEF a
  <2>5. Len(a) = Len(t) - Len(e)
    BY <1>1, <2>2, <2>3
  <2>6. ASSUME NEW i \in 1..(Len(t) - Len(e)) PROVE a[i] = Frame(t[Len(e) + i])
    <3>1. \/ i \in 1..Len(f) /\ Len(e) + i \in 1..Len(s)
          \/ i = Len(f) + 1 /\ Len(e) + i = Len(s) + 1
      <4>1. /\ Len(f) = Len(s) - Len(e) /\ Len(t) = Len(s) + 1
            /\ Len(s) \in Nat /\ Len(e) \in Nat /\ Len(e) <= Len(s)
        BY <1>1, <2>2
      <4> DEFINE p == Len(f)
                 q == Len(s)
                 r == Len(e)
      <4>2. q \in Nat /\ r \in Nat /\ r <= q /\ p = q - r /\ i \in 1..((q + 1) - r)
        BY <2>6, <4>1
      <4> HIDE DEF p, q, r
      <4>3. \/ i \in 1..p /\ r + i \in 1..q
            \/ i = p + 1 /\ r + i = q + 1
        BY <4>2
      <4> QED BY <4>3 DEF p, q, r
    <3>2. CASE i \in 1..Len(f) /\ Len(e) + i \in 1..Len(s)
      BY <1>1, <2>2, <2>3, <3>2
    <3>3. CASE i = Len(f) + 1 /\ Len(e) + i = Len(s) + 1
      BY <2>2, <2>3, <3>3
    <3> QED BY <3>1, <3>2, <3>3
  <2>7. a = g
    BY <2>4, <2>5, <2>6
  <2> QED BY <1>4, <2>7 DEF a, e, t
<1>7. FlattenSeq(Frames(l))' = FlattenSeq(f) \o Frame(m)
  <2>1. FlattenSeq(Frames(l))' = FlattenSeq(Append(f, Frame(m)))
    BY <1>6
  <2> HIDE DEF f
  <2> QED BY <1>1, <1>2, <2>1, FlattenLast
<1> HIDE DEF c, x, f
<1>8. c \o x = FlattenSeq(f)
  <2>1. c \o x \in Seq(Byte)
    BY <1>1, ConcatProperties
  <2> DEFINE y == c \o x
             z == FlattenSeq(f)
  <2>2. y \in Seq(Byte) /\ z \in Seq(Byte) /\ y \o <<>> = z \o <<>>
    BY <1>1, <1>3, <2>1
  <2> HIDE DEF y, z
  <2>3. y = z
    BY <2>2, ConcatEmptySeq
  <2> QED BY <2>3 DEF y, z
<1>9. (FlattenSeq(f) \o Frame(m)) \o <<>> = FlattenSeq(f) \o Frame(m)
  <2>1. FlattenSeq(f) \o Frame(m) \in Seq(Byte)
    BY <1>1, <1>2, ConcatProperties
  <2> QED BY <2>1, ConcatEmptySeq
<1> QED BY <1>5, <1>7, <1>8, <1>9 DEF Bytes

\* The wire takes a of what is still to be written, and b is left.
LEMMA WriteBytes ==
  ASSUME CtrlInv, WireInv, HistInv, NEW l \in Link, Bytes(l),
         NEW a \in Seq(Byte), NEW b \in Seq(Byte), Unwritten(l) = a \o b,
         wire'[l] = wire[l] \o a, Unwritten(l)' = b, Consumed(l)' = Consumed(l),
         shot'[l] = shot[l], emitted'[l] = emitted[l], Closing(l)' = Closing(l)
  PROVE  Bytes(l)'
<1> DEFINE c == Consumed(l)
           x == wire[l]
<1>1. c \in Seq(Byte) /\ x \in Seq(Byte)
  BY ConsumedIs, PartsAre
<1>2. FlattenSeq(Frames(l))' = FlattenSeq(Frames(l))
  BY DEF Frames, Frame
<1>3. (c \o x) \o (a \o b) = FlattenSeq(Frames(l)) \o Closing(l)
  BY DEF Bytes
<1>4. (Consumed(l)' \o wire'[l]) \o Unwritten(l)' = (c \o (x \o a)) \o b
  OBVIOUS
<1> HIDE DEF c, x
<1>5. (c \o (x \o a)) \o b = (c \o x) \o (a \o b)
  <2>1. IsBytes(c) /\ IsBytes(x) /\ IsBytes(a) /\ IsBytes(b)
    BY <1>1 DEF IsBytes
  <2>2. Cat(Cat(c, Cat(x, a)), b) = Cat(Cat(c, x), Cat(a, b))
    BY <2>1, CatFacts
  <2> QED BY <2>2 DEF Cat
<1> QED BY <1>2, <1>3, <1>4, <1>5 DEF Bytes

\* The end-of-stream header follows the last frame.
LEMMA EosBytes ==
  ASSUME CtrlInv, WireInv, HistInv, NEW l \in Link, Bytes(l),
         Unwritten(l) = <<>>, Unwritten(l)' = <<>>, Closing(l) = <<>>, Closing(l)' = Eos,
         wire'[l] = wire[l] \o Eos, Consumed(l)' = Consumed(l),
         shot'[l] = shot[l], emitted'[l] = emitted[l]
  PROVE  Bytes(l)'
<1> DEFINE c == Consumed(l)
           x == wire[l]
           z == FlattenSeq(Frames(l))
<1>1. c \in Seq(Byte) /\ x \in Seq(Byte) /\ z \in Seq(Byte) /\ Eos \in Seq(Byte)
  BY ConsumedIs, PartsAre, FrameType
<1>2. FlattenSeq(Frames(l))' = z
  BY DEF Frames, Frame
<1>3. (c \o x) \o <<>> = z \o <<>>
  BY DEF Bytes
<1>4. (Consumed(l)' \o wire'[l]) \o Unwritten(l)' = (c \o (x \o Eos)) \o <<>>
  OBVIOUS
<1> HIDE DEF c, x, z
<1>5. (c \o (x \o Eos)) \o <<>> = c \o (x \o Eos)
  <2>1. IsBytes(c) /\ IsBytes(x) /\ IsBytes(Eos)
    BY <1>1 DEF IsBytes
  <2>2. IsBytes(Cat(c, Cat(x, Eos)))
    BY <2>1, CatFacts
  <2>3. c \o (x \o Eos) \in Seq(Byte)
    BY <2>2 DEF IsBytes, Cat
  <2> QED BY <2>3, ConcatEmptySeq
<1>6. c \o (x \o Eos) = (c \o x) \o Eos
  <2>1. IsBytes(c) /\ IsBytes(x) /\ IsBytes(Eos)
    BY <1>1 DEF IsBytes
  <2>2. Cat(c, Cat(x, Eos)) = Cat(Cat(c, x), Eos)
    BY <2>1, CatFacts
  <2> QED BY <2>2 DEF Cat
<1>7. c \o x = z
  <2>1. c \o x \in Seq(Byte)
    BY <1>1, ConcatProperties
  <2> DEFINE y == c \o x
  <2>2. y \in Seq(Byte) /\ y \o <<>> = z \o <<>>
    BY <1>3, <2>1
  <2> HIDE DEF y
  <2>3. y = z
    BY <1>1, <2>2, ConcatEmptySeq
  <2> QED BY <2>3 DEF y
<1> QED BY <1>2, <1>4, <1>5, <1>6, <1>7 DEF Bytes

\* Once there is a connection, a reader that is not alive has exited.
LEMMA ReaderGone ==
  ASSUME CtrlInv, ConnInv, NEW l \in Link, fdOut[l] = "open",
         ~Alive(To(l)) \/ fdIn[l] = "closed"
  PROVE  ~Reads(l)
<1>1. LinkConn(l)
  BY DEF ConnInv
<1>2. srv[l] = "done" /\ cli[l] \in {"connected", "nonblocking", "done"}
  BY <1>1 DEF LinkConn
<1>3. pc[To(l)] # "off"
  BY <1>1, <1>2 DEF LinkConn
<1>4. fdIn[l] = "closed" => pc[To(l)] \in {"shut", "exited"}
  BY <1>1 DEF LinkConn
<1> QED BY <1>3, <1>4 DEF Reads, Alive

LEMMA ByteStep ==
  ASSUME CtrlInv, ConnInv, WireInv, HistInv, IssueInv, BytesInv, [Next]_vars
  PROVE  BytesInv'
<1> DEFINE Buffers(i) == /\ curstate'[i] = curstate[i] /\ lenbuf'[i] = lenbuf[i]
                         /\ lenctr'[i] = lenctr[i] /\ databuf'[i] = databuf[i]
                         /\ datactr'[i] = datactr[i] /\ emitted'[i] = emitted[i]
<1>0. /\ program' = program /\ Link' = Link /\ program \in Programs /\ Nodes \subseteq Node
      /\ pc \in [Node -> Points] /\ todo \in [Node -> Seq(EndSet)]
      /\ \A i \in Link : /\ From(i)' = From(i) /\ From(i) \in Node /\ To(i)' = To(i)
                         /\ To(i) \in Nodes /\ From(i) \in Nodes
  BY NodesStep, SameProgram, NodesAre, ProgramFacts DEF CtrlInv
<1>1. \A i \in Link : Reads(i)' => Reads(i) /\ Bytes(i)
  <2> SUFFICES ASSUME NEW i \in Link, Reads(i)' PROVE Reads(i)
    BY DEF BytesInv
  <2>1. NodeStep(To(i))
    BY <1>0, NodesStep
  <2>2. pc'[To(i)] \notin {"shut", "exited"}
    BY <1>0 DEF Reads
  <2> QED BY <2>1, <2>2 DEF NodeStep, Reads
<1>2. \A i \in Link : LinkConn(i)
  BY DEF ConnInv
<1>3. /\ wire \in [Link -> Seq(Byte)] /\ left \in [Node -> Seq(Byte)]
      /\ fdOut \in [Link -> {"zero", "open", "closed"}]
      /\ srv \in [Link -> {"none", "socket", "listening", "accepted", "done"}]
  BY DEF WireInv, ConnInv
<1>4. ASSUME NEW i \in Link, Bytes(i), Buffers(i), wire'[i] = wire[i], shot'[i] = shot[i],
             Unwritten(i)' = Unwritten(i), Closing(i)' = Closing(i)
      PROVE  Bytes(i)'
  BY <1>4, BytesSame
\* Nothing changes on the connections.
<1>5. ASSUME \A i \in Link : Unwritten(i)' = Unwritten(i) /\ Closing(i)' = Closing(i),
             UNCHANGED <<readVars, wire, shot, emitted>>
      PROVE  BytesInv'
  <2>1. \A i \in Link : Buffers(i) /\ wire'[i] = wire[i] /\ shot'[i] = shot[i]
    BY <1>5 DEF readVars
  <2> HIDE DEF Buffers
  <2>2. \A i \in Link : Reads(i)' => Bytes(i)'
    BY <1>1, <1>4, <1>5, <2>1
  <2> QED BY <1>0, <2>2 DEF BytesInv
<1>6. ASSUME UNCHANGED <<pc, todo, left>> PROVE \A i \in Link : Unwritten(i)' = Unwritten(i)
  BY <1>0, <1>6, UnwrittenIs DEF Unwritten
<1>7. ASSUME UNCHANGED <<fdOut, srv>> PROVE \A i \in Link : Closing(i)' = Closing(i)
  BY <1>7 DEF Closing, Eos
<1>8. ASSUME NEW n \in Nodes, Start(n) \/ Main(n), pc[n] # "write", pc'[n] # "write"
      PROVE  \A i \in Link : /\ Unwritten(i)' = Unwritten(i)
                             /\ From(i) = n => Unwritten(i) = <<>>
  <2> SUFFICES ASSUME NEW i \in Link
               PROVE  Unwritten(i)' = Unwritten(i) /\ (From(i) = n => Unwritten(i) = <<>>)
    OBVIOUS
  <2>1. CASE From(i) = n
    BY <1>0, <1>8, <2>1, UnwrittenIs DEF Unwritten
  <2>2. CASE From(i) # n
    <3>1. Local(n)
      BY <1>8, LocalSteps
    <3>2. /\ pc'[From(i)] = pc[From(i)] /\ todo'[From(i)] = todo[From(i)]
          /\ left'[From(i)] = left[From(i)]
      BY <1>0, <2>2, <3>1 DEF Local
    <3> QED BY <1>0, <2>2, <3>2, UnwrittenIs DEF Unwritten
  <2> QED BY <2>1, <2>2
\* The process at the head of whose ends is the writer's end of l.
<1>9. ASSUME NEW n \in Nodes, Start(n) \/ Main(n), NEW l \in Link, Head(todo[n])[2] = l,
             pc'[n] = "write" => UNCHANGED todo
      PROVE  \A i \in Link \ {l} : Unwritten(i)' = Unwritten(i)
  <2> SUFFICES ASSUME NEW i \in Link \ {l} PROVE Unwritten(i)' = Unwritten(i)
    OBVIOUS
  <2>1. CASE From(i) = n
    <3>1. Unwritten(i) = <<>>
      BY <1>9, <2>1 DEF Unwritten
    <3>2. Unwritten(i)' = <<>>
      BY <1>0, <1>9, <2>1, UnwrittenIs
    <3> QED BY <3>1, <3>2
  <2>2. CASE From(i) # n
    <3>1. Local(n)
      BY <1>9, LocalSteps
    <3>2. /\ pc'[From(i)] = pc[From(i)] /\ todo'[From(i)] = todo[From(i)]
          /\ left'[From(i)] = left[From(i)]
      BY <1>0, <2>2, <3>1 DEF Local
    <3> QED BY <1>0, <2>2, <3>2, UnwrittenIs DEF Unwritten
  <2> QED BY <2>1, <2>2
<1> HIDE DEF Buffers
\* Only connection l changes.
<1>10. ASSUME NEW l \in Link, Reads(l)' => Bytes(l)',
              \A i \in Link \ {l} : /\ Buffers(i) /\ wire'[i] = wire[i] /\ shot'[i] = shot[i]
                                    /\ Unwritten(i)' = Unwritten(i) /\ Closing(i)' = Closing(i)
       PROVE  BytesInv'
  <2>1. \A i \in Link \ {l} : Reads(i)' => Bytes(i)'
    BY <1>1, <1>4, <1>10
  <2> QED BY <1>0, <1>10, <2>1 DEF BytesInv
<1>11. CASE UNCHANGED vars
  <2>1. UNCHANGED <<pc, todo, left, fdOut, srv, readVars, wire, shot, emitted>>
    BY <1>11 DEF vars, mainVars, helpVars
  <2> QED BY <1>5, <1>6, <1>7, <2>1
<1>12. ASSUME NEW n \in Nodes, \/ Start(n) \/ SourceReads(n) \/ SourceWaits(n) \/ SourceEnds(n)
                               \/ \E l \in Link : \/ SpawnClient(n, l) \/ NothingToRead(n, l)
                                                  \/ ReadFails(n, l) \/ DropMessage(n, l)
                                                  \/ ShutInbound(n, l)
       PROVE  BytesInv'
  <2>1. UNCHANGED <<fdOut, srv, readVars, wire, shot, emitted>>
    BY <1>12 DEF Start, SourceReads, SourceWaits, SourceEnds, SpawnClient, NothingToRead, ReadFails,
                 DropMessage, ShutInbound, helpVars
  <2>2. pc[n] # "write"
    BY <1>12 DEF Start, SourceReads, SourceWaits, SourceEnds, FiringSource, SpawnClient, NothingToRead,
                 Firing, Reading, ReadFails, DropMessage, Sending, ShutInbound
  <2>3. pc'[n] # "write"
    <3>1. \/ \E c \in Points \ {"write"} : pc' = [pc EXCEPT ![n] = c]
          \/ pc' = pc
      <4>1. CASE \E l \in Link : ShutInbound(n, l)
        BY <4>1, LoseIs DEF ShutInbound, Points
      <4>2. CASE ~\E l \in Link : ShutInbound(n, l)
        BY <1>12, <4>2 DEF Start, SourceReads, SourceWaits, SourceEnds, SpawnClient, NothingToRead,
               ReadFails, DropMessage, Emit, Emitted, NextTurn, BeginShutdown, Spawned, Exit, Points
      <4> QED BY <4>1, <4>2
    <3> QED BY <1>0, <2>2, <3>1
  <2>4. Start(n) \/ Main(n)
    BY <1>12 DEF Main
  <2>5. \A i \in Link : Unwritten(i)' = Unwritten(i)
    BY <1>8, <2>2, <2>3, <2>4
  <2> QED BY <1>5, <1>7, <2>1, <2>5
<1>13. ASSUME NEW n \in Nodes, NEW l \in Link, SpawnServer(n, l) PROVE BytesInv'
  <2>1. /\ pc[n] = "init" /\ Head(todo[n]) = <<"out", l>> /\ srv' = [srv EXCEPT ![l] = "socket"]
        /\ Spawned(n) /\ UNCHANGED <<fdOut, readVars, wire, shot, emitted>>
    BY <1>13 DEF SpawnServer
  <2>2. From(l) = n /\ InTodo(n, <<"out", l>>)
    BY <2>1, HeadOwn
  <2>3. srv[l] = "none"
    BY <1>2, <2>1, <2>2 DEF LinkConn
  <2>4. \A i \in Link : Closing(i)' = Closing(i)
    BY <1>3, <2>1, <2>3 DEF Closing, Eos
  <2>5. pc'[n] # "write"
    BY <1>0, <2>1 DEF Spawned
  <2>6. Start(n) \/ Main(n)
    BY <1>13 DEF Main
  <2>7. \A i \in Link : Unwritten(i)' = Unwritten(i)
    BY <1>8, <2>1, <2>5, <2>6
  <2> QED BY <1>5, <2>1, <2>4, <2>7
<1>14. ASSUME NEW l \in Link, Helper(l) PROVE BytesInv'
  <2>1. /\ UNCHANGED <<pc, todo, left, readVars, wire, shot, emitted>>
        /\ \/ UNCHANGED <<srv, fdOut>>
           \/ srv[l] # "done" /\ (srv' = [srv EXCEPT ![l] = "listening"] \/ srv' = [srv EXCEPT ![l] = "accepted"])
              /\ UNCHANGED fdOut
           \/ srv[l] # "done" /\ fdOut' = [fdOut EXCEPT ![l] = "open"] /\ srv' = [srv EXCEPT ![l] = "done"]
    BY <1>14 DEF Helper, Listen, Accept, PublishOut, Connect, SetNonBlocking, PublishIn,
                 ServerStep, ClientStep, mainVars
  <2>2. \A i \in Link : Closing(i)' = Closing(i)
    BY <1>3, <2>1 DEF Closing, Eos
  <2>3. \A i \in Link : Unwritten(i)' = Unwritten(i)
    BY <1>6, <2>1
  <2> QED BY <1>5, <2>1, <2>2, <2>3
<1>15. ASSUME NEW n \in Nodes, NEW l \in Link, ReadHeader(n, l) PROVE BytesInv'
  <2>1. /\ pc[n] = "loop" /\ To(l) = n /\ curstate[l] = 0
        /\ UNCHANGED <<fdOut, srv, shot, emitted>>
    BY <1>15, TurnOf DEF ReadHeader, Firing, helpVars
  <2>2. PICK k \in 1..Len(wire[l]) :
          /\ wire' = [wire EXCEPT ![l] = Drop(@, k)]
          /\ lenbuf' = [lenbuf EXCEPT ![l] = Put(@, lenctr[l], SubSeq(wire[l], 1, k))]
          /\ \/ /\ lenctr' = [lenctr EXCEPT ![l] = @ + k] /\ NextTurn(n)
                /\ UNCHANGED <<curstate, datactr, databuf>>
             \/ /\ curstate' = [curstate EXCEPT ![l] = 1] /\ lenctr' = [lenctr EXCEPT ![l] = 0]
                /\ datactr' = [datactr EXCEPT ![l] = 0] /\ databuf' = [databuf EXCEPT ![l] = <<>>]
                /\ pc' = [pc EXCEPT ![n] = "payload"]
             \/ BeginShutdown(n) /\ UNCHANGED <<curstate, lenctr, datactr, databuf>>
    BY <1>15 DEF ReadHeader
  <2>3. pc'[n] # "write"
    BY <1>0, <2>2 DEF NextTurn, BeginShutdown
  <2>4. Start(n) \/ Main(n)
    BY <1>15 DEF Main
  <2>5. \A i \in Link : Unwritten(i)' = Unwritten(i)
    BY <1>8, <2>1, <2>3, <2>4
  <2>6. \A i \in Link : Closing(i)' = Closing(i)
    BY <1>7, <2>1
  <2>7. \A i \in Link \ {l} : Buffers(i)
    BY <2>1, <2>2 DEF Buffers, WireInv
  <2>8. \A i \in Link \ {l} : wire'[i] = wire[i] /\ shot'[i] = shot[i]
    BY <1>3, <2>1, <2>2
  <2>9. ASSUME Reads(l)' PROVE Bytes(l)'
    <3>1. Bytes(l)
      BY <1>1, <2>9
    <3>2. pc'[n] \notin {"shut", "exited"}
      BY <1>0, <2>1, <2>9 DEF Reads
    <3>3. ~BeginShutdown(n)
      BY <1>0, <3>2 DEF BeginShutdown
    <3>4. /\ lenbuf'[l] = Put(lenbuf[l], lenctr[l], SubSeq(wire[l], 1, k))
          /\ wire'[l] = Drop(wire[l], k) /\ shot'[l] = shot[l] /\ emitted'[l] = emitted[l]
      BY <1>3, <2>1, <2>2 DEF WireInv
    <3>5. \/ curstate'[l] = 0 /\ lenctr'[l] = lenctr[l] + k
          \/ curstate'[l] = 1 /\ datactr'[l] = 0 /\ databuf'[l] = <<>>
      BY <2>1, <2>2, <3>3 DEF WireInv
    <3>6. Consumed(l)' = Consumed(l) \o SubSeq(wire[l], 1, k)
      BY <2>1, <3>4, <3>5, HeaderConsumed
    <3> QED BY <2>5, <2>6, <3>1, <3>4, <3>6, ReadKeeps
  <2> QED BY <1>10, <2>5, <2>6, <2>7, <2>8, <2>9
<1>16. ASSUME NEW n \in Nodes, NEW l \in Link, ReadPayload(n, l) PROVE BytesInv'
  <2> DEFINE Got(k) == Put(databuf[l], datactr[l], SubSeq(wire[l], 1, k))
  <2>1. /\ pc[n] \in {"loop", "payload"} /\ To(l) = n /\ curstate[l] = 1
        /\ UNCHANGED <<fdOut, srv, shot, lenbuf>>
    BY <1>16, ReadingIs DEF ReadPayload, helpVars
  <2>2. PICK k \in 1..Len(wire[l]) :
          /\ wire' = [wire EXCEPT ![l] = Drop(@, k)]
          /\ \/ /\ databuf' = [databuf EXCEPT ![l] = Got(k)]
                /\ datactr' = [datactr EXCEPT ![l] = @ + k] /\ NextTurn(n)
                /\ UNCHANGED <<curstate, lenctr, emitted>>
             \/ /\ k = Msglen(l) - datactr[l]
                /\ emitted' = [emitted EXCEPT ![l] = Append(@, Got(k)[1][1])]
                /\ databuf' = [databuf EXCEPT ![l] = <<>>] /\ curstate' = [curstate EXCEPT ![l] = 0]
                /\ lenctr' = [lenctr EXCEPT ![l] = 0] /\ datactr' = [datactr EXCEPT ![l] = 0]
                /\ Emit(n, l, Got(k)[1][1])
    BY <1>16 DEF ReadPayload
  <2>3. pc'[n] # "write"
    BY <1>0, <2>2 DEF NextTurn, Emit
  <2>4. Start(n) \/ Main(n)
    BY <1>16 DEF Main
  <2>5. \A i \in Link : Unwritten(i)' = Unwritten(i)
    BY <1>8, <2>1, <2>3, <2>4
  <2>6. \A i \in Link : Closing(i)' = Closing(i)
    BY <1>7, <2>1
  <2>7. \A i \in Link \ {l} : Buffers(i)
    BY <2>1, <2>2 DEF Buffers, WireInv, HistInv
  <2>8. \A i \in Link \ {l} : wire'[i] = wire[i] /\ shot'[i] = shot[i]
    BY <1>3, <2>1, <2>2
  <2>9. wire'[l] = Drop(wire[l], k) /\ shot'[l] = shot[l] /\ lenbuf'[l] = lenbuf[l]
    BY <1>3, <2>1, <2>2
  <2>10. ASSUME Reads(l)' PROVE Bytes(l)'
    <3>1. Bytes(l)
      BY <1>1, <2>10
    <3>2. CASE /\ databuf' = [databuf EXCEPT ![l] = Got(k)]
               /\ datactr' = [datactr EXCEPT ![l] = @ + k]
               /\ UNCHANGED <<curstate, lenctr, emitted>>
      <4>1. /\ curstate'[l] = 1 /\ datactr'[l] = datactr[l] + k /\ databuf'[l] = Got(k)
            /\ emitted'[l] = emitted[l]
        BY <2>1, <3>2 DEF WireInv
      <4>2. Consumed(l)' = Consumed(l) \o SubSeq(wire[l], 1, k)
        BY <2>1, <2>9, <4>1, PayloadConsumed
      <4> QED BY <2>5, <2>6, <2>9, <3>1, <4>1, <4>2, ReadKeeps
    <3>3. CASE /\ k = Msglen(l) - datactr[l]
               /\ emitted' = [emitted EXCEPT ![l] = Append(@, Got(k)[1][1])]
               /\ curstate' = [curstate EXCEPT ![l] = 0] /\ lenctr' = [lenctr EXCEPT ![l] = 0]
      <4>1. PICK m : m = Got(k)[1][1]
        OBVIOUS
      <4>2. /\ curstate'[l] = 0 /\ lenctr'[l] = 0 /\ emitted'[l] = Append(emitted[l], m)
        BY <3>3, <4>1 DEF WireInv, HistInv
      <4> QED BY <2>1, <2>5, <2>6, <2>9, <3>1, <3>3, <4>2, LastOfFrame
    <3> QED BY <2>2, <3>2, <3>3
  <2> QED BY <1>10, <2>5, <2>6, <2>7, <2>8, <2>10
\* The writer.
<1>17. ASSUME UNCHANGED <<readVars, emitted>> PROVE \A i \in Link : Buffers(i) /\ Consumed(i)' = Consumed(i)
  BY <1>17 DEF readVars, Buffers, Consumed
<1>18. ASSUME NEW n \in Nodes, NEW l \in Link, Shoot(n, l) PROVE BytesInv'
  <2>1. /\ pc[n] = "out" /\ Head(todo[n]) = <<"out", l>> /\ fdOut[l] = "open"
        /\ pc' = [pc EXCEPT ![n] = "write"] /\ left' = [left EXCEPT ![n] = Frame(msg[n])]
        /\ shot' = [shot EXCEPT ![l] = Append(@, msg[n])]
        /\ UNCHANGED <<todo, fdOut, srv, readVars, wire, emitted>>
    BY <1>18 DEF Shoot, Sending, helpVars
  <2>2. From(l) = n /\ msg[n] \in 1..MaxMsg
    BY <1>18, ShootHist
  <2>3. Start(n) \/ Main(n)
    BY <1>18 DEF Main
  <2>4. Head(todo[n])[2] = l
    BY <2>1
  <2>5. \A i \in Link \ {l} : Unwritten(i)' = Unwritten(i)
    BY <1>9, <2>1, <2>3, <2>4
  <2>6. \A i \in Link : Closing(i)' = Closing(i)
    BY <1>7, <2>1
  <2>7. \A i \in Link \ {l} : wire'[i] = wire[i] /\ shot'[i] = shot[i]
    BY <2>1 DEF HistInv
  <2>8. Unwritten(l) = <<>>
    BY <2>1, <2>2 DEF Unwritten
  <2>9. Unwritten(l)' = Frame(msg[n])
    <3>1. pc'[n] = "write" /\ left'[n] = Frame(msg[n]) /\ todo'[n] = todo[n]
      BY <1>0, <1>3, <2>1
    <3> QED BY <1>0, <2>2, <2>4, <3>1, UnwrittenIs
  <2>10. Closing(l) = <<>> /\ Closing(l)' = <<>>
    BY <2>1, <2>6 DEF Closing
  <2>11. /\ shot'[l] = Append(shot[l], msg[n]) /\ emitted'[l] = emitted[l] /\ wire'[l] = wire[l]
         /\ Consumed(l)' = Consumed(l)
    BY <1>17, <2>1 DEF HistInv
  <2>12. ASSUME Reads(l)' PROVE Bytes(l)'
    <3>1. Bytes(l)
      BY <1>1, <2>12
    <3>2. PICK m \in 1..MaxMsg : m = msg[n]
      BY <2>2
    <3> QED BY <2>8, <2>9, <2>10, <2>11, <3>1, <3>2, ShootBytes
  <2> QED BY <1>10, <1>17, <2>1, <2>5, <2>6, <2>7, <2>12
<1>19. ASSUME NEW n \in Nodes, NEW l \in Link, Write(n, l) PROVE BytesInv'
  <2>1. /\ pc[n] = "write" /\ Head(todo[n]) = <<"out", l>>
        /\ UNCHANGED <<fdOut, srv, readVars, shot, emitted>>
    BY <1>19 DEF Write, helpVars
  <2>2. PICK k \in 1..Len(left[n]) :
          /\ wire' = [wire EXCEPT ![l] = @ \o SubSeq(left[n], 1, k)]
          /\ left' = [left EXCEPT ![n] = Drop(@, k)]
          /\ IF k = Len(left[n]) THEN Emitted(n) ELSE UNCHANGED <<pc, todo, turn>>
    BY <1>19 DEF Write
  <2>3. From(l) = n
    BY <2>1, HeadOwn
  <2>4. Start(n) \/ Main(n)
    BY <1>19 DEF Main
  <2>5. Head(todo[n])[2] = l
    BY <2>1
  <2>6. k = Len(left[n]) => pc'[n] # "write"
    BY <1>0, <2>2 DEF Emitted, NextTurn
  <2>7. \A i \in Link \ {l} : Unwritten(i)' = Unwritten(i)
    BY <1>9, <2>2, <2>4, <2>5, <2>6
  <2>8. \A i \in Link : Closing(i)' = Closing(i)
    BY <1>7, <2>1
  <2>9. \A i \in Link \ {l} : wire'[i] = wire[i] /\ shot'[i] = shot[i]
    BY <1>3, <2>1, <2>2
  <2> DEFINE s == left[n]
             a == SubSeq(s, 1, k)
             b == Drop(s, k)
  <2>10. s \in Seq(Byte) /\ Unwritten(l) = s
    BY <1>0, <1>3, <2>1, <2>3, <2>5 DEF Unwritten
  <2>11. a \in Seq(Byte) /\ b \in Seq(Byte) /\ a \o b = s /\ Len(b) = Len(s) - k
    <3>1. k \in 0..Len(s)
      BY <2>10
    <3> HIDE DEF s
    <3>2. /\ SubSeq(s, 1, k) \in Seq(Byte) /\ Drop(s, k) \in Seq(Byte) /\ Len(Drop(s, k)) = Len(s) - k
          /\ SubSeq(s, 1, k) \o Drop(s, k) = s
      BY <2>10, <3>1, Cut
    <3> QED BY <3>2
  <2>12. left'[n] = b /\ wire'[l] = wire[l] \o a
    BY <1>0, <1>3, <2>2
  <2>13. Unwritten(l)' = b
    <3>1. CASE k = Len(s)
      <4>1. b = <<>>
        <5>1. Len(b) = 0
          BY <2>10, <2>11, <3>1
        <5> HIDE DEF b
        <5> QED BY <2>11, <5>1, EmptySeq
      <4> QED BY <1>0, <2>3, <2>6, <3>1, <4>1, UnwrittenIs
    <3>2. CASE k # Len(s)
      <4>1. pc'[n] = "write" /\ todo'[n] = todo[n]
        BY <2>1, <2>2, <3>2
      <4> QED BY <1>0, <2>3, <2>5, <2>12, <4>1, UnwrittenIs
    <3> QED BY <3>1, <3>2
  <2>14. shot'[l] = shot[l] /\ emitted'[l] = emitted[l] /\ Consumed(l)' = Consumed(l)
    BY <1>17, <2>1
  <2>15. ASSUME Reads(l)' PROVE Bytes(l)'
    <3>1. Bytes(l)
      BY <1>1, <2>15
    <3>2. Unwritten(l) = a \o b
      BY <2>10, <2>11
    <3> HIDE DEF a, b
    <3>3. Closing(l)' = Closing(l)
      BY <2>8
    <3> QED BY <2>11, <2>12, <2>13, <2>14, <3>1, <3>2, <3>3, WriteBytes
  <2> QED BY <1>10, <1>17, <2>1, <2>7, <2>8, <2>9, <2>15
<1>20. ASSUME NEW n \in Nodes, NEW l \in Link, WriteLost(n, l) PROVE BytesInv'
  <2>1. /\ pc[n] = "write" /\ Head(todo[n]) = <<"out", l>> /\ Emitted(n)
        /\ ~Alive(To(l)) \/ fdIn[l] = "closed"
        /\ UNCHANGED <<fdOut, srv, readVars, wire, shot, emitted>>
    BY <1>20 DEF WriteLost, helpVars
  <2>2. From(l) = n
    BY <2>1, HeadOwn
  <2>3. fdOut[l] = "open"
    BY <1>2, <2>1, <2>2 DEF LinkConn
  <2>4. ~Reads(l)
    BY <2>1, <2>3, ReaderGone
  <2>5. (Start(n) \/ Main(n)) /\ Head(todo[n])[2] = l
    BY <1>20, <2>1 DEF Main
  <2>6. pc'[n] # "write"
    BY <1>0, <2>1 DEF Emitted, NextTurn
  <2>7. \A i \in Link \ {l} : Unwritten(i)' = Unwritten(i)
    BY <1>9, <2>5, <2>6
  <2>8. \A i \in Link : Closing(i)' = Closing(i)
    BY <1>7, <2>1
  <2>9. Reads(l)' => Bytes(l)'
    BY <1>1, <2>4
  <2> QED BY <1>10, <1>17, <2>1, <2>7, <2>8, <2>9
<1>21. ASSUME NEW n \in Nodes, NEW l \in Link, BrokenPipe(n, l) PROVE BytesInv'
  <2>1. /\ \/ pc[n] = "write"
           \/ pc[n] = "shut" /\ fdOut[l] = "open"
        /\ Head(todo[n]) = <<"out", l>>
        /\ ~Alive(To(l)) \/ fdIn[l] = "closed"
        /\ pc' = [pc EXCEPT ![n] = "exited"]
        /\ UNCHANGED <<fdOut, srv, readVars, wire, shot, emitted>>
    BY <1>21 DEF BrokenPipe, Exit, helpVars
  <2>2. From(l) = n
    BY <2>1, HeadOwn
  <2>3. fdOut[l] = "open"
    BY <1>2, <2>1, <2>2 DEF LinkConn
  <2>4. ~Reads(l)
    BY <2>1, <2>3, ReaderGone
  <2>5. (Start(n) \/ Main(n)) /\ Head(todo[n])[2] = l
    BY <1>21, <2>1 DEF Main
  <2>6. pc'[n] # "write"
    BY <1>0, <2>1
  <2>7. \A i \in Link \ {l} : Unwritten(i)' = Unwritten(i)
    BY <1>9, <2>5, <2>6
  <2>8. \A i \in Link : Closing(i)' = Closing(i)
    BY <1>7, <2>1
  <2>9. Reads(l)' => Bytes(l)'
    BY <1>1, <2>4
  <2> QED BY <1>10, <1>17, <2>1, <2>7, <2>8, <2>9
<1>22. ASSUME NEW n \in Nodes, NEW l \in Link, ShutOutbound(n, l) PROVE BytesInv'
  <2>1. /\ pc[n] = "shut" /\ Head(todo[n]) = <<"out", l>> /\ LoseSource(n)
        /\ fdOut' = [fdOut EXCEPT ![l] = "closed"]
        /\ UNCHANGED <<srv, readVars, shot, emitted>>
        /\ \/ fdOut[l] = "zero" /\ UNCHANGED wire
           \/ fdOut[l] = "open" /\ wire' = [wire EXCEPT ![l] = @ \o Eos]
           \/ fdOut[l] = "open" /\ (~Alive(To(l)) \/ fdIn[l] = "closed") /\ UNCHANGED wire
    BY <1>22 DEF ShutOutbound, helpVars
  <2>2. From(l) = n
    BY <2>1, HeadOwn
  <2>3. Start(n) \/ Main(n)
    BY <1>22 DEF Main
  <2>4. pc'[n] # "write"
    BY <1>0, <2>1, LoseIs
  <2>5. \A i \in Link : Unwritten(i)' = Unwritten(i) /\ (From(i) = n => Unwritten(i) = <<>>)
    BY <1>8, <2>1, <2>3, <2>4
  <2>6. \A i \in Link \ {l} : Closing(i)' = Closing(i)
    BY <1>3, <2>1 DEF Closing, Eos
  <2>7. \A i \in Link \ {l} : wire'[i] = wire[i] /\ shot'[i] = shot[i]
    BY <1>3, <2>1
  <2>8. fdOut'[l] = "closed" /\ srv'[l] = srv[l] /\ shot'[l] = shot[l] /\ emitted'[l] = emitted[l]
    BY <1>3, <2>1
  <2>9. Unwritten(l) = <<>> /\ Unwritten(l)' = <<>> /\ Consumed(l)' = Consumed(l)
    BY <1>17, <2>1, <2>2, <2>5
  <2>10. ASSUME Reads(l)' PROVE Bytes(l)'
    <3>1. Bytes(l) /\ Reads(l)
      BY <1>1, <2>10
    <3>2. CASE fdOut[l] = "zero" /\ UNCHANGED wire
      <4>1. srv[l] # "done"
        BY <1>2, <3>2 DEF LinkConn
      <4>2. Closing(l)' = Closing(l) /\ Buffers(l) /\ wire'[l] = wire[l]
        BY <1>17, <2>1, <2>8, <3>2, <4>1 DEF Closing
      <4> QED BY <1>4, <2>8, <2>9, <3>1, <4>2
    <3>3. CASE fdOut[l] = "open" /\ wire' = [wire EXCEPT ![l] = @ \o Eos]
      <4>1. srv[l] = "done"
        BY <1>2, <3>3 DEF LinkConn
      <4>2. Closing(l) = <<>> /\ Closing(l)' = Eos
        BY <2>8, <3>3, <4>1 DEF Closing, Eos
      <4>3. wire'[l] = wire[l] \o Eos
        BY <1>3, <3>3
      <4> QED BY <2>8, <2>9, <3>1, <4>2, <4>3, EosBytes
    <3>4. CASE fdOut[l] = "open" /\ (~Alive(To(l)) \/ fdIn[l] = "closed")
      BY <3>1, <3>4, ReaderGone
    <3> QED BY <2>1, <3>2, <3>3, <3>4
  <2> QED BY <1>10, <1>17, <2>1, <2>5, <2>6, <2>7, <2>10
<1> QED BY <1>11, <1>12, <1>13, <1>14, <1>15, <1>16, <1>18, <1>19, <1>20, <1>21, <1>22 DEF Next, Main

-----------------------------------------------------------------------------
(* The invariant, and what it says.                                        *)

IInv == CtrlInv /\ ConnInv /\ WireInv /\ HistInv /\ IssueInv /\ BytesInv

LEMMA InitCtrl == Init => CtrlInv /\ ConnInv
<1> SUFFICES ASSUME Init PROVE CtrlInv /\ ConnInv
  OBVIOUS
<1>0. program \in Programs /\ MaxMsg \in Nat
  BY SNLengths DEF Init
<1>1. Nodes \subseteq Node /\ \A l \in Link : From(l) \in Node /\ To(l) \in Node
  BY <1>0, NodesAre, ProgramFacts
<1>2. \A n \in Node : pc[n] = "off" /\ turn[n] = 1
  BY DEF Init
<1>3. ASSUME NEW n \in Nodes PROVE NodeCtrl(n)
  <2>1. Len(Operators(n)) \in Nat \ {0}
    BY <1>0, OperatorsAre
  <2>2. turn[n] \in 1..Len(Operators(n))
    BY <1>1, <1>2, <2>1
  <2>3. pc[n] = "off"
    BY <1>1, <1>2
  <2> QED BY <2>2, <2>3 DEF NodeCtrl
<1>4. pc \in [Node -> Points] /\ todo \in [Node -> Seq(EndSet)] /\ turn \in [Node -> Nat]
  <2>1. <<>> \in Seq(EndSet)
    OBVIOUS
  <2> QED BY <2>1 DEF Init, Points
<1>5. made \in [Node -> 0..MaxMsg] /\ msg \in [Node -> 1..MaxMsg \cup {NULL}]
  BY <1>0 DEF Init
<1>6. CtrlInv
  BY <1>0, <1>2, <1>3, <1>4, <1>5 DEF CtrlInv
<1>7. ASSUME NEW l \in Link PROVE LinkConn(l)
  <2>1. srv[l] = "none" /\ cli[l] = "none" /\ fdOut[l] = "zero" /\ fdIn[l] = "zero"
    BY DEF Init
  <2>2. pc[From(l)] = "off" /\ pc[To(l)] = "off"
    BY <1>1, <1>2
  <2> QED BY <2>1, <2>2 DEF LinkConn
<1>8. ConnInv
  BY <1>7 DEF ConnInv, Init
<1> QED BY <1>6, <1>8

LEMMA InitBytes == Init => WireInv /\ HistInv /\ IssueInv /\ BytesInv
<1> SUFFICES ASSUME Init PROVE WireInv /\ HistInv /\ IssueInv /\ BytesInv
  OBVIOUS
<1>0. program \in Programs /\ HdrLen \in Nat \ {0}
  BY SNLengths DEF Init
<1>1. \A l \in Link : /\ From(l) \in Node
                      /\ Strm(l) = 0 \/ Strm(l) \in Link
  BY <1>0, ProgramFacts
<1>2. <<>> \in Seq(Byte) /\ <<>> \in Seq(1..MaxMsg) /\ Len(<<>>) = 0
  OBVIOUS
<1>3. WireInv
  <2>1. /\ wire \in [Link -> Seq(Byte)] /\ left \in [Node -> Seq(Byte)]
        /\ lenbuf \in [Link -> Seq(Byte)] /\ databuf \in [Link -> Seq(Byte)]
    BY <1>2 DEF Init
  <2>2. /\ curstate \in [Link -> {0, 1}] /\ lenctr \in [Link -> Nat] /\ datactr \in [Link -> Nat]
    BY DEF Init
  <2>3. \A l \in Link : LinkWire(l)
    BY <1>0, <1>2 DEF Init, LinkWire
  <2> QED BY <2>1, <2>2, <2>3 DEF WireInv
<1>4. \A l \in Link : shot[l] = <<>> /\ emitted[l] = <<>> /\ Len(shot[l]) = 0 /\ Len(emitted[l]) = 0
  BY <1>2 DEF Init
<1>5. HistInv
  <2>1. shot \in [Link -> Seq(1..MaxMsg)] /\ emitted \in [Link -> Seq(1..MaxMsg)]
    BY <1>2 DEF Init
  <2>2. \A l \in Link : LinkHist(l)
    BY <1>4 DEF LinkHist
  <2> QED BY <2>1, <2>2 DEF HistInv
<1>6. ASSUME NEW l \in Link PROVE LinkIssue(l)
  <2>1. pc[From(l)] = "off" /\ made[From(l)] = 0
    BY <1>1 DEF Init
  <2>2. Issued(l) = 0
    BY <1>1, <1>4, <2>1 DEF Issued
  <2>3. Owed(l) = 0
    BY <2>1 DEF Owed, Pending
  <2> QED BY <1>4, <2>1, <2>2, <2>3 DEF LinkIssue
<1>7. ASSUME NEW l \in Link PROVE Bytes(l)
  <2>1. wire[l] = <<>> /\ lenbuf[l] = <<>> /\ lenctr[l] = 0 /\ curstate[l] = 0 /\ fdOut[l] = "zero"
    BY DEF Init
  <2>2. Consumed(l) = <<>>
    <3>1. SubSeq(<<>>, 1, 0) = <<>>
      BY EmptySeq
    <3> QED BY <2>1, <3>1 DEF Consumed
  <2>3. Unwritten(l) = <<>> /\ Closing(l) = <<>>
    BY <1>1, <2>1 DEF Unwritten, Closing, Init
  <2>4. Frames(l) = <<>>
    <3>1. 1..(Len(shot[l]) - Len(emitted[l])) = {}
      <4>1. Len(shot[l]) = 0 /\ Len(emitted[l]) = 0
        BY <1>4
      <4>2. 1..(0 - 0) = {}
        OBVIOUS
      <4> QED BY <4>1, <4>2
    <3> DEFINE At(i) == Frame(shot[l][Len(emitted[l]) + i])
    <3>2. Frames(l) = [i \in {} |-> At(i)]
      BY <3>1 DEF Frames
    <3> HIDE DEF At
    <3> QED BY <3>2
  <2> QED BY <2>1, <2>2, <2>3, <2>4, FlattenEmpty DEF Bytes
<1> QED BY <1>3, <1>5, <1>6, <1>7 DEF IssueInv, BytesInv

\* In every state the control of the processes, their connections, the buffers
\* of the readers, the history of messages and the bytes fit together.
THEOREM SocketInvariance == Spec => []IInv
<1>1. Init => IInv
  BY InitCtrl, InitBytes DEF IInv
<1>2. IInv /\ [Next]_vars => IInv'
  <2> SUFFICES ASSUME IInv, [Next]_vars PROVE IInv'
    OBVIOUS
  <2>1. CtrlInv /\ ConnInv /\ WireInv /\ HistInv /\ IssueInv /\ BytesInv
    BY DEF IInv
  <2>2. HistInv'
    BY <2>1, HistStep
  <2>3. CtrlInv'
    <3>1. curstate \in [Link -> {0, 1}] /\ emitted \in [Link -> Seq(1..MaxMsg)]
      BY <2>1 DEF WireInv, HistInv
    <3>2. emitted' \in [Link -> Seq(1..MaxMsg)]
      BY <2>1, <2>2, NodesStep, SameProgram DEF HistInv
    <3> QED BY <2>1, <3>1, <3>2, CtrlStep
  <2>4. ConnInv'
    BY <2>1, ConnStep
  <2>5. WireInv'
    BY <2>1, WireStep
  <2>6. IssueInv'
    BY <2>1, IssueStep
  <2>7. BytesInv'
    BY <2>1, ByteStep
  <2> QED BY <2>2, <2>3, <2>4, <2>5, <2>6, <2>7 DEF IInv
<1> QED BY <1>1, <1>2, PTL DEF Spec

\* As long as its reader runs, what a connection holds, in the reader's buffers,
\* on the wire and in the writer's hands, is the frames of the messages not
\* emitted yet, whatever pieces the system calls cut them into.
THEOREM BytesAreAccounted == Spec => []BytesAccounted
<1>1. IInv => BytesAccounted
  BY BytesAre DEF IInv, BytesInv
<1> QED BY <1>1, SocketInvariance, PTL

\* Through any chain of processes, what a connection emits is a run of
\* consecutive messages of the file, the whole beginning of it unless dropping
\* is allowed.
THEOREM RunsWithoutHoles == Spec => []NoHoles
<1>1. IInv => NoHoles
  <2> SUFFICES ASSUME IInv, NEW l \in Link, NEW i \in DOMAIN emitted[l]
               PROVE  emitted[l][i] = i + (IF program.nodrop THEN 0 ELSE emitted[l][1] - 1)
    BY DEF NoHoles
  <2> DEFINE s == shot[l]
             e == emitted[l]
  <2>1. /\ s \in Seq(1..MaxMsg) /\ e \in Seq(1..MaxMsg)
        /\ \A j \in 1..Len(s) : s[j] \in Nat
    BY LinkHistTypes DEF IInv
  <2>2. /\ Len(e) <= Len(s) /\ \A j \in 1..Len(e) : e[j] = s[j]
        /\ \A j \in 1..Len(s) : s[j] = s[1] + j - 1
        /\ program.nodrop /\ Len(s) > 0 => s[1] = 1
    BY DEF IInv, HistInv, LinkHist
  <2> HIDE DEF s, e
  <2>3. i \in 1..Len(e) /\ Len(e) \in Nat /\ Len(s) \in Nat
    BY <2>1 DEF e
  <2>4. i \in 1..Len(s) /\ 1 \in 1..Len(e) /\ 1 \in 1..Len(s) /\ i \in Nat /\ Len(s) > 0
    BY <2>2, <2>3
  <2>5. e[i] = s[1] + i - 1 /\ e[1] = s[1] /\ s[1] \in Nat
    BY <2>1, <2>2, <2>3, <2>4
  <2>6. program.nodrop => s[1] = 1
    BY <2>2, <2>4
  <2>7. e[i] = i + (IF program.nodrop THEN 0 ELSE e[1] - 1)
    BY <2>4, <2>5, <2>6
  <2> QED BY <2>7 DEF e
<1> QED BY <1>1, SocketInvariance, PTL

\* The main thread reads a descriptor only after the helper thread has made it
\* non-blocking.
THEOREM ReadsDoNotBlock == Spec => []ReadsNeverBlock
<1>1. IInv => ReadsNeverBlock
  BY DEF IInv, ConnInv, LinkConn, ReadsNeverBlock
<1> QED BY <1>1, SocketInvariance, PTL

=============================================================================
