------------------------ MODULE LockFreeFifoProofs --------------------------
(***************************************************************************)
(* Theorems about the lock-free queue, for any number of producers, cells  *)
(* and elements: what stale swaps can and cannot do to it, and that a      *)
(* producer who never overlaps with another does not leave the reader      *)
(* asleep.                                                                 *)
(*                                                                         *)
(* The invariant speaks of chains: the list, from the head on, and one     *)
(* chain for every thread that has a cell in hand in fifoput, made of that *)
(* cell and what others have linked to it because they took it for the     *)
(* last one.  Chains never share a cell, end in the end marker, and their  *)
(* last cells are the only ones with that marker; so a swap joins a chain  *)
(* to another one, or would close a chain to a ring.                       *)
(***************************************************************************)
EXTENDS LockFreeFifo, FiniteSetTheorems, SequenceTheorems, WellFoundedInduction, TLAPS

ProducerAt == {"idle", "lock_first", "put", "ic", "tail", "cas", "help", "swing", "inc",
               "test_again", "lock_again", "signal"}
ReaderAt == {"get", "next", "check", "help_get", "dec", "put", "ic", "tail", "cas", "help",
             "swing", "inc", "return", "run", "lock", "wait", "null"}
Places == ProducerAt \cup ReaderAt
InFifoput == {"put", "ic", "tail", "cas", "help", "swing", "inc"}

\* Where threads are, and what their locals hold there.
CtrlInv ==
  /\ \A p \in Producer : pc[p] \in ProducerAt
  /\ pc[Reader] \in ReaderAt
  /\ \A p \in Producer :
       IF pc[p] \in InFifoput \cup {"lock_first"} THEN cl[p] \in Cell ELSE cl[p] = NULL
  /\ cl[Reader] = IF pc[Reader] \in InFifoput THEN Dummy ELSE NULL
  /\ \A t \in Thread :
       IF pc[t] \in {"cas", "help", "swing"} THEN mytail[t] \in Node ELSE mytail[t] = NULL
  /\ cell \in Node \cup {NULL}
  /\ pc[Reader] = "dec" => cell \in Node
  /\ pc[Reader] \in {"return", "run"} => cell \in Cell
  /\ pc[Reader] \in InFifoput => cell = Dummy
  /\ cell \in Cell => pc[Reader] \in {"dec", "return", "run"}

TypeInv ==
  /\ head \in Node /\ tail \in Node /\ count \in Int
  /\ link \in [Node -> Node \cup {End, NULL}]
  /\ data \in [Cell -> Elem \cup {NULL}] /\ allocated \in SUBSET Cell
  /\ mut \in Thread \cup {NULL} /\ waiting \in BOOLEAN
  /\ pc \in [Thread -> Places] /\ nput \in [Producer -> 0..MaxPuts]
  /\ cl \in [Thread -> Node \cup {NULL}] /\ icsame \in [Thread -> BOOLEAN]
  /\ mytail \in [Thread -> Node \cup {NULL}]
  /\ next \in Node \cup {End, NULL}
  /\ sent \in Seq(Elem) /\ done \in Seq(Elem)
  /\ overlap \in BOOLEAN /\ stale \in BOOLEAN

\* Who holds the mutex, and on which call of fifoget the reader is.
MutInv ==
  /\ attempt \in 1..3
  /\ \A p \in Producer : pc[p] = "signal" => mut = p
  /\ \A p \in Producer : mut = p => pc[p] \in InFifoput \cup {"signal"}
  /\ mut = Reader <=> attempt # 1 /\ pc[Reader] \notin {"wait", "null"}
  /\ waiting => pc[Reader] = "wait"
  /\ pc[Reader] \in {"lock", "run"} => attempt = 1
  /\ pc[Reader] = "wait" => attempt = 2

-----------------------------------------------------------------------------
(* Control.                                                                *)

LEMMA InitCtrl == Init => CtrlInv /\ MutInv
<1> SUFFICES ASSUME Init PROVE CtrlInv /\ MutInv
  OBVIOUS
<1>1. CtrlInv
  BY LFThreads, LFCells DEF Init, CtrlInv, Thread, Node, ProducerAt, ReaderAt, InFifoput
<1>2. MutInv
  BY LFThreads DEF Init, MutInv, Thread, InFifoput
<1> QED BY <1>1, <1>2

\* A producer is not the reader.
LEMMA Others == Thread = Producer \cup {Reader} /\ Reader \in Thread /\ Reader \notin Producer
                /\ NULL \notin Thread
BY LFThreads DEF Thread

LEMMA PutKeepsCtrl ==
  ASSUME NEW t \in Thread, TypeInv, CtrlInv, MutInv, FifoPut(t)
  PROVE  CtrlInv' /\ MutInv'
<1> USE Others, LFCells
<1> USE DEF TypeInv, Step, ProducerAt, ReaderAt, InFifoput, listVars, memVars, wakeVars, getVars, putVars, histVars, Node
<1>1. CASE PutStart(t)
  <2>1. CtrlInv'
    BY <1>1 DEF PutStart, CtrlInv
  <2>2. MutInv'
    BY <1>1 DEF PutStart, MutInv
  <2> QED BY <2>1, <2>2
<1>2. CASE PutReadIc(t)
  <2>1. CtrlInv'
    BY <1>2 DEF PutReadIc, CtrlInv
  <2>2. MutInv'
    BY <1>2 DEF PutReadIc, MutInv
  <2> QED BY <2>1, <2>2
<1>3. CASE PutReadTail(t)
  <2>1. CtrlInv'
    BY <1>3 DEF PutReadTail, CtrlInv
  <2>2. MutInv'
    BY <1>3 DEF PutReadTail, MutInv
  <2> QED BY <2>1, <2>2
<1>4. CASE PutLink(t)
  <2>1. CtrlInv'
    <3>1. CASE pc' = [pc EXCEPT ![t] = "swing"] /\ pc[t] = "cas"
      BY <1>4, <3>1 DEF PutLink, CtrlInv
    <3>2. CASE pc' = [pc EXCEPT ![t] = "help"] /\ pc[t] = "cas"
      BY <1>4, <3>2 DEF PutLink, CtrlInv
    <3> QED BY <1>4, <3>1, <3>2 DEF PutLink
  <2>2. MutInv'
    BY <1>4 DEF PutLink, MutInv, Linked
  <2> QED BY <2>1, <2>2
<1>5. CASE PutHelp(t)
  <2>1. CtrlInv'
    BY <1>5 DEF PutHelp, CtrlInv
  <2>2. MutInv'
    BY <1>5 DEF PutHelp, MutInv
  <2> QED BY <2>1, <2>2
<1>6. CASE PutSwing(t)
  <2>1. CtrlInv'
    BY <1>6 DEF PutSwing, CtrlInv
  <2>2. MutInv'
    BY <1>6 DEF PutSwing, MutInv
  <2> QED BY <2>1, <2>2
<1> QED BY <1>1, <1>2, <1>3, <1>4, <1>5, <1>6 DEF FifoPut

LEMMA PutStepKeepsCtrl ==
  ASSUME NEW p \in Producer, TypeInv, CtrlInv, MutInv, PutStep(p)
  PROVE  CtrlInv' /\ MutInv'
<1> USE Others, LFCells
<1> USE DEF TypeInv, Step, ProducerAt, ReaderAt, InFifoput, listVars, memVars, wakeVars, getVars, putVars, histVars, Node
<1>1. CASE PutTest(p)
  <2>1. CtrlInv'
    BY <1>1 DEF PutTest, CtrlInv
  <2>2. MutInv'
    BY <1>1 DEF PutTest, MutInv
  <2> QED BY <2>1, <2>2
<1>2. CASE PutLock(p)
  <2>1. CtrlInv'
    <3>1. CASE pc[p] = "lock_first" /\ pc' = [pc EXCEPT ![p] = "put"]
      BY <1>2, <3>1 DEF PutLock, CtrlInv
    <3>2. CASE pc[p] = "lock_again" /\ pc' = [pc EXCEPT ![p] = "signal"]
      BY <1>2, <3>2 DEF PutLock, CtrlInv
    <3> QED BY <1>2, <3>1, <3>2 DEF PutLock
  <2>2. MutInv'
    BY <1>2 DEF PutLock, MutInv
  <2> QED BY <2>1, <2>2
<1>3. CASE PutCount(p)
  <2>1. CtrlInv'
    BY <1>3 DEF PutCount, CtrlInv
  <2>2. MutInv'
    BY <1>3 DEF PutCount, MutInv
  <2> QED BY <2>1, <2>2
<1>4. CASE PutTestAgain(p)
  <2>1. CtrlInv'
    BY <1>4 DEF PutTestAgain, CtrlInv
  <2>2. MutInv'
    BY <1>4 DEF PutTestAgain, MutInv
  <2> QED BY <2>1, <2>2
<1>5. CASE PutSignal(p)
  <2>1. CtrlInv'
    BY <1>5 DEF PutSignal, CtrlInv
  <2>2. MutInv'
    BY <1>5 DEF PutSignal, MutInv
  <2> QED BY <2>1, <2>2
<1> QED BY <1>1, <1>2, <1>3, <1>4, <1>5, PutKeepsCtrl DEF PutStep

LEMMA GetStepKeepsCtrl ==
  ASSUME TypeInv, CtrlInv, MutInv, GetStep
  PROVE  CtrlInv' /\ MutInv'
<1> USE Others, LFCells
<1> USE DEF TypeInv, Step, ProducerAt, ReaderAt, InFifoput, listVars, memVars, wakeVars, getVars, putVars, histVars, Node
<1>1. CASE GetReadIc
  <2>1. CtrlInv'
    BY <1>1 DEF GetReadIc, CtrlInv
  <2>2. MutInv'
    BY <1>1 DEF GetReadIc, MutInv
  <2> QED BY <2>1, <2>2
<1>2. CASE GetReadNext
  <2>1. CtrlInv'
    BY <1>2 DEF GetReadNext, CtrlInv
  <2>2. MutInv'
    BY <1>2 DEF GetReadNext, MutInv
  <2> QED BY <2>1, <2>2
<1>3. CASE GetPop
  <2>1. CtrlInv'
    <3>1. CASE next = End
      <4>1. pc[Reader] = "check" /\ pc' = [pc EXCEPT ![Reader] = "get"]
            /\ UNCHANGED <<cell, cl, mytail>>
        BY <1>3, <3>1 DEF GetPop
      <4> QED BY <4>1 DEF CtrlInv
    <3>2. CASE next # End
      BY <1>3, <3>2 DEF GetPop, Looked, CtrlInv
    <3> QED BY <3>1, <3>2
  <2>2. MutInv'
    BY <1>3 DEF GetPop, Looked, MutInv
  <2> QED BY <2>1, <2>2
<1>4. CASE GetBehind
  <2>1. CtrlInv'
    BY <1>4 DEF GetBehind, CtrlInv
  <2>2. MutInv'
    BY <1>4 DEF GetBehind, MutInv
  <2> QED BY <2>1, <2>2
<1>5. CASE GetHelp
  <2>1. CtrlInv'
    BY <1>5 DEF GetHelp, CtrlInv
  <2>2. MutInv'
    BY <1>5 DEF GetHelp, MutInv
  <2> QED BY <2>1, <2>2
<1>6. CASE GetCount
  <2>1. CtrlInv'
    BY <1>6 DEF GetCount, CtrlInv
  <2>2. MutInv'
    BY <1>6 DEF GetCount, MutInv
  <2> QED BY <2>1, <2>2
<1>7. CASE GetRecount
  <2>1. CtrlInv'
    BY <1>7 DEF GetRecount, CtrlInv
  <2>2. MutInv'
    BY <1>7 DEF GetRecount, MutInv
  <2> QED BY <2>1, <2>2
<1>8. CASE GetEmpty
  <2>1. CtrlInv'
    BY <1>8 DEF GetEmpty, Looked, CtrlInv
  <2>2. MutInv'
    BY <1>8 DEF GetEmpty, Looked, MutInv
  <2> QED BY <2>1, <2>2
<1>9. CASE GetLock
  <2>1. CtrlInv'
    BY <1>9 DEF GetLock, CtrlInv
  <2>2. MutInv'
    BY <1>9 DEF GetLock, MutInv
  <2> QED BY <2>1, <2>2
<1>10. CASE GetReturn
  <2>1. CtrlInv'
    BY <1>10 DEF GetReturn, CtrlInv
  <2>2. MutInv'
    BY <1>10 DEF GetReturn, MutInv
  <2> QED BY <2>1, <2>2
<1>11. CASE RunAndFree
  <2>1. CtrlInv'
    BY <1>11 DEF RunAndFree, CtrlInv
  <2>2. MutInv'
    BY <1>11 DEF RunAndFree, MutInv
  <2> QED BY <2>1, <2>2
<1> QED BY <1>1, <1>2, <1>3, <1>4, <1>5, <1>6, <1>7, <1>8, <1>9, <1>10, <1>11, PutKeepsCtrl DEF GetStep

-----------------------------------------------------------------------------
(* Chains.                                                                 *)

Root == Thread \cup {NULL}
In(x, s) == \E i \in 1..Len(s) : s[i] = x
OnChain(ch, x) == \E r \in Root : In(x, ch[r])

\* Has t a cell in hand whose link others may set?
HasChain(t) == pc[t] \in {"ic", "tail", "cas", "help"}
\* Has producer p a cell in hand whose link is not yet End?
Prepares(p) == pc[p] \in {"lock_first", "put"}
\* Is the reader between taking the dummy and putting it back?
DummyOut == pc[Reader] = "put" \/ (pc[Reader] = "dec" /\ cell = Dummy)

\* Links lead from cell to cell, and from the last to End; no cell is twice.
Chained(l, ch) ==
  \A r \in Root : \A i \in 1..Len(ch[r]) :
    l[ch[r][i]] = IF i < Len(ch[r]) THEN ch[r][i + 1] ELSE End
Distinct(ch) ==
  \A r, q \in Root : \A i \in 1..Len(ch[r]), j \in 1..Len(ch[q]) :
    ch[r][i] = ch[q][j] => r = q /\ i = j

\* ch[NULL] is the list, ch[t] the chain of thread t.
ShapeInv(ch) ==
  /\ ch \in [Root -> Seq(Node)]
  /\ Len(ch[NULL]) > 0 /\ ch[NULL][1] = head
  /\ \A t \in Thread : IF HasChain(t) THEN Len(ch[t]) > 0 /\ ch[t][1] = cl[t]
                                      ELSE Len(ch[t]) = 0
  /\ Chained(link, ch) /\ Distinct(ch)
  /\ \A x \in Node : ~OnChain(ch, x) => link[x] # End
  /\ In(tail, ch[NULL])

\* Every cell in use is on a chain or in one thread's hand.
PlaceInv(ch) ==
  /\ \A c \in Cell : OnChain(ch, c) => c \in allocated
  /\ \A p \in Producer :
       Prepares(p) => cl[p] \in allocated /\ ~OnChain(ch, cl[p]) /\ cl[p] # cell
  /\ \A p, q \in Producer : Prepares(p) /\ Prepares(q) /\ cl[p] = cl[q] => p = q
  /\ cell \in Cell => cell \in allocated /\ ~OnChain(ch, cell)
  /\ \A c \in allocated :
       OnChain(ch, c) \/ c = cell \/ \E p \in Producer : Prepares(p) /\ c = cl[p]
  /\ OnChain(ch, Dummy) <=> ~DummyOut
  /\ \A p \in Producer : ~In(Dummy, ch[p])
  /\ pc[Reader] \in {"cas", "help"} => In(mytail[Reader], ch[NULL])

\* What a thread has read of the link of the head, or of the tail while it has
\* not moved, is still there.
LinkInv ==
  /\ pc[Reader] \in {"check", "help_get"} => next = End \/ next = link[head]
  /\ pc[Reader] = "help_get" => next # End
  /\ \A t \in Thread : pc[t] = "swing" /\ icsame[t] /\ tail = mytail[t] => link[tail] = cl[t]
  /\ \A t \in Thread : pc[t] = "help" /\ icsame[t] /\ tail = mytail[t] => link[tail] # End

\* older[r]: the threads whose present cell came into their hand before r's.
\* What a thread has read as the tail was in the list then, so it can only be in
\* hand again with a thread that took it later.
OrderInv(ch, older) ==
  /\ older \in [Thread -> SUBSET Thread]
  /\ \A t \in Thread : t \notin older[t]
  /\ \A s, t, r \in Thread : s \in older[t] /\ t \in older[r] => s \in older[r]
  /\ \A t, r \in Thread :
       pc[t] \in {"cas", "help"} /\ In(mytail[t], ch[r]) => t \in older[r]

\* An element is in one cell, or has been handed over, once it is enqueued.
DataInv ==
  /\ \A c \in allocated : data[c] \in Elem
  /\ \A c, d \in allocated : data[c] = data[d] => c = d
  /\ \A i, j \in 1..Len(done) : done[i] = done[j] => i = j
  /\ \A c \in allocated : ~In(data[c], done)
  /\ \A e \in Elem :
       e[2] <= nput[e[1]] <=> (\E c \in allocated : data[c] = e) \/ In(e, done)

HeapInv(ch, older) ==
  /\ TypeInv /\ CtrlInv /\ DataInv /\ LinkInv
  /\ ShapeInv(ch) /\ PlaceInv(ch) /\ OrderInv(ch, older)

\* A cell is on one chain only.
LEMMA Apart ==
  ASSUME NEW ch, Distinct(ch), NEW r \in Root, NEW q \in Root, NEW x,
         In(x, ch[r]), In(x, ch[q])
  PROVE  r = q
BY DEF Distinct, In

\* Cells that chains have in common are at one place of one chain.
LEMMA OnePlace ==
  ASSUME NEW ch, Distinct(ch), NEW u \in Root, NEW w \in Root,
         NEW v \in 1..Len(ch[u]), NEW z \in 1..Len(ch[w]), ch[u][v] = ch[w][z]
  PROVE  u = w /\ v = z
BY DEF Distinct

\* A cell that ends no chain is followed by another one on its chain.
LEMMA Followed ==
  ASSUME NEW ch, ShapeInv(ch), NEW r \in Root, NEW x, In(x, ch[r]), link[x] # End
  PROVE  In(link[x], ch[r]) /\ link[x] \in Node
<1>1. ch[r] \in Seq(Node)
  BY DEF ShapeInv
<1>2. PICK i \in 1..Len(ch[r]) : ch[r][i] = x
  BY DEF In
<1>3. i < Len(ch[r]) /\ link[x] = ch[r][i + 1]
  BY <1>2 DEF ShapeInv, Chained
<1>4. i + 1 \in 1..Len(ch[r])
  BY <1>1, <1>3
<1> QED BY <1>1, <1>3, <1>4 DEF In

\* An end marker is found at the end of a chain.
LEMMA LastOfOne ==
  ASSUME NEW ch, ShapeInv(ch), NEW x \in Node, link[x] = End
  PROVE  \E r \in Root : Len(ch[r]) > 0 /\ ch[r][Len(ch[r])] = x
<1>1. PICK r \in Root : In(x, ch[r])
  BY DEF ShapeInv, OnChain
<1>2. ch[r] \in Seq(Node)
  BY <1>1 DEF ShapeInv
<1>3. PICK i \in 1..Len(ch[r]) : ch[r][i] = x
  BY <1>1 DEF In
<1>4. i < Len(ch[r]) => ch[r][i + 1] \in Node
  BY <1>2, <1>3
<1>5. ~(i < Len(ch[r]))
  BY <1>3, <1>4, LFCells DEF ShapeInv, Chained, Node
<1> QED BY <1>2, <1>3, <1>5

\* The head and the tail are in the list.
LEMMA HeadInList ==
  ASSUME NEW ch, ShapeInv(ch)
  PROVE  NULL \in Root /\ In(head, ch[NULL]) /\ In(tail, ch[NULL]) /\ ch[NULL] \in Seq(Node)
BY DEF ShapeInv, In, Root

-----------------------------------------------------------------------------
(* Steps that leave the links alone.                                       *)

\* The chains and what is in the cells stay as they are.
LEMMA HeapFrame ==
  ASSUME NEW ch, ShapeInv(ch), PlaceInv(ch), DataInv,
         UNCHANGED <<head, link, allocated, data, done, nput, cell>>,
         \A t \in Thread : HasChain(t)' <=> HasChain(t),
         \A t \in Thread : HasChain(t) => cl'[t] = cl[t],
         \A p \in Producer : Prepares(p)' <=> Prepares(p),
         \A p \in Producer : Prepares(p) => cl'[p] = cl[p],
         In(tail', ch[NULL]), DummyOut' <=> DummyOut,
         pc'[Reader] \in {"cas", "help"} => In(mytail'[Reader], ch[NULL])
  PROVE  ShapeInv(ch)' /\ PlaceInv(ch)' /\ DataInv'
<1>1. ShapeInv(ch)'
  BY DEF ShapeInv
<1>2. PlaceInv(ch)'
  BY DEF PlaceInv
<1>3. DataInv'
  BY DEF DataInv
<1> QED BY <1>1, <1>2, <1>3

\* The links that matter stay when the links and the head do, and nobody gets
\* to "help" or "swing" by the step.
LEMMA LinkFrame ==
  ASSUME LinkInv, UNCHANGED <<head, link, tail, next>>, CtrlInv,
         pc'[Reader] \in {"check", "help_get"} => pc[Reader] = pc'[Reader],
         \A t \in Thread : pc'[t] \in {"swing", "help"} =>
           pc[t] = pc'[t] /\ mytail'[t] = mytail[t] /\ cl'[t] = cl[t] /\ (icsame'[t] => icsame[t])
  PROVE  LinkInv'
BY DEF LinkInv

LEMMA OrderFrame ==
  ASSUME NEW ch, NEW older, OrderInv(ch, older),
         \A t \in Thread : pc'[t] \in {"cas", "help"} =>
           pc[t] \in {"cas", "help"} /\ mytail'[t] = mytail[t]
  PROVE  OrderInv(ch, older)'
BY DEF OrderInv

LEMMA PutReadIcKeeps ==
  ASSUME NEW ch, NEW older, HeapInv(ch, older), CtrlInv', NEW t \in Thread, PutReadIc(t)
  PROVE  HeapInv(ch, older)'
<1> USE Others, LFCells DEF HeapInv
<1>1. /\ pc[t] = "ic" /\ pc' = [pc EXCEPT ![t] = "tail"] /\ icsame' = [icsame EXCEPT ![t] = TRUE]
      /\ UNCHANGED <<head, tail, link, count, data, allocated, mut, waiting, nput, cl, mytail,
                     next, attempt, cell, done, sent, overlap, stale>>
  BY DEF PutReadIc, Step, listVars, memVars, wakeVars, getVars, histVars
<1>2. TypeInv'
  BY <1>1 DEF TypeInv, Places, ProducerAt
<1>3. \A u \in Thread : pc'[u] = IF u = t THEN "tail" ELSE pc[u]
  BY <1>1 DEF TypeInv
<1>4. \A u \in Thread : icsame'[u] = IF u = t THEN TRUE ELSE icsame[u]
  BY <1>1 DEF TypeInv
<1>5. ShapeInv(ch)' /\ PlaceInv(ch)' /\ DataInv'
  BY <1>1, <1>3, HeapFrame DEF HasChain, Prepares, DummyOut, ShapeInv, PlaceInv
<1>6. LinkInv'
  BY <1>1, <1>3, <1>4, LinkFrame
<1>7. OrderInv(ch, older)'
  BY <1>1, <1>3, OrderFrame
<1> QED BY <1>2, <1>5, <1>6, <1>7

LEMMA PutReadTailKeeps ==
  ASSUME NEW ch, NEW older, HeapInv(ch, older), CtrlInv', NEW t \in Thread, PutReadTail(t)
  PROVE  HeapInv(ch, older)'
<1> USE Others, LFCells DEF HeapInv
<1>1. /\ pc[t] = "tail" /\ pc' = [pc EXCEPT ![t] = "cas"] /\ mytail' = [mytail EXCEPT ![t] = tail]
      /\ UNCHANGED <<head, tail, link, count, data, allocated, mut, waiting, nput, cl, icsame,
                     next, attempt, cell, done, sent, overlap, stale>>
  BY DEF PutReadTail, Step, listVars, memVars, wakeVars, getVars, histVars
<1>2. TypeInv'
  BY <1>1 DEF TypeInv, Places, ProducerAt
<1>3. \A u \in Thread : pc'[u] = IF u = t THEN "cas" ELSE pc[u]
  BY <1>1 DEF TypeInv
<1>4. \A u \in Thread : mytail'[u] = IF u = t THEN tail ELSE mytail[u]
  BY <1>1 DEF TypeInv
<1>5. In(tail, ch[NULL]) /\ Distinct(ch) /\ NULL \in Root
  BY HeadInList DEF ShapeInv
<1>6. ShapeInv(ch)' /\ PlaceInv(ch)' /\ DataInv'
  <2>1. pc'[Reader] \in {"cas", "help"} => In(mytail'[Reader], ch[NULL])
    BY <1>3, <1>4, <1>5 DEF PlaceInv
  <2> QED BY <1>1, <1>3, <1>5, <2>1, HeapFrame DEF HasChain, Prepares, DummyOut
<1>7. LinkInv'
  BY <1>1, <1>3, <1>4, LinkFrame
<1>8. OrderInv(ch, older)'
  <2>1. ASSUME NEW r \in Thread PROVE ~In(tail, ch[r])
    BY <1>5, <2>1, Apart DEF Root
  <2>2. \A u, r \in Thread :
          pc'[u] \in {"cas", "help"} /\ In(mytail'[u], ch[r]) => u \in older[r]
    BY <1>3, <1>4, <2>1 DEF OrderInv
  <2> QED BY <2>2 DEF OrderInv
<1> QED BY <1>2, <1>6, <1>7, <1>8

\* The compare-and-swap fails, on a cell that is not the last.
LEMMA PutRetryKeeps ==
  ASSUME NEW ch, NEW older, HeapInv(ch, older), CtrlInv', NEW t \in Thread, PutLink(t),
         ~Last(mytail[t])
  PROVE  HeapInv(ch, older)'
<1> USE Others, LFCells DEF HeapInv
<1>1. /\ pc[t] = "cas" /\ pc' = [pc EXCEPT ![t] = "help"]
      /\ UNCHANGED <<head, tail, link, count, data, allocated, mut, waiting, nput, cl, icsame,
                     mytail, next, attempt, cell, done, sent, overlap, stale>>
  BY DEF PutLink, Linked, Step, memVars, wakeVars, putVars, getVars
<1>2. TypeInv'
  BY <1>1 DEF TypeInv, Places, ProducerAt
<1>3. \A u \in Thread : pc'[u] = IF u = t THEN "help" ELSE pc[u]
  BY <1>1 DEF TypeInv
<1>4. ShapeInv(ch)' /\ PlaceInv(ch)' /\ DataInv'
  BY <1>1, <1>3, HeapFrame DEF HasChain, Prepares, DummyOut, ShapeInv, PlaceInv
<1>5. LinkInv'
  BY <1>1, <1>3 DEF LinkInv, Last
<1>6. OrderInv(ch, older)'
  BY <1>1, <1>3, OrderFrame
<1> QED BY <1>2, <1>4, <1>5, <1>6

\* CAS2 moves the tail to the next cell of the list, or leaves it.
TailMoves ==
  /\ tail' = tail \/ (tail' = link[tail] /\ link[tail] # End)
  /\ icsame' \in [Thread -> BOOLEAN]
  /\ \A u \in Thread : icsame'[u] => icsame[u] /\ tail' = tail

LEMMA CAS2Keeps ==
  ASSUME NEW ch, NEW older, HeapInv(ch, older), CtrlInv', NEW t \in Thread, TailMoves,
         pc' \in [Thread -> Places], \A u \in Thread : u # t => pc'[u] = pc[u],
         \/ pc[t] = "help" /\ pc'[t] = "ic"
         \/ pc[t] = "swing" /\ pc'[t] = "inc"
         \/ pc[t] = "help_get" /\ pc'[t] = "get" /\ t = Reader,
         \A u \in Thread : u # t => mytail'[u] = mytail[u],
         mytail' \in [Thread -> Node \cup {NULL}], next' \in Node \cup {End, NULL},
         next' # next => t = Reader,
         UNCHANGED <<head, link, count, data, allocated, mut, waiting, nput, cl,
                     attempt, cell, done, sent, overlap, stale>>
  PROVE  HeapInv(ch, older)'
<1> USE Others, LFCells DEF HeapInv
<1>2. /\ tail' \in {tail, link[tail]} /\ (tail' # tail => In(tail', ch[NULL]) /\ tail' \in Node)
      /\ icsame' \in [Thread -> BOOLEAN]
      /\ \A u \in Thread : icsame'[u] => icsame[u] /\ tail' = tail
  BY HeadInList, Followed DEF TailMoves
<1>3. TypeInv'
  BY <1>2 DEF TypeInv
<1>4. In(tail', ch[NULL])
  BY <1>2, HeadInList
<1>5. ShapeInv(ch)' /\ PlaceInv(ch)' /\ DataInv'
  <2>1. \A u \in Thread : HasChain(u)' <=> HasChain(u)
    BY DEF HasChain
  <2>2. \A p \in Producer : Prepares(p)' <=> Prepares(p)
    BY DEF Prepares
  <2>3. DummyOut' <=> DummyOut
    BY DEF DummyOut
  <2>4. pc'[Reader] \in {"cas", "help"} => In(mytail'[Reader], ch[NULL])
    BY DEF PlaceInv
  <2> QED BY <1>4, <2>1, <2>2, <2>3, <2>4, HeapFrame
<1>6. LinkInv'
  <2>1. ~(pc'[Reader] \in {"check", "help_get"}) \/ (pc'[Reader] = pc[Reader] /\ Reader # t)
    OBVIOUS
  <2>2. Reader # t => next' = next \/ ~(pc[Reader] \in {"check", "help_get"})
    OBVIOUS
  <2> QED BY <1>2, <2>1, <2>2 DEF LinkInv
<1>7. OrderInv(ch, older)'
  <2>1. \A u \in Thread : pc'[u] \in {"cas", "help"} => 
          pc[u] \in {"cas", "help"} /\ mytail'[u] = mytail[u]
    OBVIOUS
  <2> QED BY <2>1, OrderFrame
<1> QED BY <1>3, <1>5, <1>6, <1>7

LEMMA PutHelpKeeps ==
  ASSUME NEW ch, NEW older, HeapInv(ch, older), CtrlInv', NEW t \in Thread, PutHelp(t)
  PROVE  HeapInv(ch, older)'
<1> USE Others, LFCells
<1>1. /\ pc[t] = "help" /\ pc' = [pc EXCEPT ![t] = "ic"] /\ CAS2(t, mytail[t], link[mytail[t]])
      /\ mytail' = [mytail EXCEPT ![t] = NULL] /\ next' = next
      /\ UNCHANGED <<head, link, count, data, allocated, mut, waiting, nput, cl,
                     attempt, cell, done, sent, overlap, stale>>
  BY DEF PutHelp, Step, memVars, wakeVars, getVars, histVars
<1>2. TailMoves
  <2>1. tail = mytail[t] /\ icsame[t] => link[mytail[t]] = link[tail] /\ link[tail] # End
    BY <1>1 DEF HeapInv, LinkInv
  <2>2. CASE tail = mytail[t] /\ icsame[t]
    BY <1>1, <2>1, <2>2 DEF CAS2, Swung, TailMoves
  <2>3. CASE ~(tail = mytail[t] /\ icsame[t])
    BY <1>1, <2>3 DEF CAS2, NotSwung, TailMoves, HeapInv, TypeInv
  <2> QED BY <2>2, <2>3
<1>3. /\ mytail' \in [Thread -> Node \cup {NULL}] /\ next' \in Node \cup {End, NULL}
      /\ \A u \in Thread : u # t => mytail'[u] = mytail[u]
      /\ next' # next => t = Reader
  BY <1>1 DEF HeapInv, TypeInv
<1>4. /\ pc' \in [Thread -> Places] /\ \A u \in Thread : u # t => pc'[u] = pc[u]
      /\ pc[t] = "help" /\ pc'[t] = "ic"
  BY <1>1 DEF HeapInv, TypeInv, Places, ProducerAt, ReaderAt
<1>5. UNCHANGED <<head, link, count, data, allocated, mut, waiting, nput, cl,
                  attempt, cell, done, sent, overlap, stale>>
  BY <1>1
<1> QED BY <1>2, <1>3, <1>4, <1>5, CAS2Keeps

LEMMA PutSwingKeeps ==
  ASSUME NEW ch, NEW older, HeapInv(ch, older), CtrlInv', NEW t \in Thread, PutSwing(t)
  PROVE  HeapInv(ch, older)'
<1> USE Others, LFCells
<1>1. /\ pc[t] = "swing" /\ pc' = [pc EXCEPT ![t] = "inc"] /\ CAS2(t, mytail[t], cl[t])
      /\ mytail' = [mytail EXCEPT ![t] = NULL] /\ next' = next
      /\ UNCHANGED <<head, link, count, data, allocated, mut, waiting, nput, cl,
                     attempt, cell, done, sent, overlap, stale>>
  BY DEF PutSwing, Step, memVars, wakeVars, getVars, histVars
<1>2. TailMoves
  <2>1. tail = mytail[t] /\ icsame[t] => cl[t] = link[tail] /\ link[tail] # End
    BY <1>1 DEF HeapInv, LinkInv, CtrlInv, InFifoput, Node
  <2>2. CASE tail = mytail[t] /\ icsame[t]
    BY <1>1, <2>1, <2>2 DEF CAS2, Swung, TailMoves
  <2>3. CASE ~(tail = mytail[t] /\ icsame[t])
    BY <1>1, <2>3 DEF CAS2, NotSwung, TailMoves, HeapInv, TypeInv
  <2> QED BY <2>2, <2>3
<1>3. /\ mytail' \in [Thread -> Node \cup {NULL}] /\ next' \in Node \cup {End, NULL}
      /\ \A u \in Thread : u # t => mytail'[u] = mytail[u]
      /\ next' # next => t = Reader
  BY <1>1 DEF HeapInv, TypeInv
<1>4. /\ pc' \in [Thread -> Places] /\ \A u \in Thread : u # t => pc'[u] = pc[u]
      /\ pc[t] = "swing" /\ pc'[t] = "inc"
  BY <1>1 DEF HeapInv, TypeInv, Places, ProducerAt, ReaderAt
<1>5. UNCHANGED <<head, link, count, data, allocated, mut, waiting, nput, cl,
                  attempt, cell, done, sent, overlap, stale>>
  BY <1>1
<1> QED BY <1>2, <1>3, <1>4, <1>5, CAS2Keeps

LEMMA GetHelpKeeps ==
  ASSUME NEW ch, NEW older, HeapInv(ch, older), CtrlInv', GetHelp
  PROVE  HeapInv(ch, older)'
<1> USE Others, LFCells
<1>1. /\ pc[Reader] = "help_get" /\ pc' = [pc EXCEPT ![Reader] = "get"] /\ CAS2(Reader, head, next)
      /\ next' = NULL /\ mytail' = mytail
      /\ UNCHANGED <<head, link, count, data, allocated, mut, waiting, nput, cl,
                     attempt, cell, done, sent, overlap, stale>>
  BY DEF GetHelp, Step, memVars, wakeVars, histVars
<1>2. TailMoves
  <2>1. tail = head /\ icsame[Reader] => next = link[tail] /\ link[tail] # End
    BY <1>1 DEF HeapInv, LinkInv
  <2>2. CASE tail = head /\ icsame[Reader]
    BY <1>1, <2>1, <2>2 DEF CAS2, Swung, TailMoves
  <2>3. CASE ~(tail = head /\ icsame[Reader])
    BY <1>1, <2>3 DEF CAS2, NotSwung, TailMoves, HeapInv, TypeInv
  <2> QED BY <2>2, <2>3
<1>3. /\ mytail' \in [Thread -> Node \cup {NULL}] /\ next' \in Node \cup {End, NULL}
      /\ \A u \in Thread : u # Reader => mytail'[u] = mytail[u]
      /\ next' # next => Reader = Reader
  BY <1>1 DEF HeapInv, TypeInv
<1>4. /\ pc' \in [Thread -> Places] /\ \A u \in Thread : u # Reader => pc'[u] = pc[u]
      /\ pc[Reader] = "help_get" /\ pc'[Reader] = "get"
  BY <1>1 DEF HeapInv, TypeInv, Places, ProducerAt, ReaderAt
<1>5. UNCHANGED <<head, link, count, data, allocated, mut, waiting, nput, cl,
                  attempt, cell, done, sent, overlap, stale>>
  BY <1>1
<1> QED BY <1>2, <1>3, <1>4, <1>5, CAS2Keeps

\* A step of t that neither begins nor ends its chain, nor looks at a link.
LEMMA PlainKeeps ==
  ASSUME NEW ch, NEW older, HeapInv(ch, older), CtrlInv', TypeInv', NEW t \in Thread, NEW l,
         pc' = [pc EXCEPT ![t] = l],
         l \notin {"ic", "tail", "cas", "help", "swing", "check", "help_get"},
         ~HasChain(t),
         t \in Producer => (pc[t] \in {"lock_first", "put"} <=> l \in {"lock_first", "put"}),
         DummyOut' <=> DummyOut,
         UNCHANGED <<head, tail, link, data, allocated, nput, cell, done, mytail>>,
         \A u \in Thread : u # t => cl'[u] = cl[u] /\ icsame'[u] = icsame[u],
         t \in Producer /\ Prepares(t) => cl'[t] = cl[t],
         next' # next => t = Reader
  PROVE  HeapInv(ch, older)'
<1> USE Others DEF HeapInv
<1>1. \A u \in Thread : pc'[u] = IF u = t THEN l ELSE pc[u]
  BY DEF TypeInv
<1>2. ShapeInv(ch)' /\ PlaceInv(ch)' /\ DataInv'
  <2>1. \A u \in Thread : HasChain(u)' <=> HasChain(u)
    BY <1>1 DEF HasChain
  <2>2. \A p \in Producer : (Prepares(p)' <=> Prepares(p)) /\ (Prepares(p) => cl'[p] = cl[p])
    BY <1>1 DEF Prepares
  <2>3. \A u \in Thread : HasChain(u) => cl'[u] = cl[u]
    OBVIOUS
  <2>4. pc'[Reader] \in {"cas", "help"} => In(mytail'[Reader], ch[NULL])
    BY <1>1 DEF PlaceInv
  <2>5. In(tail', ch[NULL])
    BY HeadInList
  <2> QED BY <2>1, <2>2, <2>3, <2>4, <2>5, HeapFrame
<1>3. LinkInv'
  BY <1>1 DEF LinkInv
<1>4. OrderInv(ch, older)'
  BY <1>1, OrderFrame
<1> QED BY <1>2, <1>3, <1>4

LEMMA PutLockKeeps ==
  ASSUME NEW ch, NEW older, HeapInv(ch, older), CtrlInv', NEW p \in Producer, PutLock(p)
  PROVE  HeapInv(ch, older)'
<1> USE Others, LFCells
<1>1. TypeInv'
  BY DEF PutLock, Step, HeapInv, TypeInv, Places, ProducerAt, ReaderAt,
         listVars, memVars, wakeVars, putVars, getVars, histVars
<1>2. ASSUME pc[p] = "lock_first", pc' = [pc EXCEPT ![p] = "put"]
      PROVE  HeapInv(ch, older)'
  <2>1. /\ UNCHANGED <<head, tail, link, data, allocated, nput, cell, done, mytail>>
        /\ \A u \in Thread : u # p => cl'[u] = cl[u] /\ icsame'[u] = icsame[u]
        /\ p \in Producer /\ Prepares(p) => cl'[p] = cl[p]
        /\ next' # next => p = Reader
    BY <1>2 DEF PutLock, HeapInv, TypeInv, Prepares,
           listVars, memVars, wakeVars, putVars, getVars, histVars
  <2>2. ~HasChain(p) /\ (DummyOut' <=> DummyOut)
    BY <1>2, <2>1 DEF HasChain, DummyOut, HeapInv, TypeInv, CtrlInv, Node
  <2> QED BY <1>1, <1>2, <2>1, <2>2, PlainKeeps
<1>3. ASSUME pc[p] = "lock_again", pc' = [pc EXCEPT ![p] = "signal"]
      PROVE  HeapInv(ch, older)'
  <2>1. /\ UNCHANGED <<head, tail, link, data, allocated, nput, cell, done, mytail>>
        /\ \A u \in Thread : u # p => cl'[u] = cl[u] /\ icsame'[u] = icsame[u]
        /\ p \in Producer /\ Prepares(p) => cl'[p] = cl[p]
        /\ next' # next => p = Reader
    BY <1>3 DEF PutLock, HeapInv, TypeInv, Prepares,
           listVars, memVars, wakeVars, putVars, getVars, histVars
  <2>2. ~HasChain(p) /\ (DummyOut' <=> DummyOut)
    BY <1>3, <2>1 DEF HasChain, DummyOut, HeapInv, TypeInv, CtrlInv, Node
  <2> QED BY <1>1, <1>3, <2>1, <2>2, PlainKeeps
<1> QED BY <1>2, <1>3 DEF PutLock, Step

LEMMA PutCountKeeps ==
  ASSUME NEW ch, NEW older, HeapInv(ch, older), CtrlInv', NEW p \in Producer, PutCount(p)
  PROVE  HeapInv(ch, older)'
<1> USE Others, LFCells
<1>1. TypeInv'
  BY DEF PutCount, Step, HeapInv, TypeInv, Places, ProducerAt, ReaderAt,
         listVars, memVars, wakeVars, putVars, getVars, histVars
<1>2. ASSUME pc[p] = "inc", pc' = [pc EXCEPT ![p] = "signal"]
      PROVE  HeapInv(ch, older)'
  <2>1. /\ UNCHANGED <<head, tail, link, data, allocated, nput, cell, done, mytail>>
        /\ \A u \in Thread : u # p => cl'[u] = cl[u] /\ icsame'[u] = icsame[u]
        /\ p \in Producer /\ Prepares(p) => cl'[p] = cl[p]
        /\ next' # next => p = Reader
    BY <1>2 DEF PutCount, HeapInv, TypeInv, Prepares,
           listVars, memVars, wakeVars, putVars, getVars, histVars
  <2>2. ~HasChain(p) /\ (DummyOut' <=> DummyOut)
    BY <1>2, <2>1 DEF HasChain, DummyOut, HeapInv, TypeInv, CtrlInv, Node
  <2> QED BY <1>1, <1>2, <2>1, <2>2, PlainKeeps
<1>3. ASSUME pc[p] = "inc", pc' = [pc EXCEPT ![p] = "test_again"]
      PROVE  HeapInv(ch, older)'
  <2>1. /\ UNCHANGED <<head, tail, link, data, allocated, nput, cell, done, mytail>>
        /\ \A u \in Thread : u # p => cl'[u] = cl[u] /\ icsame'[u] = icsame[u]
        /\ p \in Producer /\ Prepares(p) => cl'[p] = cl[p]
        /\ next' # next => p = Reader
    BY <1>3 DEF PutCount, HeapInv, TypeInv, Prepares,
           listVars, memVars, wakeVars, putVars, getVars, histVars
  <2>2. ~HasChain(p) /\ (DummyOut' <=> DummyOut)
    BY <1>3, <2>1 DEF HasChain, DummyOut, HeapInv, TypeInv, CtrlInv, Node
  <2> QED BY <1>1, <1>3, <2>1, <2>2, PlainKeeps
<1> QED BY <1>2, <1>3 DEF PutCount, Step

LEMMA PutTestAgainKeeps ==
  ASSUME NEW ch, NEW older, HeapInv(ch, older), CtrlInv', NEW p \in Producer, PutTestAgain(p)
  PROVE  HeapInv(ch, older)'
<1> USE Others, LFCells
<1>1. TypeInv'
  BY DEF PutTestAgain, Step, HeapInv, TypeInv, Places, ProducerAt, ReaderAt,
         listVars, memVars, wakeVars, putVars, getVars, histVars
<1>2. ASSUME pc[p] = "test_again", pc' = [pc EXCEPT ![p] = "lock_again"]
      PROVE  HeapInv(ch, older)'
  <2>1. /\ UNCHANGED <<head, tail, link, data, allocated, nput, cell, done, mytail>>
        /\ \A u \in Thread : u # p => cl'[u] = cl[u] /\ icsame'[u] = icsame[u]
        /\ p \in Producer /\ Prepares(p) => cl'[p] = cl[p]
        /\ next' # next => p = Reader
    BY <1>2 DEF PutTestAgain, HeapInv, TypeInv, Prepares,
           listVars, memVars, wakeVars, putVars, getVars, histVars
  <2>2. ~HasChain(p) /\ (DummyOut' <=> DummyOut)
    BY <1>2, <2>1 DEF HasChain, DummyOut, HeapInv, TypeInv, CtrlInv, Node
  <2> QED BY <1>1, <1>2, <2>1, <2>2, PlainKeeps
<1>3. ASSUME pc[p] = "test_again", pc' = [pc EXCEPT ![p] = "idle"]
      PROVE  HeapInv(ch, older)'
  <2>1. /\ UNCHANGED <<head, tail, link, data, allocated, nput, cell, done, mytail>>
        /\ \A u \in Thread : u # p => cl'[u] = cl[u] /\ icsame'[u] = icsame[u]
        /\ p \in Producer /\ Prepares(p) => cl'[p] = cl[p]
        /\ next' # next => p = Reader
    BY <1>3 DEF PutTestAgain, HeapInv, TypeInv, Prepares,
           listVars, memVars, wakeVars, putVars, getVars, histVars
  <2>2. ~HasChain(p) /\ (DummyOut' <=> DummyOut)
    BY <1>3, <2>1 DEF HasChain, DummyOut, HeapInv, TypeInv, CtrlInv, Node
  <2> QED BY <1>1, <1>3, <2>1, <2>2, PlainKeeps
<1> QED BY <1>2, <1>3 DEF PutTestAgain, Step

LEMMA PutSignalKeeps ==
  ASSUME NEW ch, NEW older, HeapInv(ch, older), CtrlInv', NEW p \in Producer, PutSignal(p)
  PROVE  HeapInv(ch, older)'
<1> USE Others, LFCells
<1>1. TypeInv'
  BY DEF PutSignal, Step, HeapInv, TypeInv, Places, ProducerAt, ReaderAt,
         listVars, memVars, wakeVars, putVars, getVars, histVars
<1>2. ASSUME pc[p] = "signal", pc' = [pc EXCEPT ![p] = "idle"]
      PROVE  HeapInv(ch, older)'
  <2>1. /\ UNCHANGED <<head, tail, link, data, allocated, nput, cell, done, mytail>>
        /\ \A u \in Thread : u # p => cl'[u] = cl[u] /\ icsame'[u] = icsame[u]
        /\ p \in Producer /\ Prepares(p) => cl'[p] = cl[p]
        /\ next' # next => p = Reader
    BY <1>2 DEF PutSignal, HeapInv, TypeInv, Prepares,
           listVars, memVars, wakeVars, putVars, getVars, histVars
  <2>2. ~HasChain(p) /\ (DummyOut' <=> DummyOut)
    BY <1>2, <2>1 DEF HasChain, DummyOut, HeapInv, TypeInv, CtrlInv, Node
  <2> QED BY <1>1, <1>2, <2>1, <2>2, PlainKeeps
<1> QED BY <1>2 DEF PutSignal, Step

LEMMA GetReadIcKeeps ==
  ASSUME NEW ch, NEW older, HeapInv(ch, older), CtrlInv', GetReadIc
  PROVE  HeapInv(ch, older)'
<1> USE Others, LFCells
<1>1. TypeInv'
  BY DEF GetReadIc, Step, HeapInv, TypeInv, Places, ProducerAt, ReaderAt,
         listVars, memVars, wakeVars, putVars, getVars, histVars
<1>2. ASSUME pc[Reader] = "get", pc' = [pc EXCEPT ![Reader] = "next"]
      PROVE  HeapInv(ch, older)'
  <2>1. /\ UNCHANGED <<head, tail, link, data, allocated, nput, cell, done, mytail>>
        /\ \A u \in Thread : u # Reader => cl'[u] = cl[u] /\ icsame'[u] = icsame[u]
        /\ Reader \in Producer /\ Prepares(Reader) => cl'[Reader] = cl[Reader]
        /\ next' # next => Reader = Reader
    BY <1>2 DEF GetReadIc, HeapInv, TypeInv, Prepares,
           listVars, memVars, wakeVars, putVars, getVars, histVars
  <2>2. ~HasChain(Reader) /\ (DummyOut' <=> DummyOut)
    BY <1>2, <2>1 DEF HasChain, DummyOut, HeapInv, TypeInv, CtrlInv, Node
  <2> QED BY <1>1, <1>2, <2>1, <2>2, PlainKeeps
<1> QED BY <1>2 DEF GetReadIc, Step

LEMMA GetAgainKeeps ==
  ASSUME NEW ch, NEW older, HeapInv(ch, older), CtrlInv', GetPop, next = End
  PROVE  HeapInv(ch, older)'
<1> USE Others, LFCells
<1>1. TypeInv'
  BY DEF GetPop, Step, HeapInv, TypeInv, Places, ProducerAt, ReaderAt,
         listVars, memVars, wakeVars, putVars, getVars, histVars, Looked
<1>2. ASSUME pc[Reader] = "check", pc' = [pc EXCEPT ![Reader] = "get"]
      PROVE  HeapInv(ch, older)'
  <2>1. /\ UNCHANGED <<head, tail, link, data, allocated, nput, cell, done, mytail>>
        /\ \A u \in Thread : u # Reader => cl'[u] = cl[u] /\ icsame'[u] = icsame[u]
        /\ Reader \in Producer /\ Prepares(Reader) => cl'[Reader] = cl[Reader]
        /\ next' # next => Reader = Reader
    BY <1>2 DEF GetPop, HeapInv, TypeInv, Prepares,
           listVars, memVars, wakeVars, putVars, getVars, histVars, Looked
  <2>2. ~HasChain(Reader) /\ (DummyOut' <=> DummyOut)
    BY <1>2, <2>1 DEF HasChain, DummyOut, HeapInv, TypeInv, CtrlInv, Node
  <2> QED BY <1>1, <1>2, <2>1, <2>2, PlainKeeps
<1> QED BY <1>2 DEF GetPop, Step, Looked

LEMMA GetCountKeeps ==
  ASSUME NEW ch, NEW older, HeapInv(ch, older), CtrlInv', GetCount
  PROVE  HeapInv(ch, older)'
<1> USE Others, LFCells
<1>1. TypeInv'
  <2>1. cl' \in [Thread -> Node \cup {NULL}]
    BY DEF GetCount, HeapInv, TypeInv, Node
  <2>2. pc' \in [Thread -> Places] /\ count' \in Int
    BY DEF GetCount, Step, HeapInv, TypeInv, Places, ReaderAt
  <2> QED
    BY <2>1, <2>2 DEF GetCount, HeapInv, TypeInv,
           listVars, memVars, wakeVars, putVars, getVars, histVars
<1>2. ASSUME pc[Reader] = "dec", pc' = [pc EXCEPT ![Reader] = "put"], cell = Dummy
      PROVE  HeapInv(ch, older)'
  <2>1. /\ UNCHANGED <<head, tail, link, data, allocated, nput, cell, done, mytail>>
        /\ \A u \in Thread : u # Reader => cl'[u] = cl[u] /\ icsame'[u] = icsame[u]
        /\ Reader \in Producer /\ Prepares(Reader) => cl'[Reader] = cl[Reader]
        /\ next' # next => Reader = Reader
    BY <1>2 DEF GetCount, HeapInv, TypeInv, Prepares,
           listVars, memVars, wakeVars, putVars, getVars, histVars
  <2>2. ~HasChain(Reader) /\ (DummyOut' <=> DummyOut)
    BY <1>2, <2>1 DEF HasChain, DummyOut, HeapInv, TypeInv, CtrlInv, Node
  <2> QED BY <1>1, <1>2, <2>1, <2>2, PlainKeeps
<1>3. ASSUME pc[Reader] = "dec", pc' = [pc EXCEPT ![Reader] = "return"], cell # Dummy
      PROVE  HeapInv(ch, older)'
  <2>1. /\ UNCHANGED <<head, tail, link, data, allocated, nput, cell, done, mytail>>
        /\ \A u \in Thread : u # Reader => cl'[u] = cl[u] /\ icsame'[u] = icsame[u]
        /\ Reader \in Producer /\ Prepares(Reader) => cl'[Reader] = cl[Reader]
        /\ next' # next => Reader = Reader
    BY <1>3 DEF GetCount, HeapInv, TypeInv, Prepares,
           listVars, memVars, wakeVars, putVars, getVars, histVars
  <2>2. ~HasChain(Reader) /\ (DummyOut' <=> DummyOut)
    BY <1>3, <2>1 DEF HasChain, DummyOut, HeapInv, TypeInv, CtrlInv, Node
  <2> QED BY <1>1, <1>3, <2>1, <2>2, PlainKeeps
<1> QED BY <1>2, <1>3 DEF GetCount, Step

LEMMA GetRecountKeeps ==
  ASSUME NEW ch, NEW older, HeapInv(ch, older), CtrlInv', GetRecount
  PROVE  HeapInv(ch, older)'
<1> USE Others, LFCells
<1>1. TypeInv'
  BY DEF GetRecount, Step, HeapInv, TypeInv, Places, ProducerAt, ReaderAt,
         listVars, memVars, wakeVars, putVars, getVars, histVars
<1>2. ASSUME pc[Reader] = "inc", pc' = [pc EXCEPT ![Reader] = "get"]
      PROVE  HeapInv(ch, older)'
  <2>1. /\ UNCHANGED <<head, tail, link, data, allocated, nput, cell, done, mytail>>
        /\ \A u \in Thread : u # Reader => cl'[u] = cl[u] /\ icsame'[u] = icsame[u]
        /\ Reader \in Producer /\ Prepares(Reader) => cl'[Reader] = cl[Reader]
        /\ next' # next => Reader = Reader
    BY <1>2 DEF GetRecount, HeapInv, TypeInv, Prepares,
           listVars, memVars, wakeVars, putVars, getVars, histVars
  <2>2. ~HasChain(Reader) /\ (DummyOut' <=> DummyOut)
    BY <1>2, <2>1 DEF HasChain, DummyOut, HeapInv, TypeInv, CtrlInv, Node
  <2> QED BY <1>1, <1>2, <2>1, <2>2, PlainKeeps
<1> QED BY <1>2 DEF GetRecount, Step

LEMMA GetEmptyKeeps ==
  ASSUME NEW ch, NEW older, HeapInv(ch, older), CtrlInv', GetEmpty
  PROVE  HeapInv(ch, older)'
<1> USE Others, LFCells
<1>1. TypeInv'
  BY DEF GetEmpty, Step, HeapInv, TypeInv, Places, ProducerAt, ReaderAt,
         listVars, memVars, wakeVars, putVars, getVars, histVars, Looked
<1>2. ASSUME pc[Reader] = "check", pc' = [pc EXCEPT ![Reader] = "lock"]
      PROVE  HeapInv(ch, older)'
  <2>1. /\ UNCHANGED <<head, tail, link, data, allocated, nput, cell, done, mytail>>
        /\ \A u \in Thread : u # Reader => cl'[u] = cl[u] /\ icsame'[u] = icsame[u]
        /\ Reader \in Producer /\ Prepares(Reader) => cl'[Reader] = cl[Reader]
        /\ next' # next => Reader = Reader
    BY <1>2 DEF GetEmpty, HeapInv, TypeInv, Prepares,
           listVars, memVars, wakeVars, putVars, getVars, histVars, Looked
  <2>2. ~HasChain(Reader) /\ (DummyOut' <=> DummyOut)
    BY <1>2, <2>1 DEF HasChain, DummyOut, HeapInv, TypeInv, CtrlInv, Node
  <2> QED BY <1>1, <1>2, <2>1, <2>2, PlainKeeps
<1>3. ASSUME pc[Reader] = "check", pc' = [pc EXCEPT ![Reader] = "wait"]
      PROVE  HeapInv(ch, older)'
  <2>1. /\ UNCHANGED <<head, tail, link, data, allocated, nput, cell, done, mytail>>
        /\ \A u \in Thread : u # Reader => cl'[u] = cl[u] /\ icsame'[u] = icsame[u]
        /\ Reader \in Producer /\ Prepares(Reader) => cl'[Reader] = cl[Reader]
        /\ next' # next => Reader = Reader
    BY <1>3 DEF GetEmpty, HeapInv, TypeInv, Prepares,
           listVars, memVars, wakeVars, putVars, getVars, histVars, Looked
  <2>2. ~HasChain(Reader) /\ (DummyOut' <=> DummyOut)
    BY <1>3, <2>1 DEF HasChain, DummyOut, HeapInv, TypeInv, CtrlInv, Node
  <2> QED BY <1>1, <1>3, <2>1, <2>2, PlainKeeps
<1>4. ASSUME pc[Reader] = "check", pc' = [pc EXCEPT ![Reader] = "null"]
      PROVE  HeapInv(ch, older)'
  <2>1. /\ UNCHANGED <<head, tail, link, data, allocated, nput, cell, done, mytail>>
        /\ \A u \in Thread : u # Reader => cl'[u] = cl[u] /\ icsame'[u] = icsame[u]
        /\ Reader \in Producer /\ Prepares(Reader) => cl'[Reader] = cl[Reader]
        /\ next' # next => Reader = Reader
    BY <1>4 DEF GetEmpty, HeapInv, TypeInv, Prepares,
           listVars, memVars, wakeVars, putVars, getVars, histVars, Looked
  <2>2. ~HasChain(Reader) /\ (DummyOut' <=> DummyOut)
    BY <1>4, <2>1 DEF HasChain, DummyOut, HeapInv, TypeInv, CtrlInv, Node
  <2> QED BY <1>1, <1>4, <2>1, <2>2, PlainKeeps
<1> QED BY <1>2, <1>3, <1>4 DEF GetEmpty, Step, Looked

LEMMA GetLockKeeps ==
  ASSUME NEW ch, NEW older, HeapInv(ch, older), CtrlInv', GetLock
  PROVE  HeapInv(ch, older)'
<1> USE Others, LFCells
<1>1. TypeInv'
  BY DEF GetLock, Step, HeapInv, TypeInv, Places, ProducerAt, ReaderAt,
         listVars, memVars, wakeVars, putVars, getVars, histVars
<1>2. ASSUME pc[Reader] = "lock", pc' = [pc EXCEPT ![Reader] = "get"]
      PROVE  HeapInv(ch, older)'
  <2>1. /\ UNCHANGED <<head, tail, link, data, allocated, nput, cell, done, mytail>>
        /\ \A u \in Thread : u # Reader => cl'[u] = cl[u] /\ icsame'[u] = icsame[u]
        /\ Reader \in Producer /\ Prepares(Reader) => cl'[Reader] = cl[Reader]
        /\ next' # next => Reader = Reader
    BY <1>2 DEF GetLock, HeapInv, TypeInv, Prepares,
           listVars, memVars, wakeVars, putVars, getVars, histVars
  <2>2. ~HasChain(Reader) /\ (DummyOut' <=> DummyOut)
    BY <1>2, <2>1 DEF HasChain, DummyOut, HeapInv, TypeInv, CtrlInv, Node
  <2> QED BY <1>1, <1>2, <2>1, <2>2, PlainKeeps
<1>3. ASSUME pc[Reader] = "wait", pc' = [pc EXCEPT ![Reader] = "get"]
      PROVE  HeapInv(ch, older)'
  <2>1. /\ UNCHANGED <<head, tail, link, data, allocated, nput, cell, done, mytail>>
        /\ \A u \in Thread : u # Reader => cl'[u] = cl[u] /\ icsame'[u] = icsame[u]
        /\ Reader \in Producer /\ Prepares(Reader) => cl'[Reader] = cl[Reader]
        /\ next' # next => Reader = Reader
    BY <1>3 DEF GetLock, HeapInv, TypeInv, Prepares,
           listVars, memVars, wakeVars, putVars, getVars, histVars
  <2>2. ~HasChain(Reader) /\ (DummyOut' <=> DummyOut)
    BY <1>3, <2>1 DEF HasChain, DummyOut, HeapInv, TypeInv, CtrlInv, Node
  <2> QED BY <1>1, <1>3, <2>1, <2>2, PlainKeeps
<1> QED BY <1>2, <1>3 DEF GetLock, Step

LEMMA GetReturnKeeps ==
  ASSUME NEW ch, NEW older, HeapInv(ch, older), CtrlInv', GetReturn
  PROVE  HeapInv(ch, older)'
<1> USE Others, LFCells
<1>1. TypeInv'
  BY DEF GetReturn, Step, HeapInv, TypeInv, Places, ProducerAt, ReaderAt,
         listVars, memVars, wakeVars, putVars, getVars, histVars
<1>2. ASSUME pc[Reader] = "return", pc' = [pc EXCEPT ![Reader] = "run"]
      PROVE  HeapInv(ch, older)'
  <2>1. /\ UNCHANGED <<head, tail, link, data, allocated, nput, cell, done, mytail>>
        /\ \A u \in Thread : u # Reader => cl'[u] = cl[u] /\ icsame'[u] = icsame[u]
        /\ Reader \in Producer /\ Prepares(Reader) => cl'[Reader] = cl[Reader]
        /\ next' # next => Reader = Reader
    BY <1>2 DEF GetReturn, HeapInv, TypeInv, Prepares,
           listVars, memVars, wakeVars, putVars, getVars, histVars
  <2>2. ~HasChain(Reader) /\ (DummyOut' <=> DummyOut)
    BY <1>2, <2>1 DEF HasChain, DummyOut, HeapInv, TypeInv, CtrlInv, Node
  <2> QED BY <1>1, <1>2, <2>1, <2>2, PlainKeeps
<1> QED BY <1>2 DEF GetReturn, Step

LEMMA GetReadNextKeeps ==
  ASSUME NEW ch, NEW older, HeapInv(ch, older), CtrlInv', GetReadNext
  PROVE  HeapInv(ch, older)'
<1> USE Others, LFCells DEF HeapInv
<1>1. /\ pc[Reader] = "next" /\ pc' = [pc EXCEPT ![Reader] = "check"] /\ next' = link[head]
      /\ UNCHANGED <<head, tail, link, count, data, allocated, mut, waiting, nput, cl, icsame,
                     mytail, attempt, cell, done, sent, overlap, stale>>
  BY DEF GetReadNext, Step, listVars, memVars, wakeVars, putVars, histVars
<1>2. TypeInv'
  BY <1>1 DEF TypeInv, Places, ReaderAt
<1>3. \A u \in Thread : pc'[u] = IF u = Reader THEN "check" ELSE pc[u]
  BY <1>1 DEF TypeInv
<1>4. ShapeInv(ch)' /\ PlaceInv(ch)' /\ DataInv'
  BY <1>1, <1>3, HeapFrame DEF HasChain, Prepares, DummyOut, ShapeInv, PlaceInv
<1>5. LinkInv'
  BY <1>1, <1>3 DEF LinkInv
<1>6. OrderInv(ch, older)'
  BY <1>1, <1>3, OrderFrame
<1> QED BY <1>2, <1>4, <1>5, <1>6

LEMMA GetBehindKeeps ==
  ASSUME NEW ch, NEW older, HeapInv(ch, older), CtrlInv', GetBehind
  PROVE  HeapInv(ch, older)'
<1> USE Others, LFCells DEF HeapInv
<1>1. /\ pc[Reader] = "check" /\ pc' = [pc EXCEPT ![Reader] = "help_get"] /\ next # End
      /\ UNCHANGED <<head, tail, link, count, data, allocated, mut, waiting, nput, cl, icsame,
                     mytail, next, attempt, cell, done, sent, overlap, stale>>
  BY DEF GetBehind, Step, listVars, memVars, wakeVars, putVars, getVars, histVars
<1>2. TypeInv'
  BY <1>1 DEF TypeInv, Places, ReaderAt
<1>3. \A u \in Thread : pc'[u] = IF u = Reader THEN "help_get" ELSE pc[u]
  BY <1>1 DEF TypeInv
<1>4. ShapeInv(ch)' /\ PlaceInv(ch)' /\ DataInv'
  BY <1>1, <1>3, HeapFrame DEF HasChain, Prepares, DummyOut, ShapeInv, PlaceInv
<1>5. LinkInv'
  BY <1>1, <1>3 DEF LinkInv
<1>6. OrderInv(ch, older)'
  BY <1>1, <1>3, OrderFrame
<1> QED BY <1>2, <1>4, <1>5, <1>6

LEMMA WakeupKeeps ==
  ASSUME NEW ch, NEW older, HeapInv(ch, older), CtrlInv', SpuriousWakeup
  PROVE  HeapInv(ch, older)'
<1> USE Others, LFCells DEF HeapInv
<1>1. /\ waiting' = FALSE
      /\ UNCHANGED <<head, tail, link, count, data, allocated, mut, pc, nput, cl, icsame,
                     mytail, next, attempt, cell, done, sent, overlap, stale>>
  BY DEF SpuriousWakeup, listVars, memVars, putVars, getVars, histVars
<1>2. TypeInv'
  BY <1>1 DEF TypeInv
<1>3. ShapeInv(ch)' /\ PlaceInv(ch)' /\ DataInv'
  BY <1>1, HeapFrame DEF HasChain, Prepares, DummyOut, ShapeInv, PlaceInv
<1>4. LinkInv'
  BY <1>1 DEF LinkInv
<1>5. OrderInv(ch, older)'
  BY <1>1, OrderFrame
<1> QED BY <1>2, <1>3, <1>4, <1>5

-----------------------------------------------------------------------------
(* A cell is allocated; a cell is freed.                                   *)

LEMMA PutTestKeeps ==
  ASSUME NEW ch, NEW older, HeapInv(ch, older), CtrlInv', NEW p \in Producer, PutTest(p)
  PROVE  HeapInv(ch, older)'
<1> USE Others, LFCells DEF HeapInv
<1>1. PICK c \in Cell \ allocated :
        /\ allocated' = allocated \cup {c}
        /\ data' = [data EXCEPT ![c] = <<p, nput[p] + 1>>]
        /\ link' = [link EXCEPT ![c] = NULL]
        /\ cl' = [cl EXCEPT ![p] = c]
  BY DEF PutTest
<1>2. /\ pc[p] = "idle" /\ nput[p] < MaxPuts /\ nput' = [nput EXCEPT ![p] = @ + 1]
      /\ overlap' \in BOOLEAN /\ \E l \in {"lock_first", "put"} : pc' = [pc EXCEPT ![p] = l]
      /\ UNCHANGED <<head, tail, count, mut, waiting, icsame, mytail, next, attempt, cell, done,
                     sent, stale>>
  BY DEF PutTest, Step, wakeVars, getVars, TypeInv
<1>3. /\ \A u \in Thread : u # p => pc'[u] = pc[u] /\ cl'[u] = cl[u]
      /\ pc'[p] \in {"lock_first", "put"} /\ cl'[p] = c
      /\ pc' \in [Thread -> Places]
  BY <1>1, <1>2 DEF TypeInv, Places, ProducerAt
<1>4. /\ \A x \in Node : x # c => link'[x] = link[x]
      /\ link'[c] = NULL /\ c \in Node
  BY <1>1 DEF TypeInv, Node
<1>5. ~OnChain(ch, c)
  BY <1>1 DEF PlaceInv
<1>6. /\ nput[p] \in 0..MaxPuts /\ nput[p] + 1 \in 1..MaxPuts /\ nput' \in [Producer -> 0..MaxPuts]
      /\ \A q \in Producer : nput'[q] = IF q = p THEN nput[p] + 1 ELSE nput[q]
  <2>1. nput \in [Producer -> 0..MaxPuts] /\ MaxPuts \in Nat
    BY DEF TypeInv
  <2> QED BY <1>2, <2>1
<1>7. <<p, nput[p] + 1>> \in Elem
  BY <1>6 DEF Elem
<1>8. TypeInv'
  BY <1>1, <1>2, <1>3, <1>6, <1>7 DEF TypeInv, Node
<1>9. ShapeInv(ch)'
  <2>1. \A u \in Thread : (HasChain(u)' <=> HasChain(u)) /\ (HasChain(u) => cl'[u] = cl[u])
    BY <1>2, <1>3 DEF HasChain
  <2>2. \A r \in Root : \A i \in 1..Len(ch[r]) : ch[r][i] # c /\ ch[r][i] \in Node
    BY <1>5 DEF OnChain, In, ShapeInv
  <2>3. Chained(link', ch)
    BY <1>4, <2>2 DEF Chained, ShapeInv
  <2>4. \A x \in Node : ~OnChain(ch, x) => link'[x] # End
    BY <1>4 DEF ShapeInv
  <2> QED BY <1>2, <2>1, <2>3, <2>4 DEF ShapeInv
<1>10. PlaceInv(ch)'
  <2>1. \A q \in Producer : Prepares(q)' <=> Prepares(q) \/ q = p
    BY <1>3 DEF Prepares
  <2>2. ~Prepares(p)
    BY <1>2 DEF Prepares
  <2>3. DummyOut' <=> DummyOut
    BY <1>2, <1>3 DEF DummyOut
  <2>4. \A q \in Producer : Prepares(q)' => 
          cl'[q] \in allocated' /\ ~OnChain(ch, cl'[q]) /\ cl'[q] # cell
    BY <1>1, <1>3, <1>5, <2>1 DEF PlaceInv
  <2>5. \A q, s \in Producer : Prepares(q)' /\ Prepares(s)' /\ cl'[q] = cl'[s] => q = s
    BY <1>1, <1>3, <2>1 DEF PlaceInv
  <2>6. \A d \in allocated' :
          OnChain(ch, d) \/ d = cell \/ \E q \in Producer : Prepares(q)' /\ d = cl'[q]
    <3> TAKE d \in allocated'
    <3>1. CASE d = c
      BY <1>3, <2>1, <3>1
    <3>2. CASE d # c
      <4>1. d \in allocated
        BY <1>1, <3>2
      <4>2. \A q \in Producer : Prepares(q) => q # p /\ Prepares(q)' /\ cl'[q] = cl[q]
        BY <1>3, <2>1, <2>2
      <4> QED BY <4>1, <4>2 DEF PlaceInv
    <3> QED BY <3>1, <3>2
  <2>7. pc'[Reader] \in {"cas", "help"} => In(mytail'[Reader], ch[NULL])
    BY <1>2, <1>3 DEF PlaceInv
  <2>8. \A d \in Cell : OnChain(ch, d) => d \in allocated'
    BY <1>1 DEF PlaceInv
  <2>9. cell' \in Cell => cell' \in allocated' /\ ~OnChain(ch, cell')
    BY <1>1, <1>2 DEF PlaceInv
  <2> HIDE DEF HeapInv
  <2>10. (OnChain(ch, Dummy) <=> ~DummyOut) /\ \A q \in Producer : ~In(Dummy, ch[q])
    BY DEF HeapInv, PlaceInv
  <2> QED BY <1>2, <2>3, <2>4, <2>5, <2>6, <2>7, <2>8, <2>9, <2>10 DEF PlaceInv
<1>11. LinkInv'
  <2>1. head # c /\ tail # c /\ head \in Node /\ tail \in Node
    BY <1>5, HeadInList DEF OnChain, TypeInv
  <2> QED BY <1>2, <1>3, <1>4, <2>1 DEF LinkInv
<1>12. OrderInv(ch, older)'
  BY <1>2, <1>3, OrderFrame
<1>13. DataInv'
  <2> DEFINE new == <<p, nput[p] + 1>>
  <2>1. data'[c] = new /\ \A d \in allocated : d # c /\ data'[d] = data[d]
    BY <1>1 DEF TypeInv
  <2>2. new \in Elem /\ new[1] = p /\ new[2] = nput[p] + 1
    BY <1>7
  <2>3. ~(new[2] <= nput[new[1]])
    BY <1>6, <2>2
  <2> HIDE DEF new
  <2>4. (\A d \in allocated : data[d] # new) /\ ~In(new, done)
    BY <2>2, <2>3 DEF DataInv
  <2>5. \A d \in allocated' : data'[d] \in Elem /\ ~In(data'[d], done)
    BY <1>1, <2>1, <2>2, <2>4 DEF DataInv
  <2>6. \A d, e \in allocated' : data'[d] = data'[e] => d = e
    BY <1>1, <2>1, <2>4 DEF DataInv
  <2>7. ASSUME NEW e \in Elem
        PROVE  e[2] <= nput'[e[1]] <=> (\E d \in allocated' : data'[d] = e) \/ In(e, done)
    <3>1. e[1] \in Producer /\ e[2] \in Nat /\ e = <<e[1], e[2]>>
      BY <2>7 DEF Elem
    <3>2. e[2] <= nput'[e[1]] <=> e[2] <= nput[e[1]] \/ e = new
      <4>1. CASE e[1] = p
        <5>1. e = new <=> e[2] = nput[p] + 1
          BY <3>1, <4>1 DEF new
        <5>2. nput[p] \in Nat
          BY <1>6
        <5> QED BY <1>6, <3>1, <4>1, <5>1, <5>2
      <4>2. CASE e[1] # p
        BY <1>6, <2>2, <3>1, <4>2
      <4> QED BY <4>1, <4>2
    <3>3. (\E d \in allocated' : data'[d] = e) <=> (\E d \in allocated : data[d] = e) \/ e = new
      BY <1>1, <2>1
    <3> QED BY <2>7, <3>2, <3>3 DEF DataInv
  <2> QED BY <1>2, <2>5, <2>6, <2>7 DEF DataInv
<1> QED BY <1>8, <1>9, <1>10, <1>11, <1>12, <1>13

LEMMA RunAndFreeKeeps ==
  ASSUME NEW ch, NEW older, HeapInv(ch, older), CtrlInv', RunAndFree
  PROVE  HeapInv(ch, older)'
<1> USE Others, LFCells DEF HeapInv
<1>1. /\ pc[Reader] = "run" /\ pc' = [pc EXCEPT ![Reader] = "get"]
      /\ done' = Append(done, data[cell]) /\ allocated' = allocated \ {cell}
      /\ data' = [data EXCEPT ![cell] = NULL] /\ link' = [link EXCEPT ![cell] = NULL]
      /\ cell' = NULL
      /\ UNCHANGED <<head, tail, count, mut, waiting, nput, cl, icsame, mytail, next, attempt,
                     sent, overlap, stale>>
  BY DEF RunAndFree, Step, wakeVars, putVars, histVars
<1>2. cell \in Cell /\ cell \in Node /\ cell \in allocated /\ ~OnChain(ch, cell)
  BY <1>1 DEF CtrlInv, PlaceInv, Node
<1>3. data[cell] \in Elem /\ ~In(data[cell], done) /\ done \in Seq(Elem)
  BY <1>2 DEF DataInv, TypeInv
<1>4. /\ done' \in Seq(Elem) /\ Len(done') = Len(done) + 1 /\ done'[Len(done) + 1] = data[cell]
      /\ \A i \in 1..Len(done) : done'[i] = done[i]
      /\ Len(done) \in Nat
  BY <1>1, <1>3
<1>5. \A u \in Thread : pc'[u] = IF u = Reader THEN "get" ELSE pc[u]
  BY <1>1 DEF TypeInv
<1>6. link'[cell] = NULL /\ \A x \in Node : x # cell => link'[x] = link[x]
  BY <1>1, <1>2 DEF TypeInv
<1>7. TypeInv'
  <2>1. pc' \in [Thread -> Places]
    BY <1>1 DEF TypeInv, Places, ReaderAt
  <2>2. link' \in [Node -> Node \cup {End, NULL}] /\ data' \in [Cell -> Elem \cup {NULL}]
    BY <1>1 DEF TypeInv
  <2> QED BY <1>1, <1>4, <2>1, <2>2 DEF TypeInv
<1>8. ShapeInv(ch)'
  <2>1. \A u \in Thread : HasChain(u)' <=> HasChain(u)
    BY <1>1, <1>5 DEF HasChain
  <2>2. \A r \in Root : \A i \in 1..Len(ch[r]) : ch[r][i] # cell /\ ch[r][i] \in Node
    BY <1>2 DEF OnChain, In, ShapeInv
  <2>3. Chained(link', ch)
    BY <1>6, <2>2 DEF Chained, ShapeInv
  <2>4. \A x \in Node : ~OnChain(ch, x) => link'[x] # End
    BY <1>6 DEF ShapeInv
  <2> QED BY <1>1, <2>1, <2>3, <2>4 DEF ShapeInv
<1>9. PlaceInv(ch)'
  <2>1. \A q \in Producer : (Prepares(q)' <=> Prepares(q)) /\ cl'[q] = cl[q]
    BY <1>1, <1>5 DEF Prepares
  <2>2. DummyOut' <=> DummyOut
    BY <1>1, <1>5 DEF DummyOut
  <2>3. pc'[Reader] \notin {"cas", "help"}
    BY <1>5
  <2>4. NULL \notin Cell /\ \A c \in Cell : c # NULL
    BY DEF Node
  <2>5. \A q \in Producer : Prepares(q)' => cl'[q] # NULL
    BY <2>1, <2>4 DEF PlaceInv, TypeInv
  <2> QED BY <1>1, <1>2, <2>1, <2>2, <2>3, <2>4, <2>5 DEF PlaceInv
<1>10. LinkInv'
  <2>1. head # cell /\ tail # cell /\ head \in Node /\ tail \in Node
    BY <1>2, HeadInList DEF OnChain, TypeInv
  <2> QED BY <1>1, <1>5, <1>6, <2>1 DEF LinkInv
<1>11. OrderInv(ch, older)'
  BY <1>1, <1>5, OrderFrame
<1>12. DataInv'
  <2>1. \A d \in allocated' : d \in allocated /\ d # cell /\ data'[d] = data[d]
    BY <1>1 DEF TypeInv
  <2>2. \A e : In(e, done') <=> In(e, done) \/ e = data[cell]
    <3>1. \A i \in 1..Len(done') : i \in 1..Len(done) \/ i = Len(done) + 1
      BY <1>4
    <3>2. Len(done) + 1 \in 1..Len(done') /\ \A i \in 1..Len(done) : i \in 1..Len(done')
      BY <1>4
    <3> QED BY <1>4, <3>1, <3>2 DEF In
  <2>3. \A d \in allocated' : data'[d] \in Elem /\ ~In(data'[d], done')
    BY <1>2, <2>1, <2>2 DEF DataInv
  <2>4. \A d, e \in allocated' : data'[d] = data'[e] => d = e
    BY <2>1 DEF DataInv
  <2>5. \A i, j \in 1..Len(done') : done'[i] = done'[j] => i = j
    <3>1. \A i \in 1..Len(done) : done[i] # data[cell]
      BY <1>3 DEF In
    <3>2. \A i \in 1..Len(done') : i \in 1..Len(done) \/ i = Len(done) + 1
      BY <1>4
    <3> QED BY <1>4, <3>1, <3>2 DEF DataInv
  <2>6. ASSUME NEW e \in Elem
        PROVE  (\E d \in allocated' : data'[d] = e) \/ In(e, done')
               <=> (\E d \in allocated : data[d] = e) \/ In(e, done)
    <3>1. \A d \in allocated : d \in allocated' \/ d = cell
      BY <1>1
    <3> QED BY <1>2, <2>1, <2>2, <3>1
  <2> QED BY <1>1, <2>3, <2>4, <2>5, <2>6 DEF DataInv
<1> QED BY <1>7, <1>8, <1>9, <1>10, <1>11, <1>12

-----------------------------------------------------------------------------
(* Chains begin, are joined, and lose their first cell.                    *)

LEMMA PutStartKeeps ==
  ASSUME NEW ch, NEW older, HeapInv(ch, older), CtrlInv', NEW t \in Thread, PutStart(t)
  PROVE  \E n, o : HeapInv(n, o)' /\ n[NULL] = ch[NULL] /\ Len(n[t]) = 1
                   /\ \A q \in Root \ {t} : n[q] = ch[q]
<1> USE Others, LFCells DEF HeapInv
<1>0. PICK k : k = cl[t]
  OBVIOUS
<1> DEFINE n == [ch EXCEPT ![t] = <<k>>]
           o == [r \in Thread |-> IF r = t THEN Thread \ {t} ELSE older[r] \ {t}]
<1>1. /\ pc[t] = "put" /\ pc' = [pc EXCEPT ![t] = "ic"] /\ link' = [link EXCEPT ![cl[t]] = End]
      /\ UNCHANGED <<head, tail, count, data, allocated, mut, waiting, nput, cl, icsame, mytail,
                     next, attempt, cell, done, sent, overlap, stale>>
  BY DEF PutStart, Step, memVars, wakeVars, putVars, getVars, histVars
<1>2. \A u \in Thread : pc'[u] = IF u = t THEN "ic" ELSE pc[u]
  BY <1>1 DEF TypeInv
<1>3. cl[t] = k /\ k \in Node /\ ~OnChain(ch, k) /\ (k = Dummy <=> t = Reader)
  BY <1>0, <1>1 DEF CtrlInv, InFifoput, PlaceInv, Prepares, DummyOut, Node
<1>4. \A x \in Node : link'[x] = IF x = k THEN End ELSE link[x]
  BY <1>1, <1>3 DEF TypeInv
<1>5. ch \in [Root -> Seq(Node)] /\ t \in Root /\ NULL \in Root /\ t # NULL
  BY DEF ShapeInv, Root
<1>6. /\ n \in [Root -> Seq(Node)] /\ n[t] = <<k>>
      /\ \A q \in Root : q # t => n[q] = ch[q]
  BY <1>3, <1>5
<1> HIDE DEF n
<1>7. Len(n[t]) = 1 /\ n[t][1] = k
  BY <1>6
<1>8. \A x, q : q \in Root => (In(x, n[q]) <=> (IF q = t THEN x = k ELSE In(x, ch[q])))
  <2>1. \A x : In(x, n[t]) <=> x = k
    BY <1>7 DEF In
  <2> QED BY <1>6, <2>1
<1>9. Len(ch[t]) = 0
  BY <1>1 DEF ShapeInv, HasChain
<1>10. \A x : OnChain(n, x) <=> OnChain(ch, x) \/ x = k
  <2>1. \A x : ~In(x, ch[t])
    BY <1>9 DEF In
  <2> QED BY <1>5, <1>8, <2>1 DEF OnChain
<1>11. TypeInv'
  BY <1>1, <1>3 DEF TypeInv, Places, ProducerAt
<1>12. ShapeInv(n)'
  <2>1. \A q \in Root : \A i \in 1..Len(ch[q]) : ch[q][i] \in Node /\ ch[q][i] # k
    BY <1>3, <1>5 DEF OnChain, In
  <2>2. Chained(link', n)
    <3> SUFFICES ASSUME NEW q \in Root, NEW i \in 1..Len(n[q])
                 PROVE  link'[n[q][i]] = IF i < Len(n[q]) THEN n[q][i + 1] ELSE End
      BY DEF Chained
    <3>1. CASE q = t
      BY <1>3, <1>4, <1>7, <3>1
    <3>2. CASE q # t
      <4>1. n[q] = ch[q] /\ i \in 1..Len(ch[q])
        BY <1>6, <3>2
      <4>2. link[ch[q][i]] = IF i < Len(ch[q]) THEN ch[q][i + 1] ELSE End
        BY <4>1 DEF ShapeInv, Chained
      <4>3. link'[ch[q][i]] = link[ch[q][i]]
        BY <1>4, <2>1, <4>1
      <4> QED BY <4>1, <4>2, <4>3
    <3> QED BY <3>1, <3>2
  <2>3. Distinct(n)
    <3> SUFFICES ASSUME NEW q \in Root, NEW r \in Root, NEW i \in 1..Len(n[q]),
                        NEW j \in 1..Len(n[r]), n[q][i] = n[r][j]
                 PROVE  q = r /\ i = j
      BY DEF Distinct
    <3>1. CASE q = t /\ r = t
      BY <1>7, <3>1
    <3>2. CASE q = t <=> r # t
      BY <1>6, <1>7, <2>1, <3>2
    <3>3. CASE q # t /\ r # t
      BY <1>6, <3>3 DEF ShapeInv, Distinct
    <3> QED BY <3>1, <3>2, <3>3
  <2>4. \A u \in Thread : IF HasChain(u)' THEN Len(n[u]) > 0 /\ n[u][1] = cl'[u]
                                          ELSE Len(n[u]) = 0
    <3>1. \A u \in Thread : u # t => (HasChain(u)' <=> HasChain(u)) /\ n[u] = ch[u]
      BY <1>2, <1>6 DEF HasChain, Root
    <3>2. HasChain(t)'
      BY <1>2 DEF HasChain
    <3> QED BY <1>1, <1>3, <1>7, <3>1, <3>2 DEF ShapeInv
  <2>5. \A x \in Node : ~OnChain(n, x) => link'[x] # End
    BY <1>4, <1>10 DEF ShapeInv
  <2>6. In(tail', n[NULL]) /\ Len(n[NULL]) > 0 /\ n[NULL][1] = head'
    BY <1>1, <1>5, <1>6 DEF ShapeInv
  <2> QED BY <1>6, <2>2, <2>3, <2>4, <2>5, <2>6 DEF ShapeInv
<1>13. PlaceInv(n)'
  <2>1. \A q \in Producer : Prepares(q)' <=> Prepares(q) /\ q # t
    BY <1>2 DEF Prepares
  <2>2. t \in Producer => Prepares(t)
    BY <1>1 DEF Prepares
  <2>3. \A c \in Cell : OnChain(n, c) => c \in allocated'
    BY <1>1, <1>3, <1>10, <2>2 DEF PlaceInv, Node
  <2>4. \A q \in Producer :
          Prepares(q)' => cl'[q] \in allocated' /\ ~OnChain(n, cl'[q]) /\ cl'[q] # cell'
    <3> TAKE q \in Producer
    <3>1. CASE t \in Producer
      <4>1. Prepares(q)' => cl[q] # k
        BY <1>3, <2>1, <2>2, <3>1 DEF PlaceInv
      <4> QED BY <1>1, <1>10, <2>1, <4>1 DEF PlaceInv
    <3>2. CASE t = Reader
      <4>1. k \notin allocated
        BY <1>3, <3>2 DEF TypeInv
      <4> QED BY <1>1, <1>10, <2>1, <4>1 DEF PlaceInv
    <3> QED BY <3>1, <3>2
  <2>5. \A q, s \in Producer : Prepares(q)' /\ Prepares(s)' /\ cl'[q] = cl'[s] => q = s
    BY <1>1, <2>1 DEF PlaceInv
  <2>6. cell' \in Cell => cell' \in allocated' /\ ~OnChain(n, cell')
    BY <1>1, <1>3, <1>10, <2>2 DEF PlaceInv
  <2>7. \A c \in allocated' :
          OnChain(n, c) \/ c = cell' \/ \E q \in Producer : Prepares(q)' /\ c = cl'[q]
    <3> TAKE c \in allocated'
    <3>1. OnChain(ch, c) \/ c = cell \/ \E q \in Producer : Prepares(q) /\ c = cl[q]
      BY <1>1 DEF PlaceInv
    <3>2. ASSUME NEW q \in Producer, Prepares(q), c = cl[q]
          PROVE  OnChain(n, c) \/ (Prepares(q)' /\ c = cl'[q])
      BY <1>1, <1>3, <1>10, <2>1, <3>2
    <3> QED BY <1>1, <1>10, <3>1, <3>2
  <2>8. OnChain(n, Dummy) <=> ~DummyOut'
    <3>1. CASE t = Reader
      BY <1>1, <1>2, <1>3, <1>10, <3>1 DEF DummyOut
    <3>2. CASE t # Reader
      BY <1>1, <1>2, <1>3, <1>10, <3>2 DEF DummyOut, PlaceInv
    <3> QED BY <3>1, <3>2
  <2>9. \A q \in Producer : ~In(Dummy, n[q])
    BY <1>3, <1>8 DEF PlaceInv, Root
  <2>10. pc'[Reader] \in {"cas", "help"} => In(mytail'[Reader], n[NULL])
    BY <1>1, <1>2, <1>5, <1>6 DEF PlaceInv
  <2> QED BY <2>3, <2>4, <2>5, <2>6, <2>7, <2>8, <2>9, <2>10 DEF PlaceInv
<1>14. LinkInv'
  <2>1. head # k /\ tail # k /\ head \in Node /\ tail \in Node
    BY <1>3, HeadInList DEF OnChain, TypeInv
  <2> QED BY <1>1, <1>2, <1>4, <2>1 DEF LinkInv
<1>15. OrderInv(n, o)'
  <2>1. o \in [Thread -> SUBSET Thread]
    BY DEF OrderInv
  <2>2. \A u, r \in Thread : u \in o[r] <=> u # t /\ (r = t \/ u \in older[r])
    BY DEF OrderInv
  <2> HIDE DEF o
  <2>3. \A u \in Thread : u \notin o[u]
    BY <2>2 DEF OrderInv
  <2>4. ASSUME NEW s \in Thread, NEW u \in Thread, NEW r \in Thread, s \in o[u], u \in o[r]
        PROVE  s \in o[r]
    BY <2>2, <2>4 DEF OrderInv
  <2>5. ASSUME NEW u \in Thread, NEW r \in Thread,
               pc'[u] \in {"cas", "help"}, In(mytail'[u], n[r])
        PROVE  u \in o[r]
    <3>1. u # t /\ mytail'[u] = mytail[u] /\ pc[u] \in {"cas", "help"}
      BY <1>1, <1>2, <2>5
    <3>2. r # t => In(mytail[u], ch[r])
      BY <1>8, <2>5, <3>1 DEF Root
    <3> QED BY <2>2, <3>1, <3>2 DEF OrderInv
  <2> QED BY <2>1, <2>3, <2>4, <2>5 DEF OrderInv
<1>16. DataInv'
  BY <1>1 DEF DataInv
<1>17. HeapInv(n, o)'
  BY <1>11, <1>12, <1>13, <1>14, <1>15, <1>16
<1>18. n[NULL] = ch[NULL] /\ \A q \in Root \ {t} : n[q] = ch[q]
  BY <1>5, <1>6
<1> QED BY <1>7, <1>17, <1>18

\* Positions in a sequence of length a followed by one of length b.
Positions(a, b) ==
  /\ \A i \in 1..(a + b) : i \in 1..a \/ \E j \in 1..b : i = a + j
  /\ \A i \in 1..b : a + i \in 1..(a + b) /\ ~(a + i \in 1..a)
                      /\ (a + i < a + b <=> i < b) /\ (i < b => i + 1 \in 1..b)
                      /\ (a + i) + 1 = a + (i + 1)
  /\ \A i \in 1..a : i \in 1..(a + b) /\ i < a + b /\ i <= a /\ (i # a => i + 1 \in 1..a /\ i < a)
  /\ a \in 1..a /\ 1 \in 1..a /\ 1 \in 1..b /\ a + b > 0

LEMMA Offsets == \A a, b \in Nat : a > 0 /\ b > 0 => Positions(a, b)
<1> SUFFICES ASSUME NEW a \in Nat, NEW b \in Nat, a > 0, b > 0 PROVE Positions(a, b)
  OBVIOUS
<1>1. ASSUME NEW i \in 1..(a + b), ~(i \in 1..a) PROVE \E j \in 1..b : i = a + j
  <2>1. i - a \in 1..b /\ i = a + (i - a)
    BY <1>1
  <2> QED BY <2>1
<1> QED BY <1>1 DEF Positions

\* n is ch with the chain of t joined to chain r, which ends in what t has read
\* as the tail.
Joins(ch, t, r, n) ==
  /\ r # t /\ Len(ch[r]) > 0 /\ ch[r][Len(ch[r])] = mytail[t]
  /\ n = [ch EXCEPT ![r] = ch[r] \o ch[t], ![t] = <<>>]

\* The swap succeeds: what t has in hand is joined to the chain that its mytail
\* ends, which is the list unless mytail has left it and come back in a hand.
LEMMA PutLinkKeeps ==
  ASSUME NEW ch, NEW older, HeapInv(ch, older), CtrlInv', NEW t \in Thread, PutLink(t),
         Last(mytail[t])
  PROVE  \E n : \E r \in Root : Joins(ch, t, r, n) /\ HeapInv(n, older)'
<1> USE Others, LFCells DEF HeapInv
<1>1. /\ pc[t] = "cas" /\ pc' = [pc EXCEPT ![t] = "swing"]
      /\ link' = [link EXCEPT ![mytail[t]] = cl[t]]
      /\ stale' = (stale \/ mytail[t] \notin Range(List))
      /\ sent' = IF stale' THEN <<>> ELSE IF t = Reader THEN sent ELSE Append(sent, data[cl[t]])
      /\ UNCHANGED <<head, tail, count, data, allocated, mut, waiting, nput, cl, icsame, mytail,
                     next, attempt, cell, done, overlap>>
  BY DEF PutLink, Linked, Step, memVars, wakeVars, putVars, getVars
<1>2. PICK k, x : k = cl[t] /\ x = mytail[t]
  OBVIOUS
<1>3. /\ \A u \in Thread : pc'[u] = IF u = t THEN "swing" ELSE pc[u]
      /\ pc' \in [Thread -> Places]
  BY <1>1 DEF TypeInv, Places, ProducerAt
<1>4. x \in Node /\ k \in Node /\ k # End /\ k # NULL /\ link[x] = End
      /\ (t # Reader => k \in Cell)
  BY <1>1, <1>2 DEF CtrlInv, InFifoput, Node, Last
<1>5. \A y \in Node : link'[y] = IF y = x THEN k ELSE link[y]
  BY <1>1, <1>2, <1>4 DEF TypeInv
<1>6. PICK r \in Root : Len(ch[r]) > 0 /\ ch[r][Len(ch[r])] = x
  BY <1>4, LastOfOne
<1>7. /\ ch \in [Root -> Seq(Node)] /\ t \in Root /\ NULL \in Root /\ t # NULL
      /\ ch[r] \in Seq(Node) /\ ch[t] \in Seq(Node)
  BY DEF ShapeInv, Root
<1>8. In(x, ch[r])
  BY <1>6, <1>7 DEF In
<1>9. r \in Thread => t \in older[r]
  BY <1>1, <1>2, <1>8 DEF OrderInv
<1>10. r # t
  BY <1>7, <1>9 DEF OrderInv
<1>11. Len(ch[t]) > 0 /\ ch[t][1] = k
  BY <1>1, <1>2 DEF ShapeInv, HasChain
<1> PICK a, b : a = Len(ch[r]) /\ b = Len(ch[t])
  OBVIOUS
<1> DEFINE n == [ch EXCEPT ![r] = ch[r] \o ch[t], ![t] = <<>>]
<1>12. /\ n \in [Root -> Seq(Node)] /\ n[t] = <<>> /\ n[r] = ch[r] \o ch[t]
       /\ \A q \in Root : q # t /\ q # r => n[q] = ch[q]
  <2>1. ch[r] \o ch[t] \in Seq(Node) /\ <<>> \in Seq(Node)
    BY <1>7
  <2> QED BY <1>7, <1>10, <2>1
<1> HIDE DEF n
<1>13. a \in Nat /\ b \in Nat /\ a > 0 /\ b > 0 /\ ch[r][a] = x
  BY <1>6, <1>7, <1>11
<1>14. /\ Len(n[r]) = a + b /\ Len(n[t]) = 0
       /\ \A i \in 1..a : n[r][i] = ch[r][i]
       /\ \A i \in 1..b : n[r][a + i] = ch[t][i]
  BY <1>7, <1>12
<1>16. Positions(a, b)
  BY <1>13, Offsets
<1>15. /\ \A i \in 1..(a + b) : i \in 1..a \/ \E j \in 1..b : i = a + j
       /\ \A i \in 1..b : a + i \in 1..(a + b) /\ ~(a + i \in 1..a)
                           /\ (a + i < a + b <=> i < b) /\ (i < b => i + 1 \in 1..b)
                           /\ (a + i) + 1 = a + (i + 1)
       /\ \A i \in 1..a : i \in 1..(a + b) /\ i < a + b /\ i <= a
                           /\ (i # a => i + 1 \in 1..a /\ i < a)
       /\ a \in 1..a /\ 1 \in 1..a /\ 1 \in 1..b /\ a + b > 0
  BY <1>16 DEF Positions
<1>18. \A y, q : q \in Root =>
          (In(y, n[q]) <=> (IF q = t THEN FALSE
                            ELSE IF q = r THEN In(y, ch[r]) \/ In(y, ch[t]) ELSE In(y, ch[q])))
  <2>1. \A y : In(y, n[r]) <=> In(y, ch[r]) \/ In(y, ch[t])
    <3> TAKE y
    <3>1. ASSUME In(y, n[r]) PROVE In(y, ch[r]) \/ In(y, ch[t])
      <4>1. PICK i \in 1..(a + b) : n[r][i] = y
        BY <1>14, <3>1 DEF In
      <4>2. CASE i \in 1..a
        BY <1>14, <4>1, <4>2 DEF In
      <4>3. CASE \E j \in 1..b : i = a + j
        BY <1>14, <4>1, <4>3 DEF In
      <4> QED BY <1>15, <4>2, <4>3
    <3>2. ASSUME In(y, ch[r]) PROVE In(y, n[r])
      BY <1>14, <1>15, <3>2 DEF In
    <3>3. ASSUME In(y, ch[t]) PROVE In(y, n[r])
      <4>1. PICK i \in 1..b : ch[t][i] = y
        BY <3>3 DEF In
      <4>2. n[r][a + i] = y /\ a + i \in 1..Len(n[r])
        BY <1>14, <1>15, <4>1
      <4> QED BY <4>2 DEF In
    <3> QED BY <3>1, <3>2, <3>3
  <2>2. \A y : ~In(y, n[t])
    BY <1>14 DEF In
  <2> QED BY <1>12, <2>1, <2>2
<1>19. \A y : OnChain(n, y) <=> OnChain(ch, y)
  BY <1>7, <1>10, <1>18 DEF OnChain
<1>20. \A y : In(y, ch[NULL]) => In(y, n[NULL])
  BY <1>7, <1>18
<1>21. TypeInv'
  <2>1. data[cl[t]] \in Elem \/ t = Reader
    <3>1. t # Reader => OnChain(ch, k)
      BY <1>7, <1>11 DEF OnChain, In
    <3> QED BY <1>2, <1>4, <3>1 DEF PlaceInv, DataInv
  <2>2. sent' \in Seq(Elem)
    BY <1>1, <2>1 DEF TypeInv
  <2>3. stale' \in BOOLEAN
    BY <1>1 DEF TypeInv
  <2>4. link' \in [Node -> Node \cup {End, NULL}]
    BY <1>1, <1>2, <1>4 DEF TypeInv
  <2> QED BY <1>1, <1>3, <2>2, <2>3, <2>4 DEF TypeInv
<1>22. ShapeInv(n)'
  <2>1. \A q \in Root : \A i \in 1..Len(ch[q]) :
          ch[q][i] \in Node /\ (ch[q][i] = x => q = r /\ i = a)
    BY <1>6, <1>7 DEF ShapeInv, Distinct
  <2>2. ASSUME NEW q \in Root, NEW i \in 1..Len(ch[q]), q # r \/ i # a
        PROVE  link'[ch[q][i]] = IF i < Len(ch[q]) THEN ch[q][i + 1] ELSE End
    <3>1. link[ch[q][i]] = IF i < Len(ch[q]) THEN ch[q][i + 1] ELSE End
      BY DEF ShapeInv, Chained
    <3> QED BY <1>5, <2>1, <2>2, <3>1
  <2>3. Chained(link', n)
    <3> SUFFICES ASSUME NEW q \in Root, NEW i \in 1..Len(n[q])
                 PROVE  link'[n[q][i]] = IF i < Len(n[q]) THEN n[q][i + 1] ELSE End
      BY DEF Chained
    <3>1. CASE q = t
      BY <1>14, <3>1
    <3>2. CASE q # t /\ q # r
      <4>1. n[q] = ch[q]
        BY <1>12, <3>2
      <4> QED BY <2>2, <3>2, <4>1
    <3>3. CASE q = r
      <4>1. CASE i \in 1..a /\ i # a
        <5>1. i + 1 \in 1..a /\ i < a + b /\ i \in 1..Len(ch[r]) /\ i < Len(ch[r])
          BY <1>15, <4>1
        <5>2. link'[ch[r][i]] = ch[r][i + 1]
          BY <2>2, <4>1, <5>1
        <5> QED BY <1>14, <3>3, <4>1, <5>1, <5>2
      <4>2. CASE i = a
        <5>1. n[r][a] = x /\ n[r][a + 1] = ch[t][1]
          BY <1>13, <1>14, <1>15
        <5>2. link'[x] = k
          BY <1>4, <1>5
        <5>3. a < a + b
          BY <1>15
        <5> QED BY <1>11, <1>14, <3>3, <4>2, <5>1, <5>2, <5>3
      <4>3. CASE \E j \in 1..b : i = a + j
        <5> PICK j \in 1..b : i = a + j
          BY <4>3
        <5>1. j \in 1..b /\ i = a + j /\ i + 1 = a + (j + 1) /\ (i < a + b <=> j < b)
              /\ (j < b => j + 1 \in 1..b)
          BY <1>15
        <5>2. link'[ch[t][j]] = IF j < b THEN ch[t][j + 1] ELSE End
          BY <1>7, <1>10, <2>2, <5>1
        <5>3. n[r][i] = ch[t][j] /\ (j < b => n[r][i + 1] = ch[t][j + 1])
          BY <1>14, <5>1
        <5> QED BY <1>14, <3>3, <5>1, <5>2, <5>3
      <4>4. i \in 1..(a + b)
        BY <1>14, <3>3
      <4>5. i \in 1..a \/ \E j \in 1..b : i = a + j
        BY <1>15, <4>4
      <4> QED BY <4>1, <4>2, <4>3, <4>5
    <3> QED BY <3>1, <3>2, <3>3
  <2>4. Distinct(n)
    <3>1. \A q \in Root : \A i \in 1..Len(n[q]) :
            \E s \in Root : \E j \in 1..Len(ch[s]) :
              /\ n[q][i] = ch[s][j]
              /\ \/ s = q /\ j = i /\ q # t /\ (q = r => i \in 1..a)
                 \/ s = t /\ q = r /\ i = a + j
      <4> TAKE q \in Root
      <4> TAKE i \in 1..Len(n[q])
      <4>1. CASE q = t
        BY <1>14, <4>1
      <4>2. CASE q # t /\ q # r
        BY <1>12, <4>2
      <4>3. CASE q = r
        <5>1. CASE i \in 1..a
          BY <1>10, <1>14, <4>3, <5>1
        <5>2. CASE \E j \in 1..b : i = a + j
          <6>1. PICK j \in 1..b : i = a + j
            BY <5>2
          <6>2. n[q][i] = ch[t][j] /\ j \in 1..Len(ch[t])
            BY <1>14, <4>3, <6>1
          <6> QED BY <1>7, <4>3, <6>1, <6>2
        <5>3. i \in 1..(a + b)
          BY <1>14, <4>3
        <5>4. i \in 1..a \/ \E j \in 1..b : i = a + j
          BY <1>15, <5>3
        <5> QED BY <5>1, <5>2, <5>4
      <4> QED BY <4>1, <4>2, <4>3
    <3> SUFFICES ASSUME NEW q \in Root, NEW s \in Root, NEW i \in 1..Len(n[q]),
                        NEW j \in 1..Len(n[s]), n[q][i] = n[s][j]
                 PROVE  q = s /\ i = j
      BY DEF Distinct
    <3>2. PICK u \in Root : \E v \in 1..Len(ch[u]) :
              /\ n[q][i] = ch[u][v]
              /\ \/ u = q /\ v = i /\ q # t /\ (q = r => i \in 1..a)
                 \/ u = t /\ q = r /\ i = a + v
      BY <3>1
    <3>3. PICK w \in Root : \E z \in 1..Len(ch[w]) :
              /\ n[s][j] = ch[w][z]
              /\ \/ w = s /\ z = j /\ s # t /\ (s = r => j \in 1..a)
                 \/ w = t /\ s = r /\ j = a + z
      BY <3>1
    <3>20. PICK v \in 1..Len(ch[u]) :
              /\ n[q][i] = ch[u][v]
              /\ \/ u = q /\ v = i /\ q # t /\ (q = r => i \in 1..a)
                 \/ u = t /\ q = r /\ i = a + v
      BY <3>2
    <3>30. PICK z \in 1..Len(ch[w]) :
              /\ n[s][j] = ch[w][z]
              /\ \/ w = s /\ z = j /\ s # t /\ (s = r => j \in 1..a)
                 \/ w = t /\ s = r /\ j = a + z
      BY <3>3
    <3>4. u = w /\ v = z
      <4>1. ch[u][v] = ch[w][z]
        BY <3>20, <3>30
      <4>2. Distinct(ch)
        BY DEF ShapeInv
      <4> HIDE DEF HeapInv
      <4> QED BY <4>1, <4>2, OnePlace
    <3>5. CASE q = r /\ s # r /\ u = t
      BY <1>14, <3>20, <3>30, <3>4, <3>5
    <3> QED BY <1>10, <3>20, <3>30, <3>4, <3>5
  <2>5. \A u \in Thread : IF HasChain(u)' THEN Len(n[u]) > 0 /\ n[u][1] = cl'[u]
                                          ELSE Len(n[u]) = 0
    <3>1. ~HasChain(t)'
      BY <1>3 DEF HasChain
    <3>2. ASSUME NEW u \in Thread, u # t
          PROVE  (HasChain(u)' <=> HasChain(u)) /\ cl'[u] = cl[u]
      BY <1>1, <1>3, <3>2 DEF HasChain
    <3>3. r \in Thread => Len(n[r]) > 0 /\ n[r][1] = ch[r][1]
      BY <1>14, <1>15
    <3>4. ASSUME NEW u \in Thread, u # t, u # r
          PROVE  n[u] = ch[u]
      BY <1>12, <3>4 DEF Root
    <3>5. r \in Thread => HasChain(r)
      BY <1>6 DEF ShapeInv
    <3> QED BY <1>14, <3>1, <3>2, <3>3, <3>4, <3>5 DEF ShapeInv
  <2>6. \A y \in Node : ~OnChain(n, y) => link'[y] # End
    BY <1>4, <1>5, <1>19 DEF ShapeInv
  <2>7. Len(n[NULL]) > 0 /\ n[NULL][1] = head'
    <3>1. CASE r = NULL
      BY <1>1, <1>13, <1>14, <3>1 DEF ShapeInv
    <3>2. CASE r # NULL
      BY <1>1, <1>7, <1>12, <3>2 DEF ShapeInv
    <3> QED BY <3>1, <3>2
  <2>8. In(tail', n[NULL])
    BY <1>1, <1>20 DEF ShapeInv
  <2> QED BY <1>12, <2>3, <2>4, <2>5, <2>6, <2>7, <2>8 DEF ShapeInv
<1>23. PlaceInv(n)'
  <2>1. \A q \in Producer : (Prepares(q)' <=> Prepares(q)) /\ cl'[q] = cl[q]
    BY <1>1, <1>3 DEF Prepares
  <2>2. DummyOut' <=> DummyOut
    BY <1>1, <1>3 DEF DummyOut
  <2>3. pc'[Reader] \in {"cas", "help"} => In(mytail'[Reader], n[NULL])
    BY <1>1, <1>3, <1>20 DEF PlaceInv
  <2>4. \A q \in Producer : ~In(Dummy, n[q])
    <3>1. CASE t = Reader
      <4>1. In(x, ch[NULL])
        BY <1>1, <1>2, <3>1 DEF PlaceInv
      <4>2. r = NULL
        BY <1>7, <1>8, <4>1, Apart DEF ShapeInv
      <4> QED BY <1>18, <4>2 DEF PlaceInv, Root
    <3>2. CASE t # Reader
      <4>1. \A q \in Producer : q \in Root
        BY DEF Root
      <4> QED BY <1>18, <3>2, <4>1 DEF PlaceInv
    <3> QED BY <3>1, <3>2
  <2> QED BY <1>1, <1>19, <2>1, <2>2, <2>3, <2>4 DEF PlaceInv
<1>24. LinkInv'
  <2>1. head \in Node /\ tail \in Node
    BY DEF TypeInv
  <2>2. \A u \in Thread : pc[u] = "swing" => cl[u] # End
    BY DEF CtrlInv, InFifoput, Node
  <2>3. pc'[Reader] \in {"check", "help_get"} => next' = End \/ next' = link'[head']
    BY <1>1, <1>3, <1>4, <1>5, <2>1 DEF LinkInv
  <2>4. pc'[Reader] = "help_get" => next' # End
    BY <1>1, <1>3 DEF LinkInv
  <2>5. ASSUME NEW u \in Thread, pc'[u] = "swing", icsame'[u], tail' = mytail'[u]
        PROVE  link'[tail'] = cl'[u]
    <3>1. CASE u = t
      BY <1>1, <1>2, <1>4, <1>5, <2>5, <3>1
    <3>2. CASE u # t
      <4>1. link[tail] = cl[u] /\ cl[u] # End
        BY <1>1, <1>3, <2>2, <2>5, <3>2 DEF LinkInv
      <4> QED BY <1>1, <1>4, <1>5, <2>1, <4>1
    <3> QED BY <3>1, <3>2
  <2>6. ASSUME NEW u \in Thread, pc'[u] = "help", icsame'[u], tail' = mytail'[u]
        PROVE  link'[tail'] # End
    <3>1. link[tail] # End
      BY <1>1, <1>3, <2>6 DEF LinkInv
    <3> QED BY <1>1, <1>4, <1>5, <2>1, <3>1
  <2> QED BY <2>3, <2>4, <2>5, <2>6 DEF LinkInv
<1>25. OrderInv(n, older)'
  <2> SUFFICES ASSUME NEW u \in Thread, NEW q \in Thread,
                      pc'[u] \in {"cas", "help"}, In(mytail'[u], n[q])
               PROVE  u \in older[q]
    BY DEF OrderInv
  <2>1. pc[u] \in {"cas", "help"} /\ In(mytail[u], n[q])
    BY <1>1, <1>3
  <2>2. q \in Root
    BY DEF Root
  <2>3. CASE q # r
    BY <1>18, <2>1, <2>2, <2>3 DEF OrderInv
  <2>4. CASE q = r /\ In(mytail[u], ch[r])
    BY <2>1, <2>4 DEF OrderInv
  <2>5. CASE q = r /\ In(mytail[u], ch[t])
    <3>1. u \in older[t] /\ t \in older[r]
      BY <1>9, <2>1, <2>5 DEF OrderInv
    <3> QED BY <2>5, <3>1 DEF OrderInv
  <2> QED BY <1>18, <2>1, <2>2, <2>3, <2>4, <2>5
<1>26. DataInv'
  BY <1>1 DEF DataInv
<1>27. HeapInv(n, older)'
  BY <1>21, <1>22, <1>23, <1>24, <1>25, <1>26
<1> QED BY <1>2, <1>6, <1>10, <1>27 DEF Joins, n

\* The reader takes the head of the list, which is not its last cell.
LEMMA GetPopKeeps ==
  ASSUME NEW ch, NEW older, HeapInv(ch, older), CtrlInv', GetPop, next # End
  PROVE  /\ Len(ch[NULL]) > 1 /\ cell' = ch[NULL][1]
         /\ \E n : n = [ch EXCEPT ![NULL] = Tail(ch[NULL])] /\ HeapInv(n, older)'
<1> USE Others, LFCells DEF HeapInv
<1>1. /\ pc[Reader] = "check" /\ pc' = [pc EXCEPT ![Reader] = "dec"] /\ head # tail
      /\ head' = next /\ cell' = head /\ next' = NULL /\ icsame' = [icsame EXCEPT ![Reader] = FALSE]
      /\ UNCHANGED <<tail, link, count, data, allocated, mut, waiting, nput, cl, mytail, attempt,
                     done, sent, overlap, stale>>
  BY DEF GetPop, Looked, Step, memVars, wakeVars, histVars
<1>2. /\ \A u \in Thread : pc'[u] = IF u = Reader THEN "dec" ELSE pc[u]
      /\ pc' \in [Thread -> Places]
  BY <1>1 DEF TypeInv, Places, ReaderAt
<1>3. /\ ch \in [Root -> Seq(Node)] /\ NULL \in Root /\ ch[NULL] \in Seq(Node)
      /\ Len(ch[NULL]) > 0 /\ ch[NULL][1] = head /\ head \in Node
      /\ \A p \in Producer : p \in Root /\ p # NULL
  BY DEF ShapeInv, Root, TypeInv
<1>4. next = link[head] /\ link[head] # End
  BY <1>1 DEF LinkInv
<1>5. PICK m : m = Len(ch[NULL])
  OBVIOUS
<1>6. m \in Nat /\ m > 1 /\ next = ch[NULL][2] /\ next \in Node
  <2>1. 1 \in 1..m
    BY <1>3, <1>5
  <2>2. link[head] = IF 1 < m THEN ch[NULL][2] ELSE End
    BY <1>3, <1>5, <2>1 DEF ShapeInv, Chained
  <2>3. m \in Nat /\ m > 1
    BY <1>3, <1>4, <1>5, <2>2
  <2>4. 2 \in 1..m
    BY <2>3
  <2> QED BY <1>3, <1>4, <1>5, <2>2, <2>3, <2>4
<1> DEFINE n == [ch EXCEPT ![NULL] = Tail(ch[NULL])]
<1>7. /\ Tail(ch[NULL]) \in Seq(Node) /\ Len(Tail(ch[NULL])) = m - 1
      /\ \A i \in 1..(m - 1) : Tail(ch[NULL])[i] = ch[NULL][i + 1]
  BY <1>3, <1>5, <1>6
<1>8. /\ n \in [Root -> Seq(Node)] /\ n[NULL] = Tail(ch[NULL])
      /\ \A q \in Root : q # NULL => n[q] = ch[q]
  BY <1>3, <1>7
<1> HIDE DEF n
<1>9. \A i \in 1..(m - 1) : i + 1 \in 1..m /\ i + 1 # 1 /\ (i < m - 1 <=> i + 1 < m)
                            /\ (i < m - 1 => i + 1 \in 1..(m - 1))
  BY <1>6
<1>10. \A y : In(y, n[NULL]) <=> In(y, ch[NULL]) /\ y # head
  <2> TAKE y
  <2>1. ASSUME In(y, n[NULL]) PROVE In(y, ch[NULL]) /\ y # head
    <3>1. PICK i \in 1..(m - 1) : ch[NULL][i + 1] = y
      BY <1>7, <1>8, <2>1 DEF In
    <3>2. i + 1 \in 1..m /\ i + 1 # 1 /\ 1 \in 1..m
      BY <1>6, <1>9
    <3>3. Distinct(ch)
      BY DEF ShapeInv
    <3>4. y # ch[NULL][1]
      BY <1>3, <1>5, <3>1, <3>2, <3>3 DEF Distinct
    <3> QED BY <1>3, <1>5, <3>1, <3>2, <3>4 DEF In
  <2>2. ASSUME In(y, ch[NULL]), y # head PROVE In(y, n[NULL])
    <3>1. PICK i \in 1..m : ch[NULL][i] = y
      BY <1>5, <2>2 DEF In
    <3>2. i # 1
      BY <1>3, <2>2, <3>1
    <3>3. i - 1 \in 1..(m - 1) /\ (i - 1) + 1 = i
      BY <1>6, <3>2
    <3>4. n[NULL][i - 1] = y
      BY <1>7, <1>8, <3>1, <3>3
    <3> QED BY <1>7, <1>8, <3>3, <3>4 DEF In
  <2> QED BY <2>1, <2>2
<1>11. \A y : OnChain(n, y) <=> OnChain(ch, y) /\ y # head
  <2>1. In(head, ch[NULL])
    BY HeadInList
  <2>2. \A q \in Root : In(head, ch[q]) => q = NULL
    BY <1>3, <2>1, Apart DEF ShapeInv
  <2> QED BY <1>3, <1>8, <1>10, <2>2 DEF OnChain
<1>12. TypeInv'
  BY <1>1, <1>2, <1>3, <1>6 DEF TypeInv
<1>13. ShapeInv(n)'
  <2>1. Chained(link', n)
    <3> SUFFICES ASSUME NEW q \in Root, NEW i \in 1..Len(n[q])
                 PROVE  link'[n[q][i]] = IF i < Len(n[q]) THEN n[q][i + 1] ELSE End
      BY DEF Chained
    <3>1. CASE q # NULL
      BY <1>1, <1>8, <3>1 DEF ShapeInv, Chained
    <3>2. CASE q = NULL
      <4>1. i \in 1..(m - 1)
        BY <1>7, <1>8, <3>2
      <4>2. i + 1 \in 1..Len(ch[NULL])
        BY <1>5, <1>9, <4>1
      <4>3. link[ch[NULL][i + 1]] = IF i + 1 < m THEN ch[NULL][(i + 1) + 1] ELSE End
        BY <1>3, <1>5, <4>2 DEF ShapeInv, Chained
      <4>4. n[NULL][i] = ch[NULL][i + 1] /\ (i < m - 1 => n[NULL][i + 1] = ch[NULL][(i + 1) + 1])
        BY <1>7, <1>8, <1>9, <4>1
      <4> QED BY <1>1, <1>7, <1>8, <1>9, <3>2, <4>1, <4>3, <4>4
    <3> QED BY <3>1, <3>2
  <2>2. Distinct(n)
    <3>1. \A q \in Root : \A i \in 1..Len(n[q]) :
            \E j \in 1..Len(ch[q]) : n[q][i] = ch[q][j] /\ j = IF q = NULL THEN i + 1 ELSE i
      <4> TAKE q \in Root
      <4> TAKE i \in 1..Len(n[q])
      <4>1. CASE q # NULL
        BY <1>8, <4>1
      <4>2. CASE q = NULL
        <5>1. i \in 1..(m - 1)
          BY <1>7, <1>8, <4>2
        <5> QED BY <1>5, <1>7, <1>8, <1>9, <4>2, <5>1
      <4> QED BY <4>1, <4>2
    <3> SUFFICES ASSUME NEW q \in Root, NEW s \in Root, NEW i \in 1..Len(n[q]),
                        NEW j \in 1..Len(n[s]), n[q][i] = n[s][j]
                 PROVE  q = s /\ i = j
      BY DEF Distinct
    <3>2. PICK v \in 1..Len(ch[q]) : n[q][i] = ch[q][v] /\ v = IF q = NULL THEN i + 1 ELSE i
      BY <3>1
    <3>3. PICK z \in 1..Len(ch[s]) : n[s][j] = ch[s][z] /\ z = IF s = NULL THEN j + 1 ELSE j
      BY <3>1
    <3>4. q = s /\ v = z
      <4>1. ch[q][v] = ch[s][z]
        BY <3>2, <3>3
      <4>2. Distinct(ch)
        BY DEF ShapeInv
      <4> HIDE DEF HeapInv
      <4> QED BY <4>1, <4>2, OnePlace
    <3>5. i \in Int /\ j \in Int
      OBVIOUS
    <3> QED BY <3>2, <3>3, <3>4, <3>5
  <2>3. \A u \in Thread : IF HasChain(u)' THEN Len(n[u]) > 0 /\ n[u][1] = cl'[u]
                                          ELSE Len(n[u]) = 0
    <3>1. \A u \in Thread : (HasChain(u)' <=> HasChain(u)) /\ n[u] = ch[u]
      BY <1>1, <1>2, <1>8 DEF HasChain, Root
    <3> QED BY <1>1, <3>1 DEF ShapeInv
  <2>4. \A x \in Node : ~OnChain(n, x) => link'[x] # End
    BY <1>1, <1>4, <1>11 DEF ShapeInv
  <2>5. Len(n[NULL]) > 0 /\ n[NULL][1] = head'
    <3>1. 1 \in 1..(m - 1) /\ 1 + 1 = 2 /\ m - 1 > 0
      BY <1>6
    <3>2. n[NULL][1] = ch[NULL][2]
      BY <1>7, <1>8, <3>1
    <3> QED BY <1>1, <1>6, <1>7, <1>8, <3>1, <3>2
  <2>6. In(tail', n[NULL])
    BY <1>1, <1>10 DEF ShapeInv
  <2> QED BY <1>8, <2>1, <2>2, <2>3, <2>4, <2>5, <2>6 DEF ShapeInv
<1>14. PlaceInv(n)'
  <2>1. \A q \in Producer : (Prepares(q)' <=> Prepares(q)) /\ cl'[q] = cl[q]
    BY <1>1, <1>2 DEF Prepares
  <2>2. OnChain(ch, head) /\ cell \notin Cell
    BY <1>1, <1>3, HeadInList DEF CtrlInv, OnChain
  <2>3. \A c \in Cell : OnChain(n, c) => c \in allocated'
    BY <1>1, <1>11 DEF PlaceInv
  <2>4. \A q \in Producer :
          Prepares(q)' => cl'[q] \in allocated' /\ ~OnChain(n, cl'[q]) /\ cl'[q] # cell'
    BY <1>1, <1>11, <2>1, <2>2 DEF PlaceInv
  <2>5. \A q, s \in Producer : Prepares(q)' /\ Prepares(s)' /\ cl'[q] = cl'[s] => q = s
    BY <2>1 DEF PlaceInv
  <2>6. cell' \in Cell => cell' \in allocated' /\ ~OnChain(n, cell')
    BY <1>1, <1>11, <2>2 DEF PlaceInv
  <2>7. \A c \in allocated' :
          OnChain(n, c) \/ c = cell' \/ \E q \in Producer : Prepares(q)' /\ c = cl'[q]
    <3> TAKE c \in allocated'
    <3>1. c \in Cell /\ c \in allocated
      BY <1>1 DEF TypeInv
    <3>2. OnChain(ch, c) \/ \E q \in Producer : Prepares(q) /\ c = cl[q]
      BY <2>2, <3>1 DEF PlaceInv
    <3> QED BY <1>1, <1>11, <2>1, <3>2
  <2>8. OnChain(n, Dummy) <=> ~DummyOut'
    <3>1. OnChain(ch, Dummy)
      BY <1>1 DEF PlaceInv, DummyOut
    <3> QED BY <1>1, <1>2, <1>11, <3>1 DEF DummyOut
  <2>9. \A q \in Producer : ~In(Dummy, n[q])
    BY <1>3, <1>8 DEF PlaceInv
  <2>10. pc'[Reader] \in {"cas", "help"} => In(mytail'[Reader], n[NULL])
    BY <1>2
  <2> QED BY <2>3, <2>4, <2>5, <2>6, <2>7, <2>8, <2>9, <2>10 DEF PlaceInv
<1>15. LinkInv'
  <2>1. \A u \in Thread : icsame'[u] => u # Reader /\ icsame[u] /\ pc'[u] = pc[u]
    BY <1>1, <1>2 DEF TypeInv
  <2> QED BY <1>1, <1>2, <2>1 DEF LinkInv
<1>16. OrderInv(n, older)'
  <2> SUFFICES ASSUME NEW u \in Thread, NEW q \in Thread,
                      pc'[u] \in {"cas", "help"}, In(mytail'[u], n[q])
               PROVE  u \in older[q]
    BY DEF OrderInv
  <2>1. pc[u] \in {"cas", "help"} /\ In(mytail[u], ch[q])
    BY <1>1, <1>2, <1>8 DEF Root
  <2> QED BY <2>1 DEF OrderInv
<1>17. DataInv'
  BY <1>1 DEF DataInv
<1>18. HeapInv(n, older)'
  BY <1>12, <1>13, <1>14, <1>15, <1>16, <1>17
<1> QED BY <1>1, <1>3, <1>5, <1>6, <1>18 DEF n

LEMMA InitHeap ==
  ASSUME Init
  PROVE  \E ch, older : /\ ch = [r \in Root |-> IF r = NULL THEN <<Dummy>> ELSE <<>>]
                        /\ HeapInv(ch, older)
<1> USE Others, LFCells
<1> DEFINE ch == [r \in Root |-> IF r = NULL THEN <<Dummy>> ELSE <<>>]
           older == [t \in Thread |-> {}]
<1>1. /\ ch \in [Root -> Seq(Node)] /\ ch[NULL] = <<Dummy>> /\ NULL \in Root
      /\ \A t \in Thread : ch[t] = <<>>
  <2>1. <<Dummy>> \in Seq(Node) /\ <<>> \in Seq(Node)
    BY DEF Node
  <2>2. NULL \in Root /\ \A t \in Thread : t \in Root /\ t # NULL
    BY DEF Root
  <2> QED BY <2>1, <2>2
<1>20. older \in [Thread -> SUBSET Thread] /\ \A t \in Thread : older[t] = {}
  OBVIOUS
<1> HIDE DEF ch, older
<1>2. Len(ch[NULL]) = 1 /\ ch[NULL][1] = Dummy /\ \A t \in Thread : Len(ch[t]) = 0
  BY <1>1
<1>3. \A y, q : q \in Root => (In(y, ch[q]) <=> q = NULL /\ y = Dummy)
  <2>1. \A y : In(y, ch[NULL]) <=> y = Dummy
    BY <1>2 DEF In
  <2>2. \A y : \A t \in Thread : ~In(y, ch[t])
    BY <1>2 DEF In
  <2> QED BY <2>1, <2>2 DEF Root
<1>4. \A y : OnChain(ch, y) <=> y = Dummy
  BY <1>1, <1>3 DEF OnChain
<1>5. \A t \in Thread : pc[t] = IF t = Reader THEN "get" ELSE "idle"
  BY DEF Init
<1>6. TypeInv
  <2>1. pc \in [Thread -> Places]
    BY DEF Init, Places, ProducerAt, ReaderAt
  <2>2. link \in [Node -> Node \cup {End, NULL}]
    BY DEF Init, Node
  <2>3. data \in [Cell -> Elem \cup {NULL}] /\ nput \in [Producer -> 0..MaxPuts]
    BY DEF Init
  <2>4. /\ cl \in [Thread -> Node \cup {NULL}] /\ icsame \in [Thread -> BOOLEAN]
        /\ mytail \in [Thread -> Node \cup {NULL}]
    BY DEF Init
  <2>5. sent \in Seq(Elem) /\ done \in Seq(Elem)
    BY DEF Init
  <2>6. /\ head \in Node /\ tail \in Node /\ count \in Int /\ allocated \in SUBSET Cell
        /\ mut \in Thread \cup {NULL} /\ waiting \in BOOLEAN
        /\ next \in Node \cup {End, NULL} /\ overlap \in BOOLEAN /\ stale \in BOOLEAN
    <3>1. /\ head = Dummy /\ tail = Dummy /\ count = 0 /\ allocated = {} /\ mut = NULL
          /\ waiting = FALSE /\ next = NULL /\ overlap = FALSE /\ stale = FALSE
      BY DEF Init
    <3>2. count \in Int
      BY <3>1
    <3>3. waiting \in BOOLEAN /\ overlap \in BOOLEAN /\ stale \in BOOLEAN
      BY <3>1
    <3>4. head \in Node /\ tail \in Node /\ allocated \in SUBSET Cell
      BY <3>1 DEF Node
    <3> QED BY <3>1, <3>2, <3>3, <3>4
  <2> QED BY <2>1, <2>2, <2>3, <2>4, <2>5, <2>6 DEF TypeInv
<1>7. CtrlInv
  BY InitCtrl
<1>8. ShapeInv(ch)
  <2>1. Chained(link, ch)
    BY <1>2 DEF Chained, Root, Init
  <2>2. Distinct(ch)
    <3> SUFFICES ASSUME NEW q \in Root, NEW s \in Root, NEW i \in 1..Len(ch[q]),
                        NEW j \in 1..Len(ch[s])
                 PROVE  q = s /\ i = j
      BY DEF Distinct
    <3>1. q = NULL /\ s = NULL
      <4>1. \A u \in Root : u # NULL => Len(ch[u]) = 0
        BY <1>2 DEF Root
      <4>2. q # NULL => i \in 1..0
        BY <4>1
      <4>3. s # NULL => j \in 1..0
        BY <4>1
      <4>4. 1..0 = {}
        OBVIOUS
      <4>5. q = NULL
        BY <4>2, <4>4
      <4>6. s = NULL
        BY <4>3, <4>4
      <4> QED BY <4>5, <4>6
    <3>2. i \in 1..1 /\ j \in 1..1
      BY <1>2, <3>1
    <3>3. i = j
      BY <3>2
    <3> QED BY <3>1, <3>3
  <2>3. \A t \in Thread : ~HasChain(t)
    BY <1>5 DEF HasChain
  <2>4. \A x \in Node : ~OnChain(ch, x) => link[x] # End
    BY <1>4 DEF Init, Node
  <2>5. head = Dummy /\ tail = Dummy
    BY DEF Init
  <2>6. In(tail, ch[NULL])
    BY <1>1, <1>3, <2>5
  <2> QED BY <1>1, <1>2, <2>1, <2>2, <2>3, <2>4, <2>5, <2>6 DEF ShapeInv
<1>9. PlaceInv(ch)
  <2>1. \A p \in Producer : ~Prepares(p)
    BY <1>5 DEF Prepares
  <2>2. ~DummyOut /\ pc[Reader] = "get"
    BY <1>5 DEF DummyOut
  <2>3. \A p \in Producer : ~In(Dummy, ch[p])
    BY <1>2 DEF In
  <2>4. allocated = {} /\ cell = NULL /\ NULL \notin Cell /\ Dummy \notin Cell
    BY DEF Init
  <2> QED BY <1>4, <2>1, <2>2, <2>3, <2>4 DEF PlaceInv
<1>10. LinkInv
  BY <1>5 DEF LinkInv
<1>11. OrderInv(ch, older)
  BY <1>5, <1>20 DEF OrderInv
<1>12. DataInv
  <2>1. \A e \in Elem : nput[e[1]] = 0 /\ e[2] > 0
    BY DEF Elem, Init
  <2>2. allocated = {} /\ done = <<>> /\ Len(done) = 0 /\ \A y : ~In(y, done)
    BY DEF Init, In
  <2>3. \A e \in Elem : ~(e[2] <= nput[e[1]])
    BY <2>1 DEF Elem
  <2> QED BY <2>2, <2>3 DEF DataInv
<1>13. HeapInv(ch, older)
  BY <1>6, <1>7, <1>8, <1>9, <1>10, <1>11, <1>12 DEF HeapInv
<1> QED BY <1>13 DEF ch

-----------------------------------------------------------------------------
(* Following the links from its first cell, one finds a whole chain.       *)

LEMMA SetInduction ==
  ASSUME NEW T \in SUBSET Nat, 0 \in T, \A n \in T : n + 1 \in T
  PROVE  T = Nat
<1> SUFFICES ASSUME Nat \ T # {} PROVE FALSE
  OBVIOUS
<1> DEFINE R == {p \in Nat \X Nat : p[1] < p[2]}
<1>1. IsWellFoundedOn(R, Nat)
  BY NatLessThanWellFounded DEF OpToRel
<1>2. \A x, y \in Nat : x < y => <<x, y>> \in R
  OBVIOUS
<1> HIDE DEF R
<1>3. PICK x \in Nat \ T : \A y \in Nat \ T : ~ (<<y, x>> \in R)
  BY <1>1, WFMin
<1>4. x # 0 /\ x - 1 \in Nat /\ x - 1 < x /\ (x - 1) + 1 = x
  BY <1>3
<1>5. x - 1 \in T
  BY <1>2, <1>3, <1>4
<1> QED BY <1>3, <1>4, <1>5

\* The cells one finds from d on, with f for the cells found with fewer steps.
Hops(l, f, i, d) == <<d>> \o IF i = 0 \/ l[d] \notin Node THEN <<>> ELSE f[i - 1][l[d]]
IsWalk(l, f) == f = [n \in 0..Cardinality(Cell) |-> [d \in Node |-> Hops(l, f, n, d)]]

\* The recursive function of From exists.
LEMMA WalkExists ==
  ASSUME NEW l
  PROVE  \E f : IsWalk(l, f)
<1> DEFINE N == Cardinality(Cell)
           Is(f, i) == f[i] = [d \in Node |-> Hops(l, f, i, d)]
           T == {n \in Nat : \E f : \A i \in 0..n : Is(f, i)}
<1>0. N \in Nat
  BY LFCells, FS_CardinalityType
<1> HIDE DEF N
<1>1. 0 \in T
  <2> DEFINE f == [i \in 0..0 |-> [d \in Node |-> <<d>> \o <<>>]]
  <2>1. \A i \in 0..0 : i = 0 /\ f[i] = [d \in Node |-> <<d>> \o <<>>]
    OBVIOUS
  <2> HIDE DEF f
  <2>2. \A i \in 0..0 : Is(f, i)
    BY <2>1 DEF Hops
  <2> QED BY <2>2
<1>2. ASSUME NEW n \in T PROVE n + 1 \in T
  <2>1. PICK f : \A i \in 0..n : Is(f, i)
    OBVIOUS
  <2> DEFINE top == [d \in Node |-> Hops(l, f, n + 1, d)]
             g == [i \in 0..(n + 1) |-> IF i = n + 1 THEN top ELSE f[i]]
  <2>2. g[n + 1] = top /\ \A i \in 0..n : g[i] = f[i]
    <3> HIDE DEF top
    <3> QED OBVIOUS
  <2> HIDE DEF g
  <2>3. ASSUME NEW i \in 0..n PROVE Is(g, i)
    <3>1. i = 0 \/ i - 1 \in 0..n
      OBVIOUS
    <3>2. \A d : Hops(l, g, i, d) = Hops(l, f, i, d)
      BY <2>2, <3>1 DEF Hops
    <3> QED BY <2>1, <2>2, <3>2
  <2>4. Is(g, n + 1)
    <3>1. (n + 1) - 1 = n /\ n + 1 # 0 /\ n \in 0..n
      OBVIOUS
    <3>2. \A d : Hops(l, g, n + 1, d) = Hops(l, f, n + 1, d)
      BY <2>2, <3>1 DEF Hops
    <3> QED BY <2>2, <3>2
  <2>5. \A i \in 0..(n + 1) : Is(g, i)
    <3>1. \A i \in 0..(n + 1) : i \in 0..n \/ i = n + 1
      OBVIOUS
    <3> QED BY <2>3, <2>4, <3>1
  <2> QED BY <2>5
<1>3. N \in T
  <2> HIDE DEF T
  <2>1. T \subseteq Nat
    BY DEF T
  <2> QED BY <1>0, <1>1, <1>2, <2>1, SetInduction
<1>4. PICK f : \A i \in 0..N : Is(f, i)
  BY <1>3
<1> DEFINE g == [i \in 0..N |-> f[i]]
           k == [i \in 0..N |-> [d \in Node |-> Hops(l, g, i, d)]]
<1>5. ASSUME NEW i \in 0..N PROVE k[i] = f[i]
  <2>1. i = 0 \/ i - 1 \in 0..N
    BY <1>0
  <2>2. \A d : Hops(l, g, i, d) = Hops(l, f, i, d)
    BY <2>1 DEF Hops
  <2> QED BY <1>4, <2>2
<1>6. g = k
  BY <1>5
<1> HIDE DEF g
<1>7. IsWalk(l, g)
  BY <1>6 DEF IsWalk, N
<1> QED BY <1>7

\* A chain has no more cells than there are.
LEMMA ChainFits ==
  ASSUME NEW ch, ShapeInv(ch), NEW r \in Root
  PROVE  Len(ch[r]) <= Cardinality(Cell) + 1
<1>1. ch[r] \in Seq(Node) /\ Len(ch[r]) \in Nat /\ ch[r] \in [1..Len(ch[r]) -> Node]
  BY LenProperties DEF ShapeInv
<1>2. ch[r] \in Injection(1..Len(ch[r]), Node)
  BY <1>1 DEF Injection, IsInjective, ShapeInv, Distinct
<1>3. IsFiniteSet(Node) /\ Cardinality(Node) = Cardinality(Cell) + 1
  BY LFCells, FS_AddElement DEF Node
<1>4. Cardinality(1..Len(ch[r])) = Len(ch[r])
  <2>1. Cardinality(1..Len(ch[r])) = IF 1 > Len(ch[r]) THEN 0 ELSE Len(ch[r]) - 1 + 1
    BY <1>1, FS_Interval
  <2> QED BY <1>1, <2>1
<1> QED BY <1>2, <1>3, <1>4, FS_Injection

LEMMA FromIsChain ==
  ASSUME NEW ch, ShapeInv(ch), NEW r \in Root, Len(ch[r]) > 0
  PROVE  From(ch[r][1]) = ch[r]
<1> DEFINE N == Cardinality(Cell)
           f == CHOOSE g : IsWalk(link, g)
<1>1. IsWalk(link, f)
  BY WalkExists
<1>2. From(ch[r][1]) = f[N][ch[r][1]]
  BY DEF From, IsWalk, Hops
<1>3. PICK s : s = ch[r]
  OBVIOUS
<1>4. s \in Seq(Node) /\ Len(s) \in Nat /\ Len(s) > 0 /\ Len(s) <= N + 1
  BY <1>3, ChainFits DEF ShapeInv
<1>5. /\ \A i \in 1..Len(s) : link[s[i]] = IF i < Len(s) THEN s[i + 1] ELSE End
      /\ \A i \in 1..Len(s) : s[i] \in Node
  BY <1>3, <1>4 DEF ShapeInv, Chained
<1> HIDE DEF f
<1>6. N \in Nat
  BY LFCells, FS_CardinalityType
<1>7. \A n \in 0..N : \A d \in Node : f[n][d] = Hops(link, f, n, d)
  <2>1. \A n \in 0..N : f[n] = [d \in Node |-> Hops(link, f, n, d)]
    BY <1>1, Zenon DEF IsWalk
  <2> QED BY <2>1
<1> HIDE DEF N
<1>8. PICK L : L = Len(s)
  OBVIOUS
<1> DEFINE T == {n \in Nat : n <= N =>
                   \A i \in 1..L : L - i <= n => f[n][s[i]] = SubSeq(s, i, L)}
<1>9. ASSUME NEW n \in 0..N PROVE f[n][s[L]] = SubSeq(s, L, L)
  <2>1. L \in 1..L
    BY <1>4, <1>8
  <2>2. link[s[L]] \notin Node /\ s[L] \in Node
    BY <1>5, <1>8, <2>1, LFCells DEF Node
  <2>3. f[n][s[L]] = <<s[L]>> \o <<>>
    BY <1>7, <2>2 DEF Hops
  <2>4. SubSeq(s, L, L) = <<s[L]>> \o SubSeq(s, L + 1, L)
    BY <1>4, <1>8, <2>1, SubSeqRecursiveFirst
  <2>5. SubSeq(s, L + 1, L) = <<>>
    BY <1>4, <1>8, SubSeqEmpty
  <2> QED BY <2>3, <2>4, <2>5
<1>10. 0 \in T
  <2>1. \A i \in 1..L : L - i <= 0 => i = L
    BY <1>4, <1>8
  <2>2. 0 \in 0..N
    BY <1>6
  <2> QED BY <1>9, <2>1, <2>2
<1>11. ASSUME NEW n \in T PROVE n + 1 \in T
  <2> SUFFICES ASSUME n + 1 <= N, NEW i \in 1..L, L - i <= n + 1
               PROVE  f[n + 1][s[i]] = SubSeq(s, i, L)
    OBVIOUS
  <2>1. n + 1 \in 0..N /\ n + 1 # 0 /\ (n + 1) - 1 = n /\ n \in Nat /\ n <= N
    BY <1>6
  <2>2. CASE i = L
    BY <1>9, <2>1, <2>2
  <2>3. CASE i # L
    <3>1. i + 1 \in 1..L /\ L - (i + 1) <= n /\ i < L /\ i \in 1..Len(s) /\ L \in i..Len(s)
      BY <1>4, <1>8, <2>1, <2>3
    <3>2. link[s[i]] = s[i + 1] /\ s[i] \in Node /\ s[i + 1] \in Node
      BY <1>5, <1>8, <3>1
    <3>3. f[n + 1][s[i]] = <<s[i]>> \o f[n][s[i + 1]]
      BY <1>7, <2>1, <3>2 DEF Hops
    <3>4. f[n][s[i + 1]] = SubSeq(s, i + 1, L)
      BY <2>1, <3>1
    <3>5. SubSeq(s, i, L) = <<s[i]>> \o SubSeq(s, i + 1, L)
      BY <1>4, <3>1, SubSeqRecursiveFirst
    <3> QED BY <3>3, <3>4, <3>5
  <2> QED BY <2>2, <2>3
<1>12. N \in T
  <2> HIDE DEF T
  <2>1. T \subseteq Nat
    BY DEF T
  <2> QED BY <1>6, <1>10, <1>11, <2>1, SetInduction
<1>13. f[N][s[1]] = SubSeq(s, 1, L)
  <2>1. 1 \in 1..L /\ L - 1 <= N
    BY <1>4, <1>6, <1>8
  <2> QED BY <1>6, <1>12, <2>1
<1>14. SubSeq(s, 1, L) = s
  BY <1>4, <1>8, SubSeqFull
<1> QED BY <1>2, <1>3, <1>13, <1>14 DEF N

-----------------------------------------------------------------------------
(* The elements in a sequence of cells.                                    *)

Once(s) == \A i, j \in 1..Len(s) : s[i] = s[j] => i = j

\* Where the dummy is, or would be after the last cell.
IsGap(s, e) == e \in 1..(Len(s) + 1) /\ \A i \in 1..Len(s) : s[i] = Dummy <=> i = e

\* Payloads, for what data was, or will be.
Pay(d, s) ==
  LET past(i) == \E j \in 1..i : s[j] = Dummy
  IN  [i \in 1..(IF past(Len(s)) THEN Len(s) - 1 ELSE Len(s)) |->
         d[s[IF past(i) THEN i + 1 ELSE i]]]

LEMMA PayloadsIsPay == \A s : Payloads(s) = Pay(data, s)
BY DEF Payloads, Pay

LEMMA GapExists ==
  ASSUME NEW s \in Seq(Node), Once(s)
  PROVE  \E e : IsGap(s, e)
<1>1. Len(s) \in Nat
  OBVIOUS
<1>2. CASE In(Dummy, s)
  <2>1. PICK i \in 1..Len(s) : s[i] = Dummy
    BY <1>2 DEF In
  <2>2. IsGap(s, i)
    BY <1>1, <2>1 DEF IsGap, Once
  <2> QED BY <2>2
<1>3. CASE ~In(Dummy, s)
  <2>1. IsGap(s, Len(s) + 1)
    BY <1>1, <1>3 DEF IsGap, In
  <2> QED BY <2>1
<1> QED BY <1>2, <1>3

LEMMA PayAt ==
  ASSUME NEW s \in Seq(Node), NEW e, IsGap(s, e), NEW d
  PROVE  Pay(d, s) = [i \in 1..(IF e <= Len(s) THEN Len(s) - 1 ELSE Len(s)) |->
                        d[s[IF e <= i THEN i + 1 ELSE i]]]
<1> DEFINE past(i) == \E j \in 1..i : s[j] = Dummy
<1>1. Len(s) \in Nat /\ e \in Nat /\ e > 0 /\ e <= Len(s) + 1
  BY DEF IsGap
<1>2. \A i \in 0..Len(s) : past(i) <=> e <= i
  <2> TAKE i \in 0..Len(s)
  <2>1. \A j \in 1..i : j \in 1..Len(s)
    BY <1>1
  <2>2. e <= i => e \in 1..i
    BY <1>1
  <2>3. \A j \in 1..i : j = e => e <= i
    BY <1>1
  <2> QED BY <2>1, <2>2, <2>3 DEF IsGap
<1> HIDE DEF past
<1>3. Len(s) \in 0..Len(s)
  BY <1>1
<1>4. \A i \in 1..(IF e <= Len(s) THEN Len(s) - 1 ELSE Len(s)) : i \in 0..Len(s)
  BY <1>1
<1>5. Pay(d, s) = [i \in 1..(IF past(Len(s)) THEN Len(s) - 1 ELSE Len(s)) |->
                     d[s[IF past(i) THEN i + 1 ELSE i]]]
  BY DEF Pay, past
<1>6. past(Len(s)) <=> e <= Len(s)
  BY <1>2, <1>3
<1>7. Pay(d, s) = [i \in 1..(IF e <= Len(s) THEN Len(s) - 1 ELSE Len(s)) |->
                     d[s[IF past(i) THEN i + 1 ELSE i]]]
  BY <1>5, <1>6
<1>8. \A i \in 1..(IF e <= Len(s) THEN Len(s) - 1 ELSE Len(s)) :
        d[s[IF past(i) THEN i + 1 ELSE i]] = d[s[IF e <= i THEN i + 1 ELSE i]]
  BY <1>2, <1>4
<1> QED BY <1>7, <1>8

\* q has the elements of the cells of s that are not the dummy, each once.
Lists(q, d, s) ==
  /\ Len(q) \in Nat /\ q = [i \in 1..Len(q) |-> q[i]]
  /\ \A i \in 1..Len(q) : \E j \in 1..Len(s) : s[j] # Dummy /\ q[i] = d[s[j]]
  /\ \A i, k \in 1..Len(q) :
       i # k => \E j, m \in 1..Len(s) : /\ j # m /\ s[j] # Dummy /\ s[m] # Dummy
                                        /\ q[i] = d[s[j]] /\ q[k] = d[s[m]]
  /\ \A j \in 1..Len(s) : s[j] # Dummy => \E i \in 1..Len(q) : q[i] = d[s[j]]

LEMMA PayElements ==
  ASSUME NEW s \in Seq(Node), Once(s), NEW d, NEW q, q = Pay(d, s)
  PROVE  Lists(q, d, s)
<1>1. PICK e : IsGap(s, e)
  BY GapExists
<1> DEFINE M == IF e <= Len(s) THEN Len(s) - 1 ELSE Len(s)
           at(i) == IF e <= i THEN i + 1 ELSE i
<1>2. q = [i \in 1..M |-> d[s[at(i)]]]
  BY <1>1, PayAt
<1>3. Len(s) \in Nat /\ e \in Nat /\ e > 0 /\ e <= Len(s) + 1
  BY <1>1 DEF IsGap
<1>4. M \in Nat /\ \A i \in 1..M : at(i) \in 1..Len(s) /\ at(i) # e
  BY <1>3
<1>5. \A i, k \in 1..M : i # k => at(i) # at(k)
  BY <1>3
<1>6. ASSUME NEW j \in 1..Len(s), j # e PROVE \E i \in 1..M : at(i) = j
  <2>1. CASE j < e
    <3>1. j \in 1..M /\ at(j) = j
      BY <1>3, <2>1
    <3> QED BY <3>1
  <2>2. CASE j > e
    <3>1. j - 1 \in 1..M /\ at(j - 1) = j
      BY <1>3, <2>2
    <3> QED BY <3>1
  <2> QED BY <1>3, <1>6, <2>1, <2>2
<1> HIDE DEF M, at
<1>7. /\ Len(q) = M /\ q = [i \in 1..M |-> q[i]]
      /\ \A i \in 1..M : q[i] = d[s[at(i)]]
  BY <1>2, <1>4
<1>8. \A j \in 1..Len(s) : s[j] # Dummy <=> j # e
  BY <1>1 DEF IsGap
<1>9. \A i \in 1..M : \E j \in 1..Len(s) : s[j] # Dummy /\ q[i] = d[s[j]]
  BY <1>4, <1>7, <1>8
<1>10. \A i, k \in 1..M : i # k => \E j, m \in 1..Len(s) :
                         /\ j # m /\ s[j] # Dummy /\ s[m] # Dummy
                         /\ q[i] = d[s[j]] /\ q[k] = d[s[m]]
  <2> TAKE i, k \in 1..M
  <2> HAVE i # k
  <2>1. /\ at(i) \in 1..Len(s) /\ at(k) \in 1..Len(s) /\ at(i) # at(k)
        /\ s[at(i)] # Dummy /\ s[at(k)] # Dummy
    BY <1>4, <1>5, <1>8
  <2>2. q[i] = d[s[at(i)]] /\ q[k] = d[s[at(k)]]
    BY <1>7
  <2> QED BY <2>1, <2>2
<1>11. \A j \in 1..Len(s) : s[j] # Dummy => \E i \in 1..M : q[i] = d[s[j]]
  BY <1>6, <1>7, <1>8
<1> QED BY <1>4, <1>7, <1>9, <1>10, <1>11 DEF Lists

\* They change only with what is in these cells.
LEMMA PayFrame ==
  ASSUME NEW s \in Seq(Node), Once(s), NEW d, NEW e,
         \A i \in 1..Len(s) : s[i] # Dummy => d[s[i]] = e[s[i]]
  PROVE  Pay(d, s) = Pay(e, s)
<1>1. PICK g : IsGap(s, g)
  BY GapExists
<1> DEFINE M == IF g <= Len(s) THEN Len(s) - 1 ELSE Len(s)
           at(i) == IF g <= i THEN i + 1 ELSE i
<1>2. Pay(d, s) = [i \in 1..M |-> d[s[at(i)]]] /\ Pay(e, s) = [i \in 1..M |-> e[s[at(i)]]]
  BY <1>1, PayAt
<1>3. Len(s) \in Nat /\ g \in Nat /\ g > 0 /\ g <= Len(s) + 1
  BY <1>1 DEF IsGap
<1>4. \A i \in 1..M : at(i) \in 1..Len(s) /\ at(i) # g
  BY <1>3
<1> HIDE DEF M, at
<1>5. \A i \in 1..M : d[s[at(i)]] = e[s[at(i)]]
  BY <1>1, <1>4 DEF IsGap
<1> QED BY <1>2, <1>5

\* A sequence given as a function, with one value more.
LEMMA OneMore ==
  ASSUME NEW m \in Nat, NEW a, a = [i \in 1..m |-> a[i]], NEW x
  PROVE  a \o <<x>> = [i \in 1..(m + 1) |-> IF i <= m THEN a[i] ELSE x]
<1> DEFINE S == {a[i] : i \in 1..m} \cup {x}
           b == [i \in 1..(m + 1) |-> IF i <= m THEN a[i] ELSE x]
<1>1. a \in [1..m -> S]
  OBVIOUS
<1>2. a \in Seq(S) /\ Len(a) = m
  BY <1>1, SeqDef
<1>3. b \in [1..(m + 1) -> S]
  <2>1. \A i \in 1..(m + 1) : i <= m => i \in 1..m
    OBVIOUS
  <2> QED BY <2>1
<1>4. b \in Seq(S) /\ Len(b) = m + 1
  BY <1>3, SeqDef
<1>5. \A i \in 1..(m + 1) : b[i] = IF i <= m THEN a[i] ELSE x
  OBVIOUS
<1>6. <<x>> \in Seq(S) /\ Len(<<x>>) = 1 /\ <<x>>[1] = x
  OBVIOUS
<1> HIDE DEF S, b
<1>7. /\ a \o <<x>> \in Seq(S) /\ Len(a \o <<x>>) = m + 1
      /\ \A i \in 1..(m + 1) : (a \o <<x>>)[i] = IF i <= m THEN a[i] ELSE <<x>>[i - m]
  BY <1>2, <1>6, ConcatProperties
<1>8. \A i \in 1..(m + 1) : ~(i <= m) => i - m = 1
  OBVIOUS
<1>9. \A i \in 1..(m + 1) : (a \o <<x>>)[i] = b[i]
  BY <1>5, <1>6, <1>7, <1>8
<1>10. a \o <<x>> = b
  BY <1>4, <1>7, <1>9, SeqEqual
<1> QED BY <1>10 DEF b

LEMMA OneBefore ==
  ASSUME NEW m \in Nat, NEW a, a = [i \in 1..m |-> a[i]], NEW x
  PROVE  <<x>> \o a = [i \in 1..(m + 1) |-> IF i = 1 THEN x ELSE a[i - 1]]
<1> DEFINE S == {a[i] : i \in 1..m} \cup {x}
           b == [i \in 1..(m + 1) |-> IF i = 1 THEN x ELSE a[i - 1]]
<1>1. a \in [1..m -> S]
  OBVIOUS
<1>2. a \in Seq(S) /\ Len(a) = m
  BY <1>1, SeqDef
<1>3. b \in [1..(m + 1) -> S]
  <2>1. \A i \in 1..(m + 1) : i # 1 => i - 1 \in 1..m
    OBVIOUS
  <2> QED BY <2>1
<1>5. \A i \in 1..(m + 1) : b[i] = IF i = 1 THEN x ELSE a[i - 1]
  OBVIOUS
<1>6. <<x>> \in Seq(S) /\ Len(<<x>>) = 1 /\ <<x>>[1] = x
  OBVIOUS
<1> HIDE DEF S, b
<1>4. b \in Seq(S) /\ Len(b) = m + 1
  BY <1>3, SeqDef
<1>7. /\ <<x>> \o a \in Seq(S) /\ Len(<<x>> \o a) = 1 + m
      /\ \A i \in 1..(1 + m) : (<<x>> \o a)[i] = IF i <= 1 THEN <<x>>[i] ELSE a[i - 1]
  BY <1>2, <1>6, ConcatProperties
<1>8. 1 + m = m + 1 /\ \A i \in 1..(m + 1) : i <= 1 <=> i = 1
  OBVIOUS
<1>9. \A i \in 1..(m + 1) : (<<x>> \o a)[i] = b[i]
  BY <1>5, <1>6, <1>7, <1>8
<1>10. <<x>> \o a = b
  <2>1. Len(<<x>> \o a) = m + 1
    BY <1>7, <1>8
  <2>2. PICK w : w = <<x>> \o a
    OBVIOUS
  <2> QED BY <1>4, <1>7, <1>9, <2>1, <2>2, SeqEqual
<1> QED BY <1>10 DEF b

\* A cell at the end adds its element.
LEMMA PayAppend ==
  ASSUME NEW s \in Seq(Node), NEW c \in Node, NEW d, Once(s), ~In(c, s)
  PROVE  Pay(d, s \o <<c>>) = IF c = Dummy THEN Pay(d, s) ELSE Pay(d, s) \o <<d[c]>>
<1>1. PICK L : L = Len(s)
  OBVIOUS
<1>2. PICK t : t = s \o <<c>>
  OBVIOUS
<1>3. /\ L \in Nat /\ t \in Seq(Node) /\ Len(t) = L + 1 /\ t[L + 1] = c
      /\ \A i \in 1..L : t[i] = s[i]
  BY <1>1, <1>2
<1>4. PICK g : IsGap(s, g)
  BY GapExists
<1>5. g \in Nat /\ g > 0 /\ g <= L + 1 /\ \A i \in 1..L : s[i] = Dummy <=> i = g
  BY <1>1, <1>4 DEF IsGap
<1>6. \A i \in 1..(L + 1) : i \in 1..L \/ i = L + 1
  BY <1>3
<1>7. \A i \in 1..L : s[i] # c
  BY <1>1 DEF In
<1>8. Pay(d, s) = [i \in 1..(IF g <= L THEN L - 1 ELSE L) |-> d[s[IF g <= i THEN i + 1 ELSE i]]]
  BY <1>1, <1>4, PayAt
<1>9. CASE c = Dummy
  <2>1. g = L + 1
    <3>1. g \notin 1..L
      BY <1>5, <1>7, <1>9
    <3> QED BY <1>3, <1>5, <3>1
  <2>2. IsGap(t, L + 1)
    <3>1. \A i \in 1..L : t[i] # Dummy
      BY <1>3, <1>7, <1>9
    <3>2. L + 1 \in 1..(L + 2) /\ (L + 1) + 1 = L + 2
      BY <1>3
    <3> QED BY <1>3, <1>6, <1>9, <3>1, <3>2 DEF IsGap
  <2>3. Pay(d, t) = [i \in 1..(IF L + 1 <= L + 1 THEN (L + 1) - 1 ELSE L + 1) |->
                      d[t[IF L + 1 <= i THEN i + 1 ELSE i]]]
    <3>1. \A e : IsGap(t, e) =>
            Pay(d, t) = [i \in 1..(IF e <= Len(t) THEN Len(t) - 1 ELSE Len(t)) |->
                           d[t[IF e <= i THEN i + 1 ELSE i]]]
      BY <1>3, PayAt
    <3> QED BY <1>3, <2>2, <3>1
  <2>4. /\ (IF L + 1 <= L + 1 THEN (L + 1) - 1 ELSE L + 1) = L
        /\ (IF g <= L THEN L - 1 ELSE L) = L
        /\ \A i \in 1..L : (IF L + 1 <= i THEN i + 1 ELSE i) = i
    BY <1>3, <2>1
  <2>5. Pay(d, t) = [i \in 1..L |-> d[t[IF L + 1 <= i THEN i + 1 ELSE i]]]
    BY <2>3, <2>4
  <2>6. Pay(d, s) = [i \in 1..L |-> d[s[IF L + 1 <= i THEN i + 1 ELSE i]]]
    BY <1>8, <2>1, <2>4
  <2>7. \A i \in 1..L : d[t[IF L + 1 <= i THEN i + 1 ELSE i]] = d[s[IF L + 1 <= i THEN i + 1 ELSE i]]
    BY <1>3, <2>4
  <2>8. Pay(d, t) = Pay(d, s)
    BY <2>5, <2>6, <2>7
  <2> QED BY <1>2, <1>9, <2>8
<1>10. CASE c # Dummy
  <2> PICK e : e = IF g <= L THEN g ELSE L + 2
    OBVIOUS
  <2>1. IsGap(t, e)
    <3>1. e \in 1..((L + 1) + 1) /\ (e = L + 1 <=> FALSE) /\ \A i \in 1..L : i = e <=> i = g
      BY <1>3, <1>5
    <3> QED BY <1>3, <1>5, <1>6, <1>10, <3>1 DEF IsGap
  <2> PICK M : M = IF g <= L THEN L - 1 ELSE L
    OBVIOUS
  <2>2. Pay(d, t) = [i \in 1..(IF e <= L + 1 THEN (L + 1) - 1 ELSE L + 1) |->
                      d[t[IF e <= i THEN i + 1 ELSE i]]]
    BY <1>3, <2>1, PayAt
  <2>3. M \in Nat /\ (IF e <= L + 1 THEN (L + 1) - 1 ELSE L + 1) = M + 1
    BY <1>3, <1>5
  <2>4. Pay(d, t) = [i \in 1..(M + 1) |-> d[t[IF e <= i THEN i + 1 ELSE i]]]
    BY <2>2, <2>3
  <2>5. \A i \in 1..M : i \in 1..(M + 1) /\ (IF e <= i THEN i + 1 ELSE i) \in 1..L
                        /\ (IF e <= i THEN i + 1 ELSE i) = (IF g <= i THEN i + 1 ELSE i)
    BY <1>3, <1>5, <2>3
  <2>6. M + 1 \in 1..(M + 1) /\ (IF e <= M + 1 THEN (M + 1) + 1 ELSE M + 1) = L + 1
    BY <1>3, <1>5, <2>3
  <2>7. Pay(d, t)[M + 1] = d[c]
    BY <1>3, <2>4, <2>6
  <2>8. \A i \in 1..M : Pay(d, t)[i] = d[s[IF g <= i THEN i + 1 ELSE i]]
    BY <1>3, <2>4, <2>5
  <2>9. Len(Pay(d, s)) = M /\ \A i \in 1..M : Pay(d, s)[i] = d[s[IF g <= i THEN i + 1 ELSE i]]
    BY <1>8, <2>3
  <2>10. Pay(d, s) \o <<d[c]>> =
           [i \in 1..(M + 1) |-> IF i <= M THEN Pay(d, s)[i] ELSE d[c]]
    <3>1. Pay(d, s) = [i \in 1..M |-> Pay(d, s)[i]]
      BY <1>8, <2>3
    <3> HIDE DEF Pay
    <3> QED BY <2>3, <3>1, OneMore
  <2>11. \A i \in 1..(M + 1) : Pay(d, t)[i] = IF i <= M THEN Pay(d, s)[i] ELSE d[c]
    <3>1. \A i \in 1..(M + 1) : IF i <= M THEN i \in 1..M ELSE i = M + 1
      BY <2>3
    <3> QED BY <2>7, <2>8, <2>9, <3>1
  <2>12. Pay(d, t) = [i \in 1..(M + 1) |-> Pay(d, t)[i]]
    BY <2>4
  <2> QED BY <1>2, <1>10, <2>10, <2>11, <2>12
<1> QED BY <1>9, <1>10

\* The first cell goes with its element.
LEMMA PayTail ==
  ASSUME NEW s \in Seq(Node), NEW d, Once(s), Len(s) > 0
  PROVE  Pay(d, s) = IF s[1] = Dummy THEN Pay(d, Tail(s)) ELSE <<d[s[1]]>> \o Pay(d, Tail(s))
<1>1. PICK L : L = Len(s) - 1
  OBVIOUS
<1>2. PICK t : t = Tail(s)
  OBVIOUS
<1>3. /\ L \in Nat /\ Len(s) = L + 1 /\ t \in Seq(Node) /\ Len(t) = L
      /\ \A i \in 1..L : t[i] = s[i + 1]
  BY <1>1, <1>2
<1>4. PICK g : IsGap(s, g)
  BY GapExists
<1>5. g \in Nat /\ g > 0 /\ g <= L + 2 /\ \A i \in 1..(L + 1) : s[i] = Dummy <=> i = g
  BY <1>3, <1>4 DEF IsGap
<1>6. Pay(d, s) = [i \in 1..(IF g <= L + 1 THEN (L + 1) - 1 ELSE L + 1) |->
                     d[s[IF g <= i THEN i + 1 ELSE i]]]
  BY <1>3, <1>4, PayAt
<1>7. 1 \in 1..(L + 1) /\ \A i \in 1..L : i + 1 \in 1..(L + 1) /\ i + 1 # 1
  BY <1>3
<1>8. CASE s[1] = Dummy
  <2>1. g = 1
    BY <1>5, <1>7, <1>8
  <2>2. IsGap(t, L + 1)
    <3>1. \A i \in 1..L : t[i] # Dummy
      BY <1>3, <1>5, <1>7, <2>1
    <3>2. L + 1 \in 1..(L + 1) /\ \A i \in 1..L : i # L + 1
      BY <1>3
    <3> QED BY <1>3, <3>1, <3>2 DEF IsGap
  <2>3. Pay(d, t) = [i \in 1..(IF L + 1 <= L THEN L - 1 ELSE L) |->
                      d[t[IF L + 1 <= i THEN i + 1 ELSE i]]]
    <3>1. \A e : IsGap(t, e) =>
            Pay(d, t) = [i \in 1..(IF e <= Len(t) THEN Len(t) - 1 ELSE Len(t)) |->
                           d[t[IF e <= i THEN i + 1 ELSE i]]]
      BY <1>3, PayAt
    <3> QED BY <1>3, <2>2, <3>1
  <2>4. /\ (IF L + 1 <= L THEN L - 1 ELSE L) = L
        /\ (IF g <= L + 1 THEN (L + 1) - 1 ELSE L + 1) = L
        /\ \A i \in 1..L : (IF L + 1 <= i THEN i + 1 ELSE i) = i
                           /\ (IF g <= i THEN i + 1 ELSE i) = i + 1
    BY <1>3, <2>1
  <2>5. Pay(d, t) = [i \in 1..L |-> d[t[IF L + 1 <= i THEN i + 1 ELSE i]]]
    BY <2>3, <2>4
  <2>6. Pay(d, s) = [i \in 1..L |-> d[s[IF g <= i THEN i + 1 ELSE i]]]
    BY <1>6, <2>4
  <2>7. \A i \in 1..L : d[t[IF L + 1 <= i THEN i + 1 ELSE i]] = d[s[IF g <= i THEN i + 1 ELSE i]]
    BY <1>3, <2>4
  <2>8. Pay(d, t) = Pay(d, s)
    BY <2>5, <2>6, <2>7
  <2> QED BY <1>2, <1>8, <2>8
<1>9. CASE s[1] # Dummy
  <2>1. g > 1
    BY <1>5, <1>7, <1>9
  <2>2. IsGap(t, g - 1)
    <3>1. g - 1 \in 1..(L + 1) /\ \A i \in 1..L : i = g - 1 <=> i + 1 = g
      BY <1>3, <1>5, <2>1
    <3> QED BY <1>3, <1>5, <1>7, <3>1 DEF IsGap
  <2> PICK M : M = IF g - 1 <= L THEN L - 1 ELSE L
    OBVIOUS
  <2>3. Pay(d, t) = [i \in 1..M |-> d[t[IF g - 1 <= i THEN i + 1 ELSE i]]]
    <3>1. \A e : IsGap(t, e) =>
            Pay(d, t) = [i \in 1..(IF e <= Len(t) THEN Len(t) - 1 ELSE Len(t)) |->
                           d[t[IF e <= i THEN i + 1 ELSE i]]]
      BY <1>3, PayAt
    <3> QED BY <1>3, <2>2, <3>1
  <2>4. M \in Nat /\ (IF g <= L + 1 THEN (L + 1) - 1 ELSE L + 1) = M + 1
    BY <1>3, <1>5, <2>1
  <2>5. Pay(d, s) = [i \in 1..(M + 1) |-> d[s[IF g <= i THEN i + 1 ELSE i]]]
    BY <1>6, <2>4
  <2>6. \A i \in 1..M : /\ (IF g - 1 <= i THEN i + 1 ELSE i) \in 1..L
                        /\ (IF g - 1 <= i THEN i + 1 ELSE i) + 1
                             = (IF g <= i + 1 THEN (i + 1) + 1 ELSE i + 1)
    BY <1>3, <1>5, <2>1, <2>4
  <2>7. \A i \in 1..M : Pay(d, t)[i] = d[s[IF g <= i + 1 THEN (i + 1) + 1 ELSE i + 1]]
    BY <1>3, <2>3, <2>6
  <2>8. \A i \in 1..(M + 1) : IF i = 1 THEN TRUE ELSE i - 1 \in 1..M /\ (i - 1) + 1 = i
    BY <2>4
  <2>9. (IF g <= 1 THEN 1 + 1 ELSE 1) = 1 /\ 1 \in 1..(M + 1)
    BY <1>5, <2>1, <2>4
  <2>10. \A i \in 1..(M + 1) : Pay(d, s)[i] = IF i = 1 THEN d[s[1]] ELSE Pay(d, t)[i - 1]
    <3> TAKE i \in 1..(M + 1)
    <3>1. CASE i = 1
      BY <2>5, <2>9, <3>1
    <3>2. CASE i # 1
      <4>1. PICK j : j = i - 1
        OBVIOUS
      <4>2. j \in 1..M /\ i = j + 1
        BY <2>8, <3>2, <4>1
      <4>3. Pay(d, s)[i] = d[s[IF g <= j + 1 THEN (j + 1) + 1 ELSE j + 1]]
        BY <2>5, <4>2
      <4> QED BY <2>7, <3>2, <4>1, <4>2, <4>3
    <3> QED BY <3>1, <3>2
  <2>11. Pay(d, t) = [i \in 1..M |-> Pay(d, t)[i]]
    BY <2>3
  <2>12. <<d[s[1]]>> \o Pay(d, t) =
           [i \in 1..(M + 1) |-> IF i = 1 THEN d[s[1]] ELSE Pay(d, t)[i - 1]]
    BY <2>4, <2>11, OneBefore
  <2>13. Pay(d, s) = [i \in 1..(M + 1) |-> Pay(d, s)[i]]
    BY <2>5
  <2> QED BY <1>2, <1>9, <2>10, <2>12, <2>13
<1> QED BY <1>8, <1>9

-----------------------------------------------------------------------------
(* Nothing is lost or repeated.                                            *)

\* Two sequences without repetitions and with nothing in common.
LEMMA ConcatOnce ==
  ASSUME NEW S, NEW s \in Seq(S), NEW t \in Seq(S), Once(s), Once(t),
         \A i \in 1..Len(s), j \in 1..Len(t) : s[i] # t[j]
  PROVE  /\ s \o t \in Seq(S) /\ Once(s \o t)
         /\ \A x : In(x, s \o t) <=> In(x, s) \/ In(x, t)
<1> PICK a, b, u : a = Len(s) /\ b = Len(t) /\ u = s \o t
  OBVIOUS
<1>1. a \in Nat /\ b \in Nat /\ u \in Seq(S) /\ Len(u) = a + b
  OBVIOUS
<1>2. \A i \in 1..(a + b) : u[i] = IF i <= a THEN s[i] ELSE t[i - a]
  BY ConcatProperties
<1>3. \A i \in 1..(a + b) : IF i <= a THEN i \in 1..a ELSE i - a \in 1..b
  BY <1>1
<1>4. /\ \A i \in 1..a : i \in 1..(a + b) /\ i <= a
      /\ \A j \in 1..b : a + j \in 1..(a + b) /\ ~(a + j <= a) /\ (a + j) - a = j
  BY <1>1
<1>5. \A x : In(x, u) <=> In(x, s) \/ In(x, t)
  <2> TAKE x
  <2>1. In(x, u) => In(x, s) \/ In(x, t)
    BY <1>1, <1>2, <1>3 DEF In
  <2>2. In(x, s) => In(x, u)
    BY <1>1, <1>2, <1>4 DEF In
  <2>3. In(x, t) => In(x, u)
    <3> SUFFICES ASSUME NEW j \in 1..b, t[j] = x PROVE In(x, u)
      BY DEF In
    <3>1. u[a + j] = x /\ a + j \in 1..Len(u)
      BY <1>1, <1>2, <1>4
    <3> QED BY <3>1 DEF In
  <2> QED BY <2>1, <2>2, <2>3
<1>6. Once(u)
  <2> SUFFICES ASSUME NEW i \in 1..(a + b), NEW j \in 1..(a + b), u[i] = u[j] PROVE i = j
    BY <1>1 DEF Once
  <2>1. CASE i <= a /\ j <= a
    BY <1>2, <1>3, <2>1 DEF Once
  <2>2. CASE i <= a <=> ~(j <= a)
    BY <1>2, <1>3, <2>2
  <2>3. CASE ~(i <= a) /\ ~(j <= a)
    <3>1. t[i - a] = t[j - a] /\ i - a \in 1..b /\ j - a \in 1..b
      BY <1>2, <1>3, <2>3
    <3>2. i - a = j - a
      BY <3>1 DEF Once
    <3> QED BY <1>1, <3>2
  <2> QED BY <2>1, <2>2, <2>3
<1> QED BY <1>1, <1>5, <1>6

\* The elements on a chain.
LEMMA ChainElements ==
  ASSUME NEW ch, NEW older, HeapInv(ch, older), NEW r \in Root
  PROVE  /\ ch[r] \in Seq(Node) /\ Once(ch[r])
         /\ Pay(data, ch[r]) \in Seq(Elem) /\ Once(Pay(data, ch[r]))
         /\ \A x : In(x, Pay(data, ch[r])) <=>
                     \E c \in allocated : In(c, ch[r]) /\ data[c] = x
<1>1. ch[r] \in Seq(Node) /\ Once(ch[r]) /\ Len(ch[r]) \in Nat
  BY DEF HeapInv, ShapeInv, Distinct, Once
<1>2. PICK s, q : s = ch[r] /\ q = Pay(data, ch[r])
  OBVIOUS
<1>3. \A j \in 1..Len(s) : s[j] # Dummy <=> s[j] \in allocated
  <2> TAKE j \in 1..Len(s)
  <2>1. s[j] \in Node /\ OnChain(ch, s[j])
    BY <1>1, <1>2 DEF OnChain, In
  <2> QED BY <2>1, LFCells DEF HeapInv, PlaceInv, Node, TypeInv
<1>4. PICK d : d = data
  OBVIOUS
<1>11. q = Pay(d, s) /\ s \in Seq(Node) /\ Once(s)
  BY <1>1, <1>2, <1>4
<1>12. Lists(q, d, s)
  BY <1>11, PayElements
<1>5. /\ Len(q) \in Nat /\ q = [i \in 1..Len(q) |-> q[i]]
      /\ \A i \in 1..Len(q) : \E j \in 1..Len(s) : s[j] # Dummy /\ q[i] = d[s[j]]
      /\ \A i, k \in 1..Len(q) : 
           i # k => \E j, m \in 1..Len(s) : /\ j # m /\ s[j] # Dummy /\ s[m] # Dummy
                                            /\ q[i] = d[s[j]] /\ q[k] = d[s[m]]
      /\ \A j \in 1..Len(s) : s[j] # Dummy => \E i \in 1..Len(q) : q[i] = d[s[j]]
  BY <1>12 DEF Lists
<1>6. \A c \in allocated : d[c] \in Elem
  BY <1>4 DEF HeapInv, DataInv
<1>7. \A i \in 1..Len(q) : q[i] \in Elem
  BY <1>3, <1>5, <1>6
<1>8. q \in Seq(Elem)
  <2>1. q = [i \in 1..Len(q) |-> q[i]]
    BY <1>5
  <2>2. q \in [1..Len(q) -> Elem]
    BY <1>7, <2>1
  <2> QED BY <1>5, <2>2, SeqDef
<1>9. Once(q)
  <2> SUFFICES ASSUME NEW i \in 1..Len(q), NEW k \in 1..Len(q), q[i] = q[k], i # k PROVE FALSE
    BY DEF Once
  <2>1. PICK j, m \in 1..Len(s) : /\ j # m /\ s[j] # Dummy /\ s[m] # Dummy
                                  /\ q[i] = d[s[j]] /\ q[k] = d[s[m]]
    BY <1>5
  <2>2. s[j] = s[m]
    <3>1. s[j] \in allocated /\ s[m] \in allocated /\ d[s[j]] = d[s[m]]
      BY <1>3, <2>1
    <3> QED BY <1>4, <3>1 DEF HeapInv, DataInv
  <2> QED BY <1>1, <1>2, <2>1, <2>2 DEF Once
<1>10. \A x : In(x, q) <=> \E c \in allocated : In(c, s) /\ data[c] = x
  <2> TAKE x
  <2>1. ASSUME In(x, q) PROVE \E c \in allocated : In(c, s) /\ d[c] = x
    <3>1. PICK i \in 1..Len(q) : q[i] = x
      BY <2>1 DEF In
    <3>2. PICK j \in 1..Len(s) : s[j] # Dummy /\ q[i] = d[s[j]]
      BY <1>5
    <3> QED BY <1>3, <3>1, <3>2 DEF In
  <2>2. ASSUME NEW c \in allocated, In(c, s), d[c] = x PROVE In(x, q)
    <3>1. PICK j \in 1..Len(s) : s[j] = c
      BY <2>2 DEF In
    <3>2. s[j] # Dummy
      BY <1>3, <3>1
    <3>3. PICK i \in 1..Len(q) : q[i] = d[s[j]]
      BY <1>5, <3>2
    <3> QED BY <2>2, <3>1, <3>3 DEF In
  <2> QED BY <1>4, <2>1, <2>2
<1> QED BY <1>1, <1>2, <1>8, <1>9, <1>10

LEMMA ListIsChain ==
  ASSUME NEW ch, ShapeInv(ch)
  PROVE  List = ch[NULL] /\ Queued = Pay(data, ch[NULL])
<1>1. NULL \in Root /\ Len(ch[NULL]) > 0 /\ ch[NULL][1] = head
  BY DEF ShapeInv, Root
<1>2. List = ch[NULL]
  BY <1>1, FromIsChain DEF List
<1> QED BY <1>2, PayloadsIsPay DEF Queued

LEMMA BehindIsChain ==
  ASSUME NEW ch, ShapeInv(ch), CtrlInv
  PROVE  Payloads(Behind) = Pay(data, ch[Reader])
<1>1. Reader \in Root /\ ch[Reader] \in Seq(Node) /\ Reader \in Thread
  BY Others DEF ShapeInv, Root
<1>2. Behind = ch[Reader]
  <2>1. CASE HasChain(Reader)
    <3>1. Len(ch[Reader]) > 0 /\ ch[Reader][1] = Dummy
      BY <1>1, <2>1 DEF ShapeInv, CtrlInv, HasChain, InFifoput
    <3>2. From(Dummy) = ch[Reader]
      BY <1>1, <3>1, FromIsChain
    <3> QED BY <2>1, <3>2 DEF Behind, HasChain
  <2>2. CASE ~HasChain(Reader)
    <3>1. Len(ch[Reader]) = 0
      BY <1>1, <2>2 DEF ShapeInv
    <3>2. ch[Reader] = <<>>
      BY <1>1, <3>1, EmptySeq
    <3> QED BY <2>2, <3>2 DEF Behind, HasChain
  <2> QED BY <2>1, <2>2
<1> QED BY <1>2, PayloadsIsPay

LEMMA AllDelivered ==
  ASSUME NEW ch, NEW older, HeapInv(ch, older)
  PROVE  DeliveredOnce
<1> USE Others, LFCells
<1> SUFFICES ASSUME Quiet
             PROVE  LET all == done \o InHand \o Queued \o Payloads(Behind)
                    IN  /\ IsInjective(all)
                        /\ Range(all) = {e \in Elem : e[2] <= nput[e[1]]}
  BY DEF DeliveredOnce
<1>1. ShapeInv(ch) /\ PlaceInv(ch) /\ DataInv /\ TypeInv /\ CtrlInv
  BY DEF HeapInv
<1>2. PICK A, B, h : A = Pay(data, ch[NULL]) /\ B = Pay(data, ch[Reader]) /\ h = InHand
  OBVIOUS
<1>3. Queued = A /\ Payloads(Behind) = B
  BY <1>1, <1>2, ListIsChain, BehindIsChain
<1>4. /\ A \in Seq(Elem) /\ Once(A)
      /\ \A x : In(x, A) <=> \E c \in allocated : In(c, ch[NULL]) /\ data[c] = x
  <2>1. NULL \in Root
    BY DEF Root
  <2>2. /\ Pay(data, ch[NULL]) \in Seq(Elem) /\ Once(Pay(data, ch[NULL]))
        /\ \A x : In(x, Pay(data, ch[NULL])) <=> \E c \in allocated : In(c, ch[NULL]) /\ data[c] = x
    BY <2>1, ChainElements
  <2> QED BY <1>2, <2>2
<1>5. /\ B \in Seq(Elem) /\ Once(B)
      /\ \A x : In(x, B) <=> \E c \in allocated : In(c, ch[Reader]) /\ data[c] = x
  <2>1. Reader \in Root
    BY DEF Root
  <2>2. /\ Pay(data, ch[Reader]) \in Seq(Elem) /\ Once(Pay(data, ch[Reader]))
        /\ \A x : In(x, Pay(data, ch[Reader])) <=> \E c \in allocated : In(c, ch[Reader]) /\ data[c] = x
    BY <2>1, ChainElements
  <2> QED BY <1>2, <2>2
<1>6. h \in Seq(Elem) /\ Once(h) /\ \A x : In(x, h) <=> cell \in Cell /\ x = data[cell]
  <2>1. CASE cell \in Cell
    <3>1. h = <<data[cell]>> /\ data[cell] \in Elem
      BY <1>1, <1>2, <2>1 DEF InHand, PlaceInv, DataInv
    <3>2. h \in Seq(Elem) /\ Len(h) = 1 /\ h[1] = data[cell]
      BY <3>1
    <3> QED BY <2>1, <3>2 DEF Once, In
  <2>2. CASE cell \notin Cell
    <3>1. h = <<>>
      BY <1>2, <2>2 DEF InHand
    <3>2. h \in Seq(Elem) /\ Len(h) = 0
      BY <3>1
    <3> QED BY <2>2, <3>2 DEF Once, In
  <2> QED BY <2>1, <2>2
<1>7. done \in Seq(Elem) /\ Once(done)
  BY <1>1 DEF DataInv, Once, TypeInv
<1>8. cell \in Cell => cell \in allocated /\ ~In(cell, ch[NULL]) /\ ~In(cell, ch[Reader])
  BY <1>1 DEF PlaceInv, OnChain, Root
<1>9. \A c : ~(In(c, ch[NULL]) /\ In(c, ch[Reader]))
  BY <1>1, Apart DEF ShapeInv, Root
<1>10. \A x : /\ In(x, done) => ~In(x, h) /\ ~In(x, A) /\ ~In(x, B)
              /\ In(x, h) => ~In(x, A) /\ ~In(x, B)
              /\ In(x, A) => ~In(x, B)
  <2>1. \A c, d \in allocated : data[c] = data[d] => c = d
    BY <1>1 DEF DataInv
  <2>2. \A c \in allocated : ~In(data[c], done)
    BY <1>1 DEF DataInv
  <2>3. \A x : In(x, done) => ~In(x, h) /\ ~In(x, A) /\ ~In(x, B)
    BY <1>4, <1>5, <1>6, <1>8, <2>2
  <2>4. \A x : In(x, h) => ~In(x, A) /\ ~In(x, B)
    BY <1>4, <1>5, <1>6, <1>8, <2>1
  <2>5. \A x : In(x, A) => ~In(x, B)
    BY <1>4, <1>5, <1>9, <2>1
  <2> QED BY <2>3, <2>4, <2>5
<1>11. \A s, t : (\A x : ~(In(x, s) /\ In(x, t))) =>
                   \A i \in 1..Len(s), j \in 1..Len(t) : s[i] # t[j]
  BY DEF In
<1>12. PICK u : u = done \o h
  OBVIOUS
<1>13. u \in Seq(Elem) /\ Once(u) /\ \A x : In(x, u) <=> In(x, done) \/ In(x, h)
  <2>1. \A i \in 1..Len(done), j \in 1..Len(h) : done[i] # h[j]
    BY <1>10 DEF In
  <2> QED BY <1>6, <1>7, <1>12, <2>1, ConcatOnce
<1>14. PICK v : v = u \o A
  OBVIOUS
<1>15. v \in Seq(Elem) /\ Once(v) /\ \A x : In(x, v) <=> In(x, u) \/ In(x, A)
  <2>1. \A i \in 1..Len(u), j \in 1..Len(A) : u[i] # A[j]
    <3>1. \A x : ~(In(x, u) /\ In(x, A))
      BY <1>10, <1>13
    <3> QED BY <1>11, <3>1
  <2> QED BY <1>4, <1>13, <1>14, <2>1, ConcatOnce
<1>16. PICK all : all = v \o B
  OBVIOUS
<1>17. all \in Seq(Elem) /\ Once(all) /\ \A x : In(x, all) <=> In(x, v) \/ In(x, B)
  <2>1. \A i \in 1..Len(v), j \in 1..Len(B) : v[i] # B[j]
    <3>1. \A x : ~(In(x, v) /\ In(x, B))
      BY <1>10, <1>13, <1>15
    <3> QED BY <1>11, <3>1
  <2> QED BY <1>5, <1>15, <1>16, <2>1, ConcatOnce
<1>18. DOMAIN all = 1..Len(all)
  BY <1>17
<1>19. IsInjective(all)
  BY <1>17, <1>18 DEF IsInjective, Once
<1>20. \A c \in allocated : In(c, ch[NULL]) \/ In(c, ch[Reader]) \/ c = cell
  <2>1. \A p \in Producer : ~Prepares(p) /\ Len(ch[p]) = 0
    <3>1. \A p \in Producer : ~HasChain(p) /\ ~Prepares(p)
      BY DEF Quiet, HasChain, Prepares
    <3> QED BY <1>1, <3>1 DEF ShapeInv
  <2>2. \A p \in Producer : \A x : ~In(x, ch[p])
    BY <2>1 DEF In
  <2> QED BY <1>1, <2>1, <2>2 DEF PlaceInv, OnChain, Root
<1>21. \A x : In(x, all) <=> x \in Elem /\ x[2] <= nput[x[1]]
  <2>1. \A x : In(x, all) <=> In(x, done) \/ \E c \in allocated : data[c] = x
    <3>0. allocated \subseteq Cell
      BY <1>1 DEF TypeInv
    <3>1. \A x : In(x, all) => In(x, done) \/ \E c \in allocated : data[c] = x
      BY <1>4, <1>5, <1>6, <1>8, <1>13, <1>15, <1>17
    <3>2. \A c \in allocated : In(data[c], all)
      BY <1>4, <1>5, <1>6, <1>13, <1>15, <1>17, <1>20, <3>0
    <3> QED BY <1>13, <1>15, <1>17, <3>1, <3>2
  <2>2. \A x : In(x, done) => x \in Elem
    BY <1>7 DEF In
  <2> QED BY <1>1, <2>1, <2>2 DEF DataInv
<1>22. Range(all) = {e \in Elem : e[2] <= nput[e[1]]}
  <2>1. \A x : x \in Range(all) <=> In(x, all)
    BY <1>18 DEF Range, In
  <2> QED BY <1>21, <2>1
<1> QED BY <1>2, <1>3, <1>12, <1>14, <1>16, <1>19, <1>22

-----------------------------------------------------------------------------
(* Elements are handed over in the order in which their cells were linked. *)

FifoInv(ch) ==
  ~stale => /\ sent = done \o InHand \o Pay(data, ch[NULL])
            /\ \A t \in Thread : HasChain(t) => Len(ch[t]) = 1

LEMMA PayOfDummy ==
  ASSUME NEW s \in Seq(Node), Len(s) = 1, s[1] = Dummy, NEW d
  PROVE  Pay(d, s) = <<>>
<1> PICK q : q = Pay(d, s)
  OBVIOUS
<1>1. Lists(q, d, s)
  BY PayElements DEF Once
<1>2. \A i \in 1..Len(s) : s[i] = Dummy
  OBVIOUS
<1>3. Len(q) \in Nat /\ q = [i \in 1..Len(q) |-> q[i]] /\ \A i \in 1..Len(q) : FALSE
  BY <1>1, <1>2 DEF Lists
<1>4. Len(q) = 0
  <2>1. Len(q) # 0 => 1 \in 1..Len(q)
    BY <1>3
  <2> QED BY <1>3, <2>1
<1>5. q \in Seq(Node)
  <2>1. q \in [1..Len(q) -> Node]
    BY <1>3
  <2> QED BY <1>3, <2>1, SeqDef
<1> QED BY <1>4, <1>5, EmptySeq

LEMMA InitFifo ==
  ASSUME Init, NEW ch, ch = [r \in Root |-> IF r = NULL THEN <<Dummy>> ELSE <<>>]
  PROVE  FifoInv(ch)
<1> USE Others, LFCells
<1>1. ch[NULL] = <<Dummy>>
  BY DEF Root
<1>2. ch[NULL] \in Seq(Node) /\ Len(ch[NULL]) = 1 /\ ch[NULL][1] = Dummy
  <2>1. Dummy \in Node
    BY DEF Node
  <2>2. <<Dummy>> \in Seq(Node) /\ Len(<<Dummy>>) = 1 /\ <<Dummy>>[1] = Dummy
    BY <2>1
  <2> QED BY <1>1, <2>2
<1>3. Pay(data, ch[NULL]) = <<>>
  <2> PICK d : d = data
    OBVIOUS
  <2>1. Pay(d, ch[NULL]) = <<>>
    BY <1>2, PayOfDummy
  <2> QED BY <2>1
<1>4. sent = <<>> /\ done = <<>> /\ InHand = <<>>
  BY DEF Init, InHand
<1>5. \A t \in Thread : ~HasChain(t)
  BY DEF Init, HasChain
<1> QED BY <1>3, <1>4, <1>5 DEF FifoInv

LEMMA FifoFrame ==
  ASSUME NEW ch, FifoInv(ch), UNCHANGED <<sent, done, data, cell, stale>>,
         \A t \in Thread : HasChain(t)' => HasChain(t)
  PROVE  FifoInv(ch)'
BY DEF FifoInv, InHand

\* What is in a cell that is on no chain has no part in it.
LEMMA PayElsewhere ==
  ASSUME NEW ch, NEW older, HeapInv(ch, older), NEW c \in Cell, ~OnChain(ch, c), NEW x,
         data' = [data EXCEPT ![c] = x]
  PROVE  Pay(data', ch[NULL]) = Pay(data, ch[NULL])
<1>1. NULL \in Root /\ ch[NULL] \in Seq(Node) /\ Once(ch[NULL])
  BY ChainElements DEF Root
<1> PICK s, d, e : s = ch[NULL] /\ d = data /\ e = data'
  OBVIOUS
<1>2. \A i \in 1..Len(s) : s[i] # Dummy => d[s[i]] = e[s[i]]
  <2> TAKE i \in 1..Len(s)
  <2>1. s[i] \in Node /\ s[i] # c
    BY <1>1 DEF OnChain, In
  <2> QED BY <2>1 DEF HeapInv, TypeInv, Node
<1>3. Pay(d, s) = Pay(e, s)
  <2>1. s \in Seq(Node) /\ Once(s)
    BY <1>1
  <2> HIDE DEF Pay
  <2> QED BY <1>2, <2>1, PayFrame
<1> QED BY <1>3

LEMMA FifoTest ==
  ASSUME NEW ch, NEW older, HeapInv(ch, older), FifoInv(ch), NEW p \in Producer, PutTest(p)
  PROVE  FifoInv(ch)'
<1> USE Others, LFCells
<1>1. PICK c \in Cell \ allocated : data' = [data EXCEPT ![c] = <<p, nput[p] + 1>>]
  BY DEF PutTest
<1>2. UNCHANGED <<sent, done, cell, stale>>
      /\ pc' = [pc EXCEPT ![p] = IF count = 0 THEN "lock_first" ELSE "put"]
  BY DEF PutTest, Step, getVars
<1>3. \A t \in Thread : HasChain(t)' => HasChain(t)
  BY <1>2 DEF HasChain, HeapInv, TypeInv
<1>4. ~OnChain(ch, c) /\ c # cell
  BY <1>1 DEF HeapInv, PlaceInv
<1>5. Pay(data', ch[NULL]) = Pay(data, ch[NULL])
  <2> PICK x : x = <<p, nput[p] + 1>>
    OBVIOUS
  <2>1. data' = [data EXCEPT ![c] = x]
    BY <1>1
  <2> QED BY <1>4, <2>1, PayElsewhere
<1>6. InHand' = InHand
  BY <1>1, <1>2, <1>4 DEF InHand, HeapInv, TypeInv
<1> QED BY <1>2, <1>3, <1>5, <1>6 DEF FifoInv

LEMMA FifoRun ==
  ASSUME NEW ch, NEW older, HeapInv(ch, older), FifoInv(ch), RunAndFree
  PROVE  FifoInv(ch)'
<1> USE Others, LFCells
<1>1. /\ pc[Reader] = "run" /\ pc' = [pc EXCEPT ![Reader] = "get"]
      /\ done' = Append(done, data[cell]) /\ data' = [data EXCEPT ![cell] = NULL]
      /\ cell' = NULL /\ UNCHANGED <<sent, stale>>
  BY DEF RunAndFree, Step, histVars
<1>2. cell \in Cell /\ cell \in allocated /\ ~OnChain(ch, cell) /\ data[cell] \in Elem
  BY <1>1 DEF HeapInv, CtrlInv, PlaceInv, DataInv
<1>3. \A t \in Thread : HasChain(t)' => HasChain(t)
  BY <1>1 DEF HasChain, HeapInv, TypeInv
<1>4. Pay(data', ch[NULL]) = Pay(data, ch[NULL])
  <2> PICK c : c = cell
    OBVIOUS
  <2>1. c \in Cell /\ ~OnChain(ch, c) /\ data' = [data EXCEPT ![c] = NULL]
    BY <1>1, <1>2
  <2> QED BY <2>1, PayElsewhere
<1>5. InHand = <<data[cell]>> /\ InHand' = <<>>
  BY <1>1, <1>2 DEF InHand
<1>6. done' \o InHand' = done \o InHand
  <2>1. done \in Seq(Elem)
    BY DEF HeapInv, TypeInv
  <2>2. Append(done, data[cell]) = done \o <<data[cell]>> /\ Append(done, data[cell]) \in Seq(Elem)
    BY <1>2, <2>1, AppendIsConcat
  <2>3. Append(done, data[cell]) \o <<>> = Append(done, data[cell])
    BY <2>2, ConcatEmptySeq
  <2> QED BY <1>1, <1>5, <2>2, <2>3
<1> QED BY <1>1, <1>3, <1>4, <1>6 DEF FifoInv

LEMMA FifoStart ==
  ASSUME NEW ch, NEW n, FifoInv(ch), TypeInv, NEW t \in Thread, PutStart(t),
         n[NULL] = ch[NULL], Len(n[t]) = 1, \A q \in Root \ {t} : n[q] = ch[q]
  PROVE  FifoInv(n)'
<1>1. pc' = [pc EXCEPT ![t] = "ic"] /\ UNCHANGED <<sent, done, data, cell, stale>>
  BY DEF PutStart, Step, memVars, getVars, histVars
<1>2. InHand' = InHand
  BY <1>1 DEF InHand
<1>3. \A u \in Thread : u # t => (HasChain(u)' <=> HasChain(u)) /\ n[u] = ch[u]
  BY <1>1 DEF HasChain, TypeInv, Root
<1> QED BY <1>1, <1>2, <1>3 DEF FifoInv

LEMMA FifoLink ==
  ASSUME NEW ch, NEW older, HeapInv(ch, older), FifoInv(ch), NEW t \in Thread,
         PutLink(t), Last(mytail[t]), NEW n, NEW r \in Root, Joins(ch, t, r, n)
  PROVE  FifoInv(n)'
<1> USE Others, LFCells
<1> USE DEF Joins
<1>1. /\ pc[t] = "cas" /\ pc' = [pc EXCEPT ![t] = "swing"]
      /\ stale' = (stale \/ mytail[t] \notin Range(List))
      /\ sent' = IF stale' THEN <<>> ELSE IF t = Reader THEN sent ELSE Append(sent, data[cl[t]])
      /\ UNCHANGED <<done, data, cell>>
  BY DEF PutLink, Linked, Step, memVars, getVars
<1> SUFFICES ASSUME ~stale'
             PROVE  /\ sent' = done' \o InHand' \o Pay(data', n[NULL])
                    /\ \A u \in Thread : HasChain(u)' => Len(n[u]) = 1
  BY DEF FifoInv
<1>2. /\ ch \in [Root -> Seq(Node)] /\ ShapeInv(ch) /\ t \in Root /\ NULL \in Root /\ t # NULL
      /\ ch[NULL] \in Seq(Node) /\ ch[r] \in Seq(Node) /\ ch[t] \in Seq(Node)
  BY DEF HeapInv, ShapeInv, Root
<1>3. ~stale /\ mytail[t] \in Range(ch[NULL])
  BY <1>1, <1>2, ListIsChain
<1>4. In(mytail[t], ch[NULL]) /\ In(mytail[t], ch[r])
  <2>1. DOMAIN ch[NULL] = 1..Len(ch[NULL])
    BY <1>2
  <2>2. Len(ch[r]) \in 1..Len(ch[r])
    BY <1>2
  <2> QED BY <1>3, <2>1, <2>2 DEF In, Range
<1>5. r = NULL
  <2> PICK x : x = mytail[t]
    OBVIOUS
  <2> QED BY <1>2, <1>4, Apart DEF ShapeInv
<1>6. HasChain(t) /\ Len(ch[t]) = 1 /\ ch[t][1] = cl[t]
  BY <1>1, <1>2, <1>3 DEF HasChain, FifoInv, ShapeInv
<1>7. PICK k : k = cl[t]
  OBVIOUS
<1>8. ch[t] = <<k>> /\ k \in Node /\ (k = Dummy <=> t = Reader)
  <2>1. ch[t] = <<k>> /\ k \in Node
    <3>1. 1 \in 1..Len(ch[t]) /\ \A i \in 1..Len(ch[t]) : i = 1
      BY <1>6
    <3>2. k \in Node
      <4>1. ch[t][1] \in Node
        BY <1>2, <3>1, ElementOfSeq
      <4> QED BY <1>6, <1>7, <4>1
    <3>3. <<k>> \in Seq(Node) /\ Len(<<k>>) = 1 /\ <<k>>[1] = k
      BY <3>2
    <3> QED BY <1>2, <1>6, <1>7, <3>1, <3>2, <3>3, SeqEqual
  <2> QED BY <1>1, <1>7, <2>1 DEF HeapInv, CtrlInv, InFifoput
<1>9. n[NULL] = ch[NULL] \o <<k>> /\ \A u \in Thread : u # t => n[u] = ch[u]
  BY <1>2, <1>5, <1>8 DEF Root
<1>10. ~In(k, ch[NULL])
  <2>1. In(k, ch[t])
    BY <1>6, <1>7 DEF In
  <2> QED BY <1>2, <2>1, Apart DEF ShapeInv
<1>11. Pay(data, n[NULL]) = IF t = Reader THEN Pay(data, ch[NULL])
                            ELSE Pay(data, ch[NULL]) \o <<data[k]>>
  <2> PICK d : d = data
    OBVIOUS
  <2>1. Once(ch[NULL])
    BY <1>2, ChainElements
  <2>2. Pay(d, ch[NULL] \o <<k>>) = IF k = Dummy THEN Pay(d, ch[NULL])
                                    ELSE Pay(d, ch[NULL]) \o <<d[k]>>
    BY <1>2, <1>8, <1>10, <2>1, PayAppend
  <2> QED BY <1>8, <1>9, <2>2
<1>12. sent = done \o InHand \o Pay(data, ch[NULL]) /\ InHand' = InHand
  BY <1>1, <1>3 DEF FifoInv, InHand
<1>13. \A u \in Thread : HasChain(u)' => Len(n[u]) = 1
  <2>1. ~HasChain(t)' /\ \A u \in Thread : u # t => (HasChain(u)' <=> HasChain(u))
    BY <1>1 DEF HasChain, HeapInv, TypeInv
  <2> QED BY <1>3, <1>9, <2>1 DEF FifoInv
<1>14. CASE t = Reader
  BY <1>1, <1>11, <1>12, <1>13, <1>14
<1>15. CASE t # Reader
  <2> PICK a, b, x : a = done \o InHand /\ b = Pay(data, ch[NULL]) /\ x = data[k]
    OBVIOUS
  <2>1. x \in Elem
    <3>1. k \in Cell /\ OnChain(ch, k)
      BY <1>2, <1>6, <1>7, <1>8, <1>15 DEF OnChain, In, Node
    <3> QED BY <3>1 DEF HeapInv, PlaceInv, DataInv
  <2>2. a \in Seq(Elem) /\ b \in Seq(Elem)
    <3>1. InHand \in Seq(Elem) /\ done \in Seq(Elem)
      BY DEF HeapInv, TypeInv, InHand, PlaceInv, DataInv
    <3>2. b \in Seq(Elem)
      BY <1>2, ChainElements
    <3> QED BY <3>1, <3>2
  <2>3. sent' = Append(a \o b, x)
    BY <1>1, <1>7, <1>12, <1>15
  <2>4. Append(a \o b, x) = (a \o b) \o <<x>>
    <3>1. a \o b \in Seq(Elem)
      BY <2>2
    <3> QED BY <2>1, <3>1, AppendIsConcat
  <2>5. (a \o b) \o <<x>> = a \o (b \o <<x>>)
    <3>1. <<x>> \in Seq(Elem)
      BY <2>1
    <3> QED BY <2>2, <3>1, ConcatAssociative
  <2> QED BY <1>1, <1>11, <1>12, <1>13, <1>15, <2>3, <2>4, <2>5
<1> QED BY <1>14, <1>15

LEMMA FifoPop ==
  ASSUME NEW ch, NEW older, HeapInv(ch, older), FifoInv(ch), GetPop, next # End,
         cell' = ch[NULL][1], NEW n, n = [ch EXCEPT ![NULL] = Tail(ch[NULL])]
  PROVE  FifoInv(n)'
<1> USE Others, LFCells
<1>1. /\ pc[Reader] = "check" /\ pc' = [pc EXCEPT ![Reader] = "dec"]
      /\ UNCHANGED <<sent, done, data, stale>>
  BY DEF GetPop, Step, memVars, histVars
<1> SUFFICES ASSUME ~stale
             PROVE  /\ sent' = done' \o InHand' \o Pay(data', n[NULL])
                    /\ \A u \in Thread : HasChain(u)' => Len(n[u]) = 1
  BY <1>1 DEF FifoInv
<1>2. /\ ch \in [Root -> Seq(Node)] /\ NULL \in Root
      /\ ch[NULL] \in Seq(Node) /\ Len(ch[NULL]) > 0
  BY DEF HeapInv, ShapeInv, Root
<1>3. PICK c : c = ch[NULL][1]
  OBVIOUS
<1>4. c \in Node /\ OnChain(ch, c)
  BY <1>2, <1>3 DEF OnChain, In
<1>5. \A u \in Thread : (HasChain(u)' => HasChain(u)) /\ n[u] = ch[u]
  BY <1>1, <1>2 DEF HasChain, HeapInv, TypeInv, Root
<1>6. InHand = <<>> /\ InHand' = IF c = Dummy THEN <<>> ELSE <<data[c]>>
  BY <1>1, <1>3, <1>4 DEF InHand, HeapInv, CtrlInv, Node
<1> PICK P, Q, x : P = Pay(data, ch[NULL]) /\ Q = Pay(data, n[NULL]) /\ x = data[c]
  OBVIOUS
<1>7. n[NULL] = Tail(ch[NULL])
  BY <1>2
<1>8. P = IF c = Dummy THEN Q ELSE <<x>> \o Q
  <2> PICK d : d = data
    OBVIOUS
  <2>1. Once(ch[NULL])
    BY <1>2, ChainElements
  <2>2. Pay(d, ch[NULL]) = IF ch[NULL][1] = Dummy THEN Pay(d, Tail(ch[NULL]))
                           ELSE <<d[ch[NULL][1]]>> \o Pay(d, Tail(ch[NULL]))
    BY <1>2, <2>1, PayTail
  <2> QED BY <1>3, <1>7, <2>2
<1>9. sent = done \o <<>> \o P
  BY <1>6 DEF FifoInv
<1>10. done \in Seq(Elem) /\ done \o <<>> = done
  BY ConcatEmptySeq DEF HeapInv, TypeInv
<1>11. CASE c = Dummy
  BY <1>1, <1>5, <1>6, <1>8, <1>9, <1>11 DEF FifoInv
<1>12. CASE c # Dummy
  <2>1. x \in Elem
    BY <1>4, <1>12 DEF HeapInv, PlaceInv, DataInv, Node
  <2>2. Q \in Seq({Q[i] : i \in 1..Len(Q)} \cup Elem)
    <3> PICK d : d = data
      OBVIOUS
    <3>1. n[NULL] \in Seq(Node) /\ Once(n[NULL])
      <4>1. /\ Len(n[NULL]) = Len(ch[NULL]) - 1 /\ n[NULL] \in Seq(Node)
            /\ \A i \in 1..Len(n[NULL]) : n[NULL][i] = ch[NULL][i + 1]
        BY <1>2, <1>7
      <4>2. Once(ch[NULL])
        BY <1>2, ChainElements
      <4>3. \A i \in 1..Len(n[NULL]) : i + 1 \in 1..Len(ch[NULL])
        BY <1>2, <4>1
      <4>4. \A i, j \in 1..Len(n[NULL]) : i + 1 = j + 1 => i = j
        BY <1>2, <4>1
      <4> QED BY <4>1, <4>2, <4>3, <4>4 DEF Once
    <3>2. Lists(Q, d, n[NULL])
      BY <3>1, PayElements
    <3>3. Len(Q) \in Nat /\ Q = [i \in 1..Len(Q) |-> Q[i]]
      BY <3>2 DEF Lists
    <3>4. Q \in [1..Len(Q) -> {Q[i] : i \in 1..Len(Q)} \cup Elem]
      BY <3>3
    <3> QED BY <3>3, <3>4, SeqDef
  <2>3. (done \o <<x>>) \o Q = done \o (<<x>> \o Q)
    <3> PICK S : S = {Q[i] : i \in 1..Len(Q)} \cup Elem
      OBVIOUS
    <3>1. <<x>> \in Seq(S) /\ done \in Seq(S) /\ Q \in Seq(S)
      BY <1>10, <2>1, <2>2, SeqMonotonic
    <3> QED BY <3>1, ConcatAssociative
  <2> QED BY <1>1, <1>5, <1>6, <1>8, <1>9, <1>10, <1>12, <2>3 DEF FifoInv
<1> QED BY <1>11, <1>12

-----------------------------------------------------------------------------
(* A producer alone leaves nobody asleep.                                  *)

\* A producer has linked its cell and not yet counted it.
Uncounted == \E p \in Producer : pc[p] \in {"swing", "inc"}

\* The cells that hang from the dummy on its way back.
Hanging(ch) == IF HasChain(Reader) THEN Len(ch[Reader]) - 1 ELSE 0

\* Cells that the reader has taken, has put back, or a producer has linked, and
\* not yet counted.
Popped == IF pc[Reader] = "dec" THEN 1 ELSE 0
Returned == IF pc[Reader] \in {"swing", "inc"} THEN 1 ELSE 0
Added == IF Uncounted THEN 1 ELSE 0

\* count is the length of the list less the dummy's place, but for the cells
\* not yet counted, and those that hang from the dummy.
Counted(ch) == count = Len(ch[NULL]) - 1 + Popped + Hanging(ch) - Returned - Added

LEMMA Numbers ==
  ASSUME NEW ch, NEW older, HeapInv(ch, older)
  PROVE  /\ Len(ch[NULL]) \in Int /\ Len(ch[Reader]) \in Int /\ count \in Int
         /\ Popped \in Int /\ Hanging(ch) \in Int /\ Returned \in Int /\ Added \in Int
<1>1. Len(ch[NULL]) \in Int /\ Len(ch[Reader]) \in Int /\ count \in Int
  BY Others DEF HeapInv, ShapeInv, Root, TypeInv
<1> QED BY <1>1 DEF Popped, Returned, Added, Hanging

\* The reader sleeps, or holds the lock and is about to.
Retires == waiting \/ (pc[Reader] = "check" /\ attempt = 2 /\ next = End)
\* p has linked its cell and may still have to signal.
Tends(p) == pc[p] \in {"swing", "inc", "test_again", "lock_again", "signal"}

AloneInv(ch) ==
  ~overlap =>
    /\ \A p, q \in Producer : pc[p] # "idle" /\ pc[q] # "idle" => p = q
    /\ \A p \in Producer : HasChain(p) => Len(ch[p]) = 1
    /\ Counted(ch)
    /\ Retires => \/ Len(ch[NULL]) = 1
                  \/ Len(ch[NULL]) = 2 /\ \E p \in Producer : Tends(p)

LEMMA InitAlone ==
  ASSUME Init, NEW ch, ch = [r \in Root |-> IF r = NULL THEN <<Dummy>> ELSE <<>>]
  PROVE  AloneInv(ch)
<1> USE Others
<1>1. Len(ch[NULL]) = 1
  BY DEF Root
<1>2. pc[Reader] = "get" /\ (\A p \in Producer : pc[p] = "idle") /\ count = 0 /\ waiting = FALSE
  BY DEF Init
<1>3. Counted(ch)
  <2>1. ~Uncounted /\ ~HasChain(Reader)
    BY <1>2 DEF HasChain, Uncounted
  <2> QED BY <1>1, <1>2, <2>1 DEF Counted, Hanging, Popped, Returned, Added
<1> QED BY <1>2, <1>3 DEF AloneInv, HasChain, Retires

\* A step of the reader that leaves the chains alone.
LEMMA AloneReader ==
  ASSUME NEW ch, AloneInv(ch), overlap' = overlap, \A p \in Producer : pc'[p] = pc[p],
         Counted(ch) => Counted(ch)', Retires' => Retires \/ Len(ch[NULL]) = 1
  PROVE  AloneInv(ch)'
BY DEF AloneInv, HasChain, Tends

LEMMA CountedReader ==
  ASSUME NEW ch, Counted(ch), count' = count, \A p \in Producer : pc'[p] = pc[p],
         pc[Reader] = "dec" <=> pc'[Reader] = "dec", HasChain(Reader) <=> HasChain(Reader)',
         pc[Reader] \in {"swing", "inc"} <=> pc'[Reader] \in {"swing", "inc"}
  PROVE  Counted(ch)'
<1>1. Uncounted' <=> Uncounted
  BY DEF Uncounted
<1>2. Popped' = Popped /\ Hanging(ch)' = Hanging(ch) /\ Returned' = Returned /\ Added' = Added
  BY <1>1 DEF Hanging, Popped, Returned, Added
<1> QED BY <1>2 DEF Counted

\* A step of a producer that leaves the chains alone.
LEMMA AloneProducer ==
  ASSUME NEW ch, AloneInv(ch), NEW p \in Producer, pc[p] # "idle", overlap' = overlap,
         \A t \in Thread : t # p => pc'[t] = pc[t], UNCHANGED <<attempt, next>>,
         HasChain(p)' => HasChain(p), waiting' => waiting,
         ~overlap /\ Counted(ch) => Counted(ch)',
         Retires' /\ Tends(p) /\ Len(ch[NULL]) = 2 /\ ~overlap /\ Counted(ch) => Tends(p)'
  PROVE  AloneInv(ch)'
<1> USE Others
<1> SUFFICES ASSUME ~overlap PROVE AloneInv(ch)'
  BY DEF AloneInv
<1>1. \A q \in Producer : pc[q] # "idle" => q = p
  BY DEF AloneInv
<1>2. \A q \in Producer : pc'[q] # "idle" => q = p
  BY <1>1
<1>3. \A q \in Producer : HasChain(q)' => Len(ch[q]) = 1
  <2>1. \A q \in Producer : HasChain(q)' => HasChain(q)
    BY DEF HasChain
  <2> QED BY <2>1 DEF AloneInv
<1>4. Counted(ch) /\ Counted(ch)'
  BY DEF AloneInv
<1>5. ASSUME Retires'
      PROVE  Len(ch[NULL]) = 1 \/ (Len(ch[NULL]) = 2 /\ Tends(p)')
  <2>1. Retires
    BY <1>5 DEF Retires
  <2>2. CASE Len(ch[NULL]) = 1
    BY <2>2
  <2>3. CASE Len(ch[NULL]) = 2 /\ \E q \in Producer : Tends(q)
    <3>1. Tends(p)
      BY <1>1, <2>3 DEF Tends
    <3> QED BY <1>4, <1>5, <2>3, <3>1
  <2> QED BY <2>1, <2>2, <2>3 DEF AloneInv
<1> QED BY <1>2, <1>3, <1>4, <1>5 DEF AloneInv

LEMMA CountedProducer ==
  ASSUME NEW ch, Counted(ch), NEW p \in Producer, count' = count,
         \A t \in Thread : t # p => pc'[t] = pc[t],
         pc[p] \in {"swing", "inc"} <=> pc'[p] \in {"swing", "inc"}
  PROVE  Counted(ch)'
<1> USE Others
<1>1. Uncounted' <=> Uncounted
  BY DEF Uncounted
<1>2. pc'[Reader] = pc[Reader]
  OBVIOUS
<1>3. Popped' = Popped /\ Hanging(ch)' = Hanging(ch) /\ Returned' = Returned /\ Added' = Added
  BY <1>1, <1>2 DEF HasChain, Hanging, Popped, Returned, Added
<1> QED BY <1>3 DEF Counted

\* What a step of fifoput that leaves the chains alone changes.
LEMMA AlonePut ==
  ASSUME NEW ch, NEW older, HeapInv(ch, older), AloneInv(ch), MutInv, NEW t \in Thread,
         NEW a, NEW b, pc[t] = a, pc' = [pc EXCEPT ![t] = b],
         UNCHANGED <<count, overlap, attempt, next, waiting>>,
         \/ a \in {"ic", "tail", "cas", "help"} /\ b \in {"ic", "tail", "cas", "help"}
         \/ a = "swing" /\ b = "inc"
  PROVE  AloneInv(ch)'
<1> USE Others
<1>1. pc'[t] = b /\ \A u \in Thread : u # t => pc'[u] = pc[u]
  BY DEF HeapInv, TypeInv
<1>2. CASE t = Reader
  <2>1. Counted(ch) => Counted(ch)'
    BY <1>1, <1>2, CountedReader DEF HasChain
  <2>2. Retires' => Retires
    BY <1>1, <1>2 DEF Retires
  <2> QED BY <1>1, <1>2, <2>1, <2>2, AloneReader
<1>3. CASE t # Reader
  <2>0. t \in Producer
    BY <1>3
  <2>1. Counted(ch) => Counted(ch)'
    BY <1>1, <2>0, CountedProducer
  <2>2. Tends(t) => Tends(t)'
    BY <1>1 DEF Tends
  <2>3. HasChain(t)' => HasChain(t)
    BY <1>1 DEF HasChain
  <2>4. pc[t] # "idle"
    OBVIOUS
  <2> QED BY <1>1, <2>0, <2>1, <2>2, <2>3, <2>4, AloneProducer
<1> QED BY <1>2, <1>3

LEMMA AloneTest ==
  ASSUME NEW ch, NEW older, HeapInv(ch, older), AloneInv(ch), NEW p \in Producer, PutTest(p)
  PROVE  AloneInv(ch)'
<1> USE Others
<1>1. /\ pc[p] = "idle" /\ pc' = [pc EXCEPT ![p] = IF count = 0 THEN "lock_first" ELSE "put"]
      /\ overlap' = (overlap \/ \E q \in Producer : pc[q] # "idle")
      /\ UNCHANGED <<count, waiting, attempt, next>>
  BY DEF PutTest, Step, wakeVars, getVars
<1> SUFFICES ASSUME ~overlap, \A q \in Producer : pc[q] = "idle" PROVE AloneInv(ch)'
  BY <1>1 DEF AloneInv
<1>2. /\ pc'[p] \in {"lock_first", "put"}
      /\ \A u \in Thread : u # p => pc'[u] = pc[u]
  BY <1>1 DEF HeapInv, TypeInv
<1>3. \A q \in Producer : q # p => pc'[q] = "idle"
  BY <1>2
<1>4. \A q \in Producer : ~HasChain(q)'
  BY <1>2, <1>3 DEF HasChain
<1>5. Counted(ch)'
  <2>1. Counted(ch)
    BY DEF AloneInv
  <2>2. pc[p] \in {"swing", "inc"} <=> pc'[p] \in {"swing", "inc"}
    BY <1>1, <1>2
  <2> QED BY <1>1, <1>2, <2>1, <2>2, CountedProducer
<1>6. Retires' => Len(ch[NULL]) = 1
  <2>1. Retires' => Retires
    BY <1>1, <1>2 DEF Retires
  <2>2. \A q \in Producer : ~Tends(q)
    BY DEF Tends
  <2> QED BY <2>1, <2>2 DEF AloneInv
<1> QED BY <1>3, <1>4, <1>5, <1>6 DEF AloneInv

LEMMA AlonePutStep ==
  ASSUME NEW ch, NEW older, HeapInv(ch, older), AloneInv(ch), MutInv, NEW p \in Producer,
         PutLock(p) \/ PutCount(p) \/ PutTestAgain(p) \/ PutSignal(p)
  PROVE  AloneInv(ch)'
<1> USE Others
<1> USE DEF Step, listVars, memVars, wakeVars, getVars, putVars, histVars
<1>0. TypeInv /\ CtrlInv
  BY DEF HeapInv
<1>1. CASE PutLock(p)
  <2>1. /\ pc[p] \in {"lock_first", "lock_again"} /\ pc'[p] \in {"put", "signal"}
        /\ (pc[p] = "lock_again" => pc'[p] = "signal")
        /\ \A u \in Thread : u # p => pc'[u] = pc[u]
        /\ UNCHANGED <<count, overlap, waiting, attempt, next>>
    <3>1. CASE pc[p] = "lock_first" /\ pc' = [pc EXCEPT ![p] = "put"]
      BY <1>0, <1>1, <3>1 DEF PutLock, TypeInv
    <3>2. CASE pc[p] = "lock_again" /\ pc' = [pc EXCEPT ![p] = "signal"]
      BY <1>0, <1>1, <3>2 DEF PutLock, TypeInv
    <3> QED BY <1>1, <3>1, <3>2 DEF PutLock
  <2>2. Counted(ch) => Counted(ch)'
    BY <2>1, CountedProducer
  <2>3. Tends(p) => Tends(p)'
    BY <2>1 DEF Tends
  <2>4. ~HasChain(p)'
    BY <2>1 DEF HasChain
  <2>5. pc[p] # "idle"
    BY <2>1
  <2> QED BY <2>1, <2>2, <2>3, <2>4, <2>5, AloneProducer
<1>2. CASE PutCount(p)
  <2>1. /\ pc[p] = "inc" /\ pc'[p] \in {"signal", "test_again"} /\ count' = count + 1
        /\ \A u \in Thread : u # p => pc'[u] = pc[u]
        /\ UNCHANGED <<overlap, waiting, attempt, next>>
    BY <1>0, <1>2 DEF PutCount, TypeInv
  <2>2. ~overlap /\ Counted(ch) => Counted(ch)'
    <3> SUFFICES ASSUME ~overlap, Counted(ch) PROVE Counted(ch)'
      OBVIOUS
    <3>1. \A q \in Producer : pc[q] # "idle" => q = p
      BY <2>1 DEF AloneInv
    <3>2. Uncounted /\ ~Uncounted'
      BY <2>1, <3>1 DEF Uncounted
    <3>3. pc'[Reader] = pc[Reader] /\ (HasChain(Reader)' <=> HasChain(Reader))
      BY <2>1 DEF HasChain
    <3>4. Popped' = Popped /\ Hanging(ch)' = Hanging(ch) /\ Returned' = Returned
          /\ Added = 1 /\ Added' = 0
      BY <3>2, <3>3 DEF Hanging, Popped, Returned, Added
    <3> PICK L, k, d, h, r : L = Len(ch[NULL]) /\ k = count /\ d = Popped /\ h = Hanging(ch) /\ r = Returned
      OBVIOUS
    <3>5. L \in Int /\ k \in Int /\ d \in Int /\ h \in Int /\ r \in Int
      BY Numbers
    <3>6. k = L - 1 + d + h - r - 1
      BY <3>4 DEF Counted
    <3>7. k + 1 = L - 1 + d + h - r - 0
      BY <3>5, <3>6
    <3> QED BY <2>1, <3>4, <3>7 DEF Counted
  <2>3. Tends(p)'
    BY <2>1 DEF Tends
  <2>4. ~HasChain(p)'
    BY <2>1 DEF HasChain
  <2>5. pc[p] # "idle"
    BY <2>1
  <2> QED BY <2>1, <2>2, <2>3, <2>4, <2>5, AloneProducer
<1>3. CASE PutTestAgain(p)
  <2>1. /\ pc[p] = "test_again" /\ pc'[p] = IF count = 1 THEN "lock_again" ELSE "idle"
        /\ \A u \in Thread : u # p => pc'[u] = pc[u]
        /\ UNCHANGED <<count, overlap, waiting, attempt, next>>
    BY <1>0, <1>3 DEF PutTestAgain, SlippedIn, TypeInv
  <2>2. Counted(ch) => Counted(ch)'
    BY <2>1, CountedProducer
  <2>3. Retires' /\ Tends(p) /\ Len(ch[NULL]) = 2 /\ ~overlap /\ Counted(ch) => Tends(p)'
    <3> SUFFICES ASSUME Retires', Len(ch[NULL]) = 2, ~overlap, Counted(ch) PROVE count = 1
      BY <2>1 DEF Tends
    <3>1. \A q \in Producer : pc[q] # "idle" => q = p
      BY <2>1 DEF AloneInv
    <3>2. ~Uncounted
      BY <2>1, <3>1 DEF Uncounted
    <3>3. pc[Reader] \in {"wait", "check"}
      <4>1. Retires
        BY <2>1 DEF Retires
      <4> QED BY <4>1 DEF Retires, MutInv
    <3>4. ~HasChain(Reader) /\ pc[Reader] # "dec" /\ pc[Reader] \notin {"swing", "inc"}
      BY <3>3 DEF HasChain
    <3> QED BY <3>2, <3>4 DEF Counted, Hanging, Popped, Returned, Added
  <2>4. ~HasChain(p)'
    BY <2>1 DEF HasChain
  <2>5. pc[p] # "idle"
    BY <2>1
  <2> QED BY <2>1, <2>2, <2>3, <2>4, <2>5, AloneProducer
<1>4. CASE PutSignal(p)
  <2>1. /\ pc[p] = "signal" /\ pc'[p] = "idle" /\ waiting' = FALSE
        /\ \A u \in Thread : u # p => pc'[u] = pc[u]
        /\ UNCHANGED <<count, overlap, attempt, next>>
    BY <1>0, <1>4 DEF PutSignal, TypeInv
  <2>2. Counted(ch) => Counted(ch)'
    BY <2>1, CountedProducer
  <2>3. ~Retires'
    <3> SUFFICES ASSUME Retires' PROVE FALSE
      OBVIOUS
    <3>1. pc[Reader] = "check" /\ attempt = 2
      BY <2>1 DEF Retires
    <3>2. mut = Reader /\ mut = p
      BY <2>1, <3>1 DEF MutInv
    <3> QED BY <3>2
  <2>4. ~HasChain(p)'
    BY <2>1 DEF HasChain
  <2>5. pc[p] # "idle" /\ (waiting' => waiting)
    BY <2>1
  <2> QED BY <2>1, <2>2, <2>3, <2>4, <2>5, AloneProducer
<1> QED BY <1>1, <1>2, <1>3, <1>4

LEMMA LeastLength == \A m \in Nat : m > 0 /\ ~(1 < m) => m = 1
OBVIOUS

\* The list is one cell long when nothing follows the head.
LEMMA OnlyHead ==
  ASSUME NEW ch, ShapeInv(ch), link[head] = End
  PROVE  Len(ch[NULL]) = 1
<1> PICK m : m = Len(ch[NULL])
  OBVIOUS
<1>1. ch[NULL] \in Seq(Node) /\ m \in Nat /\ m > 0 /\ NULL \in Root /\ ch[NULL][1] = head
  BY DEF ShapeInv, Root
<1>2. 1 \in 1..m /\ (1 < m => 2 \in 1..m)
  BY <1>1
<1>3. link[head] = IF 1 < m THEN ch[NULL][2] ELSE End
  BY <1>1, <1>2 DEF ShapeInv, Chained
<1>4. ~(1 < m)
  <2>1. 1 < m => ch[NULL][2] \in Node
    BY <1>1, <1>2
  <2> QED BY <1>3, <2>1, LFCells DEF Node
<1>5. m \in Nat /\ m > 0
  BY <1>1
<1>6. m = 1
  BY <1>4, <1>5, LeastLength
<1> QED BY <1>6

LEMMA CountedBack ==
  ASSUME NEW L \in Int, NEW k \in Int, NEW a \in Int, k = L - 1 + 0 + 0 - 1 - a
  PROVE  k + 1 = L - 1 + 0 + 0 - 0 - a
OBVIOUS

LEMMA AloneGetStep ==
  ASSUME NEW ch, NEW older, HeapInv(ch, older), AloneInv(ch), MutInv,
         \/ GetReadIc \/ GetReadNext \/ (GetPop /\ next = End) \/ GetBehind \/ GetHelp
         \/ GetCount \/ GetRecount \/ GetEmpty \/ GetLock \/ GetReturn \/ RunAndFree
         \/ SpuriousWakeup
  PROVE  AloneInv(ch)'
<1> USE Others
<1> USE DEF Step, listVars, memVars, wakeVars, getVars, putVars, histVars
<1>0. TypeInv /\ CtrlInv
  BY DEF HeapInv
<1>101. ASSUME NEW b, pc' = [pc EXCEPT ![Reader] = b]
        PROVE  pc'[Reader] = b /\ \A p \in Producer : pc'[p] = pc[p]
  BY <1>0, <1>101 DEF TypeInv
<1>102. ASSUME NEW a, NEW b, pc[Reader] = a, pc' = [pc EXCEPT ![Reader] = b],
               a \notin {"ic", "tail", "cas", "help", "swing", "inc", "dec"},
               b \notin {"ic", "tail", "cas", "help", "swing", "inc", "dec"},
               UNCHANGED <<count, overlap>>, Retires' => Retires \/ Len(ch[NULL]) = 1
        PROVE  AloneInv(ch)'
  <2>1. pc'[Reader] = b /\ \A p \in Producer : pc'[p] = pc[p]
    BY <1>101, <1>102
  <2>2. Counted(ch) => Counted(ch)'
    BY <1>102, <2>1, CountedReader DEF HasChain
  <2> QED BY <1>102, <2>1, <2>2, AloneReader
<1>103. waiting => pc[Reader] = "wait"
  BY DEF MutInv
<1>104. ASSUME NEW b, pc' = [pc EXCEPT ![Reader] = b], b # "check", pc[Reader] # "wait",
               waiting' = waiting
        PROVE  ~Retires'
  <2>1. ~waiting'
    BY <1>103, <1>104
  <2>2. pc'[Reader] # "check"
    BY <1>101, <1>104
  <2> QED BY <2>1, <2>2 DEF Retires
<1>1. CASE GetReadIc
  <2>1. pc[Reader] = "get" /\ pc' = [pc EXCEPT ![Reader] = "next"] /\ UNCHANGED <<count, overlap, waiting>>
    BY <1>1 DEF GetReadIc
  <2>2. ~Retires'
    BY <1>104, <2>1
  <2> QED BY <1>102, <2>1, <2>2
<1>2. CASE GetReadNext
  <2>1. /\ pc[Reader] = "next" /\ pc' = [pc EXCEPT ![Reader] = "check"] /\ next' = link[head]
        /\ UNCHANGED <<count, overlap, waiting>>
    BY <1>2 DEF GetReadNext
  <2>2. Retires' => Len(ch[NULL]) = 1
    BY <1>103, <2>1, OnlyHead DEF Retires, HeapInv
  <2> QED BY <1>102, <2>1, <2>2
<1>3. CASE GetPop /\ next = End
  <2>1. pc[Reader] = "check" /\ pc' = [pc EXCEPT ![Reader] = "get"] /\ UNCHANGED <<count, overlap, waiting>>
    BY <1>3 DEF GetPop
  <2>2. ~Retires'
    BY <1>104, <2>1
  <2> QED BY <1>102, <2>1, <2>2
<1>4. CASE GetBehind
  <2>1. pc[Reader] = "check" /\ pc' = [pc EXCEPT ![Reader] = "help_get"] /\ UNCHANGED <<count, overlap, waiting>>
    BY <1>4 DEF GetBehind
  <2>2. ~Retires'
    BY <1>104, <2>1
  <2> QED BY <1>102, <2>1, <2>2
<1>5. CASE GetHelp
  <2>1. pc[Reader] = "help_get" /\ pc' = [pc EXCEPT ![Reader] = "get"] /\ UNCHANGED <<count, overlap, waiting>>
    BY <1>5 DEF GetHelp
  <2>2. ~Retires'
    BY <1>104, <2>1
  <2> QED BY <1>102, <2>1, <2>2
<1>6. CASE GetCount
  <2>1. /\ pc[Reader] = "dec" /\ pc'[Reader] \in {"put", "return"} /\ count' = count - 1
        /\ \A p \in Producer : pc'[p] = pc[p]
        /\ UNCHANGED <<overlap, waiting>>
    BY <1>0, <1>6 DEF GetCount, TypeInv
  <2>2. ~Retires'
    BY <1>103, <2>1 DEF Retires
  <2>3. Counted(ch) => Counted(ch)'
    <3>1. ~HasChain(Reader) /\ ~HasChain(Reader)' /\ (Uncounted' <=> Uncounted)
      BY <2>1 DEF HasChain, Uncounted
    <3>3. Popped = 1 /\ Popped' = 0 /\ Returned = 0 /\ Returned' = 0
          /\ Hanging(ch)' = 0 /\ Hanging(ch) = 0 /\ Added' = Added
      BY <2>1, <3>1 DEF Hanging, Popped, Returned, Added
    <3> PICK L, k, a : L = Len(ch[NULL]) /\ k = count /\ a = Added
      OBVIOUS
    <3>4. L \in Int /\ k \in Int /\ a \in Int
      BY Numbers
    <3>5. k = L - 1 + 1 + 0 - 0 - a => k - 1 = L - 1 + 0 + 0 - 0 - a
      BY <3>4
    <3> QED BY <2>1, <3>3, <3>5 DEF Counted
  <2> QED BY <2>1, <2>2, <2>3, AloneReader
<1>7. CASE GetRecount
  <2>1. /\ pc[Reader] = "inc" /\ pc'[Reader] = "get" /\ count' = count + 1
        /\ \A p \in Producer : pc'[p] = pc[p]
        /\ UNCHANGED <<overlap, waiting>>
    BY <1>0, <1>7 DEF GetRecount, TypeInv
  <2>2. ~Retires'
    BY <1>103, <2>1 DEF Retires
  <2>3. Counted(ch) => Counted(ch)'
    <3>1. ~HasChain(Reader) /\ ~HasChain(Reader)' /\ (Uncounted' <=> Uncounted)
      BY <2>1 DEF HasChain, Uncounted
    <3>3. Popped = 0 /\ Popped' = 0 /\ Returned = 1 /\ Returned' = 0
          /\ Hanging(ch)' = 0 /\ Hanging(ch) = 0 /\ Added' = Added
      BY <2>1, <3>1 DEF Hanging, Popped, Returned, Added
    <3> PICK L, k, a : L = Len(ch[NULL]) /\ k = count /\ a = Added
      OBVIOUS
    <3>4. L \in Int /\ k \in Int /\ a \in Int
      BY Numbers
    <3>5. k = L - 1 + 0 + 0 - 1 - a => k + 1 = L - 1 + 0 + 0 - 0 - a
      BY <3>4, CountedBack
    <3> QED BY <2>1, <3>3, <3>5 DEF Counted
  <2> QED BY <2>1, <2>2, <2>3, AloneReader
<1>8. CASE GetEmpty
  <2>0. UNCHANGED <<count, overlap>> /\ next = End /\ pc[Reader] = "check"
    BY <1>8 DEF GetEmpty
  <2>1. CASE attempt = 1 /\ pc' = [pc EXCEPT ![Reader] = "lock"] /\ UNCHANGED waiting
    <3>1. ~Retires'
      BY <1>104, <2>0, <2>1
    <3> QED BY <1>102, <2>0, <2>1, <3>1
  <2>2. CASE attempt = 2 /\ pc' = [pc EXCEPT ![Reader] = "wait"]
    <3>1. Retires
      BY <2>0, <2>2 DEF Retires
    <3> QED BY <1>102, <2>0, <2>2, <3>1
  <2>3. CASE attempt = 3 /\ pc' = [pc EXCEPT ![Reader] = "null"] /\ UNCHANGED waiting
    <3>1. ~Retires'
      BY <1>104, <2>0, <2>3
    <3> QED BY <1>102, <2>0, <2>3, <3>1
  <2> QED BY <1>8, <2>1, <2>2, <2>3 DEF GetEmpty
<1>9. CASE GetLock
  <2>1. /\ pc[Reader] \in {"lock", "wait"} /\ pc' = [pc EXCEPT ![Reader] = "get"] /\ ~waiting
        /\ UNCHANGED <<count, overlap, waiting>>
    BY <1>9, <1>103 DEF GetLock
  <2>2. ~Retires'
    BY <1>101, <2>1 DEF Retires
  <2>3. CASE pc[Reader] = "lock"
    BY <1>102, <2>1, <2>2, <2>3
  <2>4. CASE pc[Reader] = "wait"
    BY <1>102, <2>1, <2>2, <2>4
  <2> QED BY <2>1, <2>3, <2>4
<1>10. CASE GetReturn
  <2>1. pc[Reader] = "return" /\ pc' = [pc EXCEPT ![Reader] = "run"] /\ UNCHANGED <<count, overlap, waiting>>
    BY <1>10 DEF GetReturn
  <2>2. ~Retires'
    BY <1>104, <2>1
  <2> QED BY <1>102, <2>1, <2>2
<1>11. CASE RunAndFree
  <2>1. pc[Reader] = "run" /\ pc' = [pc EXCEPT ![Reader] = "get"] /\ UNCHANGED <<count, overlap, waiting>>
    BY <1>11 DEF RunAndFree
  <2>2. ~Retires'
    BY <1>104, <2>1
  <2> QED BY <1>102, <2>1, <2>2
<1>12. CASE SpuriousWakeup
  <2>1. waiting' = FALSE /\ UNCHANGED <<pc, count, overlap, attempt, next>>
    BY <1>12 DEF SpuriousWakeup
  <2>2. Retires' => Retires
    BY <2>1 DEF Retires
  <2>3. Counted(ch) => Counted(ch)'
    BY <2>1, CountedReader DEF HasChain
  <2> QED BY <2>1, <2>2, <2>3, AloneReader
<1> QED BY <1>1, <1>2, <1>3, <1>4, <1>5, <1>6, <1>7, <1>8, <1>9, <1>10, <1>11, <1>12


\* A thread begins fifoput: its cell is a chain of its own.
LEMMA AloneStart ==
  ASSUME NEW ch, NEW older, HeapInv(ch, older), AloneInv(ch), MutInv, NEW t \in Thread, PutStart(t),
         NEW n, n[NULL] = ch[NULL], Len(n[t]) = 1, \A q \in Root \ {t} : n[q] = ch[q]
  PROVE  AloneInv(n)'
<1> USE Others
<1>1. /\ pc[t] = "put" /\ pc'[t] = "ic" /\ \A u \in Thread : u # t => pc'[u] = pc[u]
      /\ UNCHANGED <<count, overlap, waiting, attempt, next>>
  BY DEF PutStart, Step, memVars, wakeVars, getVars, histVars, HeapInv, TypeInv
<1>2. \A u \in Thread : u # t => n[u] = ch[u] /\ (HasChain(u)' <=> HasChain(u))
  BY <1>1 DEF Root, HasChain
<1>3. ~HasChain(t) /\ HasChain(t)'
  BY <1>1 DEF HasChain
<1> SUFFICES ASSUME ~overlap PROVE AloneInv(n)'
  BY <1>1 DEF AloneInv
<1>4. \A p, q \in Producer : pc'[p] # "idle" /\ pc'[q] # "idle" => p = q
  <2>1. \A p \in Producer : pc'[p] # "idle" => pc[p] # "idle"
    BY <1>1
  <2> QED BY <2>1 DEF AloneInv
<1>5. \A p \in Producer : HasChain(p)' => Len(n[p]) = 1
  BY <1>2 DEF AloneInv
<1>6. Counted(n)'
  <2>1. Popped' = Popped /\ Returned' = Returned
    BY <1>1 DEF Popped, Returned
  <2>2. Uncounted' <=> Uncounted
    BY <1>1 DEF Uncounted
  <2>3. Added' = Added
    BY <2>2 DEF Added
  <2>4. Hanging(n)' = Hanging(ch)
    <3>1. CASE t = Reader
      BY <1>3, <3>1 DEF Hanging
    <3>2. CASE t # Reader
      BY <1>2, <3>2 DEF Hanging
    <3> QED BY <3>1, <3>2
  <2>5. Counted(ch)
    BY DEF AloneInv
  <2> QED BY <1>1, <2>1, <2>3, <2>4, <2>5 DEF Counted
<1>7. ASSUME Retires' PROVE Len(n[NULL]) = 1
  <2>1. Retires
    BY <1>1, <1>7 DEF Retires
  <2>2. t # Reader
    BY <1>1, <2>1 DEF Retires, MutInv
  <2>3. \A p \in Producer : ~Tends(p)
    <3>1. \A p \in Producer : pc[p] # "idle" => p = t
      BY <1>1, <2>2 DEF AloneInv
    <3> QED BY <1>1, <3>1 DEF Tends
  <2> QED BY <2>1, <2>3 DEF AloneInv
<1> QED BY <1>4, <1>5, <1>6, <1>7 DEF AloneInv

\* What the steps that change the list must add up to.
LEMMA SumHang ==
  \A L, k, h \in Int : k = L - 1 + 0 + (h - 1) - 0 - 0 => k = L - 1 + 0 + ((h + 1) - 1) - 0 - 1
OBVIOUS

LEMMA SumReturn ==
  \A L, k, h, a \in Int : k = L - 1 + 0 + (h - 1) - 0 - a => k = (L + h) - 1 + 0 + 0 - 1 - a
OBVIOUS

LEMMA SumPop ==
  \A L, k, a \in Int : k = L - 1 + 0 + 0 - 0 - a => k = (L - 1) - 1 + 1 + 0 - 0 - a
OBVIOUS

\* A thread links its chain to the list or, unless it is the reader, to the
\* chain that the reader brings back.
LEMMA AloneLink ==
  ASSUME NEW ch, NEW older, HeapInv(ch, older), AloneInv(ch), MutInv, NEW t \in Thread,
         PutLink(t), Last(mytail[t]), NEW n, NEW r \in Root, Joins(ch, t, r, n)
  PROVE  AloneInv(n)'
<1> USE Others
<1> USE DEF Joins
<1>1. /\ pc[t] = "cas" /\ pc'[t] = "swing" /\ \A u \in Thread : u # t => pc'[u] = pc[u]
      /\ UNCHANGED <<count, overlap, waiting, attempt, next>>
  BY DEF PutLink, Linked, Step, memVars, wakeVars, getVars, HeapInv, TypeInv
<1> SUFFICES ASSUME ~overlap PROVE AloneInv(n)'
  BY <1>1 DEF AloneInv
<1>2. /\ ch \in [Root -> Seq(Node)] /\ ShapeInv(ch) /\ t \in Root /\ NULL \in Root /\ t # NULL
      /\ Reader \in Root
  BY DEF HeapInv, ShapeInv, Root
<1>3. /\ n[t] = <<>> /\ n[r] = ch[r] \o ch[t] /\ Len(n[r]) = Len(ch[r]) + Len(ch[t])
      /\ \A q \in Root : q # t /\ q # r => n[q] = ch[q]
  <2>1. ch[r] \in Seq(Node) /\ ch[t] \in Seq(Node)
    BY <1>2
  <2>2. Len(ch[r] \o ch[t]) = Len(ch[r]) + Len(ch[t])
    BY <2>1
  <2> QED BY <1>2, <2>2
<1>4. HasChain(t) /\ ~HasChain(t)'
      /\ \A u \in Thread : u # t => (HasChain(u)' <=> HasChain(u))
  BY <1>1 DEF HasChain
<1>5. \A p, q \in Producer : pc'[p] # "idle" /\ pc'[q] # "idle" => p = q
  <2>1. \A p \in Producer : pc'[p] # "idle" => pc[p] # "idle"
    BY <1>1
  <2> QED BY <2>1 DEF AloneInv
<1>6. r = NULL \/ r = Reader
  <2>1. ASSUME r \in Producer PROVE FALSE
    <3>1. HasChain(r)
      BY <2>1 DEF HeapInv, ShapeInv
    <3>2. Len(ch[r]) = 1 /\ pc[r] # "idle"
      BY <2>1, <3>1 DEF AloneInv, HasChain
    <3>3. t = Reader
      BY <1>1, <2>1, <3>2 DEF AloneInv
    <3>4. In(mytail[Reader], ch[NULL]) /\ In(mytail[Reader], ch[r])
      <4>1. Len(ch[r]) \in 1..Len(ch[r])
        BY <3>2
      <4> QED BY <1>1, <3>3, <4>1 DEF HeapInv, PlaceInv, In
    <3> PICK x : x = mytail[Reader]
      OBVIOUS
    <3>5. r = NULL
      BY <1>2, <3>4, Apart DEF ShapeInv
    <3> QED BY <2>1, <3>5
  <2> QED BY <2>1 DEF Root
<1>7. Counted(ch) /\ \A p \in Producer : HasChain(p) => Len(ch[p]) = 1
  BY DEF AloneInv
<1>8. \A p \in Producer : HasChain(p)' => Len(n[p]) = 1
  <2>1. \A p \in Producer : HasChain(p)' => p # t /\ p # r /\ p \in Root
    BY <1>4, <1>6 DEF Root
  <2> QED BY <1>3, <1>4, <1>7, <2>1
<1> PICK L, k, h, d, s, a : /\ L = Len(ch[NULL]) /\ k = count /\ h = Len(ch[Reader])
                           /\ d = Popped /\ s = Returned /\ a = Added
  OBVIOUS
<1>9. L \in Int /\ k \in Int /\ h \in Int /\ d \in Int /\ s \in Int /\ a \in Int
  BY Numbers
<1>10. CASE t = Reader
  <2>1. r = NULL
    BY <1>6, <1>10
  <2>2. Len(n[NULL]) = L + h
    BY <1>3, <1>10, <2>1
  <2>3. d = 0 /\ s = 0 /\ Hanging(ch) = h - 1 /\ Popped' = 0 /\ Returned' = 1 /\ Hanging(n)' = 0
    BY <1>1, <1>4, <1>10 DEF Popped, Returned, Hanging
  <2>4. Added' = a
    <3>1. Uncounted' <=> Uncounted
      BY <1>1, <1>10 DEF Uncounted
    <3> QED BY <3>1 DEF Added
  <2>5. k = L - 1 + 0 + (h - 1) - 0 - a
    BY <1>7, <2>3 DEF Counted
  <2>6. k = (L + h) - 1 + 0 + 0 - 1 - a
    BY <1>9, <2>5, SumReturn
  <2>7. Counted(n)'
    BY <1>1, <2>2, <2>3, <2>4, <2>6 DEF Counted
  <2>8. ~Retires'
    BY <1>1, <1>10 DEF Retires, MutInv
  <2> QED BY <1>5, <1>8, <2>7, <2>8 DEF AloneInv
<1>11. CASE t # Reader
  <2>1. t \in Producer /\ Len(ch[t]) = 1
    BY <1>4, <1>7, <1>11
  <2>2. \A p \in Producer : pc[p] # "idle" => p = t
    BY <1>1, <2>1 DEF AloneInv
  <2>3. ~Uncounted /\ Uncounted' /\ Tends(t)' /\ \A p \in Producer : ~Tends(p)
    BY <1>1, <2>1, <2>2 DEF Uncounted, Tends
  <2>4. a = 0 /\ Added' = 1 /\ Popped' = d /\ Returned' = s
    BY <1>1, <1>11, <2>3 DEF Added, Popped, Returned
  <2>5. Len(n[r]) = Len(ch[r]) + 1
    BY <1>3, <2>1
  <2>6. CASE r = NULL
    <3>1. n[Reader] = ch[Reader] /\ (HasChain(Reader)' <=> HasChain(Reader))
      BY <1>2, <1>3, <1>4, <1>11, <2>6
    <3> PICK g : g = Hanging(ch)
      OBVIOUS
    <3>2. Hanging(n)' = g /\ g \in Int
      BY <3>1, Numbers DEF Hanging
    <3>3. k = L - 1 + d + g - s - 0
      BY <1>7, <2>4 DEF Counted
    <3>4. k = (L + 1) - 1 + d + g - s - 1
      BY <1>9, <3>2, <3>3
    <3>5. Counted(n)'
      BY <1>1, <2>4, <2>5, <2>6, <3>2, <3>4 DEF Counted
    <3>6. Retires' => Len(n[NULL]) = 2
      <4>1. Retires' => Retires
        BY <1>1, <1>11 DEF Retires
      <4>2. Retires => L = 1
        BY <2>3 DEF AloneInv
      <4>3. Len(n[NULL]) = L + 1
        BY <2>5, <2>6
      <4>4. L = 1 => L + 1 = 2
        OBVIOUS
      <4> QED BY <4>1, <4>2, <4>3, <4>4
    <3> QED BY <1>5, <1>8, <2>1, <2>3, <3>5, <3>6 DEF AloneInv
  <2>7. CASE r = Reader
    <3>1. HasChain(Reader) /\ n[NULL] = ch[NULL]
      BY <1>2, <1>3, <2>7 DEF HeapInv, ShapeInv
    <3>2. d = 0 /\ s = 0
      BY <3>1 DEF HasChain, Popped, Returned
    <3>3. Hanging(ch) = h - 1 /\ Hanging(n)' = (h + 1) - 1
      BY <1>4, <1>11, <2>5, <2>7, <3>1 DEF Hanging
    <3>4. k = L - 1 + 0 + (h - 1) - 0 - 0
      BY <1>7, <2>4, <3>2, <3>3 DEF Counted
    <3>5. k = L - 1 + 0 + ((h + 1) - 1) - 0 - 1
      BY <1>9, <3>4, SumHang
    <3>6. Counted(n)'
      BY <1>1, <2>4, <3>1, <3>2, <3>3, <3>5 DEF Counted
    <3>7. ~Retires'
      BY <1>1, <1>11, <3>1 DEF HasChain, Retires, MutInv
    <3> QED BY <1>5, <1>8, <3>6, <3>7 DEF AloneInv
  <2> QED BY <1>6, <2>6, <2>7
<1> QED BY <1>10, <1>11

\* The reader takes a cell.
LEMMA AlonePop ==
  ASSUME NEW ch, NEW older, HeapInv(ch, older), AloneInv(ch), MutInv, GetPop, next # End,
         NEW n, n = [ch EXCEPT ![NULL] = Tail(ch[NULL])]
  PROVE  AloneInv(n)'
<1> USE Others
<1>1. /\ pc[Reader] = "check" /\ pc' = [pc EXCEPT ![Reader] = "dec"]
      /\ UNCHANGED <<count, overlap, waiting>>
  BY DEF GetPop, Step, wakeVars, histVars
<1>2. pc'[Reader] = "dec" /\ \A p \in Producer : pc'[p] = pc[p]
  BY <1>1 DEF HeapInv, TypeInv
<1> SUFFICES ASSUME ~overlap PROVE AloneInv(n)'
  BY <1>1 DEF AloneInv
<1>3. /\ ch \in [Root -> Seq(Node)] /\ NULL \in Root /\ ch[NULL] \in Seq(Node) /\ Len(ch[NULL]) > 0
      /\ \A p \in Producer : p \in Root /\ p # NULL
  BY DEF HeapInv, ShapeInv, Root
<1>4. Len(n[NULL]) = Len(ch[NULL]) - 1 /\ \A p \in Producer : n[p] = ch[p]
  <2>1. Len(Tail(ch[NULL])) = Len(ch[NULL]) - 1
    BY <1>3
  <2> QED BY <1>3, <2>1
<1>5. Counted(n)'
  <2>1. ~HasChain(Reader) /\ ~HasChain(Reader)' /\ (Uncounted' <=> Uncounted)
    BY <1>1, <1>2 DEF HasChain, Uncounted
  <2> PICK L, k, a : L = Len(ch[NULL]) /\ k = count /\ a = Added
    OBVIOUS
  <2>2. L \in Int /\ k \in Int /\ a \in Int
    BY Numbers
  <2>3. /\ Popped = 0 /\ Popped' = 1 /\ Returned = 0 /\ Returned' = 0
        /\ Hanging(ch) = 0 /\ Hanging(n)' = 0 /\ Added' = a
    BY <1>1, <1>2, <2>1 DEF Hanging, Popped, Returned, Added
  <2>4. k = L - 1 + 0 + 0 - 0 - a
    BY <2>3 DEF AloneInv, Counted
  <2>5. k = (L - 1) - 1 + 1 + 0 - 0 - a
    BY <2>2, <2>4, SumPop
  <2> QED BY <1>1, <1>4, <2>3, <2>5 DEF Counted
<1>6. ~Retires'
  BY <1>1, <1>2 DEF Retires, MutInv
<1>7. \A p \in Producer : HasChain(p)' => Len(n[p]) = 1
  BY <1>2, <1>4 DEF AloneInv, HasChain
<1> QED BY <1>2, <1>5, <1>6, <1>7 DEF AloneInv

\* Nobody in the queue, and the reader asleep: the list is the dummy alone.
LEMMA LoneAwake ==
  ASSUME NEW ch, NEW older, HeapInv(ch, older), MutInv, AloneInv(ch)
  PROVE  NoLostWakeupAlone
<1> USE Others, LFCells
<1> SUFFICES ASSUME Quiet, waiting, ~overlap PROVE Queued = <<>>
  BY DEF NoLostWakeupAlone
<1>1. pc[Reader] = "wait" /\ \A p \in Producer : pc[p] = "idle"
  BY DEF MutInv, Quiet
<1>2. /\ ShapeInv(ch) /\ ch[NULL] \in Seq(Node) /\ NULL \in Root
      /\ \A t \in Thread : Len(ch[t]) = 0
  BY <1>1 DEF HeapInv, ShapeInv, Root, HasChain
<1>3. Len(ch[NULL]) = 1
  BY <1>1 DEF AloneInv, Retires, Tends
<1>4. ch[NULL][1] = Dummy
  <2>1. OnChain(ch, Dummy)
    BY <1>1 DEF HeapInv, PlaceInv, DummyOut
  <2>2. PICK r \in Root : In(Dummy, ch[r])
    BY <2>1 DEF OnChain
  <2>3. Len(ch[r]) # 0
    BY <2>2 DEF In
  <2>4. r = NULL
    BY <1>2, <2>3 DEF Root
  <2> QED BY <1>3, <2>2, <2>4 DEF In
<1>5. Pay(data, ch[NULL]) = <<>>
  <2> PICK d, s : d = data /\ s = ch[NULL]
    OBVIOUS
  <2>1. Pay(d, s) = <<>>
    BY <1>2, <1>3, <1>4, PayOfDummy
  <2> QED BY <2>1
<1> QED BY <1>2, <1>5, ListIsChain

-----------------------------------------------------------------------------
(* The invariant, and the theorems.                                        *)

IInv ==
  /\ CtrlInv /\ MutInv
  /\ \E ch, older : HeapInv(ch, older) /\ FifoInv(ch) /\ AloneInv(ch)

LEMMA InitIInv == Init => IInv
<1> SUFFICES ASSUME Init PROVE IInv
  OBVIOUS
<1>1. PICK ch, older : /\ ch = [r \in Root |-> IF r = NULL THEN <<Dummy>> ELSE <<>>]
                       /\ HeapInv(ch, older)
  BY InitHeap
<1>2. FifoInv(ch) /\ AloneInv(ch)
  BY <1>1, InitFifo, InitAlone
<1>3. CtrlInv /\ MutInv
  BY InitCtrl
<1> QED BY <1>1, <1>2, <1>3 DEF IInv

\* fifoput by any thread.
LEMMA FifoPutKeeps ==
  ASSUME NEW ch, NEW older, HeapInv(ch, older), FifoInv(ch), AloneInv(ch), MutInv,
         CtrlInv', NEW t \in Thread, FifoPut(t)
  PROVE  \E n, o : HeapInv(n, o)' /\ FifoInv(n)' /\ AloneInv(n)'
<1> USE Others
<1> USE DEF Step, listVars, memVars, wakeVars, putVars, getVars, histVars
<1>0. TypeInv
  BY DEF HeapInv
<1>101. ASSUME NEW a, NEW b, pc[t] = a, pc' = [pc EXCEPT ![t] = b],
               a \in {"ic", "tail", "cas", "help", "swing"},
               b \in {"ic", "tail", "cas", "help", "inc"}, HeapInv(ch, older)',
               a = "swing" <=> b = "inc",
               UNCHANGED <<sent, done, data, cell, stale, count, overlap, attempt, next, waiting>>
        PROVE  HeapInv(ch, older)' /\ FifoInv(ch)' /\ AloneInv(ch)'
  <2>1. \A u \in Thread : HasChain(u)' => HasChain(u)
    BY <1>0, <1>101 DEF HasChain, TypeInv
  <2>2. FifoInv(ch)'
    BY <1>101, <2>1, FifoFrame
  <2>3. AloneInv(ch)'
    BY <1>101, AlonePut
  <2> QED BY <1>101, <2>2, <2>3
<1>1. CASE PutStart(t)
  <2>1. PICK n, o : HeapInv(n, o)' /\ n[NULL] = ch[NULL] /\ Len(n[t]) = 1
                    /\ \A q \in Root \ {t} : n[q] = ch[q]
    BY <1>1, PutStartKeeps
  <2>2. FifoInv(n)'
    BY <1>0, <1>1, <2>1, FifoStart
  <2>3. AloneInv(n)'
    BY <1>1, <2>1, AloneStart
  <2> QED BY <2>1, <2>2, <2>3
<1>2. CASE PutReadIc(t)
  <2>1. HeapInv(ch, older)'
    BY <1>2, PutReadIcKeeps
  <2>2. /\ pc[t] = "ic" /\ pc' = [pc EXCEPT ![t] = "tail"]
        /\ UNCHANGED <<sent, done, data, cell, stale, count, overlap, attempt, next, waiting>>
    BY <1>2 DEF PutReadIc
  <2> QED BY <1>101, <2>1, <2>2
<1>3. CASE PutReadTail(t)
  <2>1. HeapInv(ch, older)'
    BY <1>3, PutReadTailKeeps
  <2>2. /\ pc[t] = "tail" /\ pc' = [pc EXCEPT ![t] = "cas"]
        /\ UNCHANGED <<sent, done, data, cell, stale, count, overlap, attempt, next, waiting>>
    BY <1>3 DEF PutReadTail
  <2> QED BY <1>101, <2>1, <2>2
<1>4. CASE PutLink(t) /\ ~Last(mytail[t])
  <2>1. HeapInv(ch, older)'
    BY <1>4, PutRetryKeeps
  <2>2. /\ pc[t] = "cas" /\ pc' = [pc EXCEPT ![t] = "help"]
        /\ UNCHANGED <<sent, done, data, cell, stale, count, overlap, attempt, next, waiting>>
    BY <1>4 DEF PutLink, Linked
  <2> QED BY <1>101, <2>1, <2>2
<1>5. CASE PutLink(t) /\ Last(mytail[t])
  <2>1. PICK n : \E r \in Root : Joins(ch, t, r, n) /\ HeapInv(n, older)'
    BY <1>5, PutLinkKeeps
  <2>2. FifoInv(n)'
    BY <1>5, <2>1, FifoLink
  <2>3. AloneInv(n)'
    BY <1>5, <2>1, AloneLink
  <2> QED BY <2>1, <2>2, <2>3
<1>6. CASE PutHelp(t)
  <2>1. HeapInv(ch, older)'
    BY <1>6, PutHelpKeeps
  <2>2. /\ pc[t] = "help" /\ pc' = [pc EXCEPT ![t] = "ic"]
        /\ UNCHANGED <<sent, done, data, cell, stale, count, overlap, attempt, next, waiting>>
    BY <1>6 DEF PutHelp
  <2> QED BY <1>101, <2>1, <2>2
<1>7. CASE PutSwing(t)
  <2>1. HeapInv(ch, older)'
    BY <1>7, PutSwingKeeps
  <2>2. /\ pc[t] = "swing" /\ pc' = [pc EXCEPT ![t] = "inc"]
        /\ UNCHANGED <<sent, done, data, cell, stale, count, overlap, attempt, next, waiting>>
    BY <1>7 DEF PutSwing
  <2> QED BY <1>101, <2>1, <2>2
<1> QED BY <1>1, <1>2, <1>3, <1>4, <1>5, <1>6, <1>7 DEF FifoPut

\* WSFIFOPUT around it.
LEMMA WsPutKeeps ==
  ASSUME NEW ch, NEW older, HeapInv(ch, older), FifoInv(ch), AloneInv(ch), MutInv,
         CtrlInv', NEW p \in Producer,
         PutTest(p) \/ PutLock(p) \/ PutCount(p) \/ PutTestAgain(p) \/ PutSignal(p)
  PROVE  HeapInv(ch, older)' /\ FifoInv(ch)' /\ AloneInv(ch)'
<1> USE Others
<1>0. TypeInv
  BY DEF HeapInv
<1>101. ASSUME NEW b, pc' = [pc EXCEPT ![p] = b], b \notin {"ic", "tail", "cas", "help"}
        PROVE  \A u \in Thread : HasChain(u)' => HasChain(u)
  BY <1>0, <1>101 DEF HasChain, TypeInv
<1>1. CASE PutTest(p)
  BY <1>1, PutTestKeeps, FifoTest, AloneTest
<1>2. CASE PutLock(p) \/ PutCount(p) \/ PutTestAgain(p) \/ PutSignal(p)
  <2>1. HeapInv(ch, older)'
    BY <1>2, PutLockKeeps, PutCountKeeps, PutTestAgainKeeps, PutSignalKeeps
  <2>2. AloneInv(ch)'
    BY <1>2, AlonePutStep
  <2>3. UNCHANGED <<sent, done, data, cell, stale>>
    BY <1>2 DEF PutLock, PutCount, PutTestAgain, PutSignal, memVars, getVars, histVars
  <2>4. \A u \in Thread : HasChain(u)' => HasChain(u)
    <3>1. CASE PutLock(p)
      BY <1>101, <3>1 DEF PutLock, Step
    <3>2. CASE PutCount(p)
      BY <1>101, <3>2 DEF PutCount, Step
    <3>3. CASE PutTestAgain(p)
      BY <1>101, <3>3 DEF PutTestAgain, Step
    <3>4. CASE PutSignal(p)
      BY <1>101, <3>4 DEF PutSignal, Step
    <3> QED BY <1>2, <3>1, <3>2, <3>3, <3>4
  <2> QED BY <2>1, <2>2, <2>3, <2>4, FifoFrame
<1> QED BY <1>1, <1>2

\* fifoget, and wsfifoget around it.
LEMMA WsGetKeeps ==
  ASSUME NEW ch, NEW older, HeapInv(ch, older), FifoInv(ch), AloneInv(ch), MutInv, CtrlInv',
         \/ GetReadIc \/ GetReadNext \/ GetPop \/ GetBehind \/ GetHelp
         \/ GetCount \/ GetRecount \/ GetEmpty \/ GetLock \/ GetReturn \/ RunAndFree
         \/ SpuriousWakeup
  PROVE  \E n : HeapInv(n, older)' /\ FifoInv(n)' /\ AloneInv(n)'
<1> USE Others
<1> USE DEF Step, listVars, memVars, wakeVars, putVars, getVars, histVars
<1>0. TypeInv
  BY DEF HeapInv
<1>101. ASSUME NEW b, pc' = [pc EXCEPT ![Reader] = b], b \notin {"ic", "tail", "cas", "help"},
               UNCHANGED <<sent, done, data, cell, stale>>
        PROVE  FifoInv(ch)'
  <2>1. \A u \in Thread : HasChain(u)' => HasChain(u)
    BY <1>0, <1>101 DEF HasChain, TypeInv
  <2> QED BY <1>101, <2>1, FifoFrame
<1>1. CASE GetPop /\ next # End
  <2>1. PICK n : n = [ch EXCEPT ![NULL] = Tail(ch[NULL])] /\ HeapInv(n, older)'
    BY <1>1, GetPopKeeps
  <2>2. cell' = ch[NULL][1]
    BY <1>1, GetPopKeeps
  <2>3. FifoInv(n)'
    BY <1>1, <2>1, <2>2, FifoPop
  <2>4. AloneInv(n)'
    BY <1>1, <2>1, AlonePop
  <2> QED BY <2>1, <2>3, <2>4
<1>2. CASE RunAndFree
  <2>1. HeapInv(ch, older)' /\ FifoInv(ch)'
    BY <1>2, RunAndFreeKeeps, FifoRun
  <2>2. AloneInv(ch)'
    BY <1>2, AloneGetStep
  <2> QED BY <2>1, <2>2
<1>3. CASE \/ GetReadIc \/ GetReadNext \/ (GetPop /\ next = End) \/ GetBehind \/ GetHelp
           \/ GetCount \/ GetRecount \/ GetEmpty \/ GetLock \/ GetReturn \/ SpuriousWakeup
  <2>1. AloneInv(ch)'
    BY <1>3, AloneGetStep
  <2>2. HeapInv(ch, older)'
    BY <1>3, GetReadIcKeeps, GetReadNextKeeps, GetAgainKeeps, GetBehindKeeps, GetHelpKeeps,
       GetCountKeeps, GetRecountKeeps, GetEmptyKeeps, GetLockKeeps, GetReturnKeeps, WakeupKeeps
  <2>3. FifoInv(ch)'
    <3>1. CASE GetReadIc
      BY <1>101, <3>1 DEF GetReadIc
    <3>2. CASE GetReadNext
      BY <1>101, <3>2 DEF GetReadNext
    <3>3. CASE GetPop /\ next = End
      BY <1>101, <3>3 DEF GetPop
    <3>4. CASE GetBehind
      BY <1>101, <3>4 DEF GetBehind
    <3>5. CASE GetHelp
      BY <1>101, <3>5 DEF GetHelp
    <3>6. CASE GetCount
      BY <1>101, <3>6 DEF GetCount
    <3>7. CASE GetRecount
      BY <1>101, <3>7 DEF GetRecount
    <3>8. CASE GetEmpty
      BY <1>101, <3>8 DEF GetEmpty
    <3>9. CASE GetLock
      BY <1>101, <3>9 DEF GetLock
    <3>10. CASE GetReturn
      BY <1>101, <3>10 DEF GetReturn
    <3>11. CASE SpuriousWakeup
      BY <3>11, FifoFrame DEF SpuriousWakeup, HasChain
    <3> QED BY <1>3, <3>1, <3>2, <3>3, <3>4, <3>5, <3>6, <3>7, <3>8, <3>9, <3>10, <3>11
  <2> QED BY <2>1, <2>2, <2>3
<1> QED BY <1>1, <1>2, <1>3

LEMMA Stutters ==
  ASSUME NEW ch, NEW older, HeapInv(ch, older), FifoInv(ch), AloneInv(ch), CtrlInv', UNCHANGED vars
  PROVE  HeapInv(ch, older)' /\ FifoInv(ch)' /\ AloneInv(ch)'
<1> USE DEF vars, listVars, memVars, wakeVars, putVars, getVars, histVars
<1>1. TypeInv'
  BY DEF HeapInv, TypeInv
<1>2. ShapeInv(ch)' /\ PlaceInv(ch)' /\ DataInv'
  <2>1. HasChain(Reader)' <=> HasChain(Reader)
    BY DEF HasChain
  <2> QED BY <2>1 DEF HeapInv, ShapeInv, PlaceInv, DataInv, HasChain, Prepares, DummyOut
<1>3. LinkInv' /\ OrderInv(ch, older)'
  BY DEF HeapInv, LinkInv, OrderInv
<1>4. FifoInv(ch)'
  BY DEF FifoInv, InHand, HasChain
<1>5. AloneInv(ch)'
  BY DEF AloneInv, HasChain, Retires, Tends, Counted, Popped, Hanging, Returned, Added, Uncounted
<1> QED BY <1>1, <1>2, <1>3, <1>4, <1>5 DEF HeapInv

LEMMA StepCtrl ==
  ASSUME TypeInv, CtrlInv, MutInv, [Next]_vars
  PROVE  CtrlInv' /\ MutInv'
<1>1. CASE \E p \in Producer : PutStep(p)
  BY <1>1, PutStepKeepsCtrl
<1>2. CASE GetStep
  BY <1>2, GetStepKeepsCtrl
<1>3. CASE SpuriousWakeup
  <2>1. waiting' = FALSE /\ UNCHANGED <<mut, pc, cl, mytail, cell, attempt>>
    BY <1>3 DEF SpuriousWakeup, putVars, getVars
  <2> QED BY <2>1 DEF CtrlInv, MutInv
<1>4. CASE UNCHANGED vars
  <2>1. UNCHANGED <<mut, waiting, pc, cl, mytail, cell, attempt>>
    BY <1>4 DEF vars, wakeVars, putVars, getVars
  <2> QED BY <2>1 DEF CtrlInv, MutInv
<1> QED BY <1>1, <1>2, <1>3, <1>4 DEF Next

LEMMA StepIInv == IInv /\ [Next]_vars => IInv'
<1> SUFFICES ASSUME IInv, [Next]_vars PROVE IInv'
  OBVIOUS
<1>1. PICK ch, older : HeapInv(ch, older) /\ FifoInv(ch) /\ AloneInv(ch)
  BY DEF IInv
<1>2. CtrlInv /\ MutInv /\ TypeInv
  BY <1>1 DEF IInv, HeapInv
<1>3. CtrlInv' /\ MutInv'
  BY <1>2, StepCtrl
<1>4. \E n, o : HeapInv(n, o)' /\ FifoInv(n)' /\ AloneInv(n)'
  <2>1. ASSUME NEW p \in Producer, PutStep(p)
        PROVE  \E n, o : HeapInv(n, o)' /\ FifoInv(n)' /\ AloneInv(n)'
    <3>1. CASE FifoPut(p)
      BY <1>1, <1>2, <1>3, <3>1, Others, FifoPutKeeps
    <3>2. CASE PutTest(p) \/ PutLock(p) \/ PutCount(p) \/ PutTestAgain(p) \/ PutSignal(p)
      BY <1>1, <1>2, <1>3, <3>2, WsPutKeeps
    <3> QED BY <2>1, <3>1, <3>2 DEF PutStep
  <2>2. CASE FifoPut(Reader)
    BY <1>1, <1>2, <1>3, <2>2, Others, FifoPutKeeps
  <2>3. CASE \/ GetReadIc \/ GetReadNext \/ GetPop \/ GetBehind \/ GetHelp
             \/ GetCount \/ GetRecount \/ GetEmpty \/ GetLock \/ GetReturn \/ RunAndFree
             \/ SpuriousWakeup
    BY <1>1, <1>2, <1>3, <2>3, WsGetKeeps
  <2>4. CASE UNCHANGED vars
    <3>1. HeapInv(ch, older)' /\ FifoInv(ch)' /\ AloneInv(ch)'
      BY <1>1, <1>3, <2>4, Stutters
    <3> QED BY <3>1
  <2> QED BY <2>1, <2>2, <2>3, <2>4 DEF Next, GetStep
<1> QED BY <1>3, <1>4 DEF IInv

\* What is in the chains, in cells and in hand, the order, and the counts: invariant.
THEOREM Invariance == Spec => []IInv
<1>1. Init => IInv
  BY InitIInv
<1>2. IInv /\ [Next]_vars => IInv'
  BY StepIInv
<1> QED BY <1>1, <1>2, PTL DEF Spec

\* Type correctness, and where each thread can be with what in hand
\* (lffifoIntel.c and wsfifo.c, every local of fifoput and fifoget).
THEOREM TypeCorrect == Spec => [](TypeInv /\ CtrlInv)
<1>1. IInv => TypeInv /\ CtrlInv
  BY DEF IInv, HeapInv
<1> QED BY <1>1, Invariance, PTL

\* As long as every swap of fifoput linked its cell to one in the list,
\* elements are handed to the operator in the order of those swaps, whatever
\* the number of producers, cells and elements: through the dummy's trips, a
\* tail that lags behind and cells freed and allocated again.
THEOREM ElementsInOrder == Spec => []FifoOrder
<1>1. IInv => FifoOrder
  <2> SUFFICES ASSUME IInv PROVE FifoOrder
    OBVIOUS
  <2>1. PICK ch, older : HeapInv(ch, older) /\ FifoInv(ch)
    BY DEF IInv
  <2>2. Queued = Pay(data, ch[NULL])
    BY <2>1, ListIsChain DEF HeapInv
  <2> QED BY <2>1, <2>2 DEF FifoInv, FifoOrder
<1> QED BY <1>1, Invariance, PTL

\* Whenever no producer is in WSFIFOPUT, every element ever enqueued has been
\* handed over, is in the reader's hand, is in the list or hangs from the dummy
\* on its way back to it, and is so exactly once: even after a swap on a tail
\* read long ago linked a cell to one that had left the list.
THEOREM ElementsDeliveredOnce == Spec => []DeliveredOnce
<1>1. IInv => DeliveredOnce
  BY AllDelivered DEF IInv
<1> QED BY <1>1, Invariance, PTL

\* If no two puts have overlapped, a reader in pthread_cond_wait while nobody
\* puts has an empty queue: the count tested before the put or the one tested
\* after it brought the signal.
THEOREM AloneNoLostWakeup == Spec => []NoLostWakeupAlone
<1>1. IInv => NoLostWakeupAlone
  BY LoneAwake DEF IInv
<1> QED BY <1>1, Invariance, PTL

=============================================================================
