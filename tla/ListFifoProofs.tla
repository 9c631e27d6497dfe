--------------------------- MODULE ListFifoProofs ---------------------------
(***************************************************************************)
(* ListFifo's invariants, proved for any number of producers, addresses,   *)
(* elements and measurements.                                              *)
(*                                                                         *)
(* ListIsQueue, FifoOrder and HeapIsOwned are about the memory; none is    *)
(* inductive alone.  They become inductive together with who may be inside *)
(* a critical section (LockInv), what the reader holds at each point of    *)
(* its loop (ReaderInv), what a producer has prepared (ProducerInv) and    *)
(* how far wsfifosize has walked (ScanInv).                                *)
(***************************************************************************)
EXTENDS ListFifo, SequenceTheorems, TLAPS

\* Each thread stays in its own code, and is inside a critical section exactly
\* when it holds the mutex.
LockInv ==
  /\ \A p \in Producer : pc[p] \in {"idle", "put", "append"}
  /\ pc[Reader] \in {"get", "test", "wait", "take", "run", "cleanup", "free"}
  /\ pc[Monitor] \in {"idle", "walk"}
  /\ \A p \in Producer : pc[p] = "append" <=> mut = p
  /\ pc[Reader] \in {"test", "take", "free"} <=> mut = Reader
  /\ pc[Monitor] = "walk" <=> mut = Monitor

\* last_popped is set from get to cleanup, and the reader waits only on an
\* empty list.
ReaderInv ==
  /\ pc[Reader] \in {"run", "cleanup", "free"} <=> last_popped # NULL
  /\ pc[Reader] = "run" => ptr = last_popped
  /\ pc[Reader] = "take" => head # NULL
  /\ waiting => pc[Reader] = "wait" /\ head = NULL

\* Between malloc and put_cell a producer has a cell with its element in it.
ProducerInv ==
  \A p \in Producer : InPut(p) =>
    /\ cell[p] \in Cell
    /\ nput[p] > 0
    /\ data[cell[p]] = <<p, nput[p]>>

\* While the list is measured, count cells have been passed.
ScanInv ==
  pc[Monitor] = "walk" =>
    /\ scans < MaxScans
    /\ count <= Len(order)
    /\ walk = IF count = Len(order) THEN NULL ELSE order[count + 1]

IInv ==
  /\ TypeOK /\ LockInv /\ ReaderInv /\ ProducerInv /\ ScanInv
  /\ ListIsQueue /\ FifoOrder /\ HeapIsOwned

-----------------------------------------------------------------------------
\* Who owns a cell depends only on these variables.
LEMMA HeapFrame ==
  ASSUME HeapIsOwned, UNCHANGED <<allocated, cell, order, last_popped>>,
         \A q \in Producer : InPut(q)' <=> InPut(q)
  PROVE  HeapIsOwned'
BY DEF HeapIsOwned, InOrder

\* WSFIFOPUT's malloc takes a cell nobody owns.
LEMMA PutAllocStep == ASSUME NEW p \in Producer, IInv, PutAlloc(p) PROVE IInv'
<1> USE ThreadAssumption, CellAssumption, BoundAssumption
<1> USE DEF IInv, PutAlloc, CopyIn, Goto, queueVars, memVars, prodVars, scanVars, histVars, Thread
<1>c. PICK c \in Cell \ allocated :
        /\ allocated' = allocated \cup {c}
        /\ cell' = [cell EXCEPT ![p] = c]
        /\ data' = [data EXCEPT ![c] = <<p, nput[p] + 1>>]
  OBVIOUS
<1>1. TypeOK'
  <2>1. nput[p] + 1 \in 0..MaxPuts /\ <<p, nput[p] + 1>> \in Elem
    BY DEF TypeOK, Elem
  <2>2. data' \in [Cell -> Elem \cup {NULL}]
    BY <1>c, <2>1 DEF TypeOK
  <2>3. nput' \in [Producer -> 0..MaxPuts]
    BY <2>1 DEF TypeOK
  <2> QED BY <1>c, <2>2, <2>3 DEF TypeOK
<1>2. LockInv'
  BY DEF TypeOK, LockInv
<1>3. ReaderInv'
  BY DEF TypeOK, LockInv, ReaderInv, ListIsQueue
<1>4. ProducerInv'
  BY DEF TypeOK, LockInv, ProducerInv, HeapIsOwned, InOrder, InPut
<1>5. ScanInv'
  BY DEF TypeOK, LockInv, ScanInv, ListIsQueue, HeapIsOwned, InPut, InOrder
<1>6. ListIsQueue'
  BY DEF TypeOK, LockInv, ListIsQueue, HeapIsOwned, InPut, InOrder
<1>7. FifoOrder'
  BY DEF TypeOK, LockInv, ReaderInv, FifoOrder, ListIsQueue, HeapIsOwned, InPut, InOrder, Current
<1>8. HeapIsOwned'
  <2>1. \A q \in Producer : InPut(q)' <=> (q = p \/ InPut(q))
    BY DEF TypeOK, InPut
  <2>2. ~InPut(p)
    BY DEF InPut
  <2>3. \A q \in Producer : InPut(q) => cell[q] # c
    BY <1>c DEF HeapIsOwned
  <2>4. ~InOrder(c) /\ last_popped # c
    BY <1>c DEF HeapIsOwned
  <2>5. cell'[p] = c /\ \A q \in Producer \ {p} : cell'[q] = cell[q]
    BY <1>c DEF TypeOK
  <2>6. \A d : InOrder(d)' <=> InOrder(d)
    BY DEF InOrder
  <2>7. order' = order /\ last_popped' = last_popped
    OBVIOUS
  <2> HIDE DEF PutAlloc, CopyIn, IInv
  <2>h. HeapIsOwned
    BY DEF IInv
  <2>8. \A d \in Cell : d \in allocated' <=>
          \/ \E q \in Producer : InPut(q)' /\ cell'[q] = d
          \/ InOrder(d)'
          \/ last_popped' = d
    BY <1>c, <2>1, <2>2, <2>5, <2>6, <2>7, <2>h DEF HeapIsOwned
  <2>9. \A q, r \in Producer : InPut(q)' /\ InPut(r)' /\ cell'[q] = cell'[r] => q = r
    BY <2>1, <2>3, <2>5, <2>h DEF HeapIsOwned
  <2>10. \A q \in Producer : InPut(q)' => ~InOrder(cell[q])' /\ cell'[q] # last_popped'
    BY <2>1, <2>4, <2>5, <2>6, <2>7, <2>h DEF HeapIsOwned
  <2> QED BY <2>6, <2>7, <2>8, <2>9, <2>10, <2>h DEF HeapIsOwned
<1> QED BY <1>1, <1>2, <1>3, <1>4, <1>5, <1>6, <1>7, <1>8

\* A producer entering put_cell.
LEMMA PutLockStep == ASSUME NEW p \in Producer, IInv, PutLock(p) PROVE IInv'
<1> USE ThreadAssumption, CellAssumption, BoundAssumption
<1> USE DEF IInv, PutLock, Lock, Goto, queueVars, memVars, prodVars, scanVars, histVars, Thread
<1>1. TypeOK'
  BY DEF TypeOK, Elem
<1>2. LockInv'
  BY DEF TypeOK, LockInv
<1>3. ReaderInv'
  BY DEF TypeOK, LockInv, ReaderInv, ListIsQueue
<1>4. ProducerInv'
  BY DEF TypeOK, LockInv, ProducerInv, HeapIsOwned, InOrder, InPut
<1>5. ScanInv'
  BY DEF TypeOK, LockInv, ScanInv, ListIsQueue, HeapIsOwned, InPut, InOrder
<1>6. ListIsQueue'
  BY DEF TypeOK, LockInv, ListIsQueue, HeapIsOwned, InPut, InOrder
<1>7. FifoOrder'
  BY DEF TypeOK, LockInv, ReaderInv, FifoOrder, ListIsQueue, HeapIsOwned, InPut, InOrder, Current
<1>8. HeapIsOwned'
  <2>1. \A q \in Producer : InPut(q)' <=> InPut(q)
    BY DEF TypeOK, InPut
  <2> QED BY <2>1, HeapFrame
<1> QED BY <1>1, <1>2, <1>3, <1>4, <1>5, <1>6, <1>7, <1>8

\* put_cell: the cell goes from its producer to the end of the list.
LEMMA PutCellStep == ASSUME NEW p \in Producer, IInv, PutCell(p) PROVE IInv'
<1> USE ThreadAssumption, CellAssumption, BoundAssumption
<1> USE DEF IInv, PutCell, LinkLast, Signal, Goto, queueVars, memVars, prodVars, scanVars, histVars, Thread
<1> DEFINE c == cell[p]
           n == Len(order)
<1>a. c \in Cell /\ data[c] \in Elem /\ ~InOrder(c) /\ c # last_popped /\ mut = p
  <2>1. c \in Cell /\ nput[p] > 0 /\ data[c] = <<p, nput[p]>>
    BY DEF ProducerInv, InPut
  <2>2. nput[p] \in 1..MaxPuts
    BY <2>1 DEF TypeOK
  <2> QED BY <2>1, <2>2 DEF HeapIsOwned, InPut, LockInv, Elem
<1>b. /\ n \in Nat
      /\ order' \in Seq(Cell)
      /\ Len(order') = n + 1
      /\ order'[n + 1] = c
      /\ \A i \in 1..n : order'[i] = order[i] /\ order[i] \in Cell
  BY <1>a DEF TypeOK
<1>1. TypeOK'
  <2>1. sent' \in Seq(Elem)
    BY <1>a DEF TypeOK
  <2>2. link' \in [Cell -> Cell \cup {NULL}] /\ waiting' \in BOOLEAN
    BY <1>a DEF TypeOK
  <2> QED BY <1>a, <1>b, <2>1, <2>2 DEF TypeOK
<1>2. LockInv'
  BY DEF TypeOK, LockInv
<1>3. ReaderInv'
  BY DEF TypeOK, LockInv, ReaderInv, ListIsQueue
<1>4. ProducerInv'
  BY DEF TypeOK, LockInv, ProducerInv, HeapIsOwned, InOrder, InPut
<1>5. ScanInv'
  BY DEF TypeOK, LockInv, ScanInv, ListIsQueue, HeapIsOwned, InPut, InOrder
<1>6. ListIsQueue'
  <2>1. CASE n = 0
    <3>1. tail = NULL /\ order = <<>>
      BY <2>1 DEF ListIsQueue, TypeOK
    <3>2. link'[c] = NULL /\ head' = c /\ tail' = c
      BY <1>a, <3>1 DEF TypeOK
    <3> QED BY <1>b, <2>1, <3>2 DEF ListIsQueue
  <2>2. CASE n # 0
    <3>1. order # <<>> /\ tail = order[n] /\ tail \in Cell /\ head = order[1]
      BY <1>b, <2>2 DEF ListIsQueue
    <3>2. tail # c /\ tail # NULL
      BY <1>a, <1>b, <2>2, <3>1 DEF InOrder
    <3>3. link' = [link EXCEPT ![c] = NULL, ![tail] = c]
      BY <3>2
    <3>4. link'[c] = NULL /\ link'[order[n]] = c
      BY <1>a, <3>1, <3>2, <3>3 DEF TypeOK
    <3>5. \A i \in 1..(n - 1) : link'[order[i]] = order[i + 1]
      <4> SUFFICES ASSUME NEW i \in 1..(n - 1) PROVE link'[order[i]] = order[i + 1]
        OBVIOUS
      <4>1. i \in 1..n /\ n \in 1..n /\ i # n
        BY <1>b
      <4>2. order[i] # order[n]
        BY <4>1 DEF HeapIsOwned
      <4>3. order[i] # c
        BY <1>a, <4>1 DEF InOrder
      <4>4. link[order[i]] = order[i + 1]
        BY <4>1 DEF ListIsQueue
      <4> QED BY <1>b, <3>1, <3>3, <4>1, <4>2, <4>3, <4>4 DEF TypeOK
    <3>6. \A i \in 1..(n + 1) :
            link'[order'[i]] = IF i = n + 1 THEN NULL ELSE order'[i + 1]
      <4> SUFFICES ASSUME NEW i \in 1..(n + 1)
                   PROVE  link'[order'[i]] = IF i = n + 1 THEN NULL ELSE order'[i + 1]
        OBVIOUS
      <4> HIDE DEF PutCell, IInv, LinkLast
      <4>1. CASE i = n + 1
        BY <1>b, <3>4, <4>1
      <4>2. CASE i = n
        BY <1>b, <2>2, <3>4, <4>2
      <4>3. CASE i \in 1..(n - 1)
        <5>1. i \in 1..n /\ i + 1 \in 1..n /\ i # n + 1
          BY <1>b, <4>3
        <5> QED BY <1>b, <3>5, <4>3, <5>1
      <4> QED BY <1>b, <4>1, <4>2, <4>3
    <3>7. order' # <<>> /\ head' = order'[1] /\ tail' = order'[n + 1]
      BY <1>b, <2>2, <3>1, <3>2
    <3> HIDE DEF PutCell, IInv, LinkLast
    <3> QED BY <1>b, <3>6, <3>7 DEF ListIsQueue
  <2> QED BY <2>1, <2>2
<1>7. FifoOrder'
  <2>1. Current' = Current /\ Current \in {0, 1}
    BY DEF Current, TypeOK
  <2>2. /\ Len(sent) \in Nat /\ Len(done) \in Nat
        /\ Len(sent') = Len(sent) + 1
        /\ sent'[Len(sent) + 1] = data[c]
        /\ \A i \in 1..Len(sent) : sent'[i] = sent[i]
    BY <1>a DEF TypeOK
  <2>3. data' = data /\ done' = done /\ ptr' = ptr
    OBVIOUS
  <2>f. FifoOrder
    OBVIOUS
  <2>4. Len(sent) = Len(done) + Current + n
    BY <2>f DEF FifoOrder
  <2>5. \A i \in 1..Len(done) : done'[i] = sent'[i]
    BY <1>b, <2>1, <2>2, <2>3, <2>4, <2>f DEF FifoOrder
  <2>6. Current = 1 => data'[ptr'] = sent'[Len(done) + 1]
    BY <1>b, <2>1, <2>2, <2>3, <2>4, <2>f DEF FifoOrder
  <2>7. \A i \in 1..(n + 1) : data'[order'[i]] = sent'[Len(done) + Current + i]
    <3> SUFFICES ASSUME NEW i \in 1..(n + 1)
                 PROVE  data[order'[i]] = sent'[Len(done) + Current + i]
      BY <2>3
    <3> HIDE DEF PutCell, IInv, LinkLast
    <3>1. CASE i = n + 1
      <4>1. Len(done) + Current + i = Len(sent) + 1
        BY <1>b, <2>1, <2>2, <2>4, <3>1
      <4> QED BY <1>b, <2>2, <3>1, <4>1
    <3>2. CASE i \in 1..n
      <4>1. Len(done) + Current + i \in 1..Len(sent)
        BY <1>b, <2>1, <2>2, <2>4, <3>2
      <4> QED BY <1>b, <2>2, <2>f, <3>2, <4>1 DEF FifoOrder
    <3> QED BY <1>b, <3>1, <3>2
  <2> HIDE DEF PutCell, IInv, LinkLast
  <2> QED BY <1>b, <2>1, <2>2, <2>3, <2>4, <2>5, <2>6, <2>7 DEF FifoOrder
<1>8. HeapIsOwned'
  <2>1. \A q \in Producer : InPut(q)' <=> (InPut(q) /\ q # p)
    BY DEF TypeOK, InPut
  <2>2. InPut(p)
    BY DEF InPut
  <2>3. \A d : InOrder(d)' <=> (InOrder(d) \/ d = c)
    BY <1>b DEF InOrder
  <2>4. UNCHANGED <<allocated, cell, last_popped>>
    OBVIOUS
  <2>5. \A i, j \in 1..Len(order') : order'[i] = order'[j] => i = j
    BY <1>a, <1>b DEF HeapIsOwned, InOrder
  <2>h. HeapIsOwned
    OBVIOUS
  <2> HIDE DEF PutCell, IInv
  <2> QED BY <1>a, <2>1, <2>2, <2>3, <2>4, <2>5, <2>h DEF HeapIsOwned
<1> QED BY <1>1, <1>2, <1>3, <1>4, <1>5, <1>6, <1>7, <1>8

\* The reader entering wsfifoget.
LEMMA GetLockStep == ASSUME IInv, GetLock PROVE IInv'
<1> USE ThreadAssumption, CellAssumption, BoundAssumption
<1> USE DEF IInv, GetLock, Lock, Goto, queueVars, memVars, prodVars, scanVars, histVars, Thread
<1>1. TypeOK'
  BY DEF TypeOK, Elem
<1>2. LockInv'
  BY DEF TypeOK, LockInv
<1>3. ReaderInv'
  BY DEF TypeOK, LockInv, ReaderInv, ListIsQueue
<1>4. ProducerInv'
  BY DEF TypeOK, LockInv, ProducerInv, HeapIsOwned, InOrder, InPut
<1>5. ScanInv'
  BY DEF TypeOK, LockInv, ScanInv, ListIsQueue, HeapIsOwned, InPut, InOrder
<1>6. ListIsQueue'
  BY DEF TypeOK, LockInv, ListIsQueue, HeapIsOwned, InPut, InOrder
<1>7. FifoOrder'
  BY DEF TypeOK, LockInv, ReaderInv, FifoOrder, ListIsQueue, HeapIsOwned, InPut, InOrder, Current
<1>8. HeapIsOwned'
  BY DEF TypeOK, LockInv, ReaderInv, ListIsQueue, HeapIsOwned, ProducerInv, InPut, InOrder
<1> QED BY <1>1, <1>2, <1>3, <1>4, <1>5, <1>6, <1>7, <1>8

\* The reader starts to wait, on an empty list.
LEMMA GetWaitStep == ASSUME IInv, GetWait PROVE IInv'
<1> USE ThreadAssumption, CellAssumption, BoundAssumption
<1> USE DEF IInv, GetWait, Goto, queueVars, memVars, prodVars, scanVars, histVars, Thread
<1>1. TypeOK'
  BY DEF TypeOK, Elem
<1>2. LockInv'
  BY DEF TypeOK, LockInv
<1>3. ReaderInv'
  BY DEF TypeOK, LockInv, ReaderInv, ListIsQueue
<1>4. ProducerInv'
  BY DEF TypeOK, LockInv, ProducerInv, HeapIsOwned, InOrder, InPut
<1>5. ScanInv'
  BY DEF TypeOK, LockInv, ScanInv, ListIsQueue, HeapIsOwned, InPut, InOrder
<1>6. ListIsQueue'
  BY DEF TypeOK, LockInv, ListIsQueue, HeapIsOwned, InPut, InOrder
<1>7. FifoOrder'
  BY DEF TypeOK, LockInv, ReaderInv, FifoOrder, ListIsQueue, HeapIsOwned, InPut, InOrder, Current
<1>8. HeapIsOwned'
  <2>1. \A q \in Producer : InPut(q)' <=> InPut(q)
    BY DEF TypeOK, InPut
  <2> QED BY <2>1, HeapFrame
<1> QED BY <1>1, <1>2, <1>3, <1>4, <1>5, <1>6, <1>7, <1>8

\* The wait ends without a signal.
LEMMA SpuriousWakeupStep == ASSUME IInv, SpuriousWakeup PROVE IInv'
<1> USE ThreadAssumption, CellAssumption, BoundAssumption
<1> USE DEF IInv, SpuriousWakeup, queueVars, memVars, prodVars, scanVars, histVars, Thread
<1>1. TypeOK'
  BY DEF TypeOK, Elem
<1>2. LockInv'
  BY DEF TypeOK, LockInv
<1>3. ReaderInv'
  BY DEF TypeOK, LockInv, ReaderInv, ListIsQueue
<1>4. ProducerInv'
  BY DEF TypeOK, LockInv, ProducerInv, HeapIsOwned, InOrder, InPut
<1>5. ScanInv'
  BY DEF TypeOK, LockInv, ScanInv, ListIsQueue, HeapIsOwned, InPut, InOrder
<1>6. ListIsQueue'
  BY DEF TypeOK, LockInv, ListIsQueue, HeapIsOwned, InPut, InOrder
<1>7. FifoOrder'
  BY DEF TypeOK, LockInv, ReaderInv, FifoOrder, ListIsQueue, HeapIsOwned, InPut, InOrder, Current
<1>8. HeapIsOwned'
  BY DEF TypeOK, LockInv, ReaderInv, ListIsQueue, HeapIsOwned, ProducerInv, InPut, InOrder
<1> QED BY <1>1, <1>2, <1>3, <1>4, <1>5, <1>6, <1>7, <1>8

\* The wait returns with the lock held.
LEMMA GetReacquireStep == ASSUME IInv, GetReacquire PROVE IInv'
<1> USE ThreadAssumption, CellAssumption, BoundAssumption
<1> USE DEF IInv, GetReacquire, Lock, Goto, queueVars, memVars, prodVars, scanVars, histVars, Thread
<1>1. TypeOK'
  BY DEF TypeOK, Elem
<1>2. LockInv'
  BY DEF TypeOK, LockInv
<1>3. ReaderInv'
  BY DEF TypeOK, LockInv, ReaderInv, ListIsQueue
<1>4. ProducerInv'
  BY DEF TypeOK, LockInv, ProducerInv, HeapIsOwned, InOrder, InPut
<1>5. ScanInv'
  BY DEF TypeOK, LockInv, ScanInv, ListIsQueue, HeapIsOwned, InPut, InOrder
<1>6. ListIsQueue'
  BY DEF TypeOK, LockInv, ListIsQueue, HeapIsOwned, InPut, InOrder
<1>7. FifoOrder'
  BY DEF TypeOK, LockInv, ReaderInv, FifoOrder, ListIsQueue, HeapIsOwned, InPut, InOrder, Current
<1>8. HeapIsOwned'
  BY DEF TypeOK, LockInv, ReaderInv, ListIsQueue, HeapIsOwned, ProducerInv, InPut, InOrder
<1> QED BY <1>1, <1>2, <1>3, <1>4, <1>5, <1>6, <1>7, <1>8

\* The loop around the wait ends.
LEMMA GetFoundStep == ASSUME IInv, GetFound PROVE IInv'
<1> USE ThreadAssumption, CellAssumption, BoundAssumption
<1> USE DEF IInv, GetFound, Goto, queueVars, memVars, prodVars, scanVars, histVars, Thread
<1>1. TypeOK'
  BY DEF TypeOK, Elem
<1>2. LockInv'
  BY DEF TypeOK, LockInv
<1>3. ReaderInv'
  BY DEF TypeOK, LockInv, ReaderInv, ListIsQueue
<1>4. ProducerInv'
  BY DEF TypeOK, LockInv, ProducerInv, HeapIsOwned, InOrder, InPut
<1>5. ScanInv'
  BY DEF TypeOK, LockInv, ScanInv, ListIsQueue, HeapIsOwned, InPut, InOrder
<1>6. ListIsQueue'
  BY DEF TypeOK, LockInv, ListIsQueue, HeapIsOwned, InPut, InOrder
<1>7. FifoOrder'
  BY DEF TypeOK, LockInv, ReaderInv, FifoOrder, ListIsQueue, HeapIsOwned, InPut, InOrder, Current
<1>8. HeapIsOwned'
  BY DEF TypeOK, LockInv, ReaderInv, ListIsQueue, HeapIsOwned, ProducerInv, InPut, InOrder
<1> QED BY <1>1, <1>2, <1>3, <1>4, <1>5, <1>6, <1>7, <1>8

\* wsfifoget: the first cell goes from the list to the reader.
LEMMA GetTakeStep == ASSUME IInv, GetTake PROVE IInv'
<1> USE ThreadAssumption, CellAssumption, BoundAssumption
<1> USE DEF IInv, GetTake, TailAfterTake, Goto, queueVars, memVars, prodVars, scanVars, histVars, Thread
<1> DEFINE c == head
           n == Len(order)
<1>a. /\ n \in Nat /\ n > 0 /\ order # <<>>
      /\ c = order[1] /\ c \in Cell
      /\ order \in Seq(Cell)
      /\ \A i \in 1..n : order[i] \in Cell
  BY DEF ListIsQueue, TypeOK
<1>b. /\ order' \in Seq(Cell)
      /\ Len(order') = n - 1
      /\ \A i \in 1..(n - 1) : order'[i] = order[i + 1]
  BY <1>a
<1>1. TypeOK'
  BY <1>a, <1>b DEF TypeOK
<1>2. LockInv'
  BY DEF TypeOK, LockInv
<1>3. ReaderInv'
  BY DEF TypeOK, LockInv, ReaderInv, ListIsQueue
<1>4. ProducerInv'
  BY DEF TypeOK, LockInv, ProducerInv, HeapIsOwned, InOrder, InPut
<1>5. ScanInv'
  BY DEF TypeOK, LockInv, ScanInv, ListIsQueue, HeapIsOwned, InPut, InOrder
<1>6. ListIsQueue'
  <2>1. link' = link /\ head' = link[c]
    OBVIOUS
  <2>2. /\ tail = order[n]
        /\ \A i \in 1..n : link[order[i]] = IF i = n THEN NULL ELSE order[i + 1]
    BY <1>a DEF ListIsQueue
  <2>3. \A i \in 1..Len(order') :
          link'[order'[i]] = IF i = Len(order') THEN NULL ELSE order'[i + 1]
    <3> SUFFICES ASSUME NEW i \in 1..(n - 1)
                 PROVE  link[order[i + 1]] = IF i = n - 1 THEN NULL ELSE order'[i + 1]
      BY <1>b, <2>1
    <3>1. i + 1 \in 1..n /\ (i = n - 1 <=> i + 1 = n)
      BY <1>a
    <3> HIDE DEF GetTake, IInv
    <3>2. i # n - 1 => i + 1 \in 1..(n - 1)
      BY <1>a
    <3>3. i # n - 1 => order'[i + 1] = order[(i + 1) + 1]
      BY <1>b, <3>2
    <3> QED BY <2>2, <3>1, <3>3
  <2>4. CASE n = 1
    <3>1. head' = NULL /\ tail' = NULL
      BY <1>a, <2>1, <2>2, <2>4
    <3>2. order' = <<>>
      BY <1>b, <2>4
    <3> QED BY <2>3, <3>1, <3>2 DEF ListIsQueue
  <2>5. CASE n # 1
    <3>1. 1 \in 1..n /\ n \in 1..n
      BY <1>a
    <3>2. head # tail
      BY <1>a, <2>2, <2>5, <3>1 DEF HeapIsOwned
    <3>3. head' = order[2] /\ tail' = order[n]
      BY <1>a, <2>1, <2>2, <2>5, <3>2
    <3>4. order' # <<>> /\ order'[1] = order[2] /\ order'[n - 1] = order[n]
      <4> HIDE DEF GetTake, IInv
      <4>1. 1 \in 1..(n - 1) /\ n - 1 \in 1..(n - 1) /\ 1 + 1 = 2 /\ (n - 1) + 1 = n
        <5>1. n \in Nat /\ n > 0
          BY <1>a
        <5> HIDE DEF n
        <5> QED BY <2>5, <5>1
      <4>2. order' # <<>>
        BY <1>b, <4>1
      <4> QED BY <1>b, <4>1, <4>2
    <3> QED BY <1>b, <2>3, <3>3, <3>4 DEF ListIsQueue
  <2> QED BY <2>4, <2>5
<1>7. FifoOrder'
  <2>1. Current = 0 /\ Current' = 1
    BY DEF Current, TypeOK
  <2>2. data' = data /\ done' = done /\ sent' = sent /\ ptr' = c
    OBVIOUS
  <2>3. Len(done) \in Nat
    BY DEF TypeOK
  <2>f. FifoOrder
    OBVIOUS
  <2> HIDE DEF GetTake, IInv
  <2>4. Len(sent') = Len(done') + Current' + Len(order')
    BY <1>a, <1>b, <2>1, <2>2, <2>3, <2>f DEF FifoOrder
  <2>5. \A i \in 1..Len(done') : done'[i] = sent'[i]
    BY <2>2, <2>f DEF FifoOrder
  <2>6. data'[ptr'] = sent'[Len(done') + 1]
    BY <1>a, <2>1, <2>2, <2>3, <2>f DEF FifoOrder
  <2>7. \A i \in 1..Len(order') : data'[order'[i]] = sent'[Len(done') + Current' + i]
    <3> SUFFICES ASSUME NEW i \in 1..(n - 1)
                 PROVE  data[order[i + 1]] = sent[Len(done) + 1 + i]
      BY <1>b, <2>1, <2>2
    <3>1. i + 1 \in 1..n
      BY <1>a
    <3>2. data[order[i + 1]] = sent[Len(done) + 0 + (i + 1)]
      BY <2>1, <2>f, <3>1 DEF FifoOrder
    <3> QED BY <2>3, <3>1, <3>2
  <2> QED BY <2>4, <2>5, <2>6, <2>7 DEF FifoOrder
<1>8. HeapIsOwned'
  <2>1. \A q \in Producer : InPut(q)' <=> InPut(q)
    BY DEF TypeOK, InPut
  <2>2. \A d : InOrder(d)' <=> (InOrder(d) /\ d # c)
    <3>1. \A d : InOrder(d)' => InOrder(d) /\ d # c
      <4> SUFFICES ASSUME NEW i \in 1..(n - 1)
                   PROVE  InOrder(order[i + 1]) /\ order[i + 1] # c
        BY <1>b DEF InOrder
      <4>1. 1 \in 1..n /\ i + 1 \in 1..n /\ i + 1 # 1
        BY <1>a
      <4> QED BY <1>a, <4>1 DEF InOrder, HeapIsOwned
    <3>2. ASSUME NEW d, InOrder(d), d # c PROVE InOrder(d)'
      <4>1. PICK i \in 1..n : order[i] = d
        BY <3>2 DEF InOrder
      <4>2. i - 1 \in 1..(n - 1) /\ order'[i - 1] = d
        BY <1>a, <1>b, <3>2, <4>1
      <4> QED BY <1>b, <4>2 DEF InOrder
    <3> QED BY <3>1, <3>2
  <2>3. /\ UNCHANGED <<allocated, cell>>
        /\ last_popped = NULL /\ last_popped' = c
    OBVIOUS
  <2>4. InOrder(c)
    BY <1>a DEF InOrder
  <2>5. \A i, j \in 1..Len(order') : order'[i] = order'[j] => i = j
    <3> SUFFICES ASSUME NEW i \in 1..(n - 1), NEW j \in 1..(n - 1),
                        order[i + 1] = order[j + 1]
                 PROVE  i = j
      BY <1>b
    <3>1. i + 1 \in 1..n /\ j + 1 \in 1..n
      BY <1>a
    <3>2. i + 1 = j + 1
      BY <3>1 DEF HeapIsOwned
    <3> QED BY <1>a, <3>2
  <2>h. HeapIsOwned
    OBVIOUS
  <2> HIDE DEF GetTake, IInv
  <2> QED BY <1>a, <2>1, <2>2, <2>3, <2>4, <2>5, <2>h DEF HeapIsOwned
<1> QED BY <1>1, <1>2, <1>3, <1>4, <1>5, <1>6, <1>7, <1>8

\* The operator reads the payload through the returned pointer.
LEMMA RunOperatorStep == ASSUME IInv, RunOperator PROVE IInv'
<1> USE ThreadAssumption, CellAssumption, BoundAssumption
<1> USE DEF IInv, RunOperator, Goto, queueVars, memVars, prodVars, scanVars, histVars, Thread
<1>1. TypeOK'
  <2>1. data[ptr] = sent[Len(done) + 1] /\ Len(done) + 1 \in 1..Len(sent)
    BY DEF TypeOK, FifoOrder, Current
  <2>2. data[ptr] \in Elem
    BY <2>1 DEF TypeOK
  <2>3. done' \in Seq(Elem)
    BY <2>2 DEF TypeOK
  <2> QED BY <2>3 DEF TypeOK
<1>2. LockInv'
  BY DEF TypeOK, LockInv
<1>3. ReaderInv'
  BY DEF TypeOK, LockInv, ReaderInv, ListIsQueue
<1>4. ProducerInv'
  BY DEF TypeOK, LockInv, ProducerInv, HeapIsOwned, InOrder, InPut
<1>5. ScanInv'
  BY DEF TypeOK, LockInv, ScanInv, ListIsQueue, HeapIsOwned, InPut, InOrder
<1>6. ListIsQueue'
  BY DEF TypeOK, LockInv, ListIsQueue, HeapIsOwned, InPut, InOrder
<1>7. FifoOrder'
  BY DEF TypeOK, LockInv, ReaderInv, FifoOrder, ListIsQueue, HeapIsOwned, InPut, InOrder, Current
<1>8. HeapIsOwned'
  <2>1. \A q \in Producer : InPut(q)' <=> InPut(q)
    BY DEF TypeOK, InPut
  <2> QED BY <2>1, HeapFrame
<1> QED BY <1>1, <1>2, <1>3, <1>4, <1>5, <1>6, <1>7, <1>8

\* The reader entering wsfifoget_cleanup.
LEMMA CleanupLockStep == ASSUME IInv, CleanupLock PROVE IInv'
<1> USE ThreadAssumption, CellAssumption, BoundAssumption
<1> USE DEF IInv, CleanupLock, Lock, Goto, queueVars, memVars, prodVars, scanVars, histVars, Thread
<1>1. TypeOK'
  BY DEF TypeOK, Elem
<1>2. LockInv'
  BY DEF TypeOK, LockInv
<1>3. ReaderInv'
  BY DEF TypeOK, LockInv, ReaderInv, ListIsQueue
<1>4. ProducerInv'
  BY DEF TypeOK, LockInv, ProducerInv, HeapIsOwned, InOrder, InPut
<1>5. ScanInv'
  BY DEF TypeOK, LockInv, ScanInv, ListIsQueue, HeapIsOwned, InPut, InOrder
<1>6. ListIsQueue'
  BY DEF TypeOK, LockInv, ListIsQueue, HeapIsOwned, InPut, InOrder
<1>7. FifoOrder'
  BY DEF TypeOK, LockInv, ReaderInv, FifoOrder, ListIsQueue, HeapIsOwned, InPut, InOrder, Current
<1>8. HeapIsOwned'
  <2>1. \A q \in Producer : InPut(q)' <=> InPut(q)
    BY DEF TypeOK, InPut
  <2> QED BY <2>1, HeapFrame
<1> QED BY <1>1, <1>2, <1>3, <1>4, <1>5, <1>6, <1>7, <1>8

\* wsfifoget_cleanup frees the cell the reader owns.
LEMMA CleanupFreeStep == ASSUME IInv, CleanupFree PROVE IInv'
<1> USE ThreadAssumption, CellAssumption, BoundAssumption
<1> USE DEF IInv, CleanupFree, FreePopped, Goto, queueVars, memVars, prodVars, scanVars, histVars, Thread
<1>1. TypeOK'
  BY DEF TypeOK, Elem
<1>2. LockInv'
  BY DEF TypeOK, LockInv
<1>3. ReaderInv'
  BY DEF TypeOK, LockInv, ReaderInv, ListIsQueue
<1>4. ProducerInv'
  BY DEF TypeOK, LockInv, ProducerInv, HeapIsOwned, InOrder, InPut
<1>5. ScanInv'
  BY DEF TypeOK, LockInv, ScanInv, ListIsQueue, HeapIsOwned, InPut, InOrder
<1>6. ListIsQueue'
  BY DEF TypeOK, LockInv, ListIsQueue, HeapIsOwned, InPut, InOrder
<1>7. FifoOrder'
  BY DEF TypeOK, LockInv, ReaderInv, FifoOrder, ListIsQueue, HeapIsOwned, InPut, InOrder, Current
<1>8. HeapIsOwned'
  BY DEF TypeOK, LockInv, ReaderInv, ListIsQueue, HeapIsOwned, ProducerInv, InPut, InOrder
<1> QED BY <1>1, <1>2, <1>3, <1>4, <1>5, <1>6, <1>7, <1>8

\* wsfifosize starts at head.
LEMMA SizeLockStep == ASSUME IInv, SizeLock PROVE IInv'
<1> USE ThreadAssumption, CellAssumption, BoundAssumption
<1> USE DEF IInv, SizeLock, Lock, Goto, queueVars, memVars, prodVars, scanVars, histVars, Thread
<1>1. TypeOK'
  BY DEF TypeOK, Elem
<1>2. LockInv'
  BY DEF TypeOK, LockInv
<1>3. ReaderInv'
  BY DEF TypeOK, LockInv, ReaderInv, ListIsQueue
<1>4. ProducerInv'
  BY DEF TypeOK, LockInv, ProducerInv, HeapIsOwned, InOrder, InPut
<1>5. ScanInv'
  BY DEF TypeOK, LockInv, ScanInv, ListIsQueue, HeapIsOwned, InPut, InOrder
<1>6. ListIsQueue'
  BY DEF TypeOK, LockInv, ListIsQueue, HeapIsOwned, InPut, InOrder
<1>7. FifoOrder'
  BY DEF TypeOK, LockInv, ReaderInv, FifoOrder, ListIsQueue, HeapIsOwned, InPut, InOrder, Current
<1>8. HeapIsOwned'
  BY DEF TypeOK, LockInv, ReaderInv, ListIsQueue, HeapIsOwned, ProducerInv, InPut, InOrder
<1> QED BY <1>1, <1>2, <1>3, <1>4, <1>5, <1>6, <1>7, <1>8

\* wsfifosize passes one cell.
LEMMA SizeStepStep == ASSUME IInv, SizeStep PROVE IInv'
<1> USE ThreadAssumption, CellAssumption, BoundAssumption
<1> USE DEF IInv, SizeStep, queueVars, memVars, prodVars, scanVars, histVars, Thread
<1>1. TypeOK'
  BY DEF TypeOK, Elem
<1>2. LockInv'
  BY DEF TypeOK, LockInv
<1>3. ReaderInv'
  BY DEF TypeOK, LockInv, ReaderInv, ListIsQueue
<1>4. ProducerInv'
  BY DEF TypeOK, LockInv, ProducerInv, HeapIsOwned, InOrder, InPut
<1>5. ScanInv'
  BY DEF TypeOK, LockInv, ScanInv, ListIsQueue, HeapIsOwned, InPut, InOrder
<1>6. ListIsQueue'
  BY DEF TypeOK, LockInv, ListIsQueue, HeapIsOwned, InPut, InOrder
<1>7. FifoOrder'
  BY DEF TypeOK, LockInv, ReaderInv, FifoOrder, ListIsQueue, HeapIsOwned, InPut, InOrder, Current
<1>8. HeapIsOwned'
  BY DEF TypeOK, LockInv, ReaderInv, ListIsQueue, HeapIsOwned, ProducerInv, InPut, InOrder
<1> QED BY <1>1, <1>2, <1>3, <1>4, <1>5, <1>6, <1>7, <1>8

\* wsfifosize returns.
LEMMA SizeReturnStep == ASSUME IInv, SizeReturn PROVE IInv'
<1> USE ThreadAssumption, CellAssumption, BoundAssumption
<1> USE DEF IInv, SizeReturn, Goto, queueVars, memVars, prodVars, scanVars, histVars, Thread
<1>1. TypeOK'
  BY DEF TypeOK, ScanInv, Elem
<1>2. LockInv'
  BY DEF TypeOK, LockInv
<1>3. ReaderInv'
  BY DEF TypeOK, LockInv, ReaderInv, ListIsQueue
<1>4. ProducerInv'
  BY DEF TypeOK, LockInv, ProducerInv, HeapIsOwned, InOrder, InPut
<1>5. ScanInv'
  BY DEF TypeOK, LockInv, ScanInv, ListIsQueue, HeapIsOwned, InPut, InOrder
<1>6. ListIsQueue'
  BY DEF TypeOK, LockInv, ListIsQueue, HeapIsOwned, InPut, InOrder
<1>7. FifoOrder'
  BY DEF TypeOK, LockInv, ReaderInv, FifoOrder, ListIsQueue, HeapIsOwned, InPut, InOrder, Current
<1>8. HeapIsOwned'
  BY DEF TypeOK, LockInv, ReaderInv, ListIsQueue, HeapIsOwned, ProducerInv, InPut, InOrder
<1> QED BY <1>1, <1>2, <1>3, <1>4, <1>5, <1>6, <1>7, <1>8

\* The invariant holds of the freshly initialised queue.
LEMMA InitIInv == Init => IInv
<1> SUFFICES ASSUME Init PROVE IInv
  OBVIOUS
<1> USE ThreadAssumption, CellAssumption, BoundAssumption DEF Init
<1>1. TypeOK
  <2>1. /\ order \in Seq(Cell) /\ sent \in Seq(Elem) /\ done \in Seq(Elem)
        /\ 0 \in 0..MaxPuts /\ 0 \in 0..MaxScans
    OBVIOUS
  <2>2. pc \in [Thread -> {"idle", "get"}]
    OBVIOUS
  <2> QED BY <2>1, <2>2 DEF TypeOK
<1>2. /\ pc[Reader] = "get" /\ pc[Monitor] = "idle"
      /\ \A p \in Producer : pc[p] = "idle"
      /\ Len(order) = 0 /\ Len(sent) = 0 /\ Len(done) = 0
  BY DEF Thread
<1>3. LockInv
  BY <1>2 DEF LockInv
<1>4. ReaderInv /\ ProducerInv /\ ScanInv
  BY <1>2 DEF ReaderInv, ProducerInv, ScanInv, InPut
<1>5. ListIsQueue /\ FifoOrder
  BY <1>2 DEF ListIsQueue, FifoOrder, Current
<1>6. HeapIsOwned
  BY <1>2 DEF HeapIsOwned, InPut, InOrder
<1> QED BY <1>1, <1>3, <1>4, <1>5, <1>6 DEF IInv

\* The invariant survives stuttering.
LEMMA StutterStep == ASSUME IInv, UNCHANGED vars PROVE IInv'
BY DEF vars, queueVars, memVars, prodVars, scanVars, histVars, IInv, TypeOK, LockInv,
       ReaderInv, ProducerInv, ScanInv, ListIsQueue, FifoOrder, HeapIsOwned, InPut,
       InOrder, Current

\* IInv is inductive: every step of every thread keeps it.
THEOREM Invariance == SafeSpec => []IInv
<1>1. ASSUME IInv, [Next]_vars PROVE IInv'
  <2>1. ASSUME NEW p \in Producer, PutAlloc(p) \/ PutStep(p) PROVE IInv'
    BY <1>1, <2>1, PutAllocStep, PutLockStep, PutCellStep DEF PutStep
  <2>2. CASE GetStep
    BY <1>1, <2>2, GetLockStep, GetWaitStep, GetReacquireStep, GetFoundStep, GetTakeStep,
       RunOperatorStep, CleanupLockStep, CleanupFreeStep DEF GetStep
  <2>3. CASE SpuriousWakeup
    BY <1>1, <2>3, SpuriousWakeupStep
  <2>4. CASE SizeLock \/ SizeScan
    BY <1>1, <2>4, SizeLockStep, SizeStepStep, SizeReturnStep DEF SizeScan
  <2>5. CASE UNCHANGED vars
    BY <1>1, <2>5, StutterStep
  <2> QED BY <1>1, <2>1, <2>2, <2>3, <2>4, <2>5 DEF Next
<1> QED BY <1>1, InitIInv, PTL DEF SafeSpec

-----------------------------------------------------------------------------
(* What follows from the invariant.                                        *)

\* Type correctness of the queue, its memory and its threads.
THEOREM TypeCorrect == SafeSpec => []TypeOK
<1>1. IInv => TypeOK
  BY DEF IInv
<1> QED BY <1>1, Invariance, PTL

\* The pointers kept by put_cell and get spell out the queue, oldest first.
THEOREM ListCorrect == SafeSpec => []ListIsQueue
<1>1. IInv => ListIsQueue
  BY DEF IInv
<1> QED BY <1>1, Invariance, PTL

\* The operator runs on exactly what was enqueued, in that order.
THEOREM FifoCorrect == SafeSpec => []FifoOrder
<1>1. IInv => FifoOrder
  BY DEF IInv
<1> QED BY <1>1, Invariance, PTL

\* Every cell has one owner: no leak, no double free.
THEOREM HeapCorrect == SafeSpec => []HeapIsOwned
<1>1. IInv => HeapIsOwned
  BY DEF IInv
<1> QED BY <1>1, Invariance, PTL

\* get and cleanup meet their preconditions, so neither reports an error nor
\* dereferences a null pointer.
THEOREM GetCorrect == SafeSpec => []GetIsSafe
<1>1. IInv => GetIsSafe
  BY DEF IInv, GetIsSafe, ReaderInv
<1> QED BY <1>1, Invariance, PTL

\* No thread dereferences freed memory.
THEOREM MemorySafe == SafeSpec => []NoUseAfterFree
<1>1. IInv => NoUseAfterFree
  <2> SUFFICES ASSUME IInv PROVE NoUseAfterFree
    OBVIOUS
  <2>1. \A c \in Cell : InOrder(c) \/ last_popped = c => c \in allocated
    BY DEF IInv, HeapIsOwned
  <2>2. \A i \in 1..Len(order) : order[i] \in allocated
    BY <2>1 DEF IInv, TypeOK, InOrder
  <2>3. Len(order) \in Nat /\ (order # <<>> => 1 \in 1..Len(order) /\ Len(order) \in 1..Len(order))
    BY DEF IInv, TypeOK
  <2>4. /\ tail # NULL => tail \in allocated
        /\ head # NULL => head \in allocated
    BY <2>2, <2>3 DEF IInv, ListIsQueue
  <2>5. pc[Reader] = "run" => ptr \in allocated
    BY <2>1 DEF IInv, TypeOK, ReaderInv
  <2>6. pc[Monitor] = "walk" /\ walk # NULL => walk \in allocated
    <3> SUFFICES ASSUME pc[Monitor] = "walk", walk # NULL PROVE walk \in allocated
      OBVIOUS
    <3>1. count # Len(order) /\ count <= Len(order) /\ walk = order[count + 1]
      BY DEF IInv, ScanInv
    <3>2. count + 1 \in 1..Len(order)
      BY <2>3, <3>1 DEF IInv, TypeOK
    <3> QED BY <2>2, <3>1, <3>2
  <2> QED BY <2>4, <2>5, <2>6 DEF NoUseAfterFree, IInv, ReaderInv
<1> QED BY <1>1, Invariance, PTL

\* wsfifosize returns the exact length although others keep using the queue.
THEOREM SizeCorrect == SafeSpec => []SizeIsExact
<1>1. IInv => SizeIsExact
  <2> SUFFICES ASSUME IInv, pc[Monitor] = "walk", walk = NULL, count # Len(order)
               PROVE  FALSE
    BY DEF SizeIsExact
  <2>1. count <= Len(order) /\ order[count + 1] = NULL
    BY DEF IInv, ScanInv
  <2>2. count + 1 \in 1..Len(order) /\ order \in Seq(Cell)
    BY <2>1 DEF IInv, TypeOK
  <2> QED BY <2>1, <2>2, CellAssumption
<1> QED BY <1>1, Invariance, PTL

\* The reader never sleeps on a queue that holds an element.
THEOREM WakeupCorrect == SafeSpec => []NoLostWakeup
<1>1. IInv => NoLostWakeup
  BY DEF IInv, ReaderInv, NoLostWakeup
<1> QED BY <1>1, Invariance, PTL

-----------------------------------------------------------------------------
(* The list implements WSFifo: put_cell is Put, get's unlinking is Get, the *)
(* operator's run is Process, and everything else is invisible.             *)

ASent == [p \in Producer |-> IF pc[p] = "idle" THEN nput[p] ELSE nput[p] - 1]
AQueue == [i \in 1..Len(order) |-> data[order[i]]]
ACurrent == IF pc[Reader] = "run" THEN data[ptr] ELSE NULL

\* Steps of the reader and of the monitor that do not touch the list, and lock
\* acquisitions, leave the abstract state alone.
LEMMA QuietStep ==
  ASSUME UNCHANGED <<data, nput, ptr, order, done>>,
         \A p \in Producer : pc'[p] = "idle" <=> pc[p] = "idle",
         pc'[Reader] = "run" <=> pc[Reader] = "run"
  PROVE  UNCHANGED <<ASent, AQueue, ACurrent, done>>
BY DEF ASent, AQueue, ACurrent

\* Preparing a cell is invisible: it is neither in the queue nor being read.
LEMMA AllocSimulation ==
  ASSUME NEW p \in Producer, IInv, PutAlloc(p)
  PROVE  UNCHANGED <<ASent, AQueue, ACurrent, done>>
<1> USE ThreadAssumption
<1>1. PICK c \in Cell \ allocated : data' = [data EXCEPT ![c] = <<p, nput[p] + 1>>]
  BY DEF PutAlloc, CopyIn
<1>2. UNCHANGED <<order, ptr, done>> /\ pc' = [pc EXCEPT ![p] = "put"] /\ pc[p] = "idle"
      /\ nput' = [nput EXCEPT ![p] = @ + 1]
  BY DEF PutAlloc, Goto, histVars
<1>3. \A i \in 1..Len(order) : order[i] # c /\ order[i] \in Cell
  BY <1>1 DEF IInv, TypeOK, HeapIsOwned, InOrder
<1>4. AQueue' = AQueue
  BY <1>1, <1>2, <1>3 DEF AQueue, IInv, TypeOK
<1>5. pc'[Reader] = pc[Reader] /\ (pc[Reader] = "run" => ptr # c /\ ptr \in Cell)
  BY <1>1, <1>2 DEF IInv, TypeOK, HeapIsOwned, ReaderInv, Thread
<1>6. ACurrent' = ACurrent
  BY <1>1, <1>2, <1>5 DEF ACurrent, IInv, TypeOK
<1>7. ASent' = ASent
  BY <1>2 DEF ASent, IInv, TypeOK, Thread
<1> QED BY <1>2, <1>4, <1>6, <1>7

\* put_cell implements Put.
LEMMA PutSimulation ==
  ASSUME NEW p \in Producer, IInv, PutCell(p)
  PROVE  Abstract!Put(p)
<1> USE ThreadAssumption
<1>1. /\ cell[p] \in Cell /\ nput[p] > 0 /\ data[cell[p]] = <<p, nput[p]>>
      /\ pc[p] = "append" /\ nput[p] \in 0..MaxPuts
  BY DEF PutCell, IInv, ProducerInv, InPut, TypeOK
<1>2. /\ UNCHANGED <<data, nput, ptr, done>>
      /\ pc' = [pc EXCEPT ![p] = "idle"]
      /\ order' = Append(order, cell[p])
  BY DEF PutCell, Goto, prodVars
<1>3. ACurrent' = ACurrent
  BY <1>2 DEF ACurrent, IInv, TypeOK, Thread
<1>4. ASent[p] = nput[p] - 1 /\ ASent[p] < MaxPuts
  BY <1>1, BoundAssumption DEF ASent
<1>5. ASent' = [ASent EXCEPT ![p] = @ + 1]
  <2>1. \A q \in Producer : pc'[q] = IF q = p THEN "idle" ELSE pc[q]
    BY <1>2 DEF IInv, TypeOK, Thread
  <2>2. (nput[p] - 1) + 1 = nput[p]
    BY <1>1
  <2>3. \A q \in Producer : ASent'[q] = IF q = p THEN ASent[p] + 1 ELSE ASent[q]
    BY <1>1, <1>2, <2>1, <2>2 DEF ASent
  <2>4. ASent' = [q \in Producer |-> IF q = p THEN ASent[p] + 1 ELSE ASent[q]]
    BY <2>3 DEF ASent
  <2> QED BY <2>4 DEF ASent
<1>6. AQueue' = Append(AQueue, <<p, ASent[p] + 1>>)
  <2>1. /\ Len(order) \in Nat /\ Len(order') = Len(order) + 1
        /\ order'[Len(order) + 1] = cell[p]
        /\ \A i \in 1..Len(order) : order'[i] = order[i]
    BY <1>1, <1>2 DEF IInv, TypeOK
  <2>2. ASent[p] + 1 = nput[p]
    BY <1>1, <1>4
  <2>3. Len(AQueue) = Len(order)
    BY <2>1 DEF AQueue
  <2>4. AQueue' = [i \in 1..(Len(order) + 1) |-> data[order'[i]]]
    BY <1>2, <2>1 DEF AQueue
  <2>5. Append(AQueue, <<p, nput[p]>>) = [i \in 1..(Len(order) + 1) |->
          IF i \in 1..Len(order) THEN AQueue[i] ELSE <<p, nput[p]>>]
    BY <2>1, <2>3
  <2>6. \A i \in 1..(Len(order) + 1) :
          data[order'[i]] = IF i \in 1..Len(order) THEN AQueue[i] ELSE <<p, nput[p]>>
    BY <1>1, <2>1 DEF AQueue
  <2> QED BY <2>2, <2>4, <2>5, <2>6
<1> QED BY <1>2, <1>3, <1>4, <1>5, <1>6 DEF Abstract!Put, ASent, AQueue, ACurrent

\* Tail shifts a sequence by one.
LEMMA TailAsFunction ==
  ASSUME NEW S, NEW s \in Seq(S), s # <<>>
  PROVE  Tail(s) = [i \in 1..(Len(s) - 1) |-> s[i + 1]]
<1>1. /\ Tail(s) \in Seq(S) /\ Len(Tail(s)) = Len(s) - 1
      /\ \A i \in 1..Len(Tail(s)) : Tail(s)[i] = s[i + 1]
  BY HeadTailProperties
<1>2. Tail(s) \in [1..(Len(s) - 1) -> S]
  BY <1>1, LenProperties
<1> QED BY <1>1, <1>2

\* The unlinking in wsfifoget implements Get.
LEMMA TakeSimulation ==
  ASSUME IInv, GetTake
  PROVE  Abstract!Get
<1> USE ThreadAssumption
<1>1. /\ UNCHANGED <<data, nput, done>> /\ ptr' = head
      /\ pc' = [pc EXCEPT ![Reader] = "run"] /\ pc[Reader] = "take"
      /\ order' = Tail(order) /\ head # NULL
  BY DEF GetTake, Goto, memVars, prodVars
<1>2. /\ order # <<>> /\ head = order[1] /\ Len(order) \in Nat /\ Len(order) > 0
      /\ Len(order') = Len(order) - 1
      /\ \A i \in 1..(Len(order) - 1) : order'[i] = order[i + 1]
  BY <1>1 DEF IInv, ListIsQueue, TypeOK
<1>3. ACurrent = NULL /\ ACurrent' = data[order[1]]
  BY <1>1, <1>2 DEF ACurrent, IInv, TypeOK, Thread
<1>4. ASent' = ASent
  BY <1>1 DEF ASent, IInv, TypeOK, Thread
<1>5. Len(AQueue) = Len(order) /\ AQueue # <<>> /\ Head(AQueue) = data[order[1]]
  BY <1>2 DEF AQueue
<1>6. AQueue' = Tail(AQueue)
  <2>1. AQueue' = [i \in 1..(Len(order) - 1) |-> data[order'[i]]]
    BY <1>1, <1>2 DEF AQueue
  <2>2. Tail(AQueue) = [i \in 1..(Len(order) - 1) |-> AQueue[i + 1]]
    <3>1. AQueue \in Seq(Elem \cup {NULL})
      BY <1>2 DEF AQueue, IInv, TypeOK
    <3> HIDE DEF AQueue
    <3> QED BY <1>5, <3>1, TailAsFunction
  <2>3. \A i \in 1..(Len(order) - 1) : data[order'[i]] = AQueue[i + 1]
    BY <1>2 DEF AQueue
  <2> QED BY <2>1, <2>2, <2>3
<1> QED BY <1>1, <1>3, <1>4, <1>5, <1>6 DEF Abstract!Get, ASent, AQueue, ACurrent

\* Running the operator implements Process.
LEMMA RunSimulation ==
  ASSUME IInv, RunOperator
  PROVE  Abstract!Process
<1> USE ThreadAssumption
<1>1. /\ UNCHANGED <<data, nput, order>> /\ done' = Append(done, data[ptr])
      /\ pc' = [pc EXCEPT ![Reader] = "cleanup"] /\ pc[Reader] = "run"
  BY DEF RunOperator, Goto, memVars, prodVars
<1>2. data[ptr] = sent[Len(done) + 1] /\ Len(done) + 1 \in 1..Len(sent)
  BY <1>1 DEF IInv, TypeOK, FifoOrder, Current
<1>3. data[ptr] \in Elem /\ ACurrent = data[ptr] /\ ACurrent' = NULL
  BY <1>1, <1>2 DEF ACurrent, IInv, TypeOK, Thread
<1>4. data[ptr] # NULL
  BY <1>3, ElemAssumption
<1>5. UNCHANGED <<ASent, AQueue>>
  BY <1>1 DEF ASent, AQueue, IInv, TypeOK, Thread
<1> QED BY <1>1, <1>3, <1>4, <1>5 DEF Abstract!Process, ASent, AQueue, ACurrent

\* The linked list, its lock and its condition variable implement the queue
\* WSFifo promises, whatever the number of writers: every step of the program
\* is a step of WSFifo or changes nothing the promise is about.
THEOREM Refinement == SafeSpec => Abstract!SafeSpec
<1> USE ThreadAssumption
<1>1. Init => Abstract!Init
  <2> SUFFICES ASSUME Init PROVE Abstract!Init
    OBVIOUS
  <2>1. pc[Reader] = "get" /\ \A p \in Producer : pc[p] = "idle"
    BY DEF Init, Thread
  <2> QED BY <2>1 DEF Init, Abstract!Init
<1>2. ASSUME IInv, [Next]_vars PROVE [Abstract!Next]_(Abstract!vars)
  <2> DEFINE Quiet == UNCHANGED <<ASent, AQueue, ACurrent, done>>
  <2>q. Quiet => [Abstract!Next]_(Abstract!vars)
    BY DEF Abstract!vars, ASent, AQueue, ACurrent
  <2>1. ASSUME NEW p \in Producer, PutAlloc(p) \/ PutStep(p)
        PROVE  [Abstract!Next]_(Abstract!vars)
    <3>1. CASE PutAlloc(p)
      BY <1>2, <2>q, <3>1, AllocSimulation
    <3>2. CASE PutLock(p)
      BY <1>2, <2>q, <3>2, QuietStep
         DEF PutLock, Lock, Goto, memVars, prodVars, histVars, IInv, TypeOK, Thread
    <3>3. CASE PutCell(p)
      BY <1>2, <3>3, PutSimulation DEF Abstract!Next
    <3> QED BY <2>1, <3>1, <3>2, <3>3 DEF PutStep
  <2>2. CASE GetTake
    BY <1>2, <2>2, TakeSimulation DEF Abstract!Next
  <2>3. CASE RunOperator
    BY <1>2, <2>3, RunSimulation DEF Abstract!Next
  <2>4. CASE GetLock \/ GetWait \/ GetReacquire \/ GetFound \/ CleanupLock \/ CleanupFree
    <3>1. Quiet
      <4>1. UNCHANGED <<data, nput, ptr, order, done>>
        BY <2>4 DEF GetLock, GetWait, GetReacquire, GetFound, CleanupLock, CleanupFree,
                    memVars, prodVars, histVars
      <4>2. /\ \A p \in Producer : pc'[p] = pc[p]
            /\ pc'[Reader] # "run" /\ pc[Reader] # "run"
        BY <1>2, <2>4 DEF GetLock, GetWait, GetReacquire, GetFound, CleanupLock,
                    CleanupFree, Lock, Goto, IInv, TypeOK, Thread
      <4> QED BY <4>1, <4>2, QuietStep
    <3> QED BY <2>q, <3>1
  <2>5. CASE SpuriousWakeup \/ SizeLock \/ SizeScan \/ UNCHANGED vars
    <3>1. UNCHANGED <<data, nput, ptr, order, done>>
      BY <2>5 DEF SpuriousWakeup, SizeLock, SizeScan, SizeStep, SizeReturn, vars,
                  memVars, prodVars, histVars
    <3>2. pc'[Reader] = pc[Reader] /\ \A p \in Producer : pc'[p] = pc[p]
      BY <1>2, <2>5 DEF SpuriousWakeup, SizeLock, SizeScan, SizeStep, SizeReturn, vars,
                  Lock, Goto, IInv, TypeOK, Thread
    <3>3. Quiet
      BY <3>1, <3>2, QuietStep
    <3> QED BY <2>q, <3>3
  <2> QED BY <1>2, <2>1, <2>2, <2>3, <2>4, <2>5 DEF Next, GetStep
<1> QED BY <1>1, <1>2, Invariance, PTL DEF SafeSpec, Abstract!SafeSpec

=============================================================================
