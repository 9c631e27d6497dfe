------------------------------ MODULE ListFifo ------------------------------
(***************************************************************************)
(* c_fifos/bits/list_fifo.c in its default configuration (one stage, a     *)
(* lock around every operation): the linked-list queue that feeds one      *)
(* worker thread.  Producers run WSFIFOPUT, the reader is the loop of      *)
(* worker_thread (get, run the operator, cleanup) and the monitor is       *)
(* main's print_queue_status, which measures the queue while it is used.   *)
(*                                                                         *)
(* Every body that runs between pthread_mutex_lock and its unlock is one   *)
(* action that ends with the unlock; taking the lock is an action of its   *)
(* own.  Cells are addresses: malloc returns any address not in use, a     *)
(* freed address may come back, and a fresh cell keeps whatever its memory *)
(* held before.                                                            *)
(***************************************************************************)
EXTENDS Naturals, Sequences, FiniteSets

CONSTANTS Producer,        \* threads that enqueue
          Reader, Monitor, \* the worker thread, and the thread that measures
          Cell,            \* addresses malloc can return
          NULL,
          MaxPuts,         \* bound: elements enqueued by each producer
          MaxScans         \* bound: calls of wsfifosize by the monitor

ASSUME ThreadAssumption ==
  /\ Reader # Monitor
  /\ Reader \notin Producer
  /\ Monitor \notin Producer
  /\ NULL \notin Producer \cup {Reader, Monitor}

ASSUME CellAssumption == NULL \notin Cell

ASSUME BoundAssumption == MaxPuts \in Nat /\ MaxScans \in Nat

Thread == Producer \cup {Reader, Monitor}

\* The n-th element of producer p.
Elem == Producer \X (1..MaxPuts)

ASSUME ElemAssumption == NULL \notin Elem

VARIABLES
  head, tail, last_popped, \* the fields of onestage_wsfifo
  mut,                     \* which thread holds the mutex
  waiting,                 \* is the reader in has_data's wait set?
  link, data,              \* the memory of the cells
  allocated,               \* the addresses malloc has handed out
  pc,                      \* where each thread is
  cell,                    \* WSFIFOPUT's local, per producer
  nput,                    \* elements each producer has built
  ptr,                     \* what wsfifoget returned to worker_thread
  walk, count, scans       \* wsfifosize's locals, and the calls finished

VARIABLES
  order,                   \* history: the cells in the queue, oldest first
  sent, done               \* history: elements enqueued / elements run on

queueVars  == <<head, tail, last_popped>>
memVars    == <<link, data, allocated>>
prodVars   == <<cell, nput>>
scanVars   == <<walk, count, scans>>
histVars   == <<order, sent, done>>
vars == <<queueVars, mut, waiting, memVars, pc, prodVars, ptr, scanVars, histVars>>

-----------------------------------------------------------------------------
Init ==
  /\ head = NULL /\ tail = NULL /\ last_popped = NULL
  /\ mut = NULL /\ waiting = FALSE
  /\ link = [c \in Cell |-> NULL]
  /\ data = [c \in Cell |-> NULL]
  /\ allocated = {}
  /\ pc = [t \in Thread |-> IF t = Reader THEN "get" ELSE "idle"]
  /\ cell = [p \in Producer |-> NULL]
  /\ nput = [p \in Producer |-> 0]
  /\ ptr = NULL
  /\ walk = NULL /\ count = 0 /\ scans = 0
  /\ order = <<>> /\ sent = <<>> /\ done = <<>>

Goto(t, l) == pc' = [pc EXCEPT ![t] = l]

\* pthread_mutex_lock by thread t, which then goes on to l.
Lock(t, l) == mut = NULL /\ mut' = t /\ Goto(t, l)

-----------------------------------------------------------------------------
(* Producers: WSFIFOPUT and onestage_wsfifoput_cell.                       *)

\* *(ty*)(cell+1) = val
CopyIn(p, c) == data' = [data EXCEPT ![c] = <<p, nput[p] + 1>>]

\* WSFIFOPUT allocates the cell and copies the element before it locks.
PutAlloc(p) ==
  /\ pc[p] = "idle"
  /\ nput[p] < MaxPuts
  /\ \E c \in Cell \ allocated :
       /\ allocated' = allocated \cup {c}
       /\ cell' = [cell EXCEPT ![p] = c]
       /\ CopyIn(p, c)
  /\ nput' = [nput EXCEPT ![p] = @ + 1]
  /\ Goto(p, "put")
  /\ UNCHANGED <<queueVars, mut, waiting, link, ptr, scanVars, histVars>>

PutLock(p) ==
  /\ pc[p] = "put"
  /\ Lock(p, "append")
  /\ UNCHANGED <<queueVars, waiting, memVars, prodVars, ptr, scanVars, histVars>>

\* cell->link = NULL; tail->link = cell
LinkLast(c) ==
  link' = IF tail = NULL THEN [link EXCEPT ![c] = NULL]
          ELSE [link EXCEPT ![c] = NULL, ![tail] = c]

\* Mutant: the element is linked but nobody is told.
Signal_Dropped == waiting' = waiting

\* pthread_cond_signal(has_data): the reader is the only thread that waits.
Signal == waiting' = FALSE

\* Link the cell at the tail, signal has_data, unlock.
PutCell(p) ==
  /\ pc[p] = "append"
  /\ LinkLast(cell[p])
  /\ head' = IF tail = NULL THEN cell[p] ELSE head
  /\ tail' = cell[p]
  /\ Signal
  /\ mut' = NULL
  /\ Goto(p, "idle")
  /\ order' = Append(order, cell[p])
  /\ sent' = Append(sent, data[cell[p]])
  /\ UNCHANGED <<last_popped, data, allocated, prodVars, ptr, scanVars, done>>

-----------------------------------------------------------------------------
(* The reader: onestage_wsfifoget, the operator, onestage_wsfifoget_cleanup *)

GetLock ==
  /\ pc[Reader] = "get"
  /\ Lock(Reader, "test")
  /\ UNCHANGED <<queueVars, waiting, memVars, prodVars, ptr, scanVars, histVars>>

\* The while test finds the list empty: wait on has_data, giving up the lock.
GetWait ==
  /\ pc[Reader] = "test"
  /\ head = NULL
  /\ waiting' = TRUE
  /\ mut' = NULL
  /\ Goto(Reader, "wait")
  /\ UNCHANGED <<queueVars, memVars, prodVars, ptr, scanVars, histVars>>

\* pthread_cond_wait may return without a signal.
SpuriousWakeup ==
  /\ pc[Reader] = "wait"
  /\ waiting
  /\ waiting' = FALSE
  /\ UNCHANGED <<queueVars, mut, memVars, pc, prodVars, ptr, scanVars, histVars>>

\* pthread_cond_wait returns with the lock held; the while loop tests again.
GetReacquire ==
  /\ pc[Reader] = "wait"
  /\ ~waiting
  /\ Lock(Reader, "test")
  /\ UNCHANGED <<queueVars, waiting, memVars, prodVars, ptr, scanVars, histVars>>

\* The while loop ends: there is a first cell to take.
GetFound ==
  /\ pc[Reader] = "test"
  /\ head # NULL
  /\ Goto(Reader, "take")
  /\ UNCHANGED <<queueVars, mut, waiting, memVars, prodVars, ptr, scanVars, histVars>>

\* Mutant: taking the last cell leaves tail pointing at it.
TailAfterTake_Kept == tail

\* "If we take the last element, null both."
TailAfterTake == IF head = tail THEN NULL ELSE tail

\* Mutant: one-step get, which frees the cell before the operator has read it.
GetTake_FreeEarly ==
  /\ pc[Reader] = "take"
  /\ head # NULL /\ last_popped = NULL
  /\ head' = link[head]
  /\ tail' = TailAfterTake
  /\ last_popped' = head
  /\ ptr' = head
  /\ allocated' = allocated \ {head}
  /\ mut' = NULL
  /\ Goto(Reader, "run")
  /\ order' = Tail(order)
  /\ UNCHANGED <<waiting, link, data, prodVars, scanVars, sent, done>>

\* Unlink the first cell and return the address of its payload.  The code
\* stops the program (wserror) when last_popped is still set, and
\* dereferences head: GetIsSafe says neither can go wrong.
GetTake ==
  /\ pc[Reader] = "take"
  /\ head # NULL /\ last_popped = NULL
  /\ head' = link[head]
  /\ tail' = TailAfterTake
  /\ last_popped' = head
  /\ ptr' = head
  /\ mut' = NULL
  /\ Goto(Reader, "run")
  /\ order' = Tail(order)
  /\ UNCHANGED <<waiting, memVars, prodVars, scanVars, sent, done>>

\* The operator's wrapper copies the payload out of the cell, with no lock.
RunOperator ==
  /\ pc[Reader] = "run"
  /\ done' = Append(done, data[ptr])
  /\ Goto(Reader, "cleanup")
  /\ UNCHANGED <<queueVars, mut, waiting, memVars, prodVars, ptr, scanVars, order, sent>>

CleanupLock ==
  /\ pc[Reader] = "cleanup"
  /\ Lock(Reader, "free")
  /\ UNCHANGED <<queueVars, waiting, memVars, prodVars, ptr, scanVars, histVars>>

\* Mutant: last_popped is cleared without freeing the cell.
FreePopped_Leak == allocated' = allocated

\* FIFOFREE(ff->last_popped); free(NULL) is allowed and frees nothing.
FreePopped == allocated' = allocated \ {last_popped}

CleanupFree ==
  /\ pc[Reader] = "free"
  /\ FreePopped
  /\ last_popped' = NULL
  /\ mut' = NULL
  /\ Goto(Reader, "get")
  /\ UNCHANGED <<head, tail, waiting, link, data, prodVars, ptr, scanVars, histVars>>

-----------------------------------------------------------------------------
(* The monitor: onestage_wsfifosize.                                       *)

\* Mutant: the list is walked without the lock.
SizeLock_Unlocked ==
  /\ pc[Monitor] = "idle"
  /\ scans < MaxScans
  /\ Goto(Monitor, "walk")
  /\ walk' = head
  /\ count' = 0
  /\ UNCHANGED <<queueVars, mut, waiting, memVars, prodVars, ptr, scans, histVars>>

SizeLock ==
  /\ pc[Monitor] = "idle"
  /\ scans < MaxScans
  /\ Lock(Monitor, "walk")
  /\ walk' = head
  /\ count' = 0
  /\ UNCHANGED <<queueVars, waiting, memVars, prodVars, ptr, scans, histVars>>

SizeStep ==
  /\ pc[Monitor] = "walk"
  /\ walk # NULL
  /\ walk' = link[walk]
  /\ count' = count + 1
  /\ UNCHANGED <<queueVars, mut, waiting, memVars, pc, prodVars, ptr, scans, histVars>>

SizeReturn ==
  /\ pc[Monitor] = "walk"
  /\ walk = NULL
  /\ mut' = NULL
  /\ scans' = scans + 1
  /\ Goto(Monitor, "idle")
  /\ UNCHANGED <<queueVars, waiting, memVars, prodVars, ptr, walk, count, histVars>>

-----------------------------------------------------------------------------
PutStep(p) == PutLock(p) \/ PutCell(p)

GetStep ==
  \/ GetLock \/ GetWait \/ GetReacquire \/ GetFound \/ GetTake
  \/ RunOperator \/ CleanupLock \/ CleanupFree

SizeScan == SizeStep \/ SizeReturn

Next ==
  \/ \E p \in Producer : PutAlloc(p) \/ PutStep(p)
  \/ GetStep
  \/ SpuriousWakeup
  \/ SizeLock \/ SizeScan

\* Threads that have work and can take a step are scheduled.  A producer need
\* not start another put, nor the monitor another measurement, and no wakeup
\* is promised without a signal.
Fairness ==
  /\ \A p \in Producer : WF_vars(PutStep(p))
  /\ WF_vars(GetStep)
  /\ WF_vars(SizeScan)

SafeSpec == Init /\ [][Next]_vars
Spec == SafeSpec /\ Fairness

-----------------------------------------------------------------------------
(* Properties.                                                             *)

\* The variables keep their types.
TypeOK ==
  /\ head \in Cell \cup {NULL}
  /\ tail \in Cell \cup {NULL}
  /\ last_popped \in Cell \cup {NULL}
  /\ mut \in Thread \cup {NULL}
  /\ waiting \in BOOLEAN
  /\ link \in [Cell -> Cell \cup {NULL}]
  /\ data \in [Cell -> Elem \cup {NULL}]
  /\ allocated \in SUBSET Cell
  /\ pc \in [Thread -> {"idle", "put", "append", "get", "test", "wait", "take",
                        "run", "cleanup", "free", "walk"}]
  /\ cell \in [Producer -> Cell \cup {NULL}]
  /\ nput \in [Producer -> 0..MaxPuts]
  /\ ptr \in Cell \cup {NULL}
  /\ walk \in Cell \cup {NULL}
  /\ count \in Nat
  /\ scans \in 0..MaxScans
  /\ order \in Seq(Cell)
  /\ sent \in Seq(Elem)
  /\ done \in Seq(Elem)

\* The pointers always spell out the queue: following links from head visits
\* exactly the cells enqueued and not yet dequeued, oldest first, and tail is
\* the last of them.  This is what onestage_wsfifoput_cell and
\* onestage_wsfifoget must maintain together, over recycled memory.
ListIsQueue ==
  /\ head = IF order = <<>> THEN NULL ELSE order[1]
  /\ tail = IF order = <<>> THEN NULL ELSE order[Len(order)]
  /\ \A i \in 1..Len(order) :
       link[order[i]] = IF i = Len(order) THEN NULL ELSE order[i + 1]

Current == IF pc[Reader] = "run" THEN 1 ELSE 0

\* What the operator has run on is a prefix of what was enqueued, and the rest
\* of what was enqueued is in its hands or in the queue, in order: no element
\* is lost, repeated or overtaken, though the operator reads it unlocked.
FifoOrder ==
  /\ Len(sent) = Len(done) + Current + Len(order)
  /\ \A i \in 1..Len(done) : done[i] = sent[i]
  /\ Current = 1 => data[ptr] = sent[Len(done) + 1]
  /\ \A i \in 1..Len(order) : data[order[i]] = sent[Len(done) + Current + i]

\* When wsfifoget takes a cell there is one, and the previous one has been
\* cleaned up: "Must 'cleanup' the previous get before issuing another" is
\* never reported, and cleanup (which "doesn't check to make sure that
\* last_popped is set") always has a cell to free.
GetIsSafe ==
  /\ pc[Reader] = "take" => head # NULL /\ last_popped = NULL
  /\ pc[Reader] = "free" => last_popped # NULL

\* No thread follows a pointer to freed memory: not the writer that stores
\* through tail, not the operator that reads the payload, not wsfifosize.
NoUseAfterFree ==
  /\ \A p \in Producer : pc[p] = "append" /\ tail # NULL => tail \in allocated
  /\ pc[Reader] = "take" => head \in allocated
  /\ pc[Reader] = "run" => ptr \in allocated
  /\ pc[Monitor] = "walk" /\ walk # NULL => walk \in allocated

InPut(p) == pc[p] \in {"put", "append"}

InOrder(c) == \E i \in 1..Len(order) : order[i] = c

\* Every allocated cell is owned by a producer that has not linked it yet, by
\* the list, or by the pending cleanup, and by one of them only: nothing leaks
\* and nothing is freed twice.
HeapIsOwned ==
  /\ \A c \in Cell : c \in allocated <=>
       \/ \E p \in Producer : InPut(p) /\ cell[p] = c
       \/ InOrder(c)
       \/ last_popped = c
  /\ \A p, q \in Producer : InPut(p) /\ InPut(q) /\ cell[p] = cell[q] => p = q
  /\ \A p \in Producer : InPut(p) => ~InOrder(cell[p]) /\ cell[p] # last_popped
  /\ \A i, j \in 1..Len(order) : order[i] = order[j] => i = j
  /\ ~InOrder(last_popped)

\* wsfifosize returns the length of the queue at the moment it is asked.
SizeIsExact == pc[Monitor] = "walk" /\ walk = NULL => count = Len(order)

\* The reader never sleeps on a queue that holds an element.
NoLostWakeup == waiting => head = NULL

\* The list implements the queue contract.
Abstract == INSTANCE WSFifo WITH
  None    <- NULL,
  nsent   <- [p \in Producer |-> IF pc[p] = "idle" THEN nput[p] ELSE nput[p] - 1],
  queue   <- [i \in 1..Len(order) |-> data[order[i]]],
  current <- IF pc[Reader] = "run" THEN data[ptr] ELSE NULL,
  output  <- done

ImplementsWSFifo == Abstract!Spec

=============================================================================
