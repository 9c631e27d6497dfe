---------------------------- MODULE LockFreeFifo ----------------------------
(***************************************************************************)
(* depends/midishare_fifo: the queue a worker reads from when the runtime  *)
(* is built with WS_LOCK_FREE_FIFO.                                        *)
(*                                                                         *)
(* lffifoIntel.c is Midishare's lock-free list.  A put links its cell with *)
(* a compare-and-swap on the last link and then moves the tail, which may  *)
(* lag behind; a get takes the first cell only when another follows, and   *)
(* puts back the dummy cell when that comes off.  Head and tail carry      *)
(* modification counts against reused addresses; links do not.  wsfifo.c   *)
(* adds malloc and free of cells, and a mutex and a condition, used only   *)
(* when a producer believes its element is the first.                      *)
(*                                                                         *)
(* A step reads or writes one location that other threads change.  Only    *)
(* the reader changes the head, so its compare-and-swap always succeeds,   *)
(* and the head's modification count is left out.  Of the tail's, all that *)
(* matters is whether it is still what a thread has read.  A local whose   *)
(* value is not used again is reset.                                       *)
(***************************************************************************)
EXTENDS Integers, Sequences, FiniteSets, Functions

CONSTANTS Producer, Reader, Cell, NULL,
          Dummy,    \* the cell inside the fifo
          End,      \* fifo_end, the end marker
          MaxPuts   \* bound: elements enqueued by each producer

ASSUME LFThreads == Reader \notin Producer /\ NULL \notin Producer \cup {Reader}
ASSUME LFCells ==
  /\ Dummy \notin Cell /\ {NULL, End} \cap (Cell \cup {Dummy}) = {} /\ NULL # End
  /\ IsFiniteSet(Cell) /\ MaxPuts \in Nat

VARIABLES head, tail, \* fifo.head, fifo.tail
          count,    \* fifo.count
          link,     \* cell->link; NULL is anything but End and an address in use
          data,     \* the element in the cell
          allocated,
          mut,      \* who holds the mutex
          waiting,  \* is the reader in cond's wait set?
          pc,
          nput,     \* elements each producer has started to enqueue
          cl,       \* fifoput: the cell
          icsame,   \* fifoput, fifoget: is fifo.ic what has been read?
          mytail,   \* fifoput: what has been read of fifo.tail
          next,     \* fifoget: what has been read of head->link
          attempt,  \* which of wsfifoget's three calls of fifoget is running
          cell,     \* the cell fifoget has taken
          sent,     \* history: elements in the order they were linked, until stale
          done,     \* history: elements handed to the operator
          overlap,  \* history: two producers have been in WSFIFOPUT at once
          stale     \* history: a cell was linked to one not in the list

listVars == <<head, tail, link>>
memVars == <<data, allocated>>
wakeVars == <<mut, waiting>>
putVars == <<cl, icsame, mytail>>
getVars == <<next, attempt, cell, done>>
histVars == <<sent, overlap, stale>>
vars == <<listVars, count, memVars, wakeVars, pc, nput, putVars, getVars, histVars>>

Elem == Producer \X (1..MaxPuts)
Thread == Producer \cup {Reader}

Node == Cell \cup {Dummy}

\* The cells from c on, following the links.
From(c) ==
  LET F[n \in 0..Cardinality(Cell)] ==
        [d \in Node |->
           <<d>> \o IF n = 0 \/ link[d] \notin Node THEN <<>> ELSE F[n - 1][link[d]]]
  IN  F[Cardinality(Cell)][c]

List == From(head)

Init ==
  /\ head = Dummy /\ tail = Dummy /\ count = 0
  /\ link = [c \in Cell \cup {Dummy} |-> IF c = Dummy THEN End ELSE NULL]
  /\ data = [c \in Cell |-> NULL] /\ allocated = {}
  /\ mut = NULL /\ waiting = FALSE
  /\ pc = [t \in Thread |-> IF t = Reader THEN "get" ELSE "idle"]
  /\ nput = [p \in Producer |-> 0]
  /\ cl = [t \in Thread |-> NULL] /\ icsame = [t \in Thread |-> FALSE]
  /\ mytail = [t \in Thread |-> NULL]
  /\ next = NULL /\ attempt = 1 /\ cell = NULL
  /\ sent = <<>> /\ done = <<>> /\ overlap = FALSE /\ stale = FALSE

Step(t, from, to) == pc[t] = from /\ pc' = [pc EXCEPT ![t] = to]

-----------------------------------------------------------------------------
(* fifoput, by a producer, or by the reader for the dummy.                 *)

PutStart(t) ==
  /\ Step(t, "put", "ic")
  /\ link' = [link EXCEPT ![cl[t]] = End]
  /\ UNCHANGED <<head, tail, count, memVars, wakeVars, nput, putVars, getVars, histVars>>

PutReadIc(t) ==
  /\ Step(t, "ic", "tail")
  /\ icsame' = [icsame EXCEPT ![t] = TRUE]
  /\ UNCHANGED <<listVars, count, memVars, wakeVars, nput, cl, mytail, getVars, histVars>>

PutReadTail(t) ==
  /\ Step(t, "tail", "cas")
  /\ mytail' = [mytail EXCEPT ![t] = tail]
  /\ UNCHANGED <<listVars, count, memVars, wakeVars, nput, cl, icsame, getVars, histVars>>

\* Mutant: the link is set without a comparison.
Last_Unchecked(c) == TRUE

\* The comparison of CAS(&tail->link, fifo_end(ff), cl).
Last(c) == link[c] = End

Linked(t) ==
  /\ Last(mytail[t])
  /\ link' = [link EXCEPT ![mytail[t]] = cl[t]]
  /\ stale' = (stale \/ mytail[t] \notin Range(List))
  /\ sent' = IF stale' THEN <<>> ELSE IF t = Reader THEN sent ELSE Append(sent, data[cl[t]])

PutLink(t) ==
  /\ \/ Step(t, "cas", "swing") /\ Linked(t)
     \/ /\ Step(t, "cas", "help") /\ ~Last(mytail[t])
        /\ UNCHANGED <<link, sent, stale>>
  /\ UNCHANGED <<head, tail, count, memVars, wakeVars, nput, putVars, getVars, overlap>>

Swung(new) == tail' = new /\ icsame' = [t \in Thread |-> FALSE]
NotSwung(t) == icsame' = [icsame EXCEPT ![t] = FALSE] /\ UNCHANGED tail

\* Mutant: CAS, of the address alone, in place of CAS2 (new may be a freed
\* cell's link, which would end the program: left out).
CAS2_Address(t, old, new) ==
  IF tail = old /\ new \notin {NULL, End} THEN Swung(new) ELSE NotSwung(t)

\* CAS2(&ff->tail, old, ic, new, ic+1), whose result nobody looks at.
CAS2(t, old, new) ==
  IF tail = old /\ icsame[t] THEN Swung(new) ELSE NotSwung(t)

\* The tail was not the last cell: move it on and try again.
PutHelp(t) ==
  /\ Step(t, "help", "ic")
  /\ CAS2(t, mytail[t], link[mytail[t]])
  /\ mytail' = [mytail EXCEPT ![t] = NULL]
  /\ UNCHANGED <<head, link, count, memVars, wakeVars, nput, cl, getVars, histVars>>

PutSwing(t) ==
  /\ Step(t, "swing", "inc")
  /\ CAS2(t, mytail[t], cl[t])
  /\ mytail' = [mytail EXCEPT ![t] = NULL]
  /\ UNCHANGED <<head, link, count, memVars, wakeVars, nput, cl, getVars, histVars>>

FifoPut(t) ==
  PutStart(t) \/ PutReadIc(t) \/ PutReadTail(t) \/ PutLink(t) \/ PutHelp(t) \/ PutSwing(t)

-----------------------------------------------------------------------------
(* WSFIFOPUT: the first element is enqueued under the lock, with a signal. *)

\* FIFOMALLOC, the copy, and the test of fifosize, before anything is locked.
PutTest(p) ==
  /\ pc[p] = "idle" /\ nput[p] < MaxPuts
  /\ \E c \in Cell \ allocated :
       /\ allocated' = allocated \cup {c}
       /\ data' = [data EXCEPT ![c] = <<p, nput[p] + 1>>]
       /\ link' = [link EXCEPT ![c] = NULL]
       /\ cl' = [cl EXCEPT ![p] = c]
  /\ nput' = [nput EXCEPT ![p] = @ + 1]
  /\ overlap' = (overlap \/ \E q \in Producer : pc[q] # "idle")
  /\ Step(p, "idle", IF count = 0 THEN "lock_first" ELSE "put")
  /\ UNCHANGED <<head, tail, count, wakeVars, icsame, mytail, getVars, sent, stale>>

PutLock(p) ==
  /\ mut = NULL /\ mut' = p
  /\ Step(p, "lock_first", "put") \/ Step(p, "lock_again", "signal")
  /\ UNCHANGED <<listVars, count, memVars, waiting, nput, putVars, getVars, histVars>>

\* msAtomicInc at the end of fifoput.
PutCount(p) ==
  /\ Step(p, "inc", IF mut = p THEN "signal" ELSE "test_again")
  /\ count' = count + 1
  /\ cl' = [cl EXCEPT ![p] = NULL]
  /\ UNCHANGED <<listVars, memVars, wakeVars, nput, icsame, mytail, getVars, histVars>>

\* Mutant: no second look after a "normal" enqueue.
SlippedIn_Ignored == FALSE

\* Did a dequeue slip in, making this element the first?
SlippedIn == count = 1

PutTestAgain(p) ==
  /\ Step(p, "test_again", IF SlippedIn THEN "lock_again" ELSE "idle")
  /\ UNCHANGED <<listVars, count, memVars, wakeVars, nput, putVars, getVars, histVars>>

PutSignal(p) ==
  /\ Step(p, "signal", "idle")
  /\ waiting' = FALSE /\ mut' = NULL
  /\ UNCHANGED <<listVars, count, memVars, nput, putVars, getVars, histVars>>

-----------------------------------------------------------------------------
(* fifoget.                                                                *)

GetReadIc ==
  /\ Step(Reader, "get", "next")
  /\ icsame' = [icsame EXCEPT ![Reader] = TRUE]
  /\ UNCHANGED <<listVars, count, memVars, wakeVars, nput, cl, mytail, getVars, histVars>>

GetReadNext ==
  /\ Step(Reader, "next", "check")
  /\ next' = link[head]
  /\ UNCHANGED <<listVars, count, memVars, wakeVars, nput, putVars, attempt, cell, done, histVars>>

Looked == next' = NULL /\ icsame' = [icsame EXCEPT ![Reader] = FALSE]

\* The head is not the tail: take it, or look again if nothing followed.
GetPop ==
  /\ head # tail
  /\ IF next = End THEN Step(Reader, "check", "get") /\ UNCHANGED <<head, cell>>
     ELSE Step(Reader, "check", "dec") /\ head' = next /\ cell' = head
  /\ Looked
  /\ UNCHANGED <<tail, link, count, memVars, wakeVars, nput, cl, mytail, attempt, done, histVars>>

\* The tail has fallen behind.
GetBehind ==
  /\ head = tail /\ next # End
  /\ Step(Reader, "check", "help_get")
  /\ UNCHANGED <<listVars, count, memVars, wakeVars, nput, putVars, getVars, histVars>>

GetHelp ==
  /\ Step(Reader, "help_get", "get")
  /\ CAS2(Reader, head, next)
  /\ next' = NULL
  /\ UNCHANGED <<head, link, count, memVars, wakeVars, nput, cl, mytail, attempt, cell, done,
                 histVars>>

\* msAtomicDec; the dummy goes back into the list.
GetCount ==
  /\ Step(Reader, "dec", IF cell = Dummy THEN "put" ELSE "return")
  /\ count' = count - 1
  /\ cl' = [cl EXCEPT ![Reader] = IF cell = Dummy THEN Dummy ELSE NULL]
  /\ UNCHANGED <<listVars, memVars, wakeVars, nput, icsame, mytail, getVars, histVars>>

\* The dummy is back: count it, and call fifoget again.
GetRecount ==
  /\ Step(Reader, "inc", "get")
  /\ count' = count + 1
  /\ cl' = [cl EXCEPT ![Reader] = NULL]
  /\ UNCHANGED <<listVars, memVars, wakeVars, nput, icsame, mytail, getVars, histVars>>

-----------------------------------------------------------------------------
(* wsfifoget around it, the operator's run, and the cleanup.               *)

\* fifoget found nothing.  The first time, lock and look again; the second
\* time, wait; the third time its null result is returned to the worker.
GetEmpty ==
  /\ head = tail /\ next = End
  /\ \/ /\ attempt = 1 /\ Step(Reader, "check", "lock")
        /\ UNCHANGED wakeVars
     \/ /\ attempt = 2 /\ Step(Reader, "check", "wait")
        /\ mut' = NULL /\ waiting' = TRUE
     \/ /\ attempt = 3 /\ Step(Reader, "check", "null")
        /\ mut' = NULL /\ UNCHANGED waiting
  /\ Looked
  /\ UNCHANGED <<listVars, count, memVars, nput, cl, mytail, attempt, cell, done, histVars>>

\* pthread_mutex_lock, or the return of pthread_cond_wait.
GetLock ==
  /\ Step(Reader, "lock", "get") \/ (~waiting /\ Step(Reader, "wait", "get"))
  /\ mut = NULL /\ mut' = Reader
  /\ attempt' = attempt + 1
  /\ UNCHANGED <<listVars, count, memVars, waiting, nput, putVars, next, cell, done, histVars>>

SpuriousWakeup ==
  /\ waiting /\ waiting' = FALSE
  /\ UNCHANGED <<listVars, count, memVars, mut, pc, nput, putVars, getVars, histVars>>

GetReturn ==
  /\ Step(Reader, "return", "run")
  /\ mut' = IF attempt = 1 THEN mut ELSE NULL
  /\ attempt' = 1
  /\ UNCHANGED <<listVars, count, memVars, waiting, nput, putVars, next, cell, done, histVars>>

\* The operator reads the element, and wsfifoget_cleanup frees the cell.
RunAndFree ==
  /\ Step(Reader, "run", "get")
  /\ done' = Append(done, data[cell])
  /\ allocated' = allocated \ {cell} /\ data' = [data EXCEPT ![cell] = NULL]
  /\ link' = [link EXCEPT ![cell] = NULL]
  /\ cell' = NULL
  /\ UNCHANGED <<head, tail, count, wakeVars, nput, putVars, next, attempt, histVars>>

-----------------------------------------------------------------------------
PutStep(p) ==
  FifoPut(p) \/ PutTest(p) \/ PutLock(p) \/ PutCount(p) \/ PutTestAgain(p) \/ PutSignal(p)

GetStep ==
  \/ FifoPut(Reader) \/ GetReadIc \/ GetReadNext \/ GetPop \/ GetBehind \/ GetHelp
  \/ GetCount \/ GetRecount \/ GetEmpty \/ GetLock \/ GetReturn \/ RunAndFree

Next == (\E p \in Producer : PutStep(p)) \/ GetStep \/ SpuriousWakeup

Spec == Init /\ [][Next]_vars

-----------------------------------------------------------------------------
InHand == IF cell \in Cell THEN <<data[cell]>> ELSE <<>>

\* The elements in cells, passing over the dummy.
Payloads(cells) ==
  LET past(i) == \E j \in 1..i : cells[j] = Dummy
  IN  [i \in 1..(IF past(Len(cells)) THEN Len(cells) - 1 ELSE Len(cells)) |->
         data[cells[IF past(i) THEN i + 1 ELSE i]]]
Queued == Payloads(List)

\* As long as every cell was linked to one that was in the list, elements are
\* handed to the operator in the order in which the producers' swaps linked
\* them: across the dummy's trips, the lagging tail, and reused cells.
FifoOrder == ~stale => sent = done \o InHand \o Queued

Quiet == \A p \in Producer : pc[p] = "idle"

\* The dummy is in the list, or on its way back to it.
Behind == IF pc[Reader] \in {"ic", "tail", "cas", "help"} THEN From(Dummy) ELSE <<>>

\* Nothing is lost or repeated even when a producer that has read the tail long
\* ago links its cell to one that has left the list, and whose address is in
\* use again: what hangs from it comes back with it.
DeliveredOnce ==
  Quiet => LET all == done \o InHand \o Queued \o Payloads(Behind)
           IN  /\ IsInjective(all)
               /\ Range(all) = {e \in Elem : e[2] <= nput[e[1]]}

\* As long as no two puts have overlapped, the reader is never left asleep on a
\* queued element: the test made before the put, or the one made after it to
\* see whether "a dequeue slipped in", brings the signal.  (Without ~overlap
\* this fails: two producers can each see the other's element and not signal.)
NoLostWakeupAlone == Quiet /\ waiting /\ ~overlap => Queued = <<>>

\* lffifo.h:30 "a lock-free shared FIFO stack", without regard to stale: what
\* one producer enqueued first, the operator gets first.
ProducersFifo ==
  \A i, j \in DOMAIN done :
    i < j /\ done[i][1] = done[j][1] => done[i][2] < done[j][2]
=============================================================================
