# WaveScript's runtime in TLA+

WaveScript is a language and compiler for stream processing. A program is a
graph of operators connected by streams; the C back end (`wsc2`) turns it into a
C program in which operators are work functions, streams are queues or direct
calls, and timers or foreign C code drive the whole. This directory models the
parts of that system whose correctness depends on order, on concurrency, or on a
protocol spread over many calls, checks them with TLC, and proves the most
important results with TLAPS. Paths below are relative to `src/`.

Contents

1. Inventory: the system's parts
2. Modules, and how they correspond to the code
3. What each run checks and shows
4. Bounds, fairness and abstractions
5. What is proved, and how
6. Disagreements between the code and its comments
7. What is not modelled
8. Plan


## 1. Inventory

| Part | Source | State it keeps | Operations | What is hard |
|---|---|---|---|---|
| List queue, fine locking | `src/linked_lib/c_fifos/bits/list_fifo.c` | linked cells, `head`, `tail`, `last_popped`, mutex, condition variable | `WSFIFOPUT`, `wsfifoget`, `wsfifoget_cleanup`, `wsfifosize`, `wsfifo_wait` | threads, recycled memory, wakeups |
| Two-stage queue, coarse locking | the same file, `FIFO_COARSE_LOCKING`, `FIFO_TWOSTAGE` | two linked lists, `pending` | `grab_wsfifo`, `release_wsfifo`, put, get | several locks held at once, order across stages |
| Worker threads | `src/linked_lib/wsc2.h` 497-578 | `worker_table`, `queue_table` | `worker_thread`, `START_WORKERS`, `print_queue_status` | scheduling, deadlock |
| Lock-free queue | `depends/midishare_fifo/wsfifo.c`, `lffifoIntel.c` | linked list with a dummy cell, modification counts, a count of elements, a mutex for sleeping | `WSFIFOPUT`, `wsfifoget`, `fifoput`, `fifoget` | compare-and-swap on recycled cells, a tail that lags, and the sleeping protocol on top |
| Stream wiring | `src/ws/passes/wavescope_bkend/explicit-stream-wiring.sls` | declarations, aliases | `Expr`, `gather-refs` | aliases of aliases; the order that locks are taken in |
| Operator and source drivers | `src/ws/passes/wavescope_bkend/emit-c2.sls` | generated code | grab, emit, release; timer loop | interplay of generated code and runtime |
| Deferred reference counting | `wsc2.h` 60-205, `ws.h`, `emit-c2.sls`, `insert-refcounts.sls` | counts, zero-count table (ZCT), `iterate_depth` | `PUSH_ZCT`, `BLAST_ZCT`, increments and decrements, free functions | uncounted locals, re-entrant freeing, a table that fills up |
| Timers, tuple limit | `wsc2.h` 224-310 and 583-629, `emit-c2.sls` 1692-1794 | tick counters, logical time, `outputcount` | the main loop, `TIME_DEBT`, `WAIT_TICKS`, `BASE`, `wsShutdown` | real time, lateness, shutdown racing the loop |
| WSQ control API | `apps/reuters/runtime/` | operator, edge and subgraph tables, transaction state, the child process | `WSQ_*` | partial failure, call protocol, child processes |
| Hash tables, growable segments | `wsc2.h`, `lib/hashtables.ws` | | | sequential |
| Network operators | `lib/socket.ws`, `lib/socket_wrappers.c`, `wsc2.h` 697-731 | cells shared with helper threads, two tables of connections, the reader's place in a frame, the count of live sources | start-up, connect and accept, send, receive, shutdown | partial reads and writes, blocking, dropping, the end of a stream |
| Reuters engine node | `apps/reuters/reutercode/include` | ring buffers without locks, two maps with locks, the descriptors of clients | `FileSource`, `Client`, `Filter`, `QueryEngine`, `Server`, `ClientWriter` | four kinds of threads, clients that come and go, resets |
| Disk operators, wsnet | `lib/spill.ws`, `lib/netsource.ws` | files | | sequential |
| Compiler front end and middle | `src/ws` | trees | | large, but sequential and without shared state |
| TinyOS back end, Regiment simulator, applications | `wstiny.h`, `src/ws/sim`, `apps`, `benchmarks`, `src/demos` | | | systems of their own |

How they interact. The compiler's wiring pass decides, for every stream, the list of
operators it feeds. The code generator turns a list of downstream operators into a
sequence of grabs, emits and releases (threaded) or of calls (single-threaded). In
the threaded build an emit is a `WSFIFOPUT` into the downstream worker's queue; the
worker's loop gets an element, calls the operator, and cleans up. In the
single-threaded build an emit is a call, and with deferred reference counting the
end of each work function may empty the ZCT. The timer loop in `main` is the thread
that calls the source drivers; `BASE`, the last operator, counts tuples and ends the
program. The WSQ runtime manager sits above all of this: it assembles programs from
calls of a host, compiles them, and replaces one running query process by the next.
The processes it starts, and other WaveScript programs, talk to each other through
`socket_out` and `socket_in`. The Reuters engine is a separate program that answers the
same kind of queries with operators written in C++: its nodes read files or each
other's output, and send what their operators return to whoever subscribes.

What makes each part correct:

- *Queues*: elements come out in the order they went in, once each; memory is
  used only between its allocation and its release and is released once; a worker
  does not sleep while there is work, and everything enqueued is processed.
- *Coarse locking*: no circle of waiting threads, although a thread holds its own
  queue and several downstream queues; a run works on what it measured; the two
  stages keep order.
- *Wiring*: inputs resolve to streams that exist, edges agree in both directions,
  and the outgoing lists have one global order.
- *Reference counting*: counts are exact, nothing reachable is freed, nothing is
  freed twice, garbage does not survive.
- *Timers*: every timer keeps its rate, no tick is lost, the average never
  exceeds real time, and the program ends with exactly the tuples asked for.
- *Network operators*: the bytes of a frame are put together whatever the kernel cuts;
  what is written is emitted, without holes; the end of a stream reaches its reader.
- *Reuters node*: an event in use is not overwritten; events are processed once and in
  order; a subscriber gets consecutive results of the operator it asked for.
- *WSQ*: the tables agree, an edge has one writer, the query that runs is the one
  last committed, and no query process is lost.

Every part, modelled or not, and every hazard with its line and the properties
that cover it, is listed in `PROJECT.json`.


## 2. Modules

| Module | Models | Uses |
|---|---|---|
| `WSFifo` | what a worker's queue promises: an abstract FIFO with one reader | |
| `ListFifo` | `list_fifo.c` with fine locks, down to cells and pointers | implements `WSFifo` |
| `ListFifoProofs` | theorems about `ListFifo` | |
| `LockFreeFifo`, `MCLockFreeFifo` | the Midishare-based queue, access by access, and its sleeping protocol | |
| `LockFreeFifoProofs` | theorems about `LockFreeFifo` | |
| `StreamGraph` | declarations and `gather-refs` as operators | |
| `StreamWiring` | the pass `explicit-stream-wiring` | `StreamGraph` |
| `CoarseNet` | a graph of workers with coarse locks, one or two stages | |
| `MCCoarseNet` | the graph it is checked on, wired by `StreamGraph` | `CoarseNet`, `StreamGraph` |
| `CoarseNetProofs` | theorems about `CoarseNet`, `StreamWiring`, and the one feeding the other | both |
| `ZCT`, `MCZCT` | deferred reference counting | |
| `ZCTProofs` | theorems about `ZCT` | |
| `TimerDriver`, `MCTimerDriver` | the generated main loop, real time, `BASE` | |
| `TimerDriverProofs` | theorems about `TimerDriver` | |
| `WSQManager`, `MCWSQManager` | the runtime manager, a host, and query processes | |
| `WSQManagerProofs` | theorems about `WSQManager` | |
| `SocketNet`, `MCSocketNet` | processes connected by `socket_out` and `socket_in` | |
| `SocketNetProofs` | theorems about `SocketNet` | |
| `ESBuffer` | the ring buffer of the Reuters engine | |
| `ESNode`, `MCESNode` | a node of the engine and its subscribers | `ESBuffer` |
| `ESNodeProofs` | theorems about `ESNode` | |

Definitions keep the names of the code where TLA+ allows. Operators whose name
contains an underscore followed by a capital (`GetTake_FreeEarly`) are plausible
bugs: each shows that some property would notice it. They are marked `Mutant:` and
are used by no specification.

**WSFifo / ListFifo.** `Put`, `Get` and `Process` are the whole abstract queue.
`ListFifo` has one action for each critical section and one for taking each lock:
`PutAlloc` (allocate the cell and copy the element, before the lock), `PutLock`,
`PutCell` (link, signal, unlock); `GetLock`, `GetWait`, `GetReacquire`, `GetFound`,
`GetTake`; `RunOperator`, where the worker reads the payload with no lock held;
`CleanupLock`, `CleanupFree`; `SizeLock`, `SizeStep`, `SizeReturn`, in which the main
thread walks the list. Cells are addresses: `malloc` may return any that is free,
and a recycled cell keeps its old contents and its old link. The refinement maps the
abstract queue to the payloads of the cells, and the abstract "element in hand" to
the one whose cell is in `last_popped` while the operator runs.

**LockFreeFifo.** One action for every access to memory that another thread changes:
`PutReadIc`, `PutReadTail`, `PutLink` (the swap on the link), `PutHelp` and `PutSwing` (the
swaps on the tail), `PutCount`; `GetReadIc`, `GetReadNext`, `GetPop`, `GetBehind`, `GetHelp`,
`GetCount`, `GetRecount`; and for `wsfifo.c` the test before the put (`PutTest`), the one
after it (`PutTestAgain`), the lock and the signal, and the three tries of `wsfifoget`
(`attempt`). The reader puts the dummy cell back with the same `FifoPut` the producers use.
The modification count of the tail is replaced by what it is there to tell: `icsame[t]`
says whether the tail is still what `t` has read. There is one reader, so the swap on the
head always succeeds. Freed cells may be allocated again at once, and a thread that still
holds the address of one reads and swaps whatever is there now. History variables:
`overlap`, whether two puts were ever in progress together, and `stale`, whether a cell was
ever linked to one that is not in the list.

**StreamWiring.** A program is a sequence of lets: sources, operators, aliases,
constants; and a sink. `Dealias` follows aliases, `GatherRefs` computes the outgoing
list of a stream. One behaviour is one program; all programs up to the bound are
explored.

**CoarseNet.** A thread is an operator's worker or a source. `Grab`, `Emit`,
`Release...` are the generated code's steps, in the order of `Out[t]`; `WaitForData`,
`Wake`, `Get`, `EndDrain` are the worker's loop. Taking a lock and the code until the
next lock or unlock are one action where no other thread can tell. The variable `build`
says how the runtime was compiled and where it runs: with two-stage queues
`MovePending` is what the release does before it unlocks, and spurious wakeups may happen
or not. The lists of cells are
abstracted to sequences: `ListFifo` is about the cells.

**ZCT.** A small heap of leaves (arrays of numbers), conses and tables (arrays of
lists). `stack` holds a frame for every active work function with the references
its locals have; an operator's body may allocate, read, assign its state, assign an
element, and emit in any order. `BlastEntry`, `Free`, `BlastDone` are the loop of
`BLAST_ZCT`, one object at a time, since freeing one changes the counts of others.

**TimerDriver.** `Tick`, `FireTimer`/`SkipTimer`, `TimersDone`, `NegativeTimers`,
`WaitTicks`, `Wake` follow the generated loop; `Clock` may advance real time between
any two of them. `BaseGet` and `BaseExit` are the thread of `BASE`; `LeaveLoop` and
`Drained` are main's own way out.

**WSQManager.** One action for each entry point, and one for each way it refuses,
with what it had already changed by then. Ending a transaction is four steps
(`Compile`, `Kill`, `Start`, `EndTransaction`), since the query processes act between
them. A Scheme error leaves the C-callable entry point and ends the host
(`host = "failed"`); the query process survives it.

**SocketNet.** A node is a process whose main thread fires the operators that have no
input in turn: the file source and the inbound operators. What one of them emits is
handled depth first, as the single-threaded back end does: `todo` is the list of
outbound ends still to be served. `SpawnServer` and `SpawnClient` are the zero-rate timers;
`Listen`, `Accept`, `PublishOut` and `Connect`, `SetNonBlocking`, `PublishIn` the helper
threads. `ReadHeader` and `ReadPayload` take any part of what the wire holds, and move
`curstate`, `lenctr` and `datactr` as the code does; `Write` puts as much on the wire as it
takes and stays. `ShutInbound` and `ShutOutbound` are the two passes of `shutdown_sockets`,
one entry at a time, with the count of live sources that may end the process in between.
The wire, its capacity, and SIGPIPE belong to the kernel and are marked external. A
program (the set of connections, who has a file, whether dropping is allowed, how much a
wire holds) is chosen in `Init`, so that one run checks all of `MCPrograms`.

**ESBuffer, ESNode.** The ring buffer has its two indices, each with the two stores of
`increment`, between which another thread may look. A node has the filler (`FileSource::run`
or `Client::run`), the engine (`QueryEngine::run` with `hasNext` and `next` of a source and at
most one filter), the server (`parseinput` and `clientclean`, under the locks of the
catalog), and the client writer, whose `send` blocks with both locks held. The descriptors
of connections are numbers that are used again. Where the code uses a null pointer, or a
signal kills it, the node is down (`up = FALSE`) and nothing happens any more: a request
before the operator is open, a client that leaves before its request has come, a filter
whose child returned 0, a record copied past the end of `_values`. That these can happen
is in the model; the properties are about the nodes that stay up.


## 3. Runs

| Run | Question | States |
|---|---|---|
| `list_fifo` | Is the list a queue, in every interleaving of two producers, the worker and a measuring thread? Is memory used safely, are wakeups kept, does it implement `WSFifo`, liveness included? | 168,000 |
| `lock_free_fifo` | Does the lock-free queue lose or repeat nothing, keep order, and wake the worker when puts do not overlap? | 3,749,000 |
| `lock_free_fifo_order` | Does it keep the order of one producer's elements, always? (No.) | |
| `stream_wiring` | For every program of up to five lets: inputs and order right? | 65,000 |
| `coarse` | Coarse locks, one or two stages, with spurious wakeups or without: no circle, delivery, stages, a released queue is empty, every run ends | 161,000 |
| `zct` | Counts exact, no dangling reference, no double free, no garbage | 1,090,000 |
| `zct_foreign` | Is the ZCT emptied only when no local is alive? (No.) | |
| `timer_driver` | Rates, ticks, real time, negative-rate sources, the tuple limit | 233,000 |
| `wsq_manager` | Tables, edges, the query that runs, no stray query, shutdown | 659,000 |
| `socket_net` | Chain, fork, merge, circle and loop of processes: bytes, holes, blocking, delivery, the end of a stream | 177,000 |
| `socket_net_close` | Does a process close all its sockets before it exits? (No.) | |
| `es_node` | Event in hand, order, subscribers' results, descriptors used again, does all work get done | 333,000 |

Every module but the small ones states its variables' types as `TypeOK`, or has them in the
inductive invariant of its proofs. Type correctness is proved for every module that has
proofs; the runs are kept for what a type does not say.

The properties worth a second look:

- `NoUseAfterFree`, `HeapIsOwned` (ListFifo). `wsfifoget` hands out the address of a
  payload inside a cell that is no longer in the list. These say that the cell stays
  allocated exactly until the cleanup that belongs to the get.
- `NoLostWakeup`, `ImplementsWSFifo` (ListFifo). The worker sleeps only on an empty
  queue; whatever is put is eventually handed to the operator, which is the fairness of
  `WSFifo` that the refinement carries over.
- `FifoOrder`, `DeliveredOnce` (LockFreeFifo). Between them they say what is left of a
  queue when links have no modification counts. A producer that is delayed between
  reading the tail and the swap can link its cell to one that has left the list: then
  `stale` holds, order is lost (see `lock_free_fifo_order`), but `DeliveredOnce` still holds:
  what hangs from the cell comes back into the list with it.
- `NoLostWakeupAlone` (LockFreeFifo). True only while no two puts have ever
  overlapped: with two producers each can see the other's element in its size test
  and neither signals, and the worker sleeps over two elements until the next put.
- `NoCircularWait` (CoarseNet). A thread asks for locks in declaration
  order. That the generated code does so rests on the wiring pass, where it is a
  by-product of how the outgoing lists are gathered; `OutgoingAscends`
  (StreamWiring) states it, and `MCCoarseNet` uses the lists the pass computes.
- `NothingPendingForReader`, `Delivered` (CoarseNet). Order across the two stages
  depends on every writer releasing before the reader gets the lock.
- `CountsAreExact`, `NoDangling`, `FreedOnce`, `Collected` (ZCT). Together they say
  that not counting the references of locals is safe in a chain of operators driven
  by timers. Two observations from the model: with the count and the mark in one
  word, as the code has them, the explicit test "already pushed" in `PUSH_ZCT` is
  never decisive, since a marked object's word is never zero when it is decremented;
  and the order of increment and decrement in an assignment, about which
  `insert-refcounts.sls` warns, matters to immediate counting only, since a deferred
  decrement never frees.
- `AverageRate` (TimerDriver). Ticks are waited for after the firing they belong to
  and jointly for all timers, so single intervals are irregular; counted from the
  first event no timer is ever ahead of real time by a full period.
- `EndsAtLimit` (TimerDriver). `BASE` exits from its own thread while main may be
  firing, waiting, or leaving its loop.
- `BytesAccounted` (SocketNet). What the reader has put together, what is on the wire, and
  what the writer still has to write are at every moment the frames that were sent and
  not yet emitted, followed by the end of the stream once it was sent; also after the
  writer has exited, as long as the reader runs. `ShotIsEmitted` says that they get there.
- `NoHoles` (SocketNet). With dropping allowed a chain may lose a beginning at each
  process; what the last one emits is still a run without holes.
- `EosEndsReader` (SocketNet). A process that is sent the end of a stream ends, unless it
  spins for a peer that has exited (`Abandoned`), which the code cannot notice.
- `EventInHand` (ESNode). The engine uses a slot after it has given it back. That the
  filler does not write there rests on the one slot a full ring leaves empty, and on
  `full` reducing both indices, since it may see either one past the end.
- `SubscribersGetRun`, `OnlySubscribers` (ESNode). Clients share an operator's buffer, come
  and go, and get descriptors that others had.
- `OpsAccountedFor`, `OneWriterPerEdge`, `NoStrayQuery`, `ChildRunsCommitted`
  (WSQManager). The manager's knowledge is spread over five tables and two
  variables that different calls maintain; these relate them.


## 4. Bounds, fairness, abstractions

**Bounds.** Two producers with two elements each and three cells (`ListFifo`) give one
cell in the reader's hands, one in the queue, one being filled, and recycling of all
three. In `LockFreeFifo` two producers put three elements each with three cells: one cell taken,
two in the queue, all used again, which is the least for a delayed swap to meet a
recycled cell; addresses are symmetric, and so are the producers. `CoarseNet` is checked
on a triangle that has a thread with two downstream queues and a queue with two writers,
which is where order and circles matter; two firings fill both stages. Five lets allow an alias of an alias
between a source, two operators and a sink. `ZctSize` is below the number of objects,
so that the table overflows. Eight ticks are more than a full period of the rates
2 and 3, and the clock may run three units (one and a half ticks) behind. Two query
processes are an old one that is still dying and the new one. In `SocketNet` three processes,
three messages of different lengths, headers of two bytes and wires of three bytes make
every cut of a header and a payload happen, and make writers block in the middle of a
frame; circles have wires that hold everything, since a circle of full ones stops. In
`ESNode` rings of two slots are full after one event, so that every wrap and every full
buffer happens within four events; records of three bytes and `recv` of at most four
give records in one, two and three pieces; two clients give shared buffers and descriptors
used again, and a connection holds one event, so that `send` blocks. `MaxPuts`, `MaxScans`,
`MaxFires`, `MaxEmits`, `MaxLets`, `MaxTicks`, `MaxLag`, `MaxPid`, `MaxMsg`, `MaxRecv`,
`WireCap`, and the fields `events` and `conns` of a plan are the bounds; each is
a guard of the action that counts.

**Fairness.** Worker and producer threads run under a preemptive kernel scheduler, so
a thread that can take a step eventually does: weak fairness of each thread's steps. In
`ListFifo` weak fairness suffices although the threads share a mutex: the producers and
the measuring thread could keep the worker from it only by taking it for ever, and
`MaxPuts` and `MaxScans` bound them; without the bounds the same property would need
strong fairness of the worker, that is, a mutex that does not starve a thread. Sources need not fire and
the host of WSQ need not make calls. `RunsEnd` is stated for builds without spurious wakeups:
with them a worker may be woken for ever and, under weak fairness, win the mutex each
time, which starves its producers; no kernel does that, but weak fairness does not
exclude it. In `TimerDriver` the clock advances. A signal sent to a query process takes
effect. In `SocketNet` the processes are started, and a main thread or helper whose
system call can return goes on; nothing is assumed about when the file's timer is due. In
`ESNode` each thread of the node is scheduled, and a client that stays reads what it is
sent; clients need not come, ask, or leave.

**Abstractions.** Payloads are names. Compiled programs are sequences of operators; an
operator is the edges it reads and writes. A work function's body is an arbitrary
sequence of the steps that matter to the property (allocations and assignments in
`ZCT`, a number of emits in `CoarseNet`). `usleep` sleeps at least as long as asked and
any amount longer. A TCP connection delivers bytes in order and holds a bounded number of
them; a write to a peer that has gone is lost or kills the writer. Memory is sequentially
consistent: the accesses that matter in the lock-free queue are locked instructions, and
the descriptor cells of `socket_wrappers.c` are single aligned words. In `TimerDriver` every timer's firing yields one tuple for `BASE`,
and negative-rate sources none. Boundedness of machine integers is left out: counts
of elements and references do not come near 2^31 in any run, and the code does not
rely on wrapping. (The modification counts of the lock-free queue may wrap; a thread would
have to be delayed for 2^32 puts.)

**Composition.** `ListFifo` shows that one queue is a FIFO with a worker; `CoarseNet`
takes the queues as sequences and composes workers, sources and locks into a network;
`StreamWiring` justifies what `CoarseNet` assumes about the network. Both sides are
theorems, and so is the joint between them: `DeadlockFree` holds for every graph that meets the
assumptions (`IsGraph`; `GraphAssumed` shows that these are all of them), and
`WiringMeetsAssumptions` shows for every program that the operators and sources which the
pass has declared, with the lists it computes and the places of the declarations as ranks,
are such a graph.


## 5. Proofs

TLAPS checks some five hundred and forty lemmas and sixty-two theorems in eight
modules; those a reader should know are listed in `PROJECT.json`. All of them hold for every
value of the constants that satisfies the named assumptions, which TLC evaluates on the
instances.

**ListFifoProofs.** For any number of producers, addresses, elements and measurements:
`TypeOK`, `ListIsQueue`, `FifoOrder`, `HeapIsOwned`, `GetIsSafe`, `NoUseAfterFree`,
`SizeIsExact`, `NoLostWakeup`, and `Refinement`, that every step of the code is a step of
the abstract queue or leaves it unchanged. Assumptions: threads are different from each
other and `NULL` is neither an address nor a thread nor an element. None of the
statements is inductive alone. `IInv` adds who is inside a critical section
(`LockInv`: a thread's program counter is in a critical section exactly when it holds
the mutex), what the reader holds at each point of its loop (`ReaderInv`:
`last_popped` is set from the get to the cleanup, and the reader waits only on an
empty list), what a producer has prepared before it locks (`ProducerInv`: its cell
holds its element), and how far a measurement has come (`ScanInv`). The proof that a
step keeps `IInv` has one lemma for each action, and under it one step for each
conjunct. The refinement uses `IInv` to know that the payload of a cell in the list is
never overwritten by an allocation.

**CoarseNetProofs.** For any finite set of operators wired in declaration order and any
sources: `LocksOrdered` and `DeadlockFree`. `IInv` says which locks a thread can hold at
each point of its run: its own queue while it drains, and of its downstream queues
exactly those it has grabbed and not released, a prefix while it grabs and a suffix
while it releases. From that and `GrabOrder` a thread only asks for locks of higher
rank than those it holds (`LocksOrdered`), and in any set of threads the one that
wants the last lock is not waiting for a member of the set (`DeadlockFree`, from
`FinitelyManyOps`).

The second part of the module is about what the queues hold, with one stage or two:
`DeliveredInOrder`, `ReaderFindsAll`, `DrainsFully`. `DInv` adds the converse of `IInv` (a
thread that runs does hold the locks it may hold, `HeldInv`), when an element is in hand
(`CurInv`), and what a queue holds by the holder of its lock (`QueueInv`): the first stage
is empty unless a writer has the lock, `pending` is its length, and while the reader
drains, what it plans to take is what is left. With that, each step preserves `Delivered`:
what was run, followed by what is in hand and in the two stages, is what was emitted.
`NetAssumption` says only that operators, sources and `None` are different things and that
outgoing lists are lists of operators.

The third part is about the pass `StreamWiring`, for programs of any length: `InputsDeclared`,
that every input leads to a declared stream, and `EdgesAscend`. `WInv` says that a name is
declared once, after what it reads (`NamesInv`, `UpstreamInv`), and that an alias stands for an
older variable (`AliasInv`), so that `Dealias` ends. `Dealias` and `GatherRefs` are recursive
functions; that functions with these equations exist, and what they return, is proved by
induction over sets of naturals (`SetInduction`, from the library's theorem on well-founded
relations). `WiringMeetsAssumptions` then says of every state of the pass that its graph is one
of those `CoarseNet` assumes (see *Composition* in section 4): the lists name workers only
(whoever reads a stream has an input), ascend, begin after their stream, and every set of
workers has a last one. Assumption: `BASE` and `NoName` are two names that no variable has.

**LockFreeFifoProofs.** For any number of producers, cells and elements: `ElementsDeliveredOnce`,
`ElementsInOrder`, `AloneNoLostWakeup`, `TypeCorrect`. Every access to the list, the tail and a
link is a step of its own, so the invariant has to describe the heap between any two accesses,
with cells freed and allocated again meanwhile. `IInv` says that there are *chains*
`ch[r]` with these parts:

- `ShapeInv`: `ch[NULL]` is the list, from the head on; `ch[t]`, for a thread with a cell in
  hand in `fifoput`, is that cell and what others have hung on it because they took it for
  the last one. Chains follow the links, share no cell, and end in the end marker; a cell on
  no chain is not marked as an end, so a stale swap can only hit the last cell of a chain.
  The tail is in the list, wherever it lags.
- `PlaceInv`: an allocated cell is on a chain, in the hand of one producer that has not begun
  its put, or in the reader's hand; the dummy is in the list or on its way back, and hangs from
  nobody else's cell.
- `LinkInv`: what a thread has read of the head's link, or of the link of a tail that has not
  moved since, is still there, which is what the swaps on head and tail rest on.
- `OrderInv`: the heart. A swap joins the thread's chain to the chain that ends in the cell it
  read as the tail. Were that its own chain, the list would lose a ring. `older[r]` are the
  threads that took their cell in hand before `r` took its own; a tail that was read while it
  was in the list can only be on the chain of a thread that took a cell later, and this order
  has no circle. So chains only ever join, and what hangs from a cell outside the list comes
  back with it. This is what `DeliveredOnce` says, without regard to `stale`.
- `DataInv`: each element put is in one allocated cell or has been handed over, and not both.

`FifoInv` adds, until `stale`, that nothing hangs from a cell in hand, and that `sent` is
what was handed over, what is in the reader's hand and what is listed, in that order.
`AloneInv` adds, until two puts overlap, that `count` is the length of the list corrected by the
cells that are taken but not counted, linked but not counted, or with the dummy outside the list
(`Counted`), and that a reader which sleeps or is about to (`Retires`) has an empty list, or one
element whose producer has still to look whether it must signal (`Tends`). The properties speak
of the list as the recursive function `From` computes it; `FromIsChain` and `PayloadsIsPay`
show by induction that this is the chain and its elements. Assumptions: `LFThreads` and
`LFCells`, which name the markers apart from cells and threads, say that there are finitely many
cells, which memory gives, and that the bound on puts is a number.

**TimerDriverProofs.** For any list of rates: `NoTickLost`, `RateKept` (each timer has fired as
often as its own rate says), `AverageKept` (no timer is ahead of real time by a whole
period), `NegativeFollows`. `TickInv` says that ticks are firings times the mark plus the
counter, and that a counter stands at its mark only until the timer's turn in the same
tick has come. `PaceInv` relates a timer's firings to the logical time that has been
waited for: one period at most is not paid for, between a firing and the wait that
follows. `NegativeInv` says who is owed a turn. `CommonMultiple` assumes of the common
rate, which the compiler folds over the list with Scheme's `lcm`, that it is a positive
multiple of each rate. Real time may advance by any amount between any two steps.

**WSQManagerProofs.** For any host, whatever calls fail halfway: `TypeCorrect`, `TablesAgree`,
`AllAccountedFor`, `SingleWriter`, `NoneStray`, `ChildIsCurrent`. `GraphInv` relates the tables:
an edge that an operator of the log writes is counted, and no other operator writes it
(`WriterInv`, until the host has failed), and a tug is entered together with its function
(`TugInv`). `QueryInv` relates the manager's idea of its child to the processes and
executables that exist at each step of the end of a transaction. Assumptions: operators,
tugs and subgraphs have different names, and an operator writes finitely many edges.

**SocketNetProofs.** For any network of processes, any lengths of header and messages, and any
wires: `ReadsDoNotBlock`, `BytesAreAccounted`, `RunsWithoutHoles`. The inductive invariant `IInv`
has six parts, each shown preserved with the help of those before it:
`CtrlInv` (where a main thread is in its loop, and that the ends it still has to handle are
its own, each once and in order), `ConnInv` (how far a connection's helper threads are,
for each value of the shared cells, and that a descriptor is non-blocking before the main
thread sees it), `WireInv` (the place in a frame, `curstate`, `lenctr` and `datactr`, agrees
with the bytes put together), `HistInv` (what was written on a connection is consecutive,
and what was emitted is its beginning), `IssueInv` (the last message written on a connection
is the last one that its process read, or the one before while that is still to be
handled), and `BytesInv`: the bytes read, in flight and to be written are the concatenation
of the frames not yet emitted. The last one is the heart: a read takes bytes from the
front of the concatenation (`FlattenFirst`), a write or a new frame adds them at its end
(`FlattenLast`). Assumptions: `SNLengths` (headers and messages are not empty, a wire holds a
header) and `SNPrograms` (every `socket_out` carries what its process reads from its file or
from an inbound connection).

**ZCTProofs.** For any graph of operators, any finite set of addresses, any width of tables
and any size of the ZCT, when the source is not foreign: `CountsStayExact`, `NothingDangles`,
`BlastingIsSafe`, `FreedButOnce`, `GarbageIsCollected`, `ZctTypes`. The inductive invariant `IInv`
has four parts. `MemoryInv`: the counts are those of the references in states and in cells of
live objects (`Exact`), such references are to live objects (`RefsLive`), and the conses can be
ordered so that the cells of each are below it (`Ranked`: what a list cell refers to existed
when it was allocated, and is never assigned again). `StackInv`: the source alone is at the
bottom of the stack and holds nothing, and `depth` is one less than the height. `BlastInv`:
the table is emptied only while the source is alone on the stack. `TableInv`: the table
holds the live objects whose count is 0, each once, together with those that are marked; while
it is scanned this is said of the part not yet examined and of `tofree`, which share no object.

The three lemmas that carry most of it are `FreeKeeps` (freeing an object whose count is 0, and
decrementing what its cells refer to, leaves counts exact; what falls to 0 is freed next,
unless the table already has it), `AssignKeepsTable` (an assignment to a state increments before it decrements), and
`NothingLeft`: if after a blast some live object were unreachable, its referrers would be
unreachable too (`ReachIsClosed`), and as its count is not 0 it has one, which is strictly
higher in the order; in a finite set that climb ends (`NoEndlessClimb`, by induction on the
cardinality). `BlastingIsSafe` is the comment that `zct_foreign` refutes: it is a theorem under
`~Foreign`, where the source holds no reference, so the hypothesis says exactly where the
comment is right. Assumptions, in `HeapAssumption`: addresses and operators are finite, and each
address has one type.

**ESNodeProofs.** For every buffer size, record length, plan, filter and finite set of
connections:

- `HandIsSafe`, that the event the engine has taken is not overwritten while it is in use
  (`EventInHand`). The inductive invariant `IInv` says where the two indices may be (below
  the buffer size, or at it while their thread is between the two stores of `increment`), that
  the slot in hand is the one before `_curr` modulo the size, that it still holds what was
  taken, and that the thread of a `FileSource` has not started before the query is opened.
  `AddStep` is the heart: when `full` says no, the slot at `_end` is not the one before `_curr`.
- `SubscribersOnly`, that an entry of the outputmap is a connection that asked for that
  operator (`OnlySubscribers`). `SubInv` adds that two connections never have one descriptor
  (`NewFdIs`: there is always a free number, which is where the connections must be finite),
  that a closed connection has a descriptor only while the server cleans up after it, and
  that the connection being subscribed is there. `CleanLock` is the step that matters: the
  entries and the descriptor go together, so the next client cannot inherit them.
- `EventsArriveInOrder`, both halves of `EventsInOrder`. `OrderInv` says that what waits in
  the ring is the end of `filled` (`Holds`), that the event in hand is the one before, and that
  `processed` is what passes of those before that, up to the one that the filter has found
  and its root has not yet returned; the lemmas about rings (`Distances`, `CopyKeeps`,
  `MoveAdds`, `TakeFirst`, `EndWrapKeeps`, `CurrWrapKeeps`) count slots from `_curr` forward and
  are stated for any ring. `FillInv` is about the client: the bytes in `_values` and those
  just received are the ones at its place in the stream, so that what it puts together is a
  record (`AssembleFill`), unless a record came in more than two pieces.
- `SubscribersAreServed`, that a subscriber gets consecutive results of its operator
  (`SubscribersGetRun`). The argument has three layers. `MapInv` is about the locks:
  server and client writer exclude one another in the outputmap (`LockInv`), a connection has
  one entry at most (`ListInv`), what has clients is buffered, and a buffer is made empty only
  when its operator has none (`FlagInv`). `RingsInv` says of each socket buffer that nobody is
  making empty that it holds the last of what its operator has returned (`Given`, `RingOK`),
  that there is room for one more between `full` and the store of the index, and that
  the engine's register and the slot it has written are what it is going to publish; this is
  where the engine, which takes no lock, meets the writer and the server, which do. `ServedInv`
  then counts: of what an operator has returned, `Gone` have left its buffer, and what is on a
  listed connection ends there, or one before while the writer has still to send the one in its
  hand (`Due`), whose slot the engine does not reach (`WriterInv`, with `CopyKeeps`).
  `RingsInv` and `ServedInv` are stated, as the property is, until a buffer is reset between
  two of the engine's accesses (`raced`): `ResetEndRings` is the step that needs it. A crash
  ends all steps (`DownStays`, `RunsLater`). With a buffer of one slot nothing is ever sent.

What a sequence leaves when only the members of a set are kept is the recursive function
`Only`; `OnlyAppend`, `OnlyType` and `OnlyPrefix` are proved by induction on the length
(`SetInduction`). Assumptions: the size and the record length are positive, the connections
are finite, and `NULL` is neither a number nor the name of a thread that holds a lock.

**Model-checked only.** Liveness (`RunsEnd`, `EndsAtLimit`, `ShutdownStopsQueries`,
`ShotIsEmitted`, `EosEndsReader`, `Quiescent`, and the fairness part of `ImplementsWSFifo`): fairness and
`ENABLED` are outside the prover. Every invariant of a passing run is also a theorem.
Induction over natural numbers is available as `SetInduction`, so
recursive functions can be reasoned about; folds and `SelectSeq` of the community modules,
which are defined by recursive operators or need an operator as parameter, cannot.


## 6. Disagreements between code and comments

Each is a run whose property states the comment and which TLC refutes.

- `lock_free_fifo_order`: "Implements a lock-free shared FIFO stack" (`lffifo.h:30`). The swap
  that links a cell compares only the link with the end marker (`lffifoIntel.c:55`). A
  producer reads the tail, is delayed while that cell leaves the list, and the cell's link
  becomes the end marker again in another `fifoput` (the dummy on its way back, or the
  cell after it was freed and allocated again); then its swap succeeds, on a cell that is
  not in the list. The put returns; the same producer's next element is linked to the real
  tail and reaches the operator first.
- `zct_foreign`: "iterate_depth lets us know when it's safe to blast the ZCT"
  (`emit-c2.sls:2549`). The generated entry point of a foreign source is not counted
  in the depth. When it feeds two operators, the return of the first empties the table
  and frees the array that the source is about to emit to the second.
- `socket_net_close`: "Closing all sockets before exiting" (`socket_wrappers.c:332`). Each
  entry that `shutdown_list` closes, also an outbound one, counts as a lost source, and the
  process exits when none is left; only inbound connections were counted. A process with
  one connection in and one out exits from the inbound one, and its own readers never
  get the end-of-stream header.

Further observations without a run:

- `wsfifo_wait` "blocks until elements are available" (`list_fifo.c:373`). It waits without
  looking at the queue, on every turn of the worker's loop, so elements that arrived while
  the worker drained stay until the next put signals.
- After one wait `wsfifoget` "better get something" (`midishare_fifo/wsfifo.c:67`). A signal
  sent for an element that the worker has already taken makes it return a null cell, which
  the worker dereferences (`pc[Reader] = "null"` in `LockFreeFifo`).
- In `LockFreeFifo` two overlapping puts can leave the worker asleep (see
  `NoLostWakeupAlone`), while a remark in `wsfifo.c:31` speaks of a signal on every enqueue.
- "We can also remove already installed subgraphs as part of a transaction"
  (`wsq_runtime.h:69`). `WSQ_RemSubgraph` deletes only the table entry; the operators are
  compiled into every later query.
- `WSQ_BeginTransaction` empties the list of files to include (`runtime_manager.ss:355`)
  while `op_log` keeps the user-defined functions of earlier transactions, so that the next
  transaction fails to compile, and ends the host, unless it adds a function from each of
  those files again (`Compiles` in `WSQManager`). A paused `WSQ_EndTransaction` returns the pid
  of the old query, which keeps running, and `wsc2-gcc`'s failure is not noticed, so that
  the pid returned can be that of a process running an earlier executable.
- "no need to lock, because of the _curr <-> _end schema" (`ESBuffer.h:16`). When the last
  client of an operator leaves, the server resets the buffer while the engine may be
  adding to it; the engine's store of `_end` then undoes half of the reset, and the next
  client is sent old events first. `SubscribersGetRun` is stated until that happens
  (`raced`).
- `Client::run` copies a record that came in two pieces with the length of a whole one, past
  the end of `_values` (`Client.h:97`), and puts the second of three pieces over the first
  (`Client.h:112`): `Overrun` and `torn` in `ESNode`.
- `setsockbuffer` sets its flag before the buffer exists (`ESBox.h:47`), `clientclean` uses
  `operatormap[-1]` for a client that never asked (`Server.h:203`), and a filter passes on the
  0 that its child returns when its buffer is full (`Filter.h:50`): each ends the node.


## 7. Not modelled

- The threaded ZCT: marked TEMP in the code (`wsc2.h:161`), it empties its table
  without freeing, so there is nothing to promise.
- `fifoavail` and `fifoflush` of the lock-free queue, which have no caller, and its
  PowerPC variant.
- The input indices that `add-indices` gives to the inputs of `unionN`.
- CPU pinning and start-up of the worker threads.
- Back ends other than C, and in WSQ the code generated for each kind of operator.
- The compiler's front end and middle passes: sequential tree transformations, for
  which the repository's unit tests are the better tool.
- In `socket.ws`, the errors at start-up that end a process (no socket, port taken, unknown
  host), marshalling, and programs with a thread for each operator, for which the code says
  that its blocking does not work.
- In the Reuters engine, predicates, the layout of events, the unfinished join
  (`MLJoin.h`), the closing of operators, which never happens, and the text of requests: a
  request that arrives in two pieces, or names no operator, ends the process.
- Disk operators and the wrappers of the wsnet library.
- The Regiment simulator, the TinyOS back end, applications and benchmarks: systems of
  their own.


## 8. Plan

Done, in this order: `WSFifo`, `ListFifo` and its proofs; `StreamGraph`, `StreamWiring`;
`CoarseNet` and the proofs about its locks; `ZCT`; `TimerDriver`; `WSQManager`; `LockFreeFifo`,
first with an atomic list and now access by access; `SocketNet`; `ESBuffer`, `ESNode` and its
first proof; the proofs about `CoarseNet`'s data, `WSQManager`, `TimerDriver`,
`StreamWiring` and `SocketNet`, the rest of those about `ESNode`, and those about `ZCT`; those
about `LockFreeFifo`, and that the wiring pass meets the assumptions of `CoarseNet`.

Next:

1. *Immediate reference counting*: the other build of the pass that `ZCT` models, with local
   and queue counts.
2. *`unionN` indices* in `StreamWiring`.
