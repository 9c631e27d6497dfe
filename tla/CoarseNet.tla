----------------------------- MODULE CoarseNet ------------------------------
(***************************************************************************)
(* A running dataflow graph built with FIFO_COARSE_LOCKING: one worker     *)
(* thread per operator, one input queue per worker, and a lock that is     *)
(* held over a whole operator run instead of over a single put or get.     *)
(*                                                                         *)
(* A worker takes its own queue's lock, waits for a signal, and then runs  *)
(* its operator on everything it finds before letting go.  Each run grabs  *)
(* the queues of all downstream operators, emits, and releases them, so a  *)
(* thread may hold several locks while it asks for one more.  Sources are  *)
(* threads that grab, emit and release without a queue of their own.       *)
(*                                                                         *)
(* With twoStage (FIFO_TWOSTAGE) a put goes to the queue's buffer and the  *)
(* release at the end of the run moves the pending elements over to the    *)
(* part the worker reads.  The cells of the lists are abstracted to the    *)
(* sequences they spell out.                                               *)
(***************************************************************************)
EXTENDS Naturals, Sequences, FiniteSets

CONSTANTS Op,        \* the operators, each with a worker and a queue
          Source,    \* the threads that feed the graph
          Out,       \* Out[t]: the operators t emits to, in grab order
          Rank,      \* Rank[o]: the place of o's declaration in the program
          None,
          Builds,    \* how the runtime may be built: [twoStage, spurious]
          MaxFires,  \* bound: times each source fires
          MaxEmits   \* bound: elements an operator emits in one run

Thread == Op \cup Source

ASSUME NetAssumption ==
  /\ Op \cap Source = {}
  /\ None \notin Thread /\ None \notin Source \X (1..MaxFires)
  /\ Out \in [Thread -> Seq(Op)]
  /\ Builds \subseteq [twoStage : BOOLEAN, spurious : BOOLEAN]
  /\ MaxFires \in Nat /\ MaxEmits \in Nat

\* The graph is wired in declaration order: StreamWiring shows that the compiler
\* pass which computes the outgoing lists guarantees this.
ASSUME GrabOrder ==
  /\ Rank \in [Op -> Nat]
  /\ \A o \in Op : \A i \in 1..Len(Out[o]) : Rank[o] < Rank[Out[o][i]]
  /\ \A t \in Thread : \A i, j \in 1..Len(Out[t]) :
       i < j => Rank[Out[t][i]] < Rank[Out[t][j]]

\* A program has finitely many operators, so any of them include a last one.
ASSUME FinitelyManyOps ==
  \A S \in SUBSET Op : S # {} => \E m \in S : \A o \in S : Rank[o] <= Rank[m]

VARIABLES build,    \* FIFO_TWOSTAGE, and a pthread library with spurious wakeups
          mut,      \* mut[o]: the thread that holds the lock of o's queue
          waiting,  \* waiting[o]: o's worker is in has_data's wait set
          pc,
          k,        \* k[t]: the next downstream queue t will grab or release
          left,     \* left[o]: elements o's worker still means to get
          emits,    \* emits[t]: elements emitted in this run
          cur,      \* cur[t]: the element being worked on
          buffer,   \* buffer[o]: first stage of o's queue
          pending,  \* pending[o]: puts not yet moved to the second stage
          outgoing, \* outgoing[o]: the stage the worker reads
          fires,    \* fires[s]: times the source has fired
          put, ran  \* history: elements enqueued for o / that o has run on

queueVars == <<buffer, pending, outgoing>>
histVars  == <<put, ran>>
vars == <<build, mut, waiting, pc, k, left, emits, cur, queueVars, fires, histVars>>

Elem == Source \X (1..MaxFires)

Init ==
  /\ build \in Builds
  /\ mut = [o \in Op |-> None]
  /\ waiting = [o \in Op |-> FALSE]
  /\ pc = [t \in Thread |-> IF t \in Op THEN "loop" ELSE "idle"]
  /\ k = [t \in Thread |-> 1]
  /\ left = [o \in Op |-> 0]
  /\ emits = [t \in Thread |-> 0]
  /\ cur = [t \in Thread |-> None]
  /\ buffer = [o \in Op |-> <<>>]
  /\ pending = [o \in Op |-> 0]
  /\ outgoing = [o \in Op |-> <<>>]
  /\ fires = [s \in Source |-> 0]
  /\ put = [o \in Op |-> <<>>]
  /\ ran = [o \in Op |-> <<>>]

Goto(t, l) == pc' = [pc EXCEPT ![t] = l]
Downstream(t) == {Out[t][i] : i \in DOMAIN Out[t]}

-----------------------------------------------------------------------------
(* release_wsfifo: move what is pending to the second stage, and unlock.   *)

\* Mutant: the release only unlocks, as it does without twoStage.
MovePending_Forgotten(o) == UNCHANGED queueVars

\* Mutant: the pending elements overtake those not yet read.
MovePending_Front(o) ==
  /\ outgoing' = [outgoing EXCEPT ![o] = SubSeq(buffer[o], 1, pending[o]) \o @]
  /\ buffer' = [buffer EXCEPT ![o] = SubSeq(@, pending[o] + 1, Len(@))]
  /\ pending' = [pending EXCEPT ![o] = 0]

MovePending(o) ==
  /\ outgoing' = [outgoing EXCEPT ![o] = @ \o SubSeq(buffer[o], 1, pending[o])]
  /\ buffer' = [buffer EXCEPT ![o] = SubSeq(@, pending[o] + 1, Len(@))]
  /\ pending' = [pending EXCEPT ![o] = 0]

Release(o) == mut' = [mut EXCEPT ![o] = None] /\ MovePending(o)

-----------------------------------------------------------------------------
(* One run of an operator or source: grab, emit, release.                  *)

\* Mutant: the queues are grabbed last to first.
GrabNth_Reversed(t, i) == Out[t][Len(Out[t]) + 1 - i]

GrabNth(t, i) == Out[t][i]

\* GRAB_WRITEFIFO for the next downstream queue.
Grab(t) ==
  /\ pc[t] = "grab"
  /\ k[t] <= Len(Out[t])
  /\ mut[GrabNth(t, k[t])] = None
  /\ mut' = [mut EXCEPT ![GrabNth(t, k[t])] = t]
  /\ k' = [k EXCEPT ![t] = @ + 1]
  /\ UNCHANGED <<build, waiting, pc, left, emits, cur, queueVars, fires, histVars>>

GrabbedAll(t) ==
  /\ pc[t] = "grab"
  /\ k[t] > Len(Out[t])
  /\ Goto(t, "emit")
  /\ emits' = [emits EXCEPT ![t] = 0]
  /\ UNCHANGED <<build, mut, waiting, k, left, cur, queueVars, fires, histVars>>

\* EMIT puts the element into every downstream queue and signals each.
Emit(t) ==
  /\ pc[t] = "emit"
  /\ emits[t] < (IF t \in Source THEN 1 ELSE MaxEmits)
  /\ emits' = [emits EXCEPT ![t] = @ + 1]
  /\ LET fed(q) == [o \in Op |-> IF o \in Downstream(t) THEN Append(q[o], cur[t]) ELSE q[o]]
     IN  /\ IF build.twoStage
            THEN /\ buffer' = fed(buffer)
                 /\ pending' = [o \in Op |->
                      IF o \in Downstream(t) THEN pending[o] + 1 ELSE pending[o]]
                 /\ UNCHANGED outgoing
            ELSE outgoing' = fed(outgoing) /\ UNCHANGED <<buffer, pending>>
         /\ put' = fed(put)
  /\ waiting' = [o \in Op |-> waiting[o] /\ o \notin Downstream(t)]
  /\ UNCHANGED <<build, mut, pc, k, left, cur, fires, ran>>

\* An operator may emit any number of elements; a source emits one.
Emitted(t) ==
  /\ pc[t] = "emit"
  /\ t \in Source => emits[t] = 1
  /\ Goto(t, "release")
  /\ k' = [k EXCEPT ![t] = 1]
  /\ UNCHANGED <<build, mut, waiting, left, emits, cur, queueVars, fires, histVars>>

\* RELEASE_WRITEFIFO for the next downstream queue.
ReleaseNext(t) ==
  /\ pc[t] = "release"
  /\ k[t] <= Len(Out[t])
  /\ Release(Out[t][k[t]])
  /\ k' = [k EXCEPT ![t] = @ + 1]
  /\ UNCHANGED <<build, waiting, pc, left, emits, cur, fires, histVars>>

\* The run is over; a worker then calls wsfifoget_cleanup.
RunDone(t) ==
  /\ pc[t] = "release"
  /\ k[t] > Len(Out[t])
  /\ Goto(t, IF t \in Source THEN "idle" ELSE "drain")
  /\ ran' = IF t \in Source THEN ran ELSE [ran EXCEPT ![t] = Append(@, cur[t])]
  /\ cur' = [cur EXCEPT ![t] = None]
  /\ UNCHANGED <<build, mut, waiting, k, left, emits, queueVars, fires, put>>

Run(t) ==
  Grab(t) \/ GrabbedAll(t) \/ Emit(t) \/ Emitted(t) \/ ReleaseNext(t) \/ RunDone(t)

-----------------------------------------------------------------------------
(* Sources, and the loop of worker_thread.                                 *)

Fire(s) ==
  /\ pc[s] = "idle"
  /\ fires[s] < MaxFires
  /\ fires' = [fires EXCEPT ![s] = @ + 1]
  /\ cur' = [cur EXCEPT ![s] = <<s, fires[s] + 1>>]
  /\ Goto(s, "grab")
  /\ k' = [k EXCEPT ![s] = 1]
  /\ UNCHANGED <<build, mut, waiting, left, emits, queueVars, histVars>>

\* grab_wsfifo on the worker's own queue, and then wsfifo_wait, which gives the
\* lock up at once: the worker waits whether or not there are elements.
WaitForData(o) ==
  /\ pc[o] = "loop"
  /\ mut[o] = None
  /\ waiting' = [waiting EXCEPT ![o] = TRUE]
  /\ Goto(o, "wait")
  /\ UNCHANGED <<build, mut, k, left, emits, cur, queueVars, fires, histVars>>

SpuriousWakeup(o) ==
  /\ build.spurious
  /\ waiting[o]
  /\ waiting' = [waiting EXCEPT ![o] = FALSE]
  /\ UNCHANGED <<build, mut, pc, k, left, emits, cur, queueVars, fires, histVars>>

\* Mutant: the worker plans for one element per wakeup.
PlannedGets_One(o) == IF outgoing[o] = <<>> THEN 0 ELSE 1

\* int size = wsfifosize(...)
PlannedGets(o) == Len(outgoing[o])

\* The wait returns with the lock held.
Wake(o) ==
  /\ pc[o] = "wait" /\ ~waiting[o]
  /\ mut[o] = None
  /\ mut' = [mut EXCEPT ![o] = o]
  /\ left' = [left EXCEPT ![o] = PlannedGets(o)]
  /\ Goto(o, "drain")
  /\ UNCHANGED <<build, waiting, k, emits, cur, queueVars, fires, histVars>>

NextElement(o) == Head(outgoing[o])

\* wsfifoget, and the operator is called on what it returns.
Get(o) ==
  /\ pc[o] = "drain" /\ left[o] > 0
  /\ outgoing[o] # <<>>
  /\ left' = [left EXCEPT ![o] = @ - 1]
  /\ cur' = [cur EXCEPT ![o] = NextElement(o)]
  /\ outgoing' = [outgoing EXCEPT ![o] = Tail(@)]
  /\ Goto(o, "grab")
  /\ k' = [k EXCEPT ![o] = 1]
  /\ UNCHANGED <<build, mut, waiting, emits, buffer, pending, fires, histVars>>

\* The for loop ends: release_wsfifo on the worker's own queue.
EndDrain(o) ==
  /\ pc[o] = "drain" /\ left[o] = 0
  /\ Release(o)
  /\ Goto(o, "loop")
  /\ UNCHANGED <<build, waiting, k, left, emits, cur, fires, histVars>>

Work(o) == WaitForData(o) \/ Wake(o) \/ Get(o) \/ EndDrain(o)

Next ==
  \/ \E t \in Thread : Run(t)
  \/ \E s \in Source : Fire(s)
  \/ \E o \in Op : Work(o) \/ SpuriousWakeup(o)

SafeSpec == Init /\ [][Next]_vars

\* Threads that can take a step are scheduled; sources need not fire.
Spec ==
  /\ SafeSpec
  /\ \A t \in Thread : WF_vars(Run(t))
  /\ \A o \in Op : WF_vars(Work(o))

-----------------------------------------------------------------------------
\* The variables keep their types.
TypeOK ==
  /\ build \in Builds
  /\ mut \in [Op -> Thread \cup {None}]
  /\ waiting \in [Op -> BOOLEAN]
  /\ pc \in [Thread -> {"idle", "grab", "emit", "release", "loop", "wait", "drain"}]
  /\ k \in [Thread -> Nat]
  /\ left \in [Op -> Nat] /\ emits \in [Thread -> Nat]
  /\ cur \in [Thread -> Elem \cup {None}]
  /\ buffer \in [Op -> Seq(Elem)] /\ outgoing \in [Op -> Seq(Elem)]
  /\ pending \in [Op -> Nat]
  /\ fires \in [Source -> 0..MaxFires]
  /\ put \in [Op -> Seq(Elem)] /\ ran \in [Op -> Seq(Elem)]

\* The lock thread t is asking for when it is stopped in front of one.
Wants(t) ==
  IF pc[t] = "grab" /\ k[t] <= Len(Out[t]) THEN {GrabNth(t, k[t])}
  ELSE IF t \in Op /\ pc[t] \in {"loop", "wait"} THEN {t} ELSE {}

\* Every thread asks for locks in declaration order: whatever it holds comes
\* before the lock it waits for.
LockOrder ==
  \A t \in Thread : \A q \in Wants(t) : \A h \in Op : mut[h] = t => Rank[h] < Rank[q]

\* Threads never wait for each other in a circle, although each may hold its
\* own queue and some of its downstream queues while it asks for the next.
NoCircularWait ==
  \A S \in SUBSET Thread : S # {} =>
    \E t \in S : \A o \in Wants(t) : mut[o] \notin S

\* A worker finds no element in the first stage while it reads ("THE FIRST
\* STAGE BUFFER SHOULD BE NULL"), and nothing pending: whoever put elements
\* released them before the worker got the lock.
NothingPendingForReader ==
  \A o \in Op : mut[o] \in {o, None} => buffer[o] = <<>> /\ pending[o] = 0

\* Every operator runs on exactly what was emitted to it, in order, through
\* both stages of its queue.
Delivered ==
  \A o \in Op :
    put[o] = ran[o] \o (IF cur[o] = None THEN <<>> ELSE <<cur[o]>>) \o outgoing[o] \o buffer[o]

\* "Once we grab, we should dequeue until its empty before releasing": a worker
\* that lets go of its queue leaves nothing in it.
DrainedOnRelease ==
  [][\A o \in Op : mut[o] = o /\ mut'[o] # o => outgoing'[o] = <<>>]_vars

\* Every run of an operator or source that starts comes to its end, whatever
\* locks it has to wait for: once the sources have stopped, so does everything.
\* (Spurious wakeups could keep taking a lock that a thread waits for.)
RunsEnd == ~build.spurious => <>[](\A t \in Thread : cur[t] = None)

=============================================================================
