-------------------------- MODULE CoarseNetProofs ---------------------------
(***************************************************************************)
(* Coarse locking cannot deadlock, for any graph whose operators list      *)
(* their downstream operators in declaration order, and delivers to each   *)
(* operator what was emitted to it, through one stage or two.              *)
(* And the compiler pass that wires streams makes such a graph: of any     *)
(* program, the declarations and their outgoing lists are one of the       *)
(* graphs that CoarseNet assumes.                                          *)
(***************************************************************************)
EXTENDS CoarseNet, StreamWiring, SequenceTheorems, WellFoundedInduction, TLAPS

LockTypeOK ==
  /\ mut \in [Op -> Thread \cup {None}]
  /\ k \in [Thread -> Nat \ {0}]
  /\ pc \in [Thread -> {"idle", "grab", "emit", "release", "loop", "wait", "drain"}]

InRun(t) == pc[t] \in {"grab", "emit", "release"}

\* Thread t may hold its own queue, ...
OwnsOwn(t, h) == t \in Op /\ h = t /\ (pc[t] = "drain" \/ InRun(t))

\* ... and the downstream queues it has grabbed and not yet released.
OwnsOut(t, h) ==
  InRun(t) /\ \E i \in 1..Len(Out[t]) :
    /\ Out[t][i] = h
    /\ pc[t] = "grab" => i < k[t]
    /\ pc[t] = "release" => i >= k[t]

\* What a thread can hold at each point of its code.
HoldInv ==
  \A t \in Thread, h \in Op : mut[h] = t => OwnsOwn(t, h) \/ OwnsOut(t, h)

IInv == LockTypeOK /\ HoldInv

\* The invariant holds when all locks are free.
LEMMA InitIInv == Init => IInv
BY NetAssumption DEF Init, IInv, LockTypeOK, HoldInv, Thread

\* A thread takes the lock of the next downstream queue.
LEMMA GrabStep == ASSUME NEW t \in Thread, IInv, Grab(t) PROVE IInv'
<1> DEFINE q == Out[t][k[t]]
<1> USE DEF IInv
<1>1. /\ pc[t] = "grab" /\ pc' = pc
      /\ k[t] <= Len(Out[t]) /\ mut[q] = None
      /\ mut' = [mut EXCEPT ![q] = t] /\ k' = [k EXCEPT ![t] = @ + 1]
  BY DEF Grab, GrabNth
<1>2. k[t] \in 1..Len(Out[t]) /\ q \in Op
  <2>1. k[t] \in Nat \ {0} /\ Out[t] \in Seq(Op)
    BY NetAssumption DEF LockTypeOK
  <2> QED BY <1>1, <2>1
<1>3. LockTypeOK'
  <2>1. k' \in [Thread -> Nat \ {0}]
    BY <1>1 DEF LockTypeOK
  <2>2. mut' \in [Op -> Thread \cup {None}]
    BY <1>1, <1>2 DEF LockTypeOK
  <2> QED BY <1>1, <2>1, <2>2 DEF LockTypeOK
<1>4. \A u \in Thread : k'[u] = IF u = t THEN k[u] + 1 ELSE k[u]
  BY <1>1 DEF LockTypeOK
<1>5. HoldInv'
  <2> SUFFICES ASSUME NEW u \in Thread, NEW h \in Op, mut'[h] = u
               PROVE  OwnsOwn(u, h)' \/ OwnsOut(u, h)'
    BY DEF HoldInv
  <2>1. CASE mut[h] = u
    <3>1. OwnsOwn(u, h) \/ OwnsOut(u, h)
      BY <2>1 DEF HoldInv
    <3>2. k[u] \in Nat
      BY DEF LockTypeOK
    <3> QED BY <1>1, <1>4, <3>1, <3>2 DEF OwnsOwn, OwnsOut, InRun
  <2>2. CASE mut[h] # u
    <3>1. h = q /\ u = t
      BY <1>1, <2>2 DEF LockTypeOK
    <3>2. k'[t] = k[t] + 1
      BY <1>4
    <3> QED BY <1>1, <1>2, <3>1, <3>2 DEF OwnsOut, InRun
  <2> QED BY <2>1, <2>2
<1> QED BY <1>3, <1>5

\* The steps of a run that take no lock and give none up.
LEMMA EmitStep ==
  ASSUME NEW t \in Thread, IInv, GrabbedAll(t) \/ Emit(t) \/ Emitted(t) PROVE IInv'
<1> USE DEF IInv
<1>1. /\ mut' = mut /\ InRun(t)
      /\ \/ pc' = pc /\ k' = k
         \/ pc' = [pc EXCEPT ![t] = "emit"] /\ k' = k
         \/ pc' = [pc EXCEPT ![t] = "release"] /\ k' = [k EXCEPT ![t] = 1]
  BY DEF GrabbedAll, Emit, Emitted, Goto, InRun
<1>2. LockTypeOK'
  BY <1>1 DEF LockTypeOK
<1>3. HoldInv'
  <2> SUFFICES ASSUME NEW u \in Thread, NEW h \in Op, mut[h] = u
               PROVE  OwnsOwn(u, h)' \/ OwnsOut(u, h)'
    BY <1>1 DEF HoldInv
  <2>1. OwnsOwn(u, h) \/ OwnsOut(u, h)
    BY DEF HoldInv
  <2>2. CASE u # t
    <3>1. pc'[u] = pc[u] /\ k'[u] = k[u]
      BY <1>1, <2>2 DEF LockTypeOK
    <3> QED BY <2>1, <3>1 DEF OwnsOwn, OwnsOut, InRun
  <2>3. CASE u = t
    <3>1. \/ pc' = pc /\ k' = k
          \/ pc'[t] = "emit"
          \/ pc'[t] = "release" /\ k'[t] = 1
      BY <1>1 DEF LockTypeOK
    <3> QED BY <1>1, <2>1, <2>3, <3>1 DEF OwnsOwn, OwnsOut, InRun
  <2> QED BY <2>2, <2>3
<1> QED BY <1>2, <1>3

\* A thread gives up the next downstream queue.
LEMMA ReleaseStep == ASSUME NEW t \in Thread, IInv, ReleaseNext(t) PROVE IInv'
<1> DEFINE q == Out[t][k[t]]
<1> USE DEF IInv
<1>1. /\ pc[t] = "release" /\ pc' = pc
      /\ k[t] <= Len(Out[t])
      /\ mut' = [mut EXCEPT ![q] = None] /\ k' = [k EXCEPT ![t] = @ + 1]
  BY DEF ReleaseNext, Release
<1>2. k[t] \in 1..Len(Out[t]) /\ q \in Op
  <2>1. k[t] \in Nat \ {0} /\ Out[t] \in Seq(Op)
    BY NetAssumption DEF LockTypeOK
  <2> QED BY <1>1, <2>1
<1>3. LockTypeOK'
  <2>1. k' \in [Thread -> Nat \ {0}]
    BY <1>1 DEF LockTypeOK
  <2>2. mut' \in [Op -> Thread \cup {None}]
    BY <1>1, <1>2 DEF LockTypeOK
  <2> QED BY <1>1, <2>1, <2>2 DEF LockTypeOK
<1>4. \A u \in Thread : k'[u] = IF u = t THEN k[u] + 1 ELSE k[u]
  BY <1>1 DEF LockTypeOK
<1>5. HoldInv'
  <2> SUFFICES ASSUME NEW u \in Thread, NEW h \in Op, mut'[h] = u
               PROVE  OwnsOwn(u, h)' \/ OwnsOut(u, h)'
    BY DEF HoldInv
  <2>1. mut[h] = u /\ h # q
    BY <1>1, <1>2, NetAssumption DEF LockTypeOK
  <2>2. OwnsOwn(u, h) \/ OwnsOut(u, h)
    BY <2>1 DEF HoldInv
  <2>3. CASE u # t
    BY <1>1, <1>4, <2>2, <2>3 DEF OwnsOwn, OwnsOut, InRun
  <2>4. CASE u = t
    <3>1. k[t] \in Nat /\ k'[t] = k[t] + 1
      BY <1>4 DEF LockTypeOK
    <3>2. CASE OwnsOwn(u, h)
      BY <1>1, <3>2 DEF OwnsOwn, InRun
    <3>3. CASE OwnsOut(u, h)
      <4>1. PICK i \in 1..Len(Out[t]) : Out[t][i] = h /\ i >= k[t]
        BY <1>1, <2>4, <3>3 DEF OwnsOut
      <4>2. i >= k'[t]
        BY <2>1, <3>1, <4>1
      <4> QED BY <1>1, <2>4, <4>1, <4>2 DEF OwnsOut, InRun
    <3> QED BY <2>2, <3>2, <3>3
  <2> QED BY <2>3, <2>4
<1> QED BY <1>3, <1>5

\* At the end of a run nothing but the thread's own queue is held.
LEMMA RunDoneStep == ASSUME NEW t \in Thread, IInv, RunDone(t) PROVE IInv'
<1> USE DEF IInv
<1>1. /\ pc[t] = "release" /\ k[t] > Len(Out[t]) /\ mut' = mut /\ k' = k
      /\ pc' = [pc EXCEPT ![t] = IF t \in Source THEN "idle" ELSE "drain"]
  BY DEF RunDone, Goto
<1>2. LockTypeOK'
  BY <1>1 DEF LockTypeOK
<1>3. HoldInv'
  <2> SUFFICES ASSUME NEW u \in Thread, NEW h \in Op, mut[h] = u
               PROVE  OwnsOwn(u, h)' \/ OwnsOut(u, h)'
    BY <1>1 DEF HoldInv
  <2>1. OwnsOwn(u, h) \/ OwnsOut(u, h)
    BY DEF HoldInv
  <2>2. CASE u # t
    <3>1. pc'[u] = pc[u]
      BY <1>1, <2>2 DEF LockTypeOK
    <3> QED BY <1>1, <2>1, <3>1 DEF OwnsOwn, OwnsOut, InRun
  <2>3. CASE u = t
    <3>1. Len(Out[t]) \in Nat /\ k[t] \in Nat
      BY NetAssumption DEF LockTypeOK
    <3>2. ~OwnsOut(t, h)
      BY <1>1, <3>1 DEF OwnsOut
    <3>3. t \in Op /\ h = t
      BY <2>1, <2>3, <3>2 DEF OwnsOwn
    <3>4. pc'[t] = "drain"
      BY <1>1, <3>3, NetAssumption DEF LockTypeOK
    <3> QED BY <2>3, <3>3, <3>4 DEF OwnsOwn
  <2> QED BY <2>2, <2>3
<1> QED BY <1>2, <1>3

\* A source that is idle, and a worker that is not awake, hold nothing.
LEMMA FireStep == ASSUME NEW s \in Source, IInv, Fire(s) PROVE IInv'
<1> USE DEF IInv, Thread
<1>1. /\ pc[s] = "idle" /\ mut' = mut
      /\ pc' = [pc EXCEPT ![s] = "grab"] /\ k' = [k EXCEPT ![s] = 1]
  BY DEF Fire, Goto
<1>2. LockTypeOK'
  BY <1>1 DEF LockTypeOK
<1>3. HoldInv'
  BY <1>1 DEF HoldInv, OwnsOwn, OwnsOut, InRun, LockTypeOK
<1> QED BY <1>2, <1>3

\* A worker goes to sleep, or stops sleeping, without its lock.
LEMMA WaitStep ==
  ASSUME NEW o \in Op, IInv, WaitForData(o) \/ SpuriousWakeup(o) PROVE IInv'
<1> USE DEF IInv, Thread
<1>1. /\ mut' = mut /\ k' = k
      /\ \/ pc' = pc
         \/ pc[o] = "loop" /\ pc' = [pc EXCEPT ![o] = "wait"]
  BY DEF WaitForData, SpuriousWakeup, Goto
<1>2. LockTypeOK'
  BY <1>1 DEF LockTypeOK
<1>3. HoldInv'
  BY <1>1 DEF HoldInv, OwnsOwn, OwnsOut, InRun, LockTypeOK
<1> QED BY <1>2, <1>3

\* A worker that wakes up holds its own queue, and no other.
LEMMA WakeStep == ASSUME NEW o \in Op, IInv, Wake(o) PROVE IInv'
<1> USE DEF IInv, Thread
<1>1. /\ pc[o] = "wait" /\ mut' = [mut EXCEPT ![o] = o] /\ k' = k
      /\ pc' = [pc EXCEPT ![o] = "drain"]
  BY DEF Wake, Goto
<1>2. LockTypeOK'
  BY <1>1 DEF LockTypeOK
<1>3. HoldInv'
  <2> SUFFICES ASSUME NEW u \in Thread, NEW h \in Op, mut'[h] = u
               PROVE  OwnsOwn(u, h)' \/ OwnsOut(u, h)'
    BY DEF HoldInv
  <2>1. CASE h = o
    BY <1>1, <2>1 DEF OwnsOwn, LockTypeOK
  <2>2. CASE h # o
    <3>1. mut[h] = u
      BY <1>1, <2>2 DEF LockTypeOK
    <3>2. OwnsOwn(u, h) \/ OwnsOut(u, h)
      BY <3>1 DEF HoldInv
    <3>3. u # o
      BY <1>1, <2>2, <3>2 DEF OwnsOwn, OwnsOut, InRun
    <3>4. pc'[u] = pc[u]
      BY <1>1, <3>3 DEF LockTypeOK
    <3> QED BY <1>1, <3>2, <3>4 DEF OwnsOwn, OwnsOut, InRun
  <2> QED BY <2>1, <2>2
<1> QED BY <1>2, <1>3

\* A worker starts a run holding its own queue, and no other.
LEMMA GetStep == ASSUME NEW o \in Op, IInv, Get(o) PROVE IInv'
<1> USE DEF IInv, Thread
<1>1. /\ pc[o] = "drain" /\ mut' = mut
      /\ pc' = [pc EXCEPT ![o] = "grab"] /\ k' = [k EXCEPT ![o] = 1]
  BY DEF Get, Goto
<1>2. LockTypeOK'
  BY <1>1 DEF LockTypeOK
<1>3. HoldInv'
  BY <1>1 DEF HoldInv, OwnsOwn, OwnsOut, InRun, LockTypeOK
<1> QED BY <1>2, <1>3

\* A worker that has drained its queue gives it up.
LEMMA EndDrainStep == ASSUME NEW o \in Op, IInv, EndDrain(o) PROVE IInv'
<1> USE DEF IInv, Thread
<1>1. /\ pc[o] = "drain" /\ mut' = [mut EXCEPT ![o] = None] /\ k' = k
      /\ pc' = [pc EXCEPT ![o] = "loop"]
  BY DEF EndDrain, Release, Goto
<1>2. LockTypeOK'
  BY <1>1 DEF LockTypeOK
<1>3. HoldInv'
  <2> SUFFICES ASSUME NEW u \in Thread, NEW h \in Op, mut'[h] = u
               PROVE  OwnsOwn(u, h)' \/ OwnsOut(u, h)'
    BY DEF HoldInv
  <2>1. CASE h = o
    BY <1>1, <2>1, NetAssumption DEF OwnsOwn, LockTypeOK
  <2>2. CASE h # o
    <3>1. mut[h] = u
      BY <1>1, <2>2 DEF LockTypeOK
    <3>2. OwnsOwn(u, h) \/ OwnsOut(u, h)
      BY <3>1 DEF HoldInv
    <3>3. u # o
      BY <1>1, <2>2, <3>2 DEF OwnsOwn, OwnsOut, InRun
    <3>4. pc'[u] = pc[u]
      BY <1>1, <3>3 DEF LockTypeOK
    <3> QED BY <1>1, <3>2, <3>4 DEF OwnsOwn, OwnsOut, InRun
  <2> QED BY <2>1, <2>2
<1> QED BY <1>2, <1>3

\* What threads can hold is invariant.
THEOREM Invariance == SafeSpec => []IInv
<1>1. ASSUME IInv, [Next]_vars PROVE IInv'
  <2>1. ASSUME NEW t \in Thread, Run(t) PROVE IInv'
    BY <1>1, <2>1, GrabStep, EmitStep, ReleaseStep, RunDoneStep DEF Run
  <2>2. ASSUME NEW s \in Source, Fire(s) PROVE IInv'
    BY <1>1, <2>2, FireStep
  <2>3. ASSUME NEW o \in Op, Work(o) \/ SpuriousWakeup(o) PROVE IInv'
    BY <1>1, <2>3, WaitStep, WakeStep, GetStep, EndDrainStep DEF Work
  <2>4. CASE UNCHANGED vars
    BY <1>1, <2>4 DEF vars, IInv, LockTypeOK, HoldInv, OwnsOwn, OwnsOut, InRun
  <2> QED BY <1>1, <2>1, <2>2, <2>3, <2>4 DEF Next
<1> QED BY <1>1, InitIInv, PTL DEF SafeSpec

\* The invariant and the order of the outgoing lists give the order of locks.
LEMMA OrderFromHolding == IInv => LockOrder
<1> SUFFICES ASSUME IInv, NEW t \in Thread, NEW q \in Wants(t), NEW h \in Op, mut[h] = t
             PROVE  Rank[h] < Rank[q]
  BY DEF LockOrder
<1> USE DEF IInv, Thread
<1>1. OwnsOwn(t, h) \/ OwnsOut(t, h)
  BY DEF HoldInv
<1>2. InRun(t) \/ pc[t] = "drain"
  BY <1>1 DEF OwnsOwn, OwnsOut
<1>3. pc[t] = "grab" /\ k[t] <= Len(Out[t]) /\ q = Out[t][k[t]]
  BY <1>2 DEF Wants, GrabNth, InRun
<1>4. k[t] \in 1..Len(Out[t])
  BY <1>3, NetAssumption DEF LockTypeOK
<1>5. CASE OwnsOwn(t, h)
  BY <1>3, <1>4, <1>5, GrabOrder DEF OwnsOwn
<1>6. CASE OwnsOut(t, h)
  <2>1. PICK i \in 1..Len(Out[t]) : Out[t][i] = h /\ i < k[t]
    BY <1>3, <1>6 DEF OwnsOut
  <2> QED BY <1>3, <1>4, <2>1, GrabOrder
<1> QED BY <1>1, <1>5, <1>6

\* A set of threads waiting for each other would hold a lock with no successor:
\* look at the last of the locks the set is asking for.
LEMMA NoCycleFromOrder == IInv /\ LockOrder => NoCircularWait
<1> SUFFICES ASSUME IInv, LockOrder, NEW S \in SUBSET Thread, S # {},
                    \A t \in S : \E o \in Wants(t) : mut[o] \in S
             PROVE  FALSE
  BY DEF NoCircularWait
<1> DEFINE W == {o \in Op : \E t \in S : o \in Wants(t) /\ mut[o] \in S}
<1>1. \A t \in Thread : Wants(t) \subseteq Op
  <2> SUFFICES ASSUME NEW t \in Thread, NEW q \in Wants(t) PROVE q \in Op
    OBVIOUS
  <2>1. k[t] \in Nat \ {0} /\ Out[t] \in Seq(Op)
    BY NetAssumption DEF IInv, LockTypeOK
  <2>2. k[t] <= Len(Out[t]) => Out[t][k[t]] \in Op
    BY <2>1
  <2> QED BY <2>2 DEF Wants, GrabNth
<1>2. W # {} /\ W \in SUBSET Op
  BY <1>1
<1>3. PICK m \in W : \A o \in W : Rank[o] <= Rank[m]
  BY <1>2, FinitelyManyOps
<1>4. mut[m] \in S
  BY <1>3
<1>5. PICK o \in Wants(mut[m]) : mut[o] \in S
  BY <1>4
<1>6. o \in W /\ o \in Op
  BY <1>1, <1>4, <1>5
<1>7. Rank[m] < Rank[o]
  BY <1>2, <1>4, <1>5 DEF LockOrder
<1> QED BY <1>2, <1>3, <1>6, <1>7, GrabOrder

\* In every graph wired in declaration order, threads acquire locks in
\* declaration order...
THEOREM LocksOrdered == SafeSpec => []LockOrder
BY Invariance, OrderFromHolding, PTL

\* ... so no set of threads ever waits for itself.
THEOREM DeadlockFree == SafeSpec => []NoCircularWait
BY Invariance, OrderFromHolding, NoCycleFromOrder, PTL

-----------------------------------------------------------------------------
(* What the queues hold.                                                   *)

\* A thread that runs, or drains, holds all the locks that it should: those it
\* may hold by HoldInv.
HeldInv ==
  \A t \in Thread :
    /\ t \in Op /\ (pc[t] = "drain" \/ InRun(t)) => mut[t] = t
    /\ \A h \in Op : OwnsOut(t, h) => mut[h] = t

\* A thread has an element in hand exactly during a run.
CurInv == \A t \in Thread : cur[t] = None <=> ~InRun(t)

\* Each put is counted as pending until a release moves it, and a queue that its
\* reader holds has what the reader plans to take, and nothing else.
QueueInv ==
  \A o \in Op :
    /\ pending[o] = Len(buffer[o])
    /\ ~build.twoStage => buffer[o] = <<>>
    /\ mut[o] \in {o, None} => buffer[o] = <<>>
    /\ mut[o] = o => left[o] = Len(outgoing[o])

DInv == TypeOK /\ IInv /\ HeldInv /\ CurInv /\ QueueInv /\ Delivered

\* The queues downstream of a thread: each is another's, and they differ.
LEMMA OutProperties ==
  ASSUME NEW t \in Thread
  PROVE  /\ Out[t] \in Seq(Op) /\ Len(Out[t]) \in Nat /\ t # None
         /\ \A i \in 1..Len(Out[t]) : Out[t][i] \in Op /\ Out[t][i] # t
         /\ \A i, j \in 1..Len(Out[t]) : Out[t][i] = Out[t][j] => i = j
<1>1. Out[t] \in Seq(Op) /\ Len(Out[t]) \in Nat /\ t # None
  BY NetAssumption DEF Thread
<1>2. ASSUME NEW i \in 1..Len(Out[t]) PROVE Out[t][i] \in Op /\ Out[t][i] # t
  <2>1. Out[t][i] \in Op
    BY <1>1
  <2>2. t \in Op => Rank[t] < Rank[Out[t][i]] /\ Rank[t] \in Nat
    BY GrabOrder
  <2> QED BY <2>1, <2>2
<1>3. ASSUME NEW i \in 1..Len(Out[t]), NEW j \in 1..Len(Out[t]), Out[t][i] = Out[t][j], i # j
      PROVE  FALSE
  <2>1. i < j \/ j < i
    BY <1>1, <1>3
  <2>2. Rank[Out[t][i]] \in Nat
    BY <1>2, GrabOrder
  <2>3. Rank[Out[t][i]] < Rank[Out[t][j]] \/ Rank[Out[t][j]] < Rank[Out[t][i]]
    BY <2>1, GrabOrder
  <2> QED BY <1>3, <2>2, <2>3
<1> QED BY <1>1, <1>2, <1>3

\* As long as the contents of the queues stay, what counts is who gets a lock.
LEMMA QueueFrame ==
  ASSUME DInv, UNCHANGED <<build, queueVars, left>>,
         \A o \in Op : mut'[o] \in {o, None} =>
           mut[o] \in {o, None} /\ (mut'[o] = o => mut[o] = o)
  PROVE  QueueInv'
BY DEF DInv, QueueInv, queueVars

\* Delivered speaks of an operator's own element only.
LEMMA DeliveredFrame ==
  ASSUME DInv, UNCHANGED <<queueVars, histVars>>, \A o \in Op : cur'[o] = cur[o]
  PROVE  Delivered'
BY DEF DInv, Delivered, queueVars, histVars

\* The order of elements is all that matters.
LEMMA Associative ==
  ASSUME NEW s \in Seq(Elem), NEW u \in Seq(Elem), NEW v \in Seq(Elem)
  PROVE  (s \o u) \o v = s \o (u \o v)
BY ConcatAssociative

\* Taking the first of a sequence and putting it back.
LEMMA HeadAndTail ==
  ASSUME NEW S, NEW s \in Seq(S), s # <<>>
  PROVE  Head(s) \in S /\ Tail(s) \in Seq(S) /\ Len(Tail(s)) = Len(s) - 1
         /\ <<Head(s)>> \o Tail(s) = s
<1>1. Head(s) \in S /\ Tail(s) \in Seq(S) /\ Len(Tail(s)) = Len(s) - 1
      /\ \A i \in 1..Len(Tail(s)) : Tail(s)[i] = s[i + 1]
  BY HeadTailProperties
<1>2. <<Head(s)>> \in Seq(S) /\ Len(<<Head(s)>>) = 1 /\ <<Head(s)>>[1] = s[1]
  BY <1>1
<1>3. /\ <<Head(s)>> \o Tail(s) \in Seq(S)
      /\ Len(<<Head(s)>> \o Tail(s)) = Len(s)
      /\ \A i \in 1..Len(s) : (<<Head(s)>> \o Tail(s))[i] =
                                IF i <= 1 THEN <<Head(s)>>[i] ELSE Tail(s)[i - 1]
  <2>1. Len(s) \in Nat /\ 1 + Len(Tail(s)) = Len(s)
    BY <1>1, LenProperties
  <2> QED BY <1>1, <1>2, <2>1, ConcatProperties
<1>4. ASSUME NEW i \in 1..Len(s) PROVE (<<Head(s)>> \o Tail(s))[i] = s[i]
  <2>1. Len(s) \in Nat
    BY LenProperties
  <2>2. CASE i = 1
    BY <1>2, <1>3, <2>2
  <2>3. CASE i > 1
    <3>1. i - 1 \in 1..Len(Tail(s)) /\ ~(i <= 1)
      BY <1>1, <2>1, <2>3
    <3>2. Tail(s)[i - 1] = s[i - 1 + 1]
      BY <1>1, <3>1
    <3> QED BY <1>3, <3>1, <3>2
  <2> QED BY <2>1, <2>2, <2>3
<1> QED BY <1>1, <1>3, <1>4, SeqEqual

\* At the start all queues are empty and all locks free.
LEMMA InitDInv == Init => DInv
<1> SUFFICES ASSUME Init PROVE DInv
  OBVIOUS
<1>1. TypeOK
  BY NetAssumption, EmptySeq DEF Init, TypeOK, Thread
<1>2. HeldInv /\ CurInv
  BY NetAssumption DEF Init, HeldInv, CurInv, InRun, OwnsOut, Thread
<1>3. QueueInv
  BY NetAssumption DEF Init, QueueInv, Thread
<1>4. Delivered
  BY NetAssumption, ConcatEmptySeq, EmptySeq DEF Init, Delivered, Thread
<1> QED BY <1>1, <1>2, <1>3, <1>4, InitIInv DEF DInv

\* Taking a lock.
LEMMA GrabKeepsData == ASSUME NEW t \in Thread, DInv, Grab(t) PROVE DInv'
<1> DEFINE q == Out[t][k[t]]
<1> USE DEF DInv
<1>1. /\ pc[t] = "grab" /\ pc' = pc /\ k[t] <= Len(Out[t]) /\ mut[q] = None
      /\ mut' = [mut EXCEPT ![q] = t] /\ k' = [k EXCEPT ![t] = @ + 1]
      /\ UNCHANGED <<build, waiting, left, emits, cur, queueVars, fires, histVars>>
  BY DEF Grab, GrabNth
<1>2. k[t] \in 1..Len(Out[t]) /\ q \in Op /\ q # t
  <2>1. k[t] \in Nat \ {0}
    BY DEF IInv, LockTypeOK
  <2> QED BY <1>1, <2>1, OutProperties
<1>3. IInv'
  BY GrabStep
<1>4. TypeOK'
  <2>1. k \in [Thread -> Nat] /\ mut \in [Op -> Thread \cup {None}]
    BY DEF TypeOK
  <2>2. k' \in [Thread -> Nat]
    BY <1>1, <2>1
  <2>3. mut' \in [Op -> Thread \cup {None}]
    BY <1>1, <1>2, <2>1
  <2> QED BY <1>1, <2>2, <2>3 DEF TypeOK, queueVars, histVars
<1>5. /\ \A u \in Thread : k'[u] = IF u = t THEN k[u] + 1 ELSE k[u]
      /\ \A h \in Op : mut'[h] = IF h = q THEN t ELSE mut[h]
  BY <1>1, <1>2 DEF TypeOK
<1> HIDE DEF q
<1>6. HeldInv'
  <2>1. ASSUME NEW u \in Thread, u \in Op, pc'[u] = "drain" \/ InRun(u)' PROVE mut'[u] = u
    <3>1. mut[u] = u
      BY <1>1, <2>1 DEF HeldInv, InRun
    <3> QED BY <1>1, <1>5, <2>1, <3>1, OutProperties
  <2>2. ASSUME NEW u \in Thread, NEW h \in Op, OwnsOut(u, h)' PROVE mut'[h] = u
    <3>1. PICK i \in 1..Len(Out[u]) :
            /\ Out[u][i] = h
            /\ pc[u] = "grab" => i < k'[u]
            /\ pc[u] = "release" => i >= k'[u]
      BY <1>1, <2>2 DEF OwnsOut
    <3>2. k[u] \in Nat /\ InRun(u)
      BY <1>1, <2>2 DEF OwnsOut, InRun, TypeOK
    <3>3. CASE u = t /\ h = q
      BY <1>5, <3>3
    <3>4. CASE u # t
      <4>1. OwnsOut(u, h)
        BY <1>5, <3>1, <3>2, <3>4 DEF OwnsOut
      <4>2. mut[h] = u
        BY <4>1 DEF HeldInv
      <4> QED BY <1>1, <1>5, <4>2, OutProperties
    <3>5. CASE u = t /\ h # q
      <4>1. i < k[t] + 1 /\ i # k[t]
        BY <1>1, <1>5, <3>1, <3>5 DEF q
      <4>2. i < k[t]
        BY <1>2, <3>2, <3>5, <4>1
      <4>3. OwnsOut(u, h)
        BY <1>1, <3>1, <3>2, <3>5, <4>2 DEF OwnsOut
      <4>4. mut[h] = u
        BY <4>3 DEF HeldInv
      <4> QED BY <1>5, <3>5, <4>4
    <3> QED BY <3>3, <3>4, <3>5
  <2> QED BY <2>1, <2>2 DEF HeldInv
<1>7. CurInv'
  BY <1>1 DEF CurInv, InRun
<1>8. QueueInv'
  <2>1. ASSUME NEW o \in Op, mut'[o] \in {o, None}
        PROVE  mut[o] \in {o, None} /\ (mut'[o] = o => mut[o] = o)
    BY <1>2, <1>5, <2>1, OutProperties
  <2> QED BY <1>1, <2>1, QueueFrame
<1>9. Delivered'
  BY <1>1, DeliveredFrame
<1> QED BY <1>3, <1>4, <1>6, <1>7, <1>8, <1>9

\* A step of thread t that neither takes a lock nor gives one up.
LEMMA HeldFrame ==
  ASSUME DInv, NEW t \in Thread, mut' = mut,
         \A u \in Thread \ {t} : pc'[u] = pc[u] /\ k'[u] = k[u],
         t \in Op /\ (pc'[t] = "drain" \/ InRun(t)') => mut[t] = t,
         \A h \in Op : OwnsOut(t, h)' => mut[h] = t
  PROVE  HeldInv'
<1> SUFFICES ASSUME NEW u \in Thread
             PROVE  /\ u \in Op /\ (pc'[u] = "drain" \/ InRun(u)') => mut[u] = u
                    /\ \A h \in Op : OwnsOut(u, h)' => mut[h] = u
  BY DEF HeldInv
<1>1. CASE u = t
  BY <1>1
<1>2. CASE u # t
  BY <1>2 DEF DInv, HeldInv, InRun, OwnsOut
<1> QED BY <1>1, <1>2

\* The steps of a run that move no element.
LEMMA RunKeepsData ==
  ASSUME NEW t \in Thread, DInv, GrabbedAll(t) \/ Emitted(t) PROVE DInv'
<1> USE DEF DInv
<1>1. /\ UNCHANGED <<build, mut, waiting, left, cur, queueVars, fires, histVars>>
      /\ InRun(t)
      /\ \/ /\ pc[t] = "grab" /\ k[t] > Len(Out[t])
            /\ pc' = [pc EXCEPT ![t] = "emit"] /\ k' = k /\ emits' = [emits EXCEPT ![t] = 0]
         \/ /\ pc[t] = "emit" /\ pc' = [pc EXCEPT ![t] = "release"]
            /\ k' = [k EXCEPT ![t] = 1] /\ emits' = emits
  BY DEF GrabbedAll, Emitted, Goto, InRun
<1>2. pc \in [Thread -> {"idle", "grab", "emit", "release", "loop", "wait", "drain"}]
      /\ k \in [Thread -> Nat] /\ emits \in [Thread -> Nat]
  BY DEF TypeOK
<1>3. IInv'
  BY EmitStep
<1>4. TypeOK'
  <2>1. pc' \in [Thread -> {"idle", "grab", "emit", "release", "loop", "wait", "drain"}]
    BY <1>1, <1>2
  <2>2. k' \in [Thread -> Nat] /\ emits' \in [Thread -> Nat]
    BY <1>1, <1>2
  <2> QED BY <1>1, <2>1, <2>2 DEF TypeOK, queueVars, histVars
<1>5. HeldInv'
  <2>1. /\ \A u \in Thread \ {t} : pc'[u] = pc[u] /\ k'[u] = k[u]
        /\ t \in Op => mut[t] = t
    BY <1>1, <1>2 DEF HeldInv
  <2>2. ASSUME NEW h \in Op, OwnsOut(t, h)' PROVE mut[h] = t
    <3>1. PICK i \in 1..Len(Out[t]) : Out[t][i] = h
      BY <2>2 DEF OwnsOut
    <3>2. pc[t] # "release" /\ (pc[t] = "grab" => i < k[t])
      BY <1>1, <1>2, OutProperties
    <3>3. OwnsOut(t, h)
      BY <1>1, <3>1, <3>2 DEF OwnsOut
    <3> QED BY <3>3 DEF HeldInv
  <2> QED BY <1>1, <2>1, <2>2, HeldFrame
<1>6. CurInv'
  BY <1>1, <1>2 DEF CurInv, InRun
<1>7. QueueInv' /\ Delivered'
  BY <1>1, QueueFrame, DeliveredFrame
<1> QED BY <1>3, <1>4, <1>5, <1>6, <1>7

\* A run is over.
LEMMA RunDoneKeepsData == ASSUME NEW t \in Thread, DInv, RunDone(t) PROVE DInv'
<1> USE DEF DInv
<1>1. /\ UNCHANGED <<build, mut, waiting, k, left, emits, queueVars, fires, put>>
      /\ pc[t] = "release" /\ k[t] > Len(Out[t])
      /\ pc' = [pc EXCEPT ![t] = IF t \in Source THEN "idle" ELSE "drain"]
      /\ cur' = [cur EXCEPT ![t] = None]
      /\ ran' = IF t \in Source THEN ran ELSE [ran EXCEPT ![t] = Append(@, cur[t])]
  BY DEF RunDone, Goto
<1>2. /\ pc \in [Thread -> {"idle", "grab", "emit", "release", "loop", "wait", "drain"}]
      /\ cur \in [Thread -> Elem \cup {None}] /\ ran \in [Op -> Seq(Elem)]
      /\ k[t] \in Nat
  BY DEF TypeOK
<1>3. cur[t] \in Elem
  BY <1>1, <1>2 DEF CurInv, InRun
<1>4. IInv'
  BY RunDoneStep
<1>5. TypeOK'
  <2>1. /\ pc' \in [Thread -> {"idle", "grab", "emit", "release", "loop", "wait", "drain"}]
        /\ cur' \in [Thread -> Elem \cup {None}]
    BY <1>1, <1>2
  <2>2. Append(ran[t], cur[t]) \in Seq(Elem) \/ t \in Source
    BY <1>2, <1>3 DEF Thread
  <2>3. ran' \in [Op -> Seq(Elem)]
    BY <1>1, <1>2, <2>2
  <2> QED BY <1>1, <2>1, <2>3 DEF TypeOK, queueVars
<1>6. HeldInv'
  <2>1. \A u \in Thread \ {t} : pc'[u] = pc[u] /\ k'[u] = k[u]
    BY <1>1, <1>2
  <2>2. (t \in Op => mut[t] = t) /\ ~InRun(t)'
    BY <1>1, <1>2 DEF HeldInv, InRun
  <2> QED BY <1>1, <2>1, <2>2, HeldFrame DEF OwnsOut
<1>7. CurInv'
  BY <1>1, <1>2 DEF CurInv, InRun
<1>8. QueueInv'
  BY <1>1, QueueFrame
<1>9. Delivered'
  <2> SUFFICES ASSUME NEW o \in Op
        PROVE  put[o] = ran'[o] \o (IF cur'[o] = None THEN <<>> ELSE <<cur'[o]>>)
                          \o outgoing[o] \o buffer[o]
    BY <1>1 DEF Delivered, queueVars
  <2>1. CASE o # t
    <3>1. ran'[o] = ran[o] /\ cur'[o] = cur[o]
      BY <1>1, <1>2, <2>1 DEF Thread
    <3> QED BY <3>1 DEF Delivered
  <2>2. CASE o = t
    <3>1. t \notin Source /\ cur[t] # None
      BY <1>1, <2>2, NetAssumption DEF CurInv, InRun
    <3>2. ran'[o] = Append(ran[o], cur[o]) /\ cur'[o] = None
      BY <1>1, <1>2, <2>2, <3>1
    <3>3. Append(ran[o], cur[o]) \o <<>> = ran[o] \o <<cur[o]>>
      BY <1>2, <1>3, <2>2, AppendProperties, ConcatEmptySeq, AppendIsConcat
    <3> QED BY <2>2, <3>1, <3>2, <3>3 DEF Delivered
  <2> QED BY <2>1, <2>2
<1> QED BY <1>4, <1>5, <1>6, <1>7, <1>8, <1>9

\* A source starts to run.
LEMMA FireKeepsData == ASSUME NEW s \in Source, DInv, Fire(s) PROVE DInv'
<1> USE DEF DInv
<1>1. /\ UNCHANGED <<build, mut, waiting, left, emits, queueVars, histVars>>
      /\ pc[s] = "idle" /\ pc' = [pc EXCEPT ![s] = "grab"] /\ k' = [k EXCEPT ![s] = 1]
      /\ fires[s] < MaxFires /\ fires' = [fires EXCEPT ![s] = @ + 1]
      /\ cur' = [cur EXCEPT ![s] = <<s, fires[s] + 1>>]
  BY DEF Fire, Goto
<1>2. /\ pc \in [Thread -> {"idle", "grab", "emit", "release", "loop", "wait", "drain"}]
      /\ cur \in [Thread -> Elem \cup {None}] /\ k \in [Thread -> Nat]
      /\ fires \in [Source -> 0..MaxFires] /\ s \in Thread /\ s \notin Op
  BY NetAssumption DEF TypeOK, Thread
<1>3. fires[s] + 1 \in 1..MaxFires /\ <<s, fires[s] + 1>> \in Elem
      /\ <<s, fires[s] + 1>> # None
  <2>1. fires[s] + 1 \in 1..MaxFires
    BY <1>1, <1>2, NetAssumption
  <2> QED BY <2>1, NetAssumption DEF Elem
<1>4. IInv'
  BY FireStep
<1>5. TypeOK'
  <2>1. /\ pc' \in [Thread -> {"idle", "grab", "emit", "release", "loop", "wait", "drain"}]
        /\ cur' \in [Thread -> Elem \cup {None}] /\ k' \in [Thread -> Nat]
    BY <1>1, <1>2, <1>3
  <2>2. fires' \in [Source -> 0..MaxFires]
    BY <1>1, <1>2, <1>3, NetAssumption
  <2> QED BY <1>1, <2>1, <2>2 DEF TypeOK, queueVars, histVars
<1>6. HeldInv'
  <2>1. /\ \A u \in Thread \ {s} : pc'[u] = pc[u] /\ k'[u] = k[u]
        /\ pc'[s] = "grab" /\ k'[s] = 1
    BY <1>1, <1>2
  <2>2. ASSUME NEW h \in Op, OwnsOut(s, h)' PROVE FALSE
    BY <2>1, <2>2 DEF OwnsOut
  <2> QED BY <1>1, <1>2, <2>1, <2>2, HeldFrame
<1>7. CurInv'
  BY <1>1, <1>2, <1>3 DEF CurInv, InRun
<1>8. QueueInv' /\ Delivered'
  <2>1. \A o \in Op : cur'[o] = cur[o]
    BY <1>1, <1>2 DEF Thread
  <2> QED BY <1>1, <2>1, QueueFrame, DeliveredFrame
<1> QED BY <1>4, <1>5, <1>6, <1>7, <1>8

\* A worker goes to sleep, or stops sleeping.
LEMMA WaitKeepsData ==
  ASSUME NEW o \in Op, DInv, WaitForData(o) \/ SpuriousWakeup(o) PROVE DInv'
<1> USE DEF DInv
<1>1. /\ UNCHANGED <<build, mut, k, left, emits, cur, queueVars, fires, histVars>>
      /\ \/ pc' = pc
         \/ pc[o] = "loop" /\ pc' = [pc EXCEPT ![o] = "wait"]
      /\ \E b \in BOOLEAN : waiting' = [waiting EXCEPT ![o] = b]
  BY DEF WaitForData, SpuriousWakeup, Goto
<1>2. /\ pc \in [Thread -> {"idle", "grab", "emit", "release", "loop", "wait", "drain"}]
      /\ waiting \in [Op -> BOOLEAN] /\ o \in Thread
  BY DEF TypeOK, Thread
<1>3. IInv'
  BY WaitStep
<1>4. TypeOK'
  <2>1. /\ pc' \in [Thread -> {"idle", "grab", "emit", "release", "loop", "wait", "drain"}]
        /\ waiting' \in [Op -> BOOLEAN]
    BY <1>1, <1>2
  <2> QED BY <1>1, <2>1 DEF TypeOK, queueVars, histVars
<1>5. HeldInv'
  <2>1. \A u \in Thread : InRun(u)' = InRun(u) /\ (pc'[u] = "drain" <=> pc[u] = "drain")
    BY <1>1, <1>2 DEF InRun
  <2>2. \A u \in Thread, h \in Op : OwnsOut(u, h)' => OwnsOut(u, h)
    BY <1>1, <1>2, <2>1 DEF OwnsOut, InRun
  <2> QED BY <1>1, <2>1, <2>2 DEF HeldInv
<1>6. CurInv'
  BY <1>1, <1>2 DEF CurInv, InRun
<1>7. QueueInv' /\ Delivered'
  BY <1>1, QueueFrame, DeliveredFrame
<1> QED BY <1>3, <1>4, <1>5, <1>6, <1>7

\* A worker wakes up and looks how much there is.
LEMMA WakeKeepsData == ASSUME NEW o \in Op, DInv, Wake(o) PROVE DInv'
<1> USE DEF DInv
<1>1. /\ UNCHANGED <<build, waiting, k, emits, cur, queueVars, fires, histVars>>
      /\ pc[o] = "wait" /\ mut[o] = None /\ mut' = [mut EXCEPT ![o] = o]
      /\ left' = [left EXCEPT ![o] = Len(outgoing[o])]
      /\ pc' = [pc EXCEPT ![o] = "drain"]
  BY DEF Wake, Goto, PlannedGets
<1>2. /\ pc \in [Thread -> {"idle", "grab", "emit", "release", "loop", "wait", "drain"}]
      /\ mut \in [Op -> Thread \cup {None}] /\ left \in [Op -> Nat] /\ o \in Thread
      /\ Len(outgoing[o]) \in Nat
  BY DEF TypeOK, Thread
<1>3. IInv'
  BY WakeStep
<1>4. TypeOK'
  <2>1. pc' \in [Thread -> {"idle", "grab", "emit", "release", "loop", "wait", "drain"}]
    BY <1>1, <1>2
  <2>2. mut' \in [Op -> Thread \cup {None}] /\ left' \in [Op -> Nat]
    BY <1>1, <1>2
  <2> QED BY <1>1, <2>1, <2>2 DEF TypeOK, queueVars, histVars
<1>5. HeldInv'
  <2>1. ASSUME NEW u \in Thread, u \in Op, pc'[u] = "drain" \/ InRun(u)' PROVE mut'[u] = u
    BY <1>1, <1>2, <2>1 DEF HeldInv, InRun
  <2>2. ASSUME NEW u \in Thread, NEW h \in Op, OwnsOut(u, h)' PROVE mut'[h] = u
    <3>1. OwnsOut(u, h)
      BY <1>1, <1>2, <2>2 DEF OwnsOut, InRun
    <3>2. mut[h] = u /\ u # None
      BY <3>1, OutProperties DEF HeldInv
    <3> QED BY <1>1, <1>2, <3>2
  <2> QED BY <2>1, <2>2 DEF HeldInv
<1>6. CurInv'
  BY <1>1, <1>2 DEF CurInv, InRun
<1>7. QueueInv'
  <2> SUFFICES ASSUME NEW q \in Op
        PROVE  /\ pending[q] = Len(buffer[q])
               /\ ~build.twoStage => buffer[q] = <<>>
               /\ mut'[q] \in {q, None} => buffer[q] = <<>>
               /\ mut'[q] = q => left'[q] = Len(outgoing[q])
    BY <1>1 DEF QueueInv, queueVars
  <2>1. CASE q = o
    BY <1>1, <1>2, <2>1 DEF QueueInv
  <2>2. CASE q # o
    BY <1>1, <1>2, <2>2 DEF QueueInv
  <2> QED BY <2>1, <2>2
<1>8. Delivered'
  BY <1>1, DeliveredFrame
<1> QED BY <1>3, <1>4, <1>5, <1>6, <1>7, <1>8

\* A worker takes the next element.
LEMMA GetKeepsData == ASSUME NEW o \in Op, DInv, Get(o) PROVE DInv'
<1> USE DEF DInv
<1>1. /\ UNCHANGED <<build, mut, waiting, emits, buffer, pending, fires, put, ran>>
      /\ pc[o] = "drain" /\ left[o] > 0 /\ outgoing[o] # <<>>
      /\ left' = [left EXCEPT ![o] = @ - 1]
      /\ cur' = [cur EXCEPT ![o] = Head(outgoing[o])]
      /\ outgoing' = [outgoing EXCEPT ![o] = Tail(@)]
      /\ pc' = [pc EXCEPT ![o] = "grab"] /\ k' = [k EXCEPT ![o] = 1]
  BY DEF Get, Goto, NextElement, histVars
<1>2. /\ pc \in [Thread -> {"idle", "grab", "emit", "release", "loop", "wait", "drain"}]
      /\ left \in [Op -> Nat] /\ k \in [Thread -> Nat] /\ o \in Thread
      /\ cur \in [Thread -> Elem \cup {None}] /\ outgoing \in [Op -> Seq(Elem)]
  BY DEF TypeOK, Thread
<1>3. /\ Head(outgoing[o]) \in Elem /\ Tail(outgoing[o]) \in Seq(Elem)
      /\ Len(Tail(outgoing[o])) = Len(outgoing[o]) - 1
      /\ <<Head(outgoing[o])>> \o Tail(outgoing[o]) = outgoing[o]
  <2>1. outgoing[o] \in Seq(Elem)
    BY <1>2
  <2> QED BY <1>1, <2>1, HeadAndTail
<1>4. Head(outgoing[o]) # None
  BY <1>3, NetAssumption DEF Elem
<1>5. IInv'
  BY GetStep
<1>6. TypeOK'
  <2>1. pc' \in [Thread -> {"idle", "grab", "emit", "release", "loop", "wait", "drain"}]
    BY <1>1, <1>2
  <2>2. left' \in [Op -> Nat] /\ k' \in [Thread -> Nat]
    BY <1>1, <1>2
  <2>3. cur' \in [Thread -> Elem \cup {None}] /\ outgoing' \in [Op -> Seq(Elem)]
    BY <1>1, <1>2, <1>3
  <2> QED BY <1>1, <2>1, <2>2, <2>3 DEF TypeOK
<1>7. HeldInv'
  <2>1. /\ \A u \in Thread \ {o} : pc'[u] = pc[u] /\ k'[u] = k[u]
        /\ pc'[o] = "grab" /\ k'[o] = 1 /\ mut[o] = o
    BY <1>1, <1>2 DEF HeldInv
  <2>2. ASSUME NEW h \in Op, OwnsOut(o, h)' PROVE FALSE
    BY <2>1, <2>2 DEF OwnsOut
  <2> QED BY <1>1, <1>2, <2>1, <2>2, HeldFrame
<1>8. CurInv'
  BY <1>1, <1>2, <1>4 DEF CurInv, InRun
<1>9. QueueInv'
  <2> SUFFICES ASSUME NEW q \in Op
        PROVE  /\ pending[q] = Len(buffer[q])
               /\ ~build.twoStage => buffer[q] = <<>>
               /\ mut[q] \in {q, None} => buffer[q] = <<>>
               /\ mut[q] = q => left'[q] = Len(outgoing'[q])
    BY <1>1 DEF QueueInv
  <2>1. CASE q = o
    BY <1>1, <1>2, <1>3, <2>1 DEF QueueInv
  <2>2. CASE q # o
    BY <1>1, <1>2, <2>2 DEF QueueInv
  <2> QED BY <2>1, <2>2
<1>10. Delivered'
  <2> SUFFICES ASSUME NEW q \in Op
        PROVE  put[q] = ran[q] \o (IF cur'[q] = None THEN <<>> ELSE <<cur'[q]>>)
                          \o outgoing'[q] \o buffer[q]
    BY <1>1 DEF Delivered
  <2>1. CASE q # o
    BY <1>1, <1>2, <2>1 DEF Delivered, Thread
  <2>2. CASE q = o
    <3>1. cur[o] = None /\ cur'[o] = Head(outgoing[o]) /\ outgoing'[o] = Tail(outgoing[o])
      BY <1>1, <1>2 DEF CurInv, InRun
    <3>2. ran[o] \in Seq(Elem) /\ <<Head(outgoing[o])>> \in Seq(Elem)
      BY <1>3 DEF TypeOK
    <3>3. (ran[o] \o <<Head(outgoing[o])>>) \o Tail(outgoing[o]) = ran[o] \o outgoing[o]
      <4> DEFINE x == <<Head(outgoing[o])>>
                 y == Tail(outgoing[o])
      <4>1. ran[o] \in Seq(Elem) /\ x \in Seq(Elem) /\ y \in Seq(Elem) /\ x \o y = outgoing[o]
        BY <1>3, <3>2
      <4> HIDE DEF x, y
      <4>2. (ran[o] \o x) \o y = ran[o] \o (x \o y)
        BY <4>1, Associative
      <4> QED BY <4>1, <4>2 DEF x, y
    <3>4. ran[o] \o <<>> = ran[o]
      BY <3>2, ConcatEmptySeq
    <3> QED BY <1>4, <2>2, <3>1, <3>3, <3>4 DEF Delivered
  <2> QED BY <2>1, <2>2
<1> QED BY <1>5, <1>6, <1>7, <1>8, <1>9, <1>10

\* release_wsfifo moves all that has been put, behind what is there.
LEMMA MoveAll ==
  ASSUME DInv, NEW q \in Op, MovePending(q)
  PROVE  /\ outgoing' = [outgoing EXCEPT ![q] = @ \o buffer[q]]
         /\ buffer' = [buffer EXCEPT ![q] = <<>>]
         /\ pending' = [pending EXCEPT ![q] = 0]
         /\ outgoing' \in [Op -> Seq(Elem)] /\ buffer' \in [Op -> Seq(Elem)]
         /\ pending' \in [Op -> Nat]
<1>1. /\ outgoing \in [Op -> Seq(Elem)] /\ buffer \in [Op -> Seq(Elem)]
      /\ pending \in [Op -> Nat] /\ pending[q] = Len(buffer[q])
  BY DEF DInv, TypeOK, QueueInv
<1>2. SubSeq(buffer[q], 1, pending[q]) = buffer[q]
  BY <1>1, SubSeqFull
<1>3. SubSeq(buffer[q], pending[q] + 1, Len(buffer[q])) = <<>>
  <2>1. Len(buffer[q]) \in Nat
    BY <1>1
  <2> QED BY <1>1, <2>1, SubSeqEmpty
<1>4. /\ outgoing' = [outgoing EXCEPT ![q] = @ \o buffer[q]]
      /\ buffer' = [buffer EXCEPT ![q] = <<>>] /\ pending' = [pending EXCEPT ![q] = 0]
  BY <1>2, <1>3 DEF MovePending
<1>5. outgoing[q] \o buffer[q] \in Seq(Elem) /\ <<>> \in Seq(Elem)
  BY <1>1, ConcatProperties, EmptySeq
<1> QED BY <1>1, <1>4, <1>5

\* A release leaves the elements of each queue in their order.
LEMMA MoveKeepsDelivered ==
  ASSUME DInv, NEW q \in Op, MovePending(q), UNCHANGED <<put, ran, cur>>
  PROVE  Delivered'
<1> SUFFICES ASSUME NEW o \in Op
      PROVE  put[o] = ran[o] \o (IF cur[o] = None THEN <<>> ELSE <<cur[o]>>)
                        \o outgoing'[o] \o buffer'[o]
  BY DEF Delivered
<1>1. outgoing \in [Op -> Seq(Elem)] /\ buffer \in [Op -> Seq(Elem)]
      /\ ran[o] \in Seq(Elem) /\ cur[o] \in Elem \cup {None}
  BY DEF DInv, TypeOK, Thread
<1>2. put[o] = ran[o] \o (IF cur[o] = None THEN <<>> ELSE <<cur[o]>>) \o outgoing[o] \o buffer[o]
  BY DEF DInv, Delivered
<1> DEFINE c == IF cur[o] = None THEN <<>> ELSE <<cur[o]>>
<1>3. CASE o = q
  <2>1. outgoing'[o] = outgoing[o] \o buffer[o] /\ buffer'[o] = <<>>
    BY <1>1, <1>3, MoveAll
  <2>2. ran[o] \o c \in Seq(Elem) /\ outgoing[o] \in Seq(Elem) /\ buffer[o] \in Seq(Elem)
    BY <1>1, ConcatProperties, EmptySeq
  <2> HIDE DEF c
  <2>3. ((ran[o] \o c) \o outgoing[o]) \o buffer[o] = (ran[o] \o c) \o (outgoing[o] \o buffer[o])
    <3> DEFINE x == ran[o] \o c
    <3>1. x \in Seq(Elem)
      BY <2>2
    <3> HIDE DEF x
    <3>2. (x \o outgoing[o]) \o buffer[o] = x \o (outgoing[o] \o buffer[o])
      BY <2>2, <3>1, Associative
    <3> QED BY <3>2 DEF x
  <2>4. (ran[o] \o c) \o (outgoing[o] \o buffer[o]) \in Seq(Elem)
    BY <2>2, ConcatProperties
  <2>5. ((ran[o] \o c) \o (outgoing[o] \o buffer[o])) \o <<>>
          = (ran[o] \o c) \o (outgoing[o] \o buffer[o])
    BY <2>4, ConcatEmptySeq
  <2> QED BY <1>2, <2>1, <2>3, <2>5 DEF c
<1>4. CASE o # q
  BY <1>1, <1>2, <1>4, MoveAll
<1> QED BY <1>3, <1>4

\* A worker lets go of its queue.
LEMMA EndDrainKeepsData == ASSUME NEW o \in Op, DInv, EndDrain(o) PROVE DInv'
<1> USE DEF DInv
<1>1. /\ UNCHANGED <<build, waiting, k, left, emits, cur, fires, put, ran>>
      /\ pc[o] = "drain" /\ mut' = [mut EXCEPT ![o] = None] /\ MovePending(o)
      /\ pc' = [pc EXCEPT ![o] = "loop"]
  BY DEF EndDrain, Release, Goto, histVars
<1>2. /\ pc \in [Thread -> {"idle", "grab", "emit", "release", "loop", "wait", "drain"}]
      /\ mut \in [Op -> Thread \cup {None}] /\ o \in Thread
      /\ outgoing \in [Op -> Seq(Elem)] /\ buffer \in [Op -> Seq(Elem)]
      /\ pending \in [Op -> Nat]
  BY DEF TypeOK, Thread
<1>3. mut[o] = o
  BY <1>1, <1>2 DEF HeldInv
<1>4. IInv'
  BY EndDrainStep
<1>5. TypeOK'
  <2>1. pc' \in [Thread -> {"idle", "grab", "emit", "release", "loop", "wait", "drain"}]
        /\ mut' \in [Op -> Thread \cup {None}]
    BY <1>1, <1>2
  <2>2. outgoing' \in [Op -> Seq(Elem)] /\ buffer' \in [Op -> Seq(Elem)]
        /\ pending' \in [Op -> Nat]
    BY <1>1, MoveAll
  <2> QED BY <1>1, <2>1, <2>2 DEF TypeOK
<1>6. HeldInv'
  <2>1. ASSUME NEW u \in Thread, u \in Op, pc'[u] = "drain" \/ InRun(u)' PROVE mut'[u] = u
    BY <1>1, <1>2, <2>1 DEF HeldInv, InRun
  <2>2. ASSUME NEW u \in Thread, NEW h \in Op, OwnsOut(u, h)' PROVE mut'[h] = u
    <3>1. OwnsOut(u, h) /\ u # o
      BY <1>1, <1>2, <2>2 DEF OwnsOut, InRun
    <3>2. mut[h] = u
      BY <3>1 DEF HeldInv
    <3> QED BY <1>1, <1>2, <1>3, <3>1, <3>2
  <2> QED BY <2>1, <2>2 DEF HeldInv
<1>7. CurInv'
  BY <1>1, <1>2 DEF CurInv, InRun
<1>8. QueueInv'
  <2> SUFFICES ASSUME NEW q \in Op
        PROVE  /\ pending'[q] = Len(buffer'[q])
               /\ ~build.twoStage => buffer'[q] = <<>>
               /\ mut'[q] \in {q, None} => buffer'[q] = <<>>
               /\ mut'[q] = q => left[q] = Len(outgoing'[q])
    BY <1>1 DEF QueueInv
  <2>1. CASE q = o
    <3>1. pending'[q] = 0 /\ buffer'[q] = <<>> /\ mut'[q] = None
      BY <1>1, <1>2, <2>1, MoveAll
    <3> QED BY <2>1, <3>1, <1>2, OutProperties
  <2>2. CASE q # o
    <3>1. pending'[q] = pending[q] /\ buffer'[q] = buffer[q] /\ mut'[q] = mut[q]
          /\ outgoing'[q] = outgoing[q]
      BY <1>1, <1>2, <2>2, MoveAll
    <3> QED BY <3>1 DEF QueueInv
  <2> QED BY <2>1, <2>2
<1>9. Delivered'
  BY <1>1, MoveKeepsDelivered
<1> QED BY <1>4, <1>5, <1>6, <1>7, <1>8, <1>9

\* A thread lets go of the next downstream queue.
LEMMA ReleaseKeepsData == ASSUME NEW t \in Thread, DInv, ReleaseNext(t) PROVE DInv'
<1> DEFINE q == Out[t][k[t]]
<1> USE DEF DInv
<1>1. /\ UNCHANGED <<build, waiting, pc, left, emits, cur, fires, put, ran>>
      /\ pc[t] = "release" /\ k[t] <= Len(Out[t])
      /\ mut' = [mut EXCEPT ![q] = None] /\ MovePending(q)
      /\ k' = [k EXCEPT ![t] = @ + 1]
  BY DEF ReleaseNext, Release, histVars
<1>2. /\ mut \in [Op -> Thread \cup {None}] /\ k \in [Thread -> Nat]
      /\ outgoing \in [Op -> Seq(Elem)] /\ buffer \in [Op -> Seq(Elem)]
      /\ pending \in [Op -> Nat]
  BY DEF TypeOK
<1>3. k[t] \in 1..Len(Out[t]) /\ q \in Op /\ q # t
  <2>1. k[t] \in Nat \ {0}
    BY DEF IInv, LockTypeOK
  <2> QED BY <1>1, <2>1, OutProperties
<1>4. mut[q] = t
  <2>1. OwnsOut(t, q)
    BY <1>1, <1>3 DEF OwnsOut, InRun
  <2> QED BY <1>3, <2>1 DEF HeldInv
<1>5. IInv'
  BY ReleaseStep
<1>6. /\ \A u \in Thread : k'[u] = IF u = t THEN k[u] + 1 ELSE k[u]
      /\ \A h \in Op : mut'[h] = IF h = q THEN None ELSE mut[h]
  BY <1>1, <1>2, <1>3
<1>7. TypeOK'
  <2>1. k' \in [Thread -> Nat]
    BY <1>1, <1>2
  <2>2. mut' \in [Op -> Thread \cup {None}]
    BY <1>1, <1>2, <1>3
  <2>3. outgoing' \in [Op -> Seq(Elem)] /\ buffer' \in [Op -> Seq(Elem)]
        /\ pending' \in [Op -> Nat]
    BY <1>1, <1>3, MoveAll
  <2> QED BY <1>1, <2>1, <2>2, <2>3 DEF TypeOK
<1>8. HeldInv'
  <2>1. ASSUME NEW u \in Thread, u \in Op, pc'[u] = "drain" \/ InRun(u)' PROVE mut'[u] = u
    <3>1. mut[u] = u
      BY <1>1, <2>1 DEF HeldInv, InRun
    <3> QED BY <1>3, <1>4, <1>6, <2>1, <3>1
  <2>2. ASSUME NEW u \in Thread, NEW h \in Op, OwnsOut(u, h)' PROVE mut'[h] = u
    <3>1. PICK i \in 1..Len(Out[u]) :
            /\ Out[u][i] = h
            /\ pc[u] = "grab" => i < k'[u]
            /\ pc[u] = "release" => i >= k'[u]
      BY <1>1, <2>2 DEF OwnsOut
    <3>2. k[u] \in Nat /\ InRun(u)
      BY <1>1, <1>2, <2>2 DEF OwnsOut, InRun
    <3>3. CASE u # t
      <4>1. OwnsOut(u, h)
        BY <1>6, <3>1, <3>2, <3>3 DEF OwnsOut
      <4>2. mut[h] = u
        BY <4>1 DEF HeldInv
      <4> QED BY <1>4, <1>6, <3>3, <4>2
    <3>4. CASE u = t
      <4>1. i >= k[t] + 1
        BY <1>1, <1>6, <3>1, <3>4
      <4>2. i >= k[t] /\ i # k[t]
        BY <3>2, <3>4, <4>1
      <4>3. OwnsOut(u, h) /\ h # q
        BY <1>1, <1>3, <3>1, <3>2, <3>4, <4>2, OutProperties DEF OwnsOut
      <4>4. mut[h] = u
        BY <4>3 DEF HeldInv
      <4> QED BY <1>6, <4>3, <4>4
    <3> QED BY <3>3, <3>4
  <2> QED BY <2>1, <2>2 DEF HeldInv
<1>9. CurInv'
  BY <1>1 DEF CurInv, InRun
<1> HIDE DEF q
<1>10. QueueInv'
  <2> SUFFICES ASSUME NEW o \in Op
        PROVE  /\ pending'[o] = Len(buffer'[o])
               /\ ~build.twoStage => buffer'[o] = <<>>
               /\ mut'[o] \in {o, None} => buffer'[o] = <<>>
               /\ mut'[o] = o => left[o] = Len(outgoing'[o])
    BY <1>1 DEF QueueInv
  <2>1. CASE o = q
    <3>1. pending'[o] = 0 /\ buffer'[o] = <<>> /\ mut'[o] = None
      BY <1>1, <1>2, <1>3, <1>6, <2>1, MoveAll
    <3> QED BY <3>1, OutProperties DEF Thread
  <2>2. CASE o # q
    <3>1. pending'[o] = pending[o] /\ buffer'[o] = buffer[o] /\ mut'[o] = mut[o]
          /\ outgoing'[o] = outgoing[o]
      BY <1>1, <1>2, <1>3, <1>6, <2>2, MoveAll
    <3> QED BY <3>1 DEF QueueInv
  <2> QED BY <2>1, <2>2
<1>11. Delivered'
  BY <1>1, <1>3, MoveKeepsDelivered
<1> QED BY <1>5, <1>7, <1>8, <1>9, <1>10, <1>11

\* An element at the end of the second of two sequences is at the end of both.
LEMMA AppendLast ==
  ASSUME NEW s \in Seq(Elem), NEW u \in Seq(Elem), NEW e \in Elem
  PROVE  Append(s \o u, e) = s \o Append(u, e)
<1>1. s \o u \in Seq(Elem) /\ <<e>> \in Seq(Elem)
  BY ConcatProperties
<1>2. Append(s \o u, e) = (s \o u) \o <<e>> /\ Append(u, e) = u \o <<e>>
  BY <1>1, AppendIsConcat
<1>3. (s \o u) \o <<e>> = s \o (u \o <<e>>)
  BY <1>1, Associative
<1> QED BY <1>2, <1>3

\* An element goes behind all others into each queue downstream, all of which the
\* emitting thread holds.
LEMMA EmitKeepsData == ASSUME NEW t \in Thread, DInv, Emit(t) PROVE DInv'
<1> USE DEF DInv
<1> DEFINE fed(f) == [o \in Op |-> IF o \in Downstream(t) THEN Append(f[o], cur[t]) ELSE f[o]]
<1>1. /\ UNCHANGED <<build, mut, pc, k, left, cur, fires, ran>> /\ pc[t] = "emit"
      /\ emits' = [emits EXCEPT ![t] = @ + 1]
      /\ waiting' = [o \in Op |-> waiting[o] /\ o \notin Downstream(t)]
      /\ put' = fed(put)
      /\ \/ /\ build.twoStage /\ buffer' = fed(buffer) /\ outgoing' = outgoing
            /\ pending' = [o \in Op |->
                 IF o \in Downstream(t) THEN pending[o] + 1 ELSE pending[o]]
         \/ /\ ~build.twoStage /\ outgoing' = fed(outgoing)
            /\ UNCHANGED <<buffer, pending>>
  BY DEF Emit
<1>2. /\ outgoing \in [Op -> Seq(Elem)] /\ buffer \in [Op -> Seq(Elem)]
      /\ put \in [Op -> Seq(Elem)] /\ ran \in [Op -> Seq(Elem)]
      /\ pending \in [Op -> Nat] /\ emits \in [Thread -> Nat]
      /\ cur \in [Thread -> Elem \cup {None}] /\ waiting \in [Op -> BOOLEAN]
  BY DEF TypeOK
<1>3. cur[t] \in Elem
  BY <1>1, <1>2 DEF CurInv, InRun
<1>4. ASSUME NEW o \in Op, o \in Downstream(t) PROVE mut[o] = t /\ o # t
  <2>1. PICK i \in DOMAIN Out[t] : Out[t][i] = o
    BY <1>4 DEF Downstream
  <2>2. i \in 1..Len(Out[t])
    BY <2>1, OutProperties
  <2>3. OwnsOut(t, o)
    BY <1>1, <2>1, <2>2 DEF OwnsOut, InRun
  <2> QED BY <2>1, <2>2, <2>3, OutProperties DEF HeldInv
<1>5. IInv'
  BY EmitStep
<1>6. \A f \in [Op -> Seq(Elem)] : fed(f) \in [Op -> Seq(Elem)]
  BY <1>3
<1>7. TypeOK'
  <2>1. emits' \in [Thread -> Nat]
    <3>1. emits \in [Thread -> Nat] /\ emits' = [emits EXCEPT ![t] = @ + 1]
      BY <1>1, <1>2
    <3> QED BY <3>1
  <2>2. waiting' \in [Op -> BOOLEAN]
    BY <1>1
  <2>3. put' \in [Op -> Seq(Elem)] /\ outgoing' \in [Op -> Seq(Elem)]
        /\ buffer' \in [Op -> Seq(Elem)]
    BY <1>1, <1>2, <1>6
  <2>4. pending' \in [Op -> Nat]
    <3>1. pending \in [Op -> Nat]
      BY <1>2
    <3>2. \/ pending' = pending
          \/ pending' = [o \in Op |->
                 IF o \in Downstream(t) THEN pending[o] + 1 ELSE pending[o]]
      BY <1>1
    <3> QED BY <3>1, <3>2
  <2> QED BY <1>1, <2>1, <2>2, <2>3, <2>4 DEF TypeOK
<1>8. HeldInv' /\ CurInv'
  BY <1>1 DEF HeldInv, CurInv, OwnsOut, InRun
<1>9. QueueInv'
  <2> SUFFICES ASSUME NEW o \in Op
        PROVE  /\ pending'[o] = Len(buffer'[o])
               /\ ~build.twoStage => buffer'[o] = <<>>
               /\ mut[o] \in {o, None} => buffer'[o] = <<>>
               /\ mut[o] = o => left[o] = Len(outgoing'[o])
    BY <1>1 DEF QueueInv
  <2>1. CASE o \notin Downstream(t)
    <3>1. pending'[o] = pending[o] /\ buffer'[o] = buffer[o] /\ outgoing'[o] = outgoing[o]
      BY <1>1, <2>1
    <3> QED BY <3>1 DEF QueueInv
  <2>2. CASE o \in Downstream(t)
    <3>1. mut[o] \notin {o, None}
      BY <1>4, <2>2, OutProperties
    <3>2. CASE build.twoStage
      <4>1. pending'[o] = pending[o] + 1 /\ buffer'[o] = Append(buffer[o], cur[t])
        BY <1>1, <2>2, <3>2
      <4>2. Len(Append(buffer[o], cur[t])) = Len(buffer[o]) + 1
        BY <1>2, <1>3, AppendProperties
      <4> QED BY <3>1, <3>2, <4>1, <4>2 DEF QueueInv
    <3>3. CASE ~build.twoStage
      BY <1>1, <3>1, <3>3 DEF QueueInv
    <3> QED BY <3>2, <3>3
  <2> QED BY <2>1, <2>2
<1>10. Delivered'
  <2> SUFFICES ASSUME NEW o \in Op
        PROVE  put'[o] = ran[o] \o (IF cur[o] = None THEN <<>> ELSE <<cur[o]>>)
                          \o outgoing'[o] \o buffer'[o]
    BY <1>1 DEF Delivered
  <2> DEFINE d == ran[o] \o (IF cur[o] = None THEN <<>> ELSE <<cur[o]>>)
  <2>1. d \in Seq(Elem) /\ put[o] = (d \o outgoing[o]) \o buffer[o]
        /\ d \o outgoing[o] \in Seq(Elem) /\ buffer[o] \in Seq(Elem) /\ outgoing[o] \in Seq(Elem)
    <3>1. ran[o] \in Seq(Elem) /\ cur[o] \in Elem \cup {None}
      BY <1>2 DEF Thread
    <3>2. (IF cur[o] = None THEN <<>> ELSE <<cur[o]>>) \in Seq(Elem)
      BY <3>1
    <3>3. d \in Seq(Elem)
      BY <3>1, <3>2, ConcatProperties
    <3>4. outgoing[o] \in Seq(Elem) /\ buffer[o] \in Seq(Elem)
      BY <1>2
    <3> QED BY <3>3, <3>4, ConcatProperties DEF Delivered
  <2> SUFFICES put'[o] = (d \o outgoing'[o]) \o buffer'[o]
    OBVIOUS
  <2> HIDE DEF d
  <2>2. CASE o \notin Downstream(t)
    <3>1. put'[o] = put[o] /\ buffer'[o] = buffer[o] /\ outgoing'[o] = outgoing[o]
      BY <1>1, <2>2
    <3> QED BY <2>1, <3>1
  <2>3. CASE o \in Downstream(t) /\ build.twoStage
    <3>1. put'[o] = Append(put[o], cur[t]) /\ buffer'[o] = Append(buffer[o], cur[t])
          /\ outgoing'[o] = outgoing[o]
      BY <1>1, <2>3
    <3> DEFINE x == d \o outgoing[o]
    <3>2. x \in Seq(Elem) /\ put[o] = x \o buffer[o]
      BY <2>1
    <3> HIDE DEF x
    <3>3. Append(x \o buffer[o], cur[t]) = x \o Append(buffer[o], cur[t])
      BY <1>3, <2>1, <3>2, AppendLast
    <3> QED BY <3>1, <3>2, <3>3 DEF x
  <2>4. CASE o \in Downstream(t) /\ ~build.twoStage
    <3>1. put'[o] = Append(put[o], cur[t]) /\ outgoing'[o] = Append(outgoing[o], cur[t])
          /\ buffer'[o] = <<>> /\ buffer[o] = <<>>
      BY <1>1, <2>4 DEF QueueInv
    <3>2. put[o] = d \o outgoing[o]
      BY <2>1, <3>1, ConcatEmptySeq
    <3>3. Append(d \o outgoing[o], cur[t]) = d \o Append(outgoing[o], cur[t])
      BY <1>3, <2>1, AppendLast
    <3>4. d \o Append(outgoing[o], cur[t]) \in Seq(Elem)
      BY <1>3, <2>1, AppendProperties, ConcatProperties
    <3>5. (d \o Append(outgoing[o], cur[t])) \o <<>> = d \o Append(outgoing[o], cur[t])
      BY <3>4, ConcatEmptySeq
    <3> QED BY <3>1, <3>2, <3>3, <3>5
  <2> QED BY <2>2, <2>3, <2>4
<1> QED BY <1>5, <1>7, <1>8, <1>9, <1>10

\* What the queues hold is invariant.
THEOREM DataInvariance == SafeSpec => []DInv
<1>1. ASSUME DInv, [Next]_vars PROVE DInv'
  <2>1. ASSUME NEW t \in Thread, Run(t) PROVE DInv'
    BY <1>1, <2>1, GrabKeepsData, RunKeepsData, EmitKeepsData, ReleaseKeepsData,
       RunDoneKeepsData DEF Run
  <2>2. ASSUME NEW s \in Source, Fire(s) PROVE DInv'
    BY <1>1, <2>2, FireKeepsData
  <2>3. ASSUME NEW o \in Op, Work(o) \/ SpuriousWakeup(o) PROVE DInv'
    BY <1>1, <2>3, WaitKeepsData, WakeKeepsData, GetKeepsData, EndDrainKeepsData DEF Work
  <2>4. CASE UNCHANGED vars
    BY <1>1, <2>4 DEF vars, queueVars, histVars, DInv, TypeOK, IInv, LockTypeOK, HoldInv,
       OwnsOwn, OwnsOut, InRun, HeldInv, CurInv, QueueInv, Delivered
  <2> QED BY <1>1, <2>1, <2>2, <2>3, <2>4 DEF Next
<1> QED BY <1>1, InitDInv, PTL DEF SafeSpec

\* In any graph, with one stage or two: whoever puts elements into a queue has
\* moved them all to the reader's stage before the reader gets the lock, ...
THEOREM ReaderFindsAll == SafeSpec => []NothingPendingForReader
<1>1. DInv => NothingPendingForReader
  <2> SUFFICES ASSUME DInv, NEW o \in Op, mut[o] \in {o, None}
               PROVE  buffer[o] = <<>> /\ pending[o] = 0
    BY DEF NothingPendingForReader
  <2> QED BY EmptySeq DEF DInv, QueueInv
<1> QED BY <1>1, DataInvariance, PTL

\* ... every operator runs on what was emitted to it, in order, nothing lost or
\* repeated, ...
THEOREM DeliveredInOrder == SafeSpec => []Delivered
<1>1. DInv => Delivered
  BY DEF DInv
<1> QED BY <1>1, DataInvariance, PTL

\* ... and a worker never lets go of a queue that still holds an element: nobody
\* can put one in while it drains.
THEOREM DrainsFully == SafeSpec => DrainedOnRelease
<1>1. ASSUME DInv, [Next]_vars, NEW h \in Op, mut[h] = h, mut'[h] # h
      PROVE  outgoing'[h] = <<>>
  <2> USE DEF DInv
  <2>1. mut \in [Op -> Thread \cup {None}] /\ h \in Thread /\ h # None
    <3>1. h \in Thread
      BY DEF Thread
    <3>2. mut \in [Op -> Thread \cup {None}]
      BY <1>1 DEF TypeOK
    <3> QED BY <3>1, <3>2, OutProperties
  <2>2. ASSUME NEW t \in Thread, Run(t) PROVE FALSE
    <3>1. CASE Grab(t)
      BY <1>1, <2>1, <3>1 DEF Grab
    <3>2. CASE ReleaseNext(t)
      <4>1. /\ pc[t] = "release" /\ k[t] <= Len(Out[t])
            /\ mut' = [mut EXCEPT ![Out[t][k[t]]] = None]
        BY <3>2 DEF ReleaseNext, Release
      <4>2. k[t] \in 1..Len(Out[t])
        <5>1. k[t] \in Nat \ {0}
          <6>1. k \in [Thread -> Nat \ {0}]
            BY <1>1 DEF IInv, LockTypeOK
          <6> QED BY <6>1
        <5> QED BY <4>1, <5>1, OutProperties
      <4>3. Out[t][k[t]] \in Op /\ Out[t][k[t]] # t /\ OwnsOut(t, Out[t][k[t]])
        BY <4>1, <4>2, OutProperties DEF OwnsOut, InRun
      <4>4. mut[Out[t][k[t]]] = t
        <5> DEFINE q == Out[t][k[t]]
        <5>1. q \in Op /\ OwnsOut(t, q)
          BY <4>3
        <5> HIDE DEF q
        <5>2. mut[q] = t
          BY <1>1, <5>1 DEF HeldInv
        <5> QED BY <5>2 DEF q
      <4> QED BY <1>1, <2>1, <4>1, <4>3, <4>4
    <3>3. CASE GrabbedAll(t) \/ Emit(t) \/ Emitted(t) \/ RunDone(t)
      BY <1>1, <3>3 DEF GrabbedAll, Emit, Emitted, RunDone
    <3> QED BY <2>2, <3>1, <3>2, <3>3 DEF Run
  <2>3. ASSUME NEW s \in Source, Fire(s) PROVE FALSE
    BY <1>1, <2>3 DEF Fire
  <2>4. ASSUME NEW o \in Op, Work(o) \/ SpuriousWakeup(o) PROVE outgoing'[h] = <<>>
    <3>1. CASE EndDrain(o)
      <4>1. left[o] = 0 /\ mut' = [mut EXCEPT ![o] = None] /\ MovePending(o) /\ pc[o] = "drain"
        BY <3>1 DEF EndDrain, Release
      <4>2. h = o
        BY <1>1, <2>1, <4>1
      <4>3. outgoing[h] = <<>> /\ buffer[h] = <<>>
        <5>1. Len(outgoing[h]) = 0 /\ buffer[h] = <<>> /\ outgoing[h] \in Seq(Elem)
          BY <1>1, <4>1, <4>2 DEF QueueInv, TypeOK
        <5> QED BY <5>1, EmptySeq
      <4>4. outgoing'[h] = outgoing[h] \o buffer[h]
        <5>1. outgoing \in [Op -> Seq(Elem)]
          BY <1>1 DEF TypeOK
        <5> QED BY <1>1, <4>1, <4>2, <5>1, MoveAll
      <4> QED BY <4>3, <4>4, ConcatEmptySeq, EmptySeq
    <3>2. CASE Wake(o)
      BY <1>1, <2>1, <3>2 DEF Wake
    <3>3. CASE WaitForData(o) \/ Get(o) \/ SpuriousWakeup(o)
      BY <1>1, <3>3 DEF WaitForData, Get, SpuriousWakeup
    <3> QED BY <2>4, <3>1, <3>2, <3>3 DEF Work
  <2>5. CASE UNCHANGED vars
    BY <1>1, <2>5 DEF vars
  <2> QED BY <1>1, <2>2, <2>3, <2>4, <2>5 DEF Next
<1>2. DInv /\ [Next]_vars =>
        [\A o \in Op : mut[o] = o /\ mut'[o] # o => outgoing'[o] = <<>>]_vars
  BY <1>1
<1> QED BY <1>2, DataInvariance, PTL DEF SafeSpec, DrainedOnRelease

-----------------------------------------------------------------------------
(* The wiring pass that computes the graph.                                *)

\* Sequences of declarations.
DeclSet == [name : Nat \cup {BASE, NoName}, src : Seq(Nat)]

\* Names are declared once, BASE comes last, ...
NamesInv ==
  /\ \A i \in DOMAIN decls : decls[i].name \in 1..lets \cup {BASE, NoName}
  /\ \A i \in DOMAIN decls : decls[i].name = BASE => finished
  /\ \A i, j \in DOMAIN decls :
       i # j /\ decls[i].name = decls[j].name => decls[i].name = NoName

\* ... and operators read what was declared before them.
UpstreamInv ==
  \A i \in DOMAIN decls : \A q \in DOMAIN decls[i].src :
    \E j \in 1..(i - 1) : decls[j].name = decls[i].src[q]

\* Chains of aliases go down, to streams that have a declaration.
AliasInv ==
  /\ DOMAIN aliases \subseteq streams /\ streams \subseteq 1..lets
  /\ \A x \in DOMAIN aliases : aliases[x] \in streams /\ aliases[x] < x
  /\ \A v \in streams \ DOMAIN aliases : \E j \in DOMAIN decls : decls[j].name = v

WInv ==
  /\ lets \in 0..MaxLets /\ finished \in BOOLEAN
  /\ decls \in Seq(DeclSet)
  /\ NamesInv /\ UpstreamInv /\ AliasInv

-----------------------------------------------------------------------------
(* Induction.                                                              *)

LEMMA SetInduction ==
  ASSUME NEW T \in SUBSET Nat, 0 \in T, \A n \in T : n + 1 \in T
  PROVE  T = Nat
<1> SUFFICES ASSUME Nat \ T # {} PROVE FALSE
  OBVIOUS
<1> DEFINE R == {p \in Nat \X Nat : p[1] < p[2]}
<1>1. IsWellFoundedOn(R, Nat)
  BY NatLessThanWellFounded DEF OpToRel
<1>2. \A x, y \in Nat : x < y => <<x, y>> \in R
  OBVIOUS
<1> HIDE DEF R
<1>3. PICK x \in Nat \ T : \A y \in Nat \ T : ~ (<<y, x>> \in R)
  BY <1>1, WFMin
<1>4. x # 0 /\ x - 1 \in Nat /\ x - 1 < x /\ (x - 1) + 1 = x
  BY <1>3
<1>5. x - 1 \in T
  BY <1>2, <1>3, <1>4
<1> QED BY <1>3, <1>4, <1>5

-----------------------------------------------------------------------------
(* Aliases.                                                                *)

\* real exists.
LEMMA RealExists ==
  ASSUME lets \in 0..MaxLets, AliasInv
  PROVE  \E f : f = [x \in 1..MaxLets |-> IF x \in DOMAIN aliases THEN f[aliases[x]] ELSE x]
<1> DEFINE Is(f, x) == f[x] = IF x \in DOMAIN aliases THEN f[aliases[x]] ELSE x
           T == {n \in Nat : \E f : \A x \in 1..n : Is(f, x)}
<1> USE WiringAssumption
<1>0. ASSUME NEW x \in DOMAIN aliases PROVE x \in Nat /\ aliases[x] \in 1..(x - 1)
  <2>1. x \in 1..lets /\ aliases[x] \in 1..lets /\ aliases[x] < x
    BY DEF AliasInv
  <2> QED BY <2>1
<1>1. 0 \in T
  OBVIOUS
<1>2. ASSUME NEW n \in T PROVE n + 1 \in T
  <2>1. PICK f : \A x \in 1..n : Is(f, x)
    OBVIOUS
  <2> DEFINE top == IF n + 1 \in DOMAIN aliases THEN f[aliases[n + 1]] ELSE n + 1
             g == [x \in 1..(n + 1) |-> IF x = n + 1 THEN top ELSE f[x]]
  <2>2. \A x \in 1..n : g[x] = f[x]
    OBVIOUS
  <2>3. g[n + 1] = top
    OBVIOUS
  <2> HIDE DEF g
  <2>4. ASSUME NEW x \in 1..n PROVE Is(g, x)
    <3>1. x \in DOMAIN aliases => aliases[x] \in 1..n
      BY <1>0
    <3> QED BY <2>1, <2>2, <3>1
  <2>5. Is(g, n + 1)
    <3>1. n + 1 \in DOMAIN aliases => aliases[n + 1] \in 1..n
      BY <1>0
    <3> QED BY <2>2, <2>3, <3>1
  <2>6. \A x \in 1..(n + 1) : Is(g, x)
    <3>1. \A x \in 1..(n + 1) : x \in 1..n \/ x = n + 1
      OBVIOUS
    <3> QED BY <2>4, <2>5, <3>1
  <2> QED BY <2>6
<1>3. MaxLets \in T
  <2> HIDE DEF T
  <2>1. T \subseteq Nat
    BY DEF T
  <2> QED BY <1>1, <1>2, <2>1, SetInduction
<1>4. PICK f : \A x \in 1..MaxLets : Is(f, x)
  BY <1>3
<1> DEFINE g == [x \in 1..MaxLets |-> f[x]]
<1>5. ASSUME NEW x \in 1..MaxLets
      PROVE  f[x] = IF x \in DOMAIN aliases THEN g[aliases[x]] ELSE x
  <2>1. x \in DOMAIN aliases => aliases[x] \in 1..MaxLets
    BY <1>0
  <2> QED BY <1>4, <2>1
<1>6. g = [x \in 1..MaxLets |-> IF x \in DOMAIN aliases THEN g[aliases[x]] ELSE x]
  <2> DEFINE h == [x \in 1..MaxLets |-> IF x \in DOMAIN aliases THEN g[aliases[x]] ELSE x]
  <2>1. \A x \in 1..MaxLets : h[x] = f[x]
    BY <1>5
  <2> QED BY <2>1
<1> QED BY <1>6

\* Dealias returns a stream that is not an alias.
LEMMA DealiasFinds ==
  ASSUME lets \in 0..MaxLets, AliasInv, NEW v \in streams
  PROVE  Dealias(v) \in streams \ DOMAIN aliases
<1> DEFINE real == CHOOSE f :
             f = [x \in 1..MaxLets |-> IF x \in DOMAIN aliases THEN f[aliases[x]] ELSE x]
           T == {n \in Nat : \A x \in streams : x <= n => real[x] \in streams \ DOMAIN aliases}
<1> USE WiringAssumption
<1>1. real = [x \in 1..MaxLets |-> IF x \in DOMAIN aliases THEN real[aliases[x]] ELSE x]
  BY RealExists
<1>2. Dealias(v) = real[v]
  BY DEF Dealias
<1> HIDE DEF real
<1>3. streams \subseteq 1..MaxLets
  BY DEF AliasInv
<1>4. 0 \in T
  BY <1>3
<1>5. ASSUME NEW n \in T PROVE n + 1 \in T
  <2>1. SUFFICES ASSUME NEW x \in streams, x = n + 1
                 PROVE  real[x] \in streams \ DOMAIN aliases
    BY <1>3
  <2>2. real[x] = IF x \in DOMAIN aliases THEN real[aliases[x]] ELSE x
    BY <1>1, <1>3
  <2>3. CASE x \in DOMAIN aliases
    <3>1. aliases[x] \in streams /\ aliases[x] < x
      BY <2>3 DEF AliasInv
    <3>2. aliases[x] <= n
      <4>1. aliases[x] \in 1..MaxLets /\ n \in Nat
        BY <1>3, <3>1
      <4> QED BY <2>1, <3>1, <4>1
    <3> QED BY <2>2, <2>3, <3>1, <3>2
  <2>4. CASE x \notin DOMAIN aliases
    BY <2>2, <2>4
  <2> QED BY <2>3, <2>4
<1>6. v \in T
  <2> HIDE DEF T
  <2>1. T \subseteq Nat
    BY DEF T
  <2>2. v \in Nat
    BY <1>3
  <2> QED BY <1>4, <1>5, <2>1, <2>2, SetInduction
<1>7. real[v] \in streams \ DOMAIN aliases
  BY <1>3, <1>6
<1> QED BY <1>2, <1>7

-----------------------------------------------------------------------------
(* Outgoing lists.                                                         *)

\* GatherRefs keeps the names of exactly the declarations that read v, in order.
LEMMA GatherRefsKeeps ==
  ASSUME NEW v, NEW ds \in Seq(DeclSet)
  PROVE  LET out == GatherRefs(v, ds) IN
         /\ out \in Seq(Nat \cup {BASE, NoName})
         /\ \E pos \in [1..Len(out) -> DOMAIN ds] :
              /\ \A q \in 1..Len(out) : ReadBy(v, ds[pos[q]]) /\ out[q] = ds[pos[q]].name
              /\ \A q, m \in 1..Len(out) : q < m => pos[q] < pos[m]
              /\ \A i \in DOMAIN ds : ReadBy(v, ds[i]) => \E q \in 1..Len(out) : pos[q] = i
<1> DEFINE N == Nat \cup {BASE, NoName}
           Step(s, d) == IF ReadBy(v, d) THEN Append(s, d.name) ELSE s
           Is(f, i) == f[i] = IF i = 0 THEN <<>> ELSE Step(f[i - 1], ds[i])
           Kept(s, n, pos) ==
             /\ \A q \in 1..Len(s) : ReadBy(v, ds[pos[q]]) /\ s[q] = ds[pos[q]].name
             /\ \A q, m \in 1..Len(s) : q < m => pos[q] < pos[m]
             /\ \A i \in 1..n : ReadBy(v, ds[i]) => \E q \in 1..Len(s) : pos[q] = i
           Good(s, n) == s \in Seq(N) /\ \E pos \in [1..Len(s) -> 1..n] : Kept(s, n, pos)
<1>0. Len(ds) \in Nat /\ DOMAIN ds = 1..Len(ds)
  OBVIOUS
\* The recursive function exists.
<1>1. \E f : f = [i \in 0..Len(ds) |-> IF i = 0 THEN <<>> ELSE Step(f[i - 1], ds[i])]
  <2> HIDE DEF Step
  <2> DEFINE T == {n \in Nat : \E f : \A i \in 0..n : Is(f, i)}
  <2>1. 0 \in T
    <3> DEFINE f == [i \in 0..0 |-> <<>>]
    <3>1. \A i \in 0..0 : Is(f, i)
      OBVIOUS
    <3> QED BY <3>1
  <2>2. ASSUME NEW n \in T PROVE n + 1 \in T
    <3>1. PICK f : \A i \in 0..n : Is(f, i)
      OBVIOUS
    <3> DEFINE top == Step(f[n], ds[n + 1])
               g == [i \in 0..(n + 1) |-> IF i = n + 1 THEN top ELSE f[i]]
    <3>2. g[n + 1] = top /\ \A i \in 0..n : g[i] = f[i]
      OBVIOUS
    <3>3. \A i \in 0..(n + 1) : (i \in 0..n /\ (i = 0 \/ i - 1 \in 0..n)) \/ (i = n + 1 /\ i # 0 /\ i - 1 = n)
      OBVIOUS
    <3> HIDE DEF g
    <3>4. ASSUME NEW i \in 0..n PROVE Is(g, i)
      BY <3>1, <3>2, <3>3
    <3>5. Is(g, n + 1)
      BY <3>2, <3>3
    <3> QED BY <3>3, <3>4, <3>5
  <2>3. Len(ds) \in T
    <3> HIDE DEF T
    <3>1. T \subseteq Nat
      BY DEF T
    <3> QED BY <1>0, <2>1, <2>2, <3>1, SetInduction
  <2>4. PICK f : \A i \in 0..Len(ds) : Is(f, i)
    BY <2>3
  <2> DEFINE g == [i \in 0..Len(ds) |-> f[i]]
             h == [i \in 0..Len(ds) |-> IF i = 0 THEN <<>> ELSE Step(g[i - 1], ds[i])]
  <2>5. ASSUME NEW i \in 0..Len(ds) PROVE h[i] = f[i]
    <3>1. i = 0 \/ i - 1 \in 0..Len(ds)
      BY <1>0
    <3> QED BY <2>4, <3>1
  <2>6. g = h
    BY <2>5
  <2> QED BY <2>6
<1> DEFINE refs == CHOOSE f : f = [i \in 0..Len(ds) |-> IF i = 0 THEN <<>> ELSE Step(f[i - 1], ds[i])]
<1>2. refs = [i \in 0..Len(ds) |-> IF i = 0 THEN <<>> ELSE Step(refs[i - 1], ds[i])]
  BY <1>1
<1>3. GatherRefs(v, ds) = refs[Len(ds)]
  BY DEF GatherRefs
<1> HIDE DEF refs
\* Each prefix is gathered right.
<1> DEFINE U == {n \in Nat : n <= Len(ds) => Good(refs[n], n)}
<1>4. 0 \in U
  <2>1. refs[0] = <<>>
    BY <1>0, <1>2
  <2>2. <<>> \in Seq(N) /\ Len(<<>>) = 0
    OBVIOUS
  <2> DEFINE pos == [q \in 1..0 |-> q]
  <2>3. pos \in [1..0 -> 1..0] /\ Kept(<<>>, 0, pos)
    OBVIOUS
  <2> HIDE DEF Kept, pos
  <2>4. Good(refs[0], 0)
    BY <2>1, <2>2, <2>3
  <2> QED BY <2>4
<1>5. ASSUME NEW n \in U PROVE n + 1 \in U
  <2> HIDE DEF Good
  <2> SUFFICES ASSUME n + 1 <= Len(ds) PROVE Good(refs[n + 1], n + 1)
    OBVIOUS
  <2> DEFINE s == refs[n]
             d == ds[n + 1]
  <2>0. n \in Nat /\ n <= Len(ds) /\ n + 1 \in 0..Len(ds) /\ n + 1 # 0 /\ (n + 1) - 1 = n
    BY <1>0
  <2>1. refs[n + 1] = Step(s, d)
    <3> HIDE DEF Step
    <3>1. refs[n + 1] = Step(refs[(n + 1) - 1], ds[n + 1])
      BY <1>2, <2>0
    <3> QED BY <2>0, <3>1
  <2>2. Good(s, n)
    BY <2>0
  <2> USE DEF Good
  <2>3. d \in DeclSet
    BY <1>0, <2>0
  <2>4. PICK pos \in [1..Len(s) -> 1..n] : Kept(s, n, pos)
    BY <2>2
  <2>5. s \in Seq(N) /\ Len(s) \in Nat
    BY <2>2
  <2> HIDE DEF s, d
  <2>6. CASE ReadBy(v, d)
    <3> DEFINE t == Append(s, d.name)
               p == [q \in 1..Len(t) |-> IF q = Len(t) THEN n + 1 ELSE pos[q]]
    <3>1. t \in Seq(N) /\ Len(t) = Len(s) + 1 /\ t[Len(t)] = d.name
      BY <2>3, <2>5 DEF DeclSet
    <3>2. \A q \in 1..Len(s) : t[q] = s[q]
      BY <2>3, <2>5 DEF DeclSet
    <3> HIDE DEF t
    <3>3. \A q \in 1..Len(t) : q \in 1..Len(s) \/ q = Len(t)
      BY <2>5, <3>1
    <3>4. \A q \in 1..Len(s) : q \in 1..Len(t) /\ q # Len(t)
      BY <2>5, <3>1
    <3>5. p[Len(t)] = n + 1 /\ \A q \in 1..Len(s) : p[q] = pos[q]
      BY <2>5, <3>1, <3>4
    <3>6. p \in [1..Len(t) -> 1..(n + 1)]
      <4>1. \A q \in 1..Len(t) : (IF q = Len(t) THEN n + 1 ELSE pos[q]) \in 1..(n + 1)
        <5>1. \A j \in 1..n : j \in 1..(n + 1)
          BY <2>0
        <5>2. \A q \in 1..Len(s) : pos[q] \in 1..n
          BY <2>4
        <5>3. n + 1 \in 1..(n + 1)
          BY <2>0
        <5> QED BY <3>3, <5>1, <5>2, <5>3
      <4> QED BY <4>1
    <3> HIDE DEF p
    <3>7. \A q \in 1..Len(t) : ReadBy(v, ds[p[q]]) /\ t[q] = ds[p[q]].name
      BY <2>4, <2>6, <3>1, <3>2, <3>3, <3>5 DEF d
    <3>8. \A q, m \in 1..Len(t) : q < m => p[q] < p[m]
      <4> SUFFICES ASSUME NEW q \in 1..Len(t), NEW m \in 1..Len(t), q < m PROVE p[q] < p[m]
        OBVIOUS
      <4>1. q \in 1..Len(s)
        BY <2>5, <3>1
      <4>0. pos[q] \in 1..n
        BY <2>4, <4>1
      <4>2. CASE m = Len(t)
        BY <2>0, <3>5, <4>0, <4>1, <4>2
      <4>3. CASE m \in 1..Len(s)
        BY <2>4, <3>5, <4>1, <4>3
      <4> QED BY <3>3, <4>2, <4>3
    <3>9. \A i \in 1..(n + 1) : ReadBy(v, ds[i]) => \E q \in 1..Len(t) : p[q] = i
      <4> SUFFICES ASSUME NEW i \in 1..(n + 1), ReadBy(v, ds[i])
                   PROVE  \E q \in 1..Len(t) : p[q] = i
        OBVIOUS
      <4>1. CASE i = n + 1
        BY <2>5, <3>1, <3>5, <4>1
      <4>2. CASE i \in 1..n
        BY <2>4, <3>4, <3>5, <4>2
      <4> QED BY <2>0, <4>1, <4>2
    <3>10. Kept(t, n + 1, p)
      BY <3>7, <3>8, <3>9
    <3> HIDE DEF Kept
    <3>11. refs[n + 1] = t
      BY <2>1, <2>6 DEF t
    <3> QED BY <3>1, <3>6, <3>10, <3>11
  <2>7. CASE ~ReadBy(v, d)
    <3>1. refs[n + 1] = s
      BY <2>1, <2>7
    <3>2. pos \in [1..Len(s) -> 1..(n + 1)]
      BY <2>0, <2>4
    <3>3. \A i \in 1..(n + 1) : ReadBy(v, ds[i]) => i \in 1..n
      BY <2>0, <2>7 DEF d
    <3>4. Kept(s, n + 1, pos)
      BY <2>4, <3>3
    <3> QED BY <2>5, <3>1, <3>2, <3>4
  <2> QED BY <2>6, <2>7
<1>6. Good(refs[Len(ds)], Len(ds))
  <2>1. Len(ds) \in U
    <3> HIDE DEF U
    <3>1. U \subseteq Nat
      BY DEF U
    <3> QED BY <1>0, <1>4, <1>5, <3>1, SetInduction
  <2> QED BY <1>0, <2>1
<1> HIDE DEF Kept
<1>7. PICK pos \in [1..Len(refs[Len(ds)]) -> 1..Len(ds)] : Kept(refs[Len(ds)], Len(ds), pos)
  BY <1>6
<1>8. refs[Len(ds)] \in Seq(N)
  BY <1>6
<1> QED BY <1>0, <1>3, <1>7, <1>8 DEF Kept

-----------------------------------------------------------------------------
(* The invariant.                                                          *)

LEMMA InitWInv == WiringInit => WInv
<1> SUFFICES ASSUME WiringInit PROVE WInv
  OBVIOUS
<1>1. decls = <<>> /\ aliases = <<>> /\ streams = {} /\ lets = 0 /\ finished = FALSE
  BY DEF WiringInit
<1>2. decls \in Seq(DeclSet) /\ DOMAIN decls = {} /\ DOMAIN aliases = {}
  BY <1>1
<1>3. lets \in 0..MaxLets
  BY <1>1, WiringAssumption
<1> QED BY <1>1, <1>2, <1>3 DEF WInv, NamesInv, UpstreamInv, AliasInv

\* A declaration that reads what is declared already, under a new name.
LEMMA DeclareKeeps ==
  ASSUME NEW n \in Nat \cup {BASE, NoName}, NEW src \in Seq(Nat),
         WInv,
         decls' = Append(decls, Decl(n, src)),
         lets' \in 0..MaxLets, lets <= lets',
         \/ n = NoName
         \/ n = lets' /\ lets' > lets
         \/ n = BASE /\ ~finished /\ finished',
         finished => finished', finished' \in BOOLEAN,
         \A q \in DOMAIN src : \E j \in DOMAIN decls : decls[j].name = src[q]
  PROVE  /\ decls' \in Seq(DeclSet) /\ NamesInv' /\ UpstreamInv'
         /\ \A j \in DOMAIN decls : j \in DOMAIN decls' /\ decls'[j] = decls[j]
         /\ Len(decls) + 1 \in DOMAIN decls' /\ decls'[Len(decls) + 1].name = n
<1> DEFINE d == Decl(n, src)
           last == Len(decls) + 1
<1>1. d \in DeclSet /\ d.name = n /\ d.src = src
  BY DEF Decl, DeclSet
<1>2. decls \in Seq(DeclSet) /\ Len(decls) \in Nat /\ DOMAIN decls = 1..Len(decls)
  BY DEF WInv
<1> HIDE DEF d
<1>3. decls' = Append(decls, d)
  BY DEF d
<1>4. decls' \in Seq(DeclSet) /\ DOMAIN decls' = 1..last /\ decls'[last] = d
  BY <1>1, <1>2, <1>3
<1>5. \A j \in 1..Len(decls) : decls'[j] = decls[j]
  BY <1>1, <1>2, <1>3
<1>6. \A j \in 1..last : j \in 1..Len(decls) \/ j = last
  BY <1>2
<1>7. \A j \in 1..Len(decls) : j \in 1..last /\ j # last
  BY <1>2
<1>8. last \in 1..last
  BY <1>2
<1>9. \A j \in 1..Len(decls) : /\ decls[j].name \in 1..lets \cup {BASE, NoName}
                               /\ decls[j].name = BASE => finished
  BY <1>2 DEF WInv, NamesInv
<1>10. lets \in Nat /\ lets' \in Nat /\ \A x \in 1..lets : x \in 1..lets'
  BY WiringAssumption DEF WInv
<1>11. \A j \in 1..Len(decls) : decls[j].name = n => n = NoName
  <2> SUFFICES ASSUME NEW j \in 1..Len(decls), decls[j].name = n PROVE n = NoName
    OBVIOUS
  <2>1. n # BASE
    BY <1>9, <1>10, WiringAssumption
  <2>2. ~(n = lets' /\ lets' > lets)
    <3>1. n = lets' /\ lets' > lets => n \notin 1..lets
      BY <1>10
    <3>2. n = lets' => n # BASE /\ n # NoName
      BY <1>10, WiringAssumption
    <3> QED BY <1>9, <3>1, <3>2
  <2> QED BY <2>1, <2>2
<1>12. NamesInv'
  <2>1. n \in 1..lets' \cup {BASE, NoName}
    BY <1>10
  <2>2. \A i \in 1..last : decls'[i].name \in 1..lets' \cup {BASE, NoName}
    BY <1>1, <1>4, <1>5, <1>6, <1>9, <1>10, <2>1
  <2>3. \A i \in 1..last : decls'[i].name = BASE => finished'
    <3>1. n = BASE => finished'
      BY <1>10, WiringAssumption
    <3> QED BY <1>1, <1>4, <1>5, <1>6, <1>9, <3>1
  <2>4. ASSUME NEW i \in 1..last, NEW j \in 1..last, i # j, decls'[i].name = decls'[j].name
        PROVE  decls'[i].name = NoName
    <3>1. CASE i = last
      <4>1. j \in 1..Len(decls)
        BY <1>6, <2>4, <3>1
      <4> QED BY <1>1, <1>4, <1>5, <1>11, <2>4, <3>1, <4>1
    <3>2. CASE j = last
      <4>1. i \in 1..Len(decls)
        BY <1>6, <2>4, <3>2
      <4> QED BY <1>1, <1>4, <1>5, <1>11, <2>4, <3>2, <4>1
    <3>3. CASE i \in 1..Len(decls) /\ j \in 1..Len(decls)
      BY <1>2, <1>5, <2>4, <3>3 DEF WInv, NamesInv
    <3> QED BY <1>6, <3>1, <3>2, <3>3
  <2> QED BY <1>4, <2>2, <2>3, <2>4 DEF NamesInv
<1>13. UpstreamInv'
  <2>1. ASSUME NEW i \in 1..last, NEW q \in DOMAIN decls'[i].src
        PROVE  \E j \in 1..(i - 1) : decls'[j].name = decls'[i].src[q]
    <3>1. CASE i = last
      <4>1. PICK j \in DOMAIN decls : decls[j].name = src[q]
        BY <1>1, <1>4, <2>1, <3>1
      <4>2. j \in 1..(i - 1) /\ decls'[j].name = src[q]
        BY <1>2, <1>5, <3>1, <4>1
      <4> QED BY <1>1, <1>4, <3>1, <4>2
    <3>2. CASE i \in 1..Len(decls)
      <4>1. PICK j \in 1..(i - 1) : decls[j].name = decls[i].src[q]
        BY <1>2, <1>5, <2>1, <3>2 DEF WInv, UpstreamInv
      <4>2. j \in 1..Len(decls)
        BY <1>2, <3>2
      <4> QED BY <1>5, <3>2, <4>1, <4>2
    <3> QED BY <1>6, <3>1, <3>2
  <2> QED BY <1>4, <2>1 DEF UpstreamInv
<1> QED BY <1>1, <1>2, <1>4, <1>5, <1>7, <1>8, <1>12, <1>13

\* A stream stands for one that is declared.
LEMMA DealiasDeclared ==
  ASSUME WInv, NEW v \in streams
  PROVE  Dealias(v) \in Nat /\ \E j \in DOMAIN decls : decls[j].name = Dealias(v)
<1>1. Dealias(v) \in streams \ DOMAIN aliases
  BY DealiasFinds DEF WInv
<1>2. streams \subseteq Nat
  BY DEF WInv, AliasInv
<1> QED BY <1>1, <1>2 DEF WInv, AliasInv

\* A new variable that is a stream: an alias of one in scope, or declared.
LEMMA ScopeGrows ==
  ASSUME WInv, lets' = lets + 1, streams' = streams \cup {lets'},
         \A j \in DOMAIN decls : j \in DOMAIN decls' /\ decls'[j] = decls[j],
         \/ aliases' = aliases /\ \E j \in DOMAIN decls' : decls'[j].name = lets'
         \/ \E u \in streams :
              aliases' = [x \in DOMAIN aliases \cup {lets'} |->
                            IF x = lets' THEN u ELSE aliases[x]]
  PROVE  AliasInv'
<1>1. lets \in Nat /\ streams \subseteq 1..lets /\ DOMAIN aliases \subseteq streams
  BY WiringAssumption DEF WInv, AliasInv
<1>2. \A x \in streams : x \in Nat /\ x < lets' /\ x \in 1..lets'
  BY <1>1
<1>3. lets' \in 1..lets' /\ lets' \notin streams /\ lets' \notin DOMAIN aliases
  BY <1>1
<1>4. streams' \subseteq 1..lets'
  BY <1>2, <1>3
<1>5. \A x \in DOMAIN aliases : aliases[x] \in streams /\ aliases[x] < x
  BY DEF WInv, AliasInv
<1>6. \A v \in streams \ DOMAIN aliases : \E j \in DOMAIN decls' : decls'[j].name = v
  BY DEF WInv, AliasInv
<1>7. CASE aliases' = aliases /\ \E j \in DOMAIN decls' : decls'[j].name = lets'
  <2>1. \A v \in streams' \ DOMAIN aliases' : \E j \in DOMAIN decls' : decls'[j].name = v
    BY <1>6, <1>7
  <2> QED BY <1>1, <1>4, <1>5, <1>7, <2>1 DEF AliasInv
<1>8. ASSUME NEW u \in streams,
             aliases' = [x \in DOMAIN aliases \cup {lets'} |-> IF x = lets' THEN u ELSE aliases[x]]
      PROVE  AliasInv'
  <2>1. DOMAIN aliases' = DOMAIN aliases \cup {lets'} /\ aliases'[lets'] = u
    BY <1>8
  <2>2. \A x \in DOMAIN aliases : aliases'[x] = aliases[x]
    BY <1>3, <1>8
  <2>3. \A x \in DOMAIN aliases' : aliases'[x] \in streams' /\ aliases'[x] < x
    BY <1>2, <1>5, <2>1, <2>2
  <2>4. \A v \in streams' \ DOMAIN aliases' : \E j \in DOMAIN decls' : decls'[j].name = v
    BY <1>6, <2>1
  <2> QED BY <1>1, <1>4, <2>1, <2>3, <2>4 DEF AliasInv
<1> QED BY <1>7, <1>8

LEMMA SourceKeeps == WInv /\ LetSource => WInv'
<1> SUFFICES ASSUME WInv, LetSource PROVE WInv'
  OBVIOUS
<1>1. /\ lets' = lets + 1 /\ lets < MaxLets /\ ~finished /\ finished' = finished
      /\ decls' = Append(decls, Decl(lets', <<>>))
      /\ streams' = streams \cup {lets'} /\ aliases' = aliases
  BY DEF LetSource, Bind
<1>2. /\ lets \in Nat /\ lets' \in 0..MaxLets /\ lets' > lets /\ lets' \in Nat
      /\ lets <= lets' /\ finished' \in BOOLEAN
  BY <1>1, WiringAssumption DEF WInv
<1>3. <<>> \in Seq(Nat) /\ DOMAIN <<>> = {}
  OBVIOUS
<1>4. /\ decls' \in Seq(DeclSet) /\ NamesInv' /\ UpstreamInv'
      /\ \A j \in DOMAIN decls : j \in DOMAIN decls' /\ decls'[j] = decls[j]
      /\ \E j \in DOMAIN decls' : decls'[j].name = lets'
  BY <1>1, <1>2, <1>3, DeclareKeeps
<1>5. AliasInv'
  BY <1>1, <1>4, ScopeGrows
<1> QED BY <1>1, <1>2, <1>4, <1>5 DEF WInv

LEMMA OperatorKeeps == WInv /\ LetOperator => WInv'
<1> SUFFICES ASSUME WInv, LetOperator PROVE WInv'
  OBVIOUS
<1>1. PICK u \in streams, w \in streams, merge \in BOOLEAN :
        decls' = Append(decls, Decl(lets',
                   IF merge THEN <<Dealias(u), Dealias(w)>> ELSE <<Dealias(u)>>))
  BY DEF LetOperator
<1> DEFINE src == IF merge THEN <<Dealias(u), Dealias(w)>> ELSE <<Dealias(u)>>
<1>2. /\ lets' = lets + 1 /\ lets < MaxLets /\ ~finished /\ finished' = finished
      /\ streams' = streams \cup {lets'} /\ aliases' = aliases
  BY DEF LetOperator, Bind
<1>3. /\ lets \in Nat /\ lets' \in 0..MaxLets /\ lets' > lets /\ lets' \in Nat
      /\ lets <= lets' /\ finished' \in BOOLEAN
  BY <1>2, WiringAssumption DEF WInv
<1>4. /\ Dealias(u) \in Nat /\ \E j \in DOMAIN decls : decls[j].name = Dealias(u)
      /\ Dealias(w) \in Nat /\ \E j \in DOMAIN decls : decls[j].name = Dealias(w)
  BY DealiasDeclared
<1>5. /\ src \in Seq(Nat)
      /\ \A q \in DOMAIN src : src[q] = Dealias(u) \/ src[q] = Dealias(w)
  BY <1>4
<1> HIDE DEF src
<1>6. decls' = Append(decls, Decl(lets', src))
  BY <1>1 DEF src
<1>7. \A q \in DOMAIN src : \E j \in DOMAIN decls : decls[j].name = src[q]
  BY <1>4, <1>5
<1>8. /\ decls' \in Seq(DeclSet) /\ NamesInv' /\ UpstreamInv'
      /\ \A j \in DOMAIN decls : j \in DOMAIN decls' /\ decls'[j] = decls[j]
      /\ \E j \in DOMAIN decls' : decls'[j].name = lets'
  BY <1>2, <1>3, <1>5, <1>6, <1>7, DeclareKeeps
<1>9. AliasInv'
  BY <1>2, <1>8, ScopeGrows
<1> QED BY <1>2, <1>3, <1>8, <1>9 DEF WInv

LEMMA AliasKeeps == WInv /\ LetAlias => WInv'
<1> SUFFICES ASSUME WInv, LetAlias PROVE WInv'
  OBVIOUS
<1>1. /\ lets' = lets + 1 /\ lets < MaxLets /\ ~finished /\ finished' = finished
      /\ streams' = streams \cup {lets'} /\ decls' = decls
      /\ \E u \in streams :
           aliases' = [x \in DOMAIN aliases \cup {lets'} |->
                         IF x = lets' THEN u ELSE aliases[x]]
  BY DEF LetAlias, Bind
<1>2. AliasInv'
  BY <1>1, ScopeGrows
<1>3. lets \in Nat /\ lets' \in 0..MaxLets /\ \A x \in 1..lets : x \in 1..lets'
  BY <1>1, WiringAssumption DEF WInv
<1>4. NamesInv' /\ UpstreamInv'
  BY <1>1, <1>3 DEF WInv, NamesInv, UpstreamInv
<1> QED BY <1>1, <1>2, <1>3, <1>4 DEF WInv

LEMMA ConstantKeeps == WInv /\ LetConstant => WInv'
<1> SUFFICES ASSUME WInv, LetConstant PROVE WInv'
  OBVIOUS
<1>1. /\ lets' = lets + 1 /\ lets < MaxLets /\ ~finished /\ finished' = finished
      /\ decls' = Append(decls, Decl(NoName, <<>>))
      /\ streams' = streams /\ aliases' = aliases
  BY DEF LetConstant, Bind
<1>2. /\ lets \in Nat /\ lets' \in 0..MaxLets /\ lets <= lets'
      /\ finished' \in BOOLEAN /\ \A x \in 1..lets : x \in 1..lets'
  BY <1>1, WiringAssumption DEF WInv
<1>3. <<>> \in Seq(Nat) /\ DOMAIN <<>> = {}
  OBVIOUS
<1>4. /\ decls' \in Seq(DeclSet) /\ NamesInv' /\ UpstreamInv'
      /\ \A j \in DOMAIN decls : j \in DOMAIN decls' /\ decls'[j] = decls[j]
  BY <1>1, <1>2, <1>3, DeclareKeeps
<1>5. AliasInv'
  BY <1>1, <1>2, <1>4 DEF WInv, AliasInv
<1> QED BY <1>1, <1>2, <1>4, <1>5 DEF WInv

LEMMA SinkKeeps == WInv /\ Sink => WInv'
<1> SUFFICES ASSUME WInv, Sink PROVE WInv'
  OBVIOUS
<1>1. PICK v \in streams : decls' = Append(decls, Decl(BASE, <<Dealias(v)>>))
  BY DEF Sink
<1>2. ~finished /\ finished' = TRUE /\ aliases' = aliases /\ streams' = streams /\ lets' = lets
  BY DEF Sink
<1>3. lets' \in 0..MaxLets /\ lets <= lets'
  BY <1>2, WiringAssumption DEF WInv
<1>4. Dealias(v) \in Nat /\ \E j \in DOMAIN decls : decls[j].name = Dealias(v)
  BY DealiasDeclared
<1> DEFINE src == <<Dealias(v)>>
<1>5. src \in Seq(Nat) /\ \A q \in DOMAIN src : src[q] = Dealias(v)
  BY <1>4
<1> HIDE DEF src
<1>6. decls' = Append(decls, Decl(BASE, src))
  BY <1>1 DEF src
<1>7. \A q \in DOMAIN src : \E j \in DOMAIN decls : decls[j].name = src[q]
  BY <1>4, <1>5
<1>8. /\ decls' \in Seq(DeclSet) /\ NamesInv' /\ UpstreamInv'
      /\ \A j \in DOMAIN decls : j \in DOMAIN decls' /\ decls'[j] = decls[j]
  BY <1>2, <1>3, <1>5, <1>6, <1>7, DeclareKeeps
<1>9. AliasInv'
  BY <1>2, <1>8 DEF WInv, AliasInv
<1> QED BY <1>2, <1>3, <1>8, <1>9 DEF WInv

\* What the pass has collected so far is well formed, after any lets.
THEOREM WiringInvariance == WiringSpec => []WInv
<1>1. WInv /\ UNCHANGED wiringVars => WInv'
  BY DEF WInv, NamesInv, UpstreamInv, AliasInv, wiringVars
<1>2. WInv /\ [WiringNext]_wiringVars => WInv'
  BY <1>1, SourceKeeps, OperatorKeeps, AliasKeeps, ConstantKeeps, SinkKeeps DEF WiringNext
<1> QED BY <1>2, InitWInv, PTL DEF WiringSpec

\* The declarations have their types.
THEOREM WiringTypeCorrect == WiringSpec => []WiringTypeOK
<1>1. WInv => WiringTypeOK
  BY DEF WInv, WiringTypeOK, NamesInv, AliasInv
<1> QED BY <1>1, WiringInvariance, PTL

\* However aliases are chained, every operator reads declared streams, ...
THEOREM InputsDeclared == WiringSpec => []NoDanglingInput
<1>1. ASSUME WInv, NEW i \in DOMAIN decls, NEW q \in DOMAIN decls[i].src
      PROVE  decls[i].src[q] \in Declared \ {BASE}
  <2>1. PICK j \in 1..(i - 1) : decls[j].name = decls[i].src[q]
    BY <1>1 DEF WInv, UpstreamInv
  <2>2. decls[i] \in DeclSet /\ j \in DOMAIN decls
    BY <1>1 DEF WInv
  <2>3. decls[i].src[q] \in Nat
    BY <1>1, <2>2 DEF DeclSet
  <2> QED BY <2>1, <2>2, <2>3, WiringAssumption DEF Declared
<1>2. WInv => NoDanglingInput
  BY <1>1 DEF NoDanglingInput, Range
<1> QED BY <1>2, WiringInvariance, PTL

LEMMA PositionIs ==
  ASSUME WInv, NEW i \in DOMAIN decls, decls[i].name # NoName
  PROVE  Position(decls[i].name) = i
<1>1. \A j \in DOMAIN decls : decls[j].name = decls[i].name => j = i
  BY DEF WInv, NamesInv
<1> QED BY <1>1 DEF Position

LEMMA OutgoingFollows == WInv => OutgoingAscends
<1>1. ASSUME WInv, NEW u \in Declared
      PROVE  LET out == GatherRefs(u, decls) IN
             /\ \A i \in DOMAIN out : Position(u) < Position(out[i])
             /\ \A i, j \in DOMAIN out : i < j => Position(out[i]) < Position(out[j])
  <2> DEFINE out == GatherRefs(u, decls)
  <2>1. decls \in Seq(DeclSet)
    BY <1>1 DEF WInv
  <2>2. out \in Seq(Nat \cup {BASE, NoName})
    BY <2>1, GatherRefsKeeps
  <2>3. PICK pos \in [1..Len(out) -> DOMAIN decls] :
          /\ \A q \in 1..Len(out) : ReadBy(u, decls[pos[q]]) /\ out[q] = decls[pos[q]].name
          /\ \A q, m \in 1..Len(out) : q < m => pos[q] < pos[m]
    BY <2>1, GatherRefsKeeps
  <2> HIDE DEF out
  <2>4. DOMAIN out = 1..Len(out)
    BY <2>2
  <2>5. ASSUME NEW q \in DOMAIN out
        PROVE  Position(out[q]) = pos[q] /\ Position(u) < pos[q]
    <3>1. pos[q] \in DOMAIN decls /\ decls[pos[q]].name # NoName /\ u \in Range(decls[pos[q]].src)
      BY <2>3, <2>4 DEF ReadBy, Reads
    <3>2. Position(out[q]) = pos[q]
      BY <1>1, <2>3, <2>4, <3>1, PositionIs
    <3>3. PICK x \in DOMAIN decls[pos[q]].src : decls[pos[q]].src[x] = u
      BY <3>1 DEF Range
    <3>4. PICK j \in 1..(pos[q] - 1) : decls[j].name = u
      BY <1>1, <3>1, <3>3 DEF WInv, UpstreamInv
    <3>5. pos[q] \in Nat /\ j \in DOMAIN decls /\ j < pos[q]
      BY <2>1, <3>1
    <3>6. u # NoName
      BY DEF Declared
    <3>7. Position(u) = j
      BY <1>1, <3>4, <3>5, <3>6, PositionIs
    <3> QED BY <3>2, <3>5, <3>7
  <2>6. \A i, j \in DOMAIN out : i < j => pos[i] < pos[j]
    BY <2>3, <2>4
  <2>7. /\ \A i \in DOMAIN out : Position(u) < Position(out[i])
        /\ \A i, j \in DOMAIN out : i < j => Position(out[i]) < Position(out[j])
    BY <2>5, <2>6
  <2> QED BY <2>7 DEF out
<1> QED BY <1>1 DEF OutgoingAscends

\* ... and the operators it feeds come in the order of their declarations, after it:
\* the order in which generated code takes locks (GrabOrder in CoarseNet).
THEOREM EdgesAscend == WiringSpec => []OutgoingAscends
BY OutgoingFollows, WiringInvariance, PTL

-----------------------------------------------------------------------------
(* The pass computes a graph as CoarseNet assumes it.                      *)

IsGraph(ops, sources, out, rank) ==
  /\ ops \cap sources = {} /\ out \in [ops \cup sources -> Seq(ops)] /\ rank \in [ops -> Nat]
  /\ \A o \in ops : \A i \in 1..Len(out[o]) : rank[o] < rank[out[o][i]]
  /\ \A t \in ops \cup sources : \A i, j \in 1..Len(out[t]) :
       i < j => rank[out[t][i]] < rank[out[t][j]]
  /\ \A S \in SUBSET ops : S # {} => \E m \in S : \A o \in S : rank[o] <= rank[m]

\* This is all that CoarseNet assumes of its graph.
LEMMA GraphAssumed == IsGraph(Op, Source, Out, Rank)
BY NetAssumption, GrabOrder, FinitelyManyOps DEF IsGraph, Thread

\* Declarations with inputs become workers, those without become sources.
Workers == {n \in Declared : \E i \in DOMAIN decls : decls[i].name = n /\ decls[i].src # <<>>}

WiredGraph ==
  IsGraph(Workers, Declared \ Workers, [u \in Declared |-> GatherRefs(u, decls)],
          [u \in Workers |-> Position(u)])

LEMMA LeastOf ==
  ASSUME NEW T \in SUBSET Nat, T # {}
  PROVE  \E x \in T : \A y \in T : x <= y
<1> DEFINE R == {p \in Nat \X Nat : p[1] < p[2]}
<1>1. IsWellFoundedOn(R, Nat)
  BY NatLessThanWellFounded DEF OpToRel
<1>2. \A x, y \in Nat : x < y => <<x, y>> \in R
  OBVIOUS
<1> HIDE DEF R
<1>3. PICK x \in T : \A y \in T : ~ (<<y, x>> \in R)
  BY <1>1, WFMin
<1>4. \A y \in T : ~(y < x)
  BY <1>2, <1>3
<1>5. \A y \in T : x <= y
  BY <1>4
<1> QED BY <1>5

\* A declared name has a position.
LEMMA DeclaredAt ==
  ASSUME WInv, NEW u \in Declared
  PROVE  Position(u) \in 1..Len(decls) /\ decls[Position(u)].name = u
<1>1. PICK i \in DOMAIN decls : decls[i].name = u
  BY DEF Declared
<1>2. u # NoName
  BY DEF Declared
<1>3. Position(u) = i
  BY <1>1, <1>2, PositionIs
<1>4. DOMAIN decls = 1..Len(decls)
  BY DEF WInv
<1> QED BY <1>1, <1>3, <1>4

LEMMA WiredIsGraph == WInv => WiredGraph
<1> SUFFICES ASSUME WInv PROVE WiredGraph
  OBVIOUS
<1> PICK out : out = [u \in Declared |-> GatherRefs(u, decls)]
  OBVIOUS
<1> PICK rank : rank = [u \in Workers |-> Position(u)]
  OBVIOUS
<1> PICK len : len = Len(decls)
  OBVIOUS
<1>1. decls \in Seq(DeclSet) /\ len \in Nat /\ DOMAIN decls = 1..len
  BY DEF WInv
<1>2. Workers \subseteq Declared /\ Workers \cup (Declared \ Workers) = Declared
      /\ Workers \cap (Declared \ Workers) = {}
  BY DEF Workers
<1>3. \A u \in Workers : rank[u] = Position(u) /\ rank[u] \in 1..len
  BY <1>2, DeclaredAt
<1>4. rank \in [Workers -> Nat]
  <2>1. \A u \in Workers : Position(u) \in Nat
    BY <1>1, <1>3
  <2> QED BY <2>1
<1>5. ASSUME NEW u \in Declared PROVE out[u] \in Seq(Workers)
  <2> DEFINE refs == GatherRefs(u, decls)
  <2>1. refs \in Seq(Nat \cup {BASE, NoName})
    BY <1>1, GatherRefsKeeps
  <2>2. PICK pos \in [1..Len(refs) -> DOMAIN decls] :
          /\ \A q \in 1..Len(refs) : ReadBy(u, decls[pos[q]]) /\ refs[q] = decls[pos[q]].name
          /\ \A q, m \in 1..Len(refs) : q < m => pos[q] < pos[m]
    BY <1>1, GatherRefsKeeps
  <2>0. out[u] = refs
    BY <1>5
  <2> HIDE DEF refs
  <2>3. ASSUME NEW q \in 1..Len(refs) PROVE refs[q] \in Workers
    <3>1. /\ pos[q] \in DOMAIN decls /\ refs[q] = decls[pos[q]].name
          /\ decls[pos[q]].name # NoName /\ u \in Range(decls[pos[q]].src)
      BY <2>2 DEF ReadBy, Reads
    <3>2. decls[pos[q]].src # <<>>
      BY <3>1 DEF Range
    <3>3. refs[q] \in Declared
      BY <3>1 DEF Declared
    <3> QED BY <3>1, <3>2, <3>3 DEF Workers
  <2>4. refs \in Seq(Workers)
    <3>1. Len(refs) \in Nat /\ refs \in [1..Len(refs) -> Workers]
      BY <2>1, <2>3
    <3> QED BY <3>1, SeqDef
  <2> QED BY <2>0, <2>4
<1>6. \A u \in Declared :
        /\ \A i \in 1..Len(out[u]) : Position(u) < Position(out[u][i])
        /\ \A i, j \in 1..Len(out[u]) : i < j => Position(out[u][i]) < Position(out[u][j])
  <2>1. \A u \in Declared : out[u] = GatherRefs(u, decls) /\ DOMAIN out[u] = 1..Len(out[u])
    BY <1>5
  <2> QED BY <2>1, OutgoingFollows DEF OutgoingAscends
<1>7. \A u \in Declared : \A i \in 1..Len(out[u]) : out[u][i] \in Workers
  BY <1>5, ElementOfSeq
<1>8. ASSUME NEW S \in SUBSET Workers, S # {}
      PROVE  \E m \in S : \A o \in S : rank[o] <= rank[m]
  <2> PICK T : T = {len - rank[o] : o \in S}
    OBVIOUS
  <2>1. T \in SUBSET Nat /\ T # {}
    <3>1. \A o \in S : len - rank[o] \in Nat
      BY <1>1, <1>3
    <3> QED BY <1>8, <3>1
  <2>2. PICK x \in T : \A y \in T : x <= y
    BY <2>1, LeastOf
  <2>3. PICK m \in S : x = len - rank[m]
    OBVIOUS
  <2>4. ASSUME NEW o \in S PROVE rank[o] <= rank[m]
    <3>1. len - rank[m] <= len - rank[o]
      BY <2>2, <2>3
    <3> QED BY <1>1, <1>3, <3>1
  <2> QED BY <2>4
<1>9. out \in [Declared -> Seq(Workers)]
  BY <1>5
<1> QED BY <1>2, <1>3, <1>4, <1>6, <1>7, <1>8, <1>9 DEF WiredGraph, IsGraph

\* The generated program is a graph on which coarse locking cannot deadlock: the
\* operators and sources that the pass has collected, with their outgoing lists
\* and the places of their declarations, satisfy every assumption that
\* CoarseNet, and with it DeadlockFree, makes about the graph.
THEOREM WiringMeetsAssumptions == WiringSpec => []WiredGraph
BY WiredIsGraph, WiringInvariance, PTL

=============================================================================
