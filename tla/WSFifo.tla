------------------------------- MODULE WSFifo -------------------------------
(***************************************************************************)
(* What a worker's input queue promises to the operators of a WaveScript   *)
(* program: any number of writers, one reader, and elements that reach the *)
(* reader's operator once each, in the order in which they were enqueued.  *)
(* list_fifo.c states the contract informally ("SINGLE-READER,             *)
(* MULTI-WRITER"); ListFifo is shown to implement this module.             *)
(*                                                                         *)
(* The n-th element that writer p enqueues is the pair <<p, n>>.           *)
(***************************************************************************)
EXTENDS Naturals, Sequences

CONSTANTS Producer,   \* the upstream threads that EMIT into this queue
          MaxPuts,    \* bound: how many elements each of them emits
          None        \* no element

VARIABLES nsent,      \* how many elements each producer has enqueued
          queue,      \* the elements enqueued and not yet dequeued
          current,    \* the element the reader's operator is working on
          output      \* the elements its operator has run on, in order

vars == <<nsent, queue, current, output>>

Elem == Producer \X (1..MaxPuts)

TypeOK ==
  /\ nsent \in [Producer -> 0..MaxPuts]
  /\ queue \in Seq(Elem)
  /\ current \in Elem \cup {None}
  /\ output \in Seq(Elem)

Init ==
  /\ nsent = [p \in Producer |-> 0]
  /\ queue = <<>>
  /\ current = None
  /\ output = <<>>

Put(p) ==
  /\ nsent[p] < MaxPuts
  /\ nsent' = [nsent EXCEPT ![p] = @ + 1]
  /\ queue' = Append(queue, <<p, nsent[p] + 1>>)
  /\ UNCHANGED <<current, output>>

Get ==
  /\ current = None
  /\ queue # <<>>
  /\ current' = Head(queue)
  /\ queue' = Tail(queue)
  /\ UNCHANGED <<nsent, output>>

Process ==
  /\ current # None
  /\ output' = Append(output, current)
  /\ current' = None
  /\ UNCHANGED <<nsent, queue>>

Next ==
  \/ \E p \in Producer : Put(p)
  \/ Get
  \/ Process

SafeSpec == Init /\ [][Next]_vars

\* A writer may stop at any time; the reader must not.
Spec == SafeSpec /\ WF_vars(Get) /\ WF_vars(Process)

=============================================================================
