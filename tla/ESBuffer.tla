------------------------------ MODULE ESBuffer ------------------------------
(***************************************************************************)
(* reutercode/include/ESBuffer.h: a ring of preallocated events that one   *)
(* thread fills and another empties without a lock.                        *)
(*                                                                         *)
(* _curr and _end are each written by one thread only.  increment() adds   *)
(* one and then takes the remainder, so that the other thread may see an   *)
(* index equal to buffersize in between.                                   *)
(***************************************************************************)
EXTENDS Integers

CONSTANT BufferSize

ASSUME SizeAssumption == BufferSize \in Nat \ {0}

Slot == 0..(BufferSize - 1)

NewBuffer == [curr |-> 0, end |-> 0, slot |-> [i \in Slot |-> 0]]

HasNext(b) == b.curr # b.end % BufferSize

\* Mutant: _curr is taken as it is.
Full_Unreduced(b) == (b.end + 1) % BufferSize = b.curr

Full(b) == (b.end + 1) % BufferSize = b.curr % BufferSize

\* add: the copy, and the two halves of increment(_end).
Copied(b, v) == [b EXCEPT !.slot[b.end] = v]
EndMoved(b) == [b EXCEPT !.end = @ + 1]
EndWrapped(b) == [b EXCEPT !.end = @ % BufferSize]

\* next: the two halves of increment(_curr).
CurrMoved(b) == [b EXCEPT !.curr = @ + 1]
CurrWrapped(b) == [b EXCEPT !.curr = @ % BufferSize]
=============================================================================
