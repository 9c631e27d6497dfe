---------------------------- MODULE StreamGraph -----------------------------
(***************************************************************************)
(* The declarations explicit-stream-wiring collects from the spine of a    *)
(* program, and the forward edges it derives from them.  A declaration has *)
(* a name and the list of streams it reads; constants and initialisation   *)
(* code take a place in the list but have no name.                         *)
(***************************************************************************)
EXTENDS Naturals, Sequences, Functions

CONSTANTS NoName, BASE

Decl(n, s) == [name |-> n, src |-> s]

Reads(d, v) == v \in Range(d.src)

\* d is an operator that reads v.
ReadBy(v, d) == d.name # NoName /\ Reads(d, v)

\* Mutant: the list is built by consing, last declaration first.
GatherRefs_Reversed(v, ds) ==
  LET refs[i \in 0..Len(ds)] ==
        IF i = 0 THEN <<>>
        ELSE IF ReadBy(v, ds[i]) THEN <<ds[i].name>> \o refs[i - 1] ELSE refs[i - 1]
  IN  refs[Len(ds)]

\* The operators downstream of stream v, in the order of their declarations.
GatherRefs(v, ds) ==
  LET refs[i \in 0..Len(ds)] ==
        IF i = 0 THEN <<>>
        ELSE IF ReadBy(v, ds[i]) THEN Append(refs[i - 1], ds[i].name) ELSE refs[i - 1]
  IN  refs[Len(ds)]

=============================================================================
