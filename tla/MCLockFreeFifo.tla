--------------------------- MODULE MCLockFreeFifo ---------------------------
(* The producers differ in nothing but their names, and so do the cells.   *)
EXTENDS LockFreeFifo, TLC

CONSTANTS p1, p2, c1, c2, c3

Symmetry == Permutations({p1, p2}) \cup Permutations({c1, c2, c3})
=============================================================================
