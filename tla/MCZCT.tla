------------------------------- MODULE MCZCT -------------------------------
EXTENDS ZCT, TLC

CONSTANTS l1, c1, c2, t1, A, B

\* A chain: the source feeds A, which feeds B.
MCDown == (A :> <<B>>) @@ (B :> <<>>)
MCEntry == <<A>>
MCHolds == (A :> Tables) @@ (B :> Conses \cup Leaves)

\* Fan-out: the source feeds A and then B.
FanDown == (A :> <<>>) @@ (B :> <<>>)
FanEntry == <<A, B>>
FanHolds == (A :> Conses) @@ (B :> Leaves)

Symmetry == Permutations({c1, c2})
=============================================================================
