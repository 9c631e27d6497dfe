---------------------------- MODULE MCCoarseNet -----------------------------
(* The source feeds filter, filter feeds both branch and BASE, and branch    *)
(* feeds BASE: two ways from filter to BASE, so that workers holding their   *)
(* own queue meet at another.  The grab orders are those the wiring pass     *)
(* computes from the program's declarations.                                 *)
EXTENDS CoarseNet

CONSTANTS NoName, src, filter, branch, BASE

G == INSTANCE StreamGraph

Decls == <<G!Decl(src, <<>>), G!Decl(filter, <<src>>), G!Decl(branch, <<filter>>),
           G!Decl(BASE, <<filter, branch>>)>>

MCOp == {filter, branch, BASE}
MCOut == [t \in {src} \cup MCOp |-> G!GatherRefs(t, Decls)]

Place(ds, o) == CHOOSE i \in DOMAIN ds : ds[i].name = o
MCRank == [o \in MCOp |-> Place(Decls, o)]

MCBuilds == [twoStage : BOOLEAN, spurious : BOOLEAN]

=============================================================================
