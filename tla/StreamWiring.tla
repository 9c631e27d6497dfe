---------------------------- MODULE StreamWiring ----------------------------
(***************************************************************************)
(* The explicit-stream-wiring pass: it walks down the lets of a compiled   *)
(* query, remembering declarations and aliases, and ends at the variable   *)
(* that names the program's result.  Each step below is one let; the i-th  *)
(* variable bound is i, so names are unique as they are after renaming.    *)
(***************************************************************************)
EXTENDS StreamGraph

CONSTANT MaxLets  \* bound: lets in a program

ASSUME WiringAssumption ==
  MaxLets \in Nat /\ NoName \notin Nat /\ BASE \notin Nat /\ NoName # BASE

VARIABLES decls,    \* the declarations collected, in order
          aliases,  \* alias |-> the variable it stands for
          streams,  \* the stream variables in scope
          lets,     \* how many variables have been bound
          finished  \* the sink has been reached

wiringVars == <<decls, aliases, streams, lets, finished>>

\* Mutant: an alias of an alias is looked up once.
Dealias_Once(v) == IF v \in DOMAIN aliases THEN aliases[v] ELSE v

\* Follow a chain of aliases to the variable that was declared.
Dealias(v) ==
  LET real[x \in 1..MaxLets] == IF x \in DOMAIN aliases THEN real[aliases[x]] ELSE x
  IN  real[v]

WiringInit ==
  decls = <<>> /\ aliases = <<>> /\ streams = {} /\ lets = 0 /\ finished = FALSE

Bind ==
  /\ ~finished
  /\ lets < MaxLets
  /\ lets' = lets + 1
  /\ UNCHANGED finished

LetSource ==
  /\ Bind
  /\ decls' = Append(decls, Decl(lets', <<>>))
  /\ streams' = streams \cup {lets'}
  /\ UNCHANGED aliases

\* An iterate has one input stream, a merge two.
LetOperator ==
  /\ Bind
  /\ \E u \in streams, w \in streams, merge \in BOOLEAN :
       decls' = Append(decls, Decl(lets',
                  IF merge THEN <<Dealias(u), Dealias(w)>> ELSE <<Dealias(u)>>))
  /\ streams' = streams \cup {lets'}
  /\ UNCHANGED aliases

LetAlias ==
  /\ Bind
  /\ \E u \in streams :
       aliases' = [x \in DOMAIN aliases \cup {lets'} |->
                     IF x = lets' THEN u ELSE aliases[x]]
  /\ streams' = streams \cup {lets'}
  /\ UNCHANGED decls

\* A constant, or the effects of a begin.
LetConstant ==
  /\ Bind
  /\ decls' = Append(decls, Decl(NoName, <<>>))
  /\ UNCHANGED <<aliases, streams>>

Sink ==
  /\ ~finished
  /\ \E v \in streams : decls' = Append(decls, Decl(BASE, <<Dealias(v)>>))
  /\ finished' = TRUE
  /\ UNCHANGED <<aliases, streams, lets>>

WiringNext == LetSource \/ LetOperator \/ LetAlias \/ LetConstant \/ Sink

WiringSpec == WiringInit /\ [][WiringNext]_wiringVars

-----------------------------------------------------------------------------
Declared == {decls[i].name : i \in DOMAIN decls} \ {NoName}

\* Declarations are well formed.
WiringTypeOK ==
  /\ lets \in 0..MaxLets
  /\ finished \in BOOLEAN
  /\ DOMAIN aliases \subseteq streams /\ streams \subseteq 1..lets
  /\ \A i \in DOMAIN decls : decls[i].name \in 1..lets \cup {BASE, NoName}

\* Every input of every operator names a declared stream, never an alias: no
\* operator is left without the operator that feeds it.
NoDanglingInput ==
  \A i \in DOMAIN decls : Range(decls[i].src) \subseteq Declared \ {BASE}

Position(n) == CHOOSE i \in DOMAIN decls : decls[i].name = n

\* Each outgoing list follows the order of the declarations, after the stream
\* that owns it.  The generated code locks the queues in the order of this
\* list, so all threads lock them in one common order (see CoarseNet).
OutgoingAscends ==
  \A u \in Declared :
    LET out == GatherRefs(u, decls) IN
    /\ \A i \in DOMAIN out : Position(u) < Position(out[i])
    /\ \A i, j \in DOMAIN out : i < j => Position(out[i]) < Position(out[j])

=============================================================================
